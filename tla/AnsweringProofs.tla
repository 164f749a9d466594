--------------------------- MODULE AnsweringProofs ---------------------------
(* What an answer states is true of the catalogue, for every catalogue and every
   legal plan.

   The first part shows that AnswerInv is an invariant: what a stage established
   still holds at the end, because no later stage touches what it was computed
   from.  The second part compares what the stages computed with the reference,
   which is read off the plan and the catalogue alone.                         *)
EXTENDS Answering, FiniteSetTheorems, SequenceTheorems, WellFoundedInduction, TLAPS

(***************************************************************************)
(* What a stage computes from variables that stay the same stays the same. *)
(***************************************************************************)

\* What is read off the plan.
LEMMA PlanSame ==
    ASSUME UNCHANGED <<products, plan>>
    PROVE  /\ Types' = Types /\ Ranks' = Ranks /\ PerType' = PerType /\ Targeted' = Targeted
           /\ Compares' = Compares /\ Counting' = Counting /\ AggFields' = AggFields /\ AggBy' = AggBy
           /\ Filtered' = Filtered /\ Asked' = Asked /\ Prunes' = Prunes
           /\ \A t : FiltersFor(t)' = FiltersFor(t) /\ MetricsFor(t)' = MetricsFor(t)
           /\ \A t, f : Keeps(t, f)' = Keeps(t, f)
           /\ \A t : SortFor(t)' = SortFor(t) /\ SortsFor(t)' = SortsFor(t)
           /\ \A t : FieldsFor(t)' = FieldsFor(t) /\ WithCurrency(t)' = WithCurrency(t)
           /\ \A t : HasMetric(t)' = HasMetric(t) /\ ComparisonKeys(t)' = ComparisonKeys(t)
<1>1. /\ Types' = Types /\ Ranks' = Ranks /\ PerType' = PerType /\ Targeted' = Targeted
      /\ Compares' = Compares /\ Counting' = Counting /\ AggFields' = AggFields /\ AggBy' = AggBy
  BY DEF Types, Ranks, PerType, Targeted, Compares, Counting, AggFields, AggBy
<1>2. Filtered' = Filtered  BY DEF Filtered
<1>3. Asked' = Asked  BY <1>1, <1>2 DEF Asked
<1>4. Prunes' = Prunes  BY <1>1, <1>3 DEF Prunes
<1>5. \A t : FiltersFor(t)' = FiltersFor(t)  BY DEF FiltersFor
<1>6. \A t : MetricsFor(t)' = MetricsFor(t)  BY <1>1 DEF MetricsFor
<1>7. \A t, f : Keeps(t, f)' = Keeps(t, f)  BY <1>1 DEF Keeps
<1>8. \A t : SortFor(t)' = SortFor(t)  BY <1>7 DEF SortFor
<1>9. \A t : SortsFor(t)' = SortsFor(t)  BY <1>8 DEF SortsFor
<1>10. \A t : FieldsFor(t)' = FieldsFor(t)  BY <1>1, <1>5, <1>6, <1>9 DEF FieldsFor
<1>11. \A t : WithCurrency(t)' = WithCurrency(t)  BY <1>10 DEF WithCurrency
<1>12. \A t : HasMetric(t)' = HasMetric(t)  BY <1>6 DEF HasMetric
<1>13. \A t : ComparisonKeys(t)' = ComparisonKeys(t)  BY <1>1, <1>6, <1>9 DEF ComparisonKeys
<1> QED BY <1>1, <1>2, <1>3, <1>4, <1>5, <1>6, <1>7, <1>8, <1>9, <1>10, <1>11, <1>12, <1>13

\* What the resolver and the repository return.
LEMMA ReadSame ==
    ASSUME UNCHANGED <<products, plan>>
    PROVE  /\ Resolutions' = Resolutions /\ ValidPlan' = ValidPlan
           /\ UNCHANGED resolved => \A t : RowsOf(t)' = RowsOf(t)
<1>1. \A S : FirstOf(S)' = FirstOf(S)  BY DEF FirstOf
<1>2. Types' = Types /\ Asked' = Asked /\ \A t : FiltersFor(t)' = FiltersFor(t)  BY PlanSame
<1>3. \A m : Resolution(m)' = Resolution(m)  BY <1>1, <1>2 DEF Resolution
<1>4. Resolutions' = Resolutions  BY <1>3 DEF Resolutions
<1>5. ValidPlan' = ValidPlan  BY <1>2 DEF ValidPlan
<1>6. UNCHANGED resolved => \A t : IdsFor(t)' = IdsFor(t)  BY DEF IdsFor
<1>7. UNCHANGED resolved => \A t : RowsOf(t)' = RowsOf(t)  BY <1>2, <1>6 DEF RowsOf
<1> QED BY <1>4, <1>5, <1>7

\* What the policy engine makes of the rows.
LEMMA PolicySame ==
    ASSUME UNCHANGED <<products, plan, segments, raw>>
    PROVE  /\ PolicyResult' = PolicyResult /\ OneScale' = OneScale /\ OnePartition' = OnePartition
           /\ \A x : FirstDescends(x)' = FirstDescends(x)
           /\ \A I, p, q : SortsBefore(I, p, q)' = SortsBefore(I, p, q)
           /\ \A x : ComparisonValid(x)' = ComparisonValid(x)
<1>1. /\ Types' = Types /\ Ranks' = Ranks /\ PerType' = PerType /\ Prunes' = Prunes
      /\ Compares' = Compares /\ Counting' = Counting /\ AggFields' = AggFields /\ AggBy' = AggBy
      /\ \A t : FiltersFor(t)' = FiltersFor(t) /\ MetricsFor(t)' = MetricsFor(t)
      /\ \A t : SortFor(t)' = SortFor(t) /\ SortsFor(t)' = SortsFor(t)
      /\ \A t : WithCurrency(t)' = WithCurrency(t) /\ HasMetric(t)' = HasMetric(t)
      /\ \A t : ComparisonKeys(t)' = ComparisonKeys(t)
  BY PlanSame
<1>2. \A p, F : ValuesOf(p, F)' = ValuesOf(p, F)  BY <1>1 DEF ValuesOf
<1>3. \A t : MetricFields(t)' = MetricFields(t) /\ PopulationFields(t)' = PopulationFields(t)
  BY <1>1 DEF MetricFields, PopulationFields
<1>4. \A x : ComparisonValid(x)' = ComparisonValid(x)  BY <1>1 DEF ComparisonValid
<1>5. \A x : PartitionOf(x)' = PartitionOf(x)  BY <1>1 DEF PartitionOf
<1>6. \A f : FirstDescends(f)' = FirstDescends(f)  BY DEF FirstDescends
<1>7. \A x : Descends(x)' = Descends(x)  BY <1>1, <1>6 DEF Descends
<1>8. \A x, y : Above(x, y)' = Above(x, y)  BY <1>7 DEF Above
<1>9. \A x, S : Ranked(x, S)' = Ranked(x, S)  BY <1>5, <1>8 DEF Ranked
<1>10. \A I, p, q : SortsBefore(I, p, q)' = SortsBefore(I, p, q)  BY DEF SortsBefore
<1>11. \A S, I : TopRows(S, I)' = TopRows(S, I)  BY <1>10 DEF TopRows
<1>12. \A V : Aggregated(V)' = Aggregated(V)  BY DEF Aggregated
<1>13. SourceRows' = SourceRows  BY <1>1 DEF SourceRows
<1>14. IncludedRows' = IncludedRows  BY <1>13 DEF IncludedRows
<1>15. MetricValues' = MetricValues  BY <1>2, <1>3, <1>14 DEF MetricValues
<1>16. RecordedValues' = RecordedValues  BY <1>15 DEF RecordedValues
<1>17. PolicyValues' = PolicyValues  BY <1>1, <1>4, <1>16 DEF PolicyValues
<1>18. FieldRows' = FieldRows  BY <1>1, <1>14 DEF FieldRows
<1>19. RankResults' = RankResults
  <2> DEFINE peers(x)  == {y \in PolicyValues : PartitionOf(y) = PartitionOf(x)}
             ranked(x) == Ranked(x, peers(x))
  <2>1. \A x : peers(x)' = peers(x)  BY <1>5, <1>17
  <2>2. \A x : ranked(x)' = ranked(x)
    <3> HIDE DEF peers
    <3> QED BY <2>1, <1>9
  <2>3. /\ RankResults = IF ~Ranks THEN {} ELSE {ranked(x) : x \in PolicyValues}
        /\ RankResults' = (IF ~Ranks THEN {} ELSE {ranked(x) : x \in PolicyValues})'
    BY DEF RankResults
  <2> HIDE DEF ranked
  <2> QED BY <2>2, <2>3, <1>1, <1>17
<1>20. \A t : AggregateValues(t)' = AggregateValues(t)  BY <1>1, <1>17 DEF AggregateValues
<1>21. \A t : Partitions(t)' = Partitions(t)  BY <1>20 DEF Partitions
<1>22. \A t, c : PartitionRows(t, c)' = PartitionRows(t, c)  BY <1>14 DEF PartitionRows
<1>23. \A p : GroupOf(p)' = GroupOf(p)  BY <1>1 DEF GroupOf
<1>24. \A t, c : Groups(t, c)' = Groups(t, c)  BY <1>1, <1>22, <1>23 DEF Groups
<1>25. \A t, c, g : AggregateOf(t, c, g)' = AggregateOf(t, c, g)
  <2> TAKE t, c, g
  <2> DEFINE R == {p \in PartitionRows(t, c) : GroupOf(p) = g}
             V == {x \in AggregateValues(t) : x.id \in {p.id : p \in R}}
             O == {p \in SourceRows \ IncludedRows : p.t = t}
  <2>1. R' = R  BY <1>22, <1>23
  <2>2. {p.id : p \in R}' = {p.id : p \in R}
    <3> HIDE DEF R
    <3> QED BY <2>1
  <2>3. V' = V
    <3> HIDE DEF R
    <3> QED BY <2>2, <1>20
  <2>4. O' = O  BY <1>13, <1>14
  <2>5. Aggregated(V)' = Aggregated(V)
    <3> HIDE DEF R, V
    <3> QED BY <2>3, <1>12
  <2>6. AggregateOf(t, c, g) =
          [t |-> t, cur |-> c, group |-> g, incl |-> IF Counting THEN Cardinality(R) ELSE Cardinality(V),
           value |-> IF Counting THEN <<Cardinality(R)>> ELSE Aggregated(V),
           excl |-> Cardinality(R) - (IF Counting THEN Cardinality(R) ELSE Cardinality(V))
                      + (IF AggBy = {} THEN Cardinality(O) ELSE 0)]
    BY DEF AggregateOf
  <2>7. AggregateOf(t, c, g)' =
          [t |-> t, cur |-> c, group |-> g, incl |-> IF Counting THEN Cardinality(R) ELSE Cardinality(V),
           value |-> IF Counting THEN <<Cardinality(R)>> ELSE Aggregated(V),
           excl |-> Cardinality(R) - (IF Counting THEN Cardinality(R) ELSE Cardinality(V))
                      + (IF AggBy = {} THEN Cardinality(O) ELSE 0)]'
    BY DEF AggregateOf
  <2> HIDE DEF R, V, O
  <2> QED BY <2>1, <2>3, <2>4, <2>5, <2>6, <2>7, <1>1
<1>26. \A t, a, b : GroupAhead(t, a, b)' = GroupAhead(t, a, b)
  <2> TAKE t, a, b
  <2>1. Min(SortFor(t))' = Min(SortFor(t))  BY <1>1
  <2> QED BY <2>1, <1>1 DEF GroupAhead
<1>27. \A t, c : AggregatesOf(t, c)' = AggregatesOf(t, c)  BY <1>24, <1>25, <1>26 DEF AggregatesOf
<1>28. PolicyResult' = PolicyResult
  <2> DEFINE population == UNION {ValuesOf(p, PopulationFields(p.t)) : p \in {q \in raw : InState(q)}}
             ranks      == {r \in RankResults : r.rank <= plan.topk}
             rowsOf(t)  == {p \in FieldRows : p.t = t}
             selected   == IF ~PerType THEN TopRows(FieldRows, DOMAIN plan.sort)
                           ELSE UNION {TopRows(rowsOf(t), SortFor(t)) : t \in segments}
             aggs       == IF plan.agg = <<>> THEN {}
                           ELSE UNION {UNION {AggregatesOf(t, c) : c \in Partitions(t)} : t \in segments}
  <2>1. population' = population
    <3>1. \A p : ValuesOf(p, PopulationFields(p.t))' = ValuesOf(p, PopulationFields(p.t))  BY <1>2, <1>3
    <3> QED BY <3>1
  <2>2. ranks' = ranks  BY <1>19
  <2>3. selected' = selected
    <3>1. \A t : rowsOf(t)' = rowsOf(t)  BY <1>18
    <3>2. \A t : TopRows(rowsOf(t), SortFor(t))' = TopRows(rowsOf(t), SortFor(t))
      <4> HIDE DEF rowsOf
      <4> QED BY <3>1, <1>1, <1>11
    <3>3. TopRows(FieldRows, DOMAIN plan.sort)' = TopRows(FieldRows, DOMAIN plan.sort)  BY <1>11, <1>18
    <3> HIDE DEF rowsOf
    <3> QED BY <3>2, <3>3, <1>1
  <2>4. aggs' = aggs
    <3> DEFINE aggsOf(t) == UNION {AggregatesOf(t, c) : c \in Partitions(t)}
    <3>1. \A t : aggsOf(t)' = aggsOf(t)  BY <1>21, <1>27
    <3> HIDE DEF aggsOf
    <3>2. (UNION {aggsOf(t) : t \in segments})' = UNION {aggsOf(t) : t \in segments}  BY <3>1
    <3> QED BY <3>2 DEF aggsOf
  <2>5. /\ PolicyResult = [source |-> SourceRows, included |-> IncludedRows, population |-> population,
                           metric |-> MetricValues, valid |-> PolicyValues, recorded |-> RecordedValues,
                           ranks |-> ranks, selected |-> selected, aggs |-> aggs]
        /\ PolicyResult' = [source |-> SourceRows, included |-> IncludedRows, population |-> population,
                            metric |-> MetricValues, valid |-> PolicyValues, recorded |-> RecordedValues,
                            ranks |-> ranks, selected |-> selected, aggs |-> aggs]'
    BY DEF PolicyResult
  <2> HIDE DEF population, ranks, selected, aggs
  <2> QED BY <2>1, <2>2, <2>3, <2>4, <2>5, <1>13, <1>14, <1>15, <1>16, <1>17
<1>29. OneScale' = OneScale  BY <1>1, <1>5, <1>17 DEF OneScale
<1>30. OnePartition' = OnePartition  BY <1>1 DEF OnePartition
<1> QED BY <1>4, <1>6, <1>10, <1>28, <1>29, <1>30

\* What the evidence builder issues.
LEMMA EvidenceSame ==
    ASSUME UNCHANGED <<products, plan, segments, raw, policy>>
    PROVE  Bundle' = Bundle /\ Records' = Records
<1>1. /\ Types' = Types /\ Ranks' = Ranks /\ PerType' = PerType /\ Targeted' = Targeted /\ Prunes' = Prunes
      /\ Compares' = Compares /\ Counting' = Counting /\ AggFields' = AggFields /\ AggBy' = AggBy
      /\ Asked' = Asked /\ Filtered' = Filtered /\ \A t : SortFor(t)' = SortFor(t)
  BY PlanSame
<1>2. /\ \A f : FirstDescends(f)' = FirstDescends(f)
      /\ \A I, p, q : SortsBefore(I, p, q)' = SortsBefore(I, p, q)
      /\ \A x : ComparisonValid(x)' = ComparisonValid(x)
  BY PolicySame
<1>3. \A x : ProductOf(x)' = ProductOf(x)  BY DEF ProductOf
<1>4. \A t : Shown(t)' = Shown(t)  BY <1>1 DEF Shown
<1>5. \A p, q : RowAhead(p, q)' = RowAhead(p, q)  BY <1>1, <1>2 DEF RowAhead
<1>6. BoundedRows' = BoundedRows  BY <1>5 DEF BoundedRows
<1>7. BoundedRanks' = BoundedRanks  BY DEF BoundedRanks
<1>8. /\ Keyed' = Keyed /\ \A x, y : GroupsWith(x, y)' = GroupsWith(x, y)
      /\ \A x, y : ComesBefore(x, y)' = ComesBefore(x, y) /\ MetBefore(x, y)' = MetBefore(x, y)
  <2>1. Keyed' = Keyed  BY DEF Keyed, Sorts
  <2>2. \A x, y : GroupsWith(x, y)' = GroupsWith(x, y)  BY <1>1 DEF GroupsWith
  <2>3. \A x, y : ComesBefore(x, y)' = ComesBefore(x, y)  BY <1>2 DEF ComesBefore
  <2>4. \A x, y : MetBefore(x, y)' = MetBefore(x, y)  BY <1>1, <1>2, <1>3 DEF MetBefore
  <2> QED BY <2>1, <2>2, <2>3, <2>4
<1>9. RecordedZeros' = RecordedZeros
  <2> DEFINE among(x) == {y \in Keyed : GroupsWith(x, y) /\ ComesBefore(y, x)}
  <2>1. \A x : among(x)' = among(x)  BY <1>8
  <2>2. /\ RecordedZeros = IF ~Ranks THEN {}
              ELSE {x \in Keyed \ policy.valid : x.v = 0 /\ Cardinality(among(x)) < plan.topk}
        /\ RecordedZeros' = (IF ~Ranks THEN {}
              ELSE {x \in Keyed \ policy.valid : x.v = 0 /\ Cardinality(among(x)) < plan.topk})'
    BY DEF RecordedZeros
  <2> HIDE DEF among
  <2> QED BY <2>1, <2>2, <1>1, <1>8
<1>10. \A S, T : Fitting(S, T)' = Fitting(S, T)
  <2>1. \A x, y : ZeroBefore(x, y)' = ZeroBefore(x, y)  BY <1>8 DEF ZeroBefore
  <2> TAKE S, T
  <2> DEFINE new == {ProductOf(x) : x \in S} \ T
             earlier(p, q) == \E x \in S : ProductOf(x) = p /\ \A y \in S : ProductOf(y) = q => ZeroBefore(x, y)
             before(q) == {p \in new : p # q /\ earlier(p, q)}
  <2>2. new' = new  BY <1>3
  <2>3. \A p, q : earlier(p, q)' = earlier(p, q)  BY <2>1, <1>3
  <2>4. \A q : before(q)' = before(q)
    <3> HIDE DEF new, earlier
    <3> QED BY <2>2, <2>3
  <2>5. /\ Fitting(S, T) = {x \in S : \/ ProductOf(x) \in T
                                      \/ Cardinality(before(ProductOf(x))) < MaxRecords - Cardinality(T)}
        /\ Fitting(S, T)' = {x \in S : \/ ProductOf(x) \in T
                                       \/ Cardinality(before(ProductOf(x))) < MaxRecords - Cardinality(T)}'
    BY DEF Fitting
  <2> HIDE DEF before
  <2> QED BY <2>4, <2>5, <1>3
<1>11. SourceLens' = SourceLens /\ \A T : SourceOnly(T)' = SourceOnly(T)
  <2>1. SourceLens' = SourceLens  BY <1>1 DEF SourceLens
  <2> QED BY <2>1, <1>1, <1>2 DEF SourceOnly
<1>12. SourceCounts' = SourceCounts
  <2> DEFINE S(t) == {p \in policy.source : p.t = t}
             all(t) == UNION {ValuesOf(p, AggFields) : p \in S(t)}
             V(t) == {x \in all(t) : x.v # Null}
             count(t) == [t |-> t, all |-> Cardinality(S(t)), valid |-> Cardinality(S(t) \cap policy.included),
                          recorded |-> Cardinality(V(t)), value |-> Aggregated(V(t))]
  <2>1. \A t : all(t)' = all(t)
    <3>1. \A p, F : ValuesOf(p, F)' = ValuesOf(p, F)
      <4>1. \A t : WithCurrency(t)' = WithCurrency(t)  BY PlanSame
      <4> QED BY <4>1 DEF ValuesOf
    <3>2. \A p : ValuesOf(p, AggFields)' = ValuesOf(p, AggFields)  BY <1>1, <3>1
    <3> QED BY <3>2
  <2>2. \A t : V(t)' = V(t)
    <3> HIDE DEF all
    <3> QED BY <2>1
  <2>3. \A t : Aggregated(V(t))' = Aggregated(V(t))
    <3>1. \A W : Aggregated(W)' = Aggregated(W)  BY DEF Aggregated
    <3> HIDE DEF V
    <3> QED BY <2>2, <3>1
  <2>4. \A t : count(t)' = count(t)
    <3> HIDE DEF V
    <3> QED BY <2>2, <2>3
  <2>5. /\ SourceCounts = IF ~SourceLens THEN {} ELSE {count(t) : t \in {p.t : p \in policy.source}}
        /\ SourceCounts' = (IF ~SourceLens THEN {} ELSE {count(t) : t \in {p.t : p \in policy.source}})'
    BY DEF SourceCounts
  <2> HIDE DEF count
  <2> QED BY <2>4, <2>5, <1>11
<1>13. EmptyTypes' = EmptyTypes  BY <1>1 DEF EmptyTypes
<1>14. FieldRanks' = FieldRanks  BY <1>1 DEF FieldRanks
<1>15. FieldRanksCut' = FieldRanksCut  BY <1>1, <1>14 DEF FieldRanksCut
<1>16. \A S : Difference(S)' = Difference(S)  BY DEF Difference
<1>17. \A t : CoverageOf(t)' = CoverageOf(t)  BY DEF CoverageOf
<1>18. \A S : Limits(S)' = Limits(S)
  <2> TAKE S
  <2> DEFINE currencies == Cardinality({x.cur : x \in policy.valid} \ {"none"})
             zero == \E p \in S : \E f \in Shown(p.t) : f # "yield" /\ IsMetric(f) /\ p.val[f] = 0 /\ ~p.trust
             missing == (\E c \in plan.filters : c.op \in {"missing", "present"})
                          \/ (Ranks /\ \E x \in policy.population : x.v = Null)
             partial == \E a \in policy.aggs : a.excl > 0
             holdings == plan.hold # 0 /\ \E p \in S : p.cover = "partial"
             eligible == \E p \in policy.source : p.t \in {"overseas", "fund"}
             cut == BoundedRanks # policy.ranks \/ FieldRanksCut
             incomplete == plan.intent = "compare" /\ policy.source # policy.included /\ Cardinality(policy.included) < 2
             When(c, l) == IF c THEN {l} ELSE {}
             all == {"snapshot"}
                      \cup When(Compares /\ policy.valid # policy.recorded, "lens")
                      \cup When(incomplete, "incomplete") \cup When(missing, "missing")
                      \cup When(partial, "partial aggregate") \cup When(cut, "cut")
                      \cup When(currencies > 1, "currencies") \cup When(zero, "zero")
                      \cup When(Prunes, "pruned") \cup When(holdings, "partial holdings")
                      \cup When(eligible, "eligibility") \cup When(policy.valid # policy.metric, "excluded")
  <2>1. currencies' = currencies /\ partial' = partial /\ eligible' = eligible /\ holdings' = holdings
    OBVIOUS
  <2>2. zero' = zero  BY <1>4
  <2>3. missing' = missing  BY <1>1
  <2>4. incomplete' = incomplete  OBVIOUS
  <2>5. cut' = cut  BY <1>7, <1>15
  <2>6. Limits(S) = all /\ Limits(S)' = all'  BY DEF Limits
  <2> HIDE DEF currencies, zero, missing, partial, holdings, eligible, cut, incomplete
  <2>7. all' = all  BY <2>1, <2>2, <2>3, <2>4, <2>5, <1>1
  <2> HIDE DEF all
  <2> QED BY <2>6, <2>7
<1>19. FirstRecords' = FirstRecords  BY <1>3, <1>6, <1>7 DEF FirstRecords
<1>20. FittedZeros' = FittedZeros  BY <1>9, <1>10, <1>19 DEF FittedZeros
<1>21. OwnRecords' = OwnRecords  BY <1>3, <1>19, <1>20 DEF OwnRecords
<1>22. LensRecords' = LensRecords  BY <1>11, <1>21 DEF LensRecords
<1>23. Records' = Records  BY <1>21, <1>22 DEF Records
<1>24. Bare' = Bare  BY <1>1, <1>23 DEF Bare
<1> QED BY <1>7, <1>12, <1>13, <1>14, <1>16, <1>17, <1>18, <1>20, <1>22, <1>23, <1>24 DEF Bundle

\* What the renderer states.
LEMMA AnswerSame ==
    ASSUME UNCHANGED <<products, plan, segments, raw, policy, evidence>>
    PROVE  Answer' = Answer
<1>1. \A t : Shown(t)' = Shown(t)
  <2>1. Asked' = Asked /\ Targeted' = Targeted  BY PlanSame
  <2> QED BY <2>1 DEF Shown
<1>2. \A p, f : Stated(p, f)' = Stated(p, f)  BY DEF Stated
<1>3. \A x : ProductOf(x)' = ProductOf(x)  BY DEF ProductOf
<1>4. \A t : SourceFields(t)' = SourceFields(t)
  <2>1. \A t : FieldsFor(t)' = FieldsFor(t)  BY PlanSame
  <2> QED BY <2>1 DEF SourceFields
<1>5. SourceStated' = SourceStated  BY <1>4 DEF SourceStated
<1>6. ValueClaims' = ValueClaims
  <2> DEFINE stated(p) == {Stated(p, f) : f \in Shown(p.t)}
             all == UNION {stated(p) : p \in evidence.records \ SourceStated}
  <2>1. \A p : stated(p)' = stated(p)  BY <1>1, <1>2
  <2>2. all' = all
    <3> HIDE DEF stated
    <3> QED BY <2>1, <1>5
  <2> QED BY <2>2 DEF ValueClaims
<1>7. SourceClaims' = SourceClaims
  <2> DEFINE stated(p) == {Stated(p, f) : f \in SourceFields(p.t)}
  <2>1. \A p : stated(p)' = stated(p)  BY <1>2, <1>4
  <2>2. (UNION {stated(p) : p \in SourceStated})' = UNION {stated(p) : p \in SourceStated}
    <3> HIDE DEF stated
    <3> QED BY <2>1, <1>5
  <2> QED BY <2>2 DEF SourceClaims
<1>8. ZeroClaims' = ZeroClaims  BY <1>2, <1>3 DEF ZeroClaims
<1>9. AggregateClaims' = AggregateClaims  BY DEF AggregateClaims
<1>10. EmptyPopulation' = EmptyPopulation
  <2>1. Types' = Types /\ Filtered' = Filtered /\ Compares' = Compares  BY PlanSame
  <2>2. \A x : ComparisonValid(x)' = ComparisonValid(x)  BY PolicySame
  <2>3. \A t, f : PopulationOf(t, f)' = PopulationOf(t, f)  BY DEF PopulationOf
  <2>4. Populations' = Populations  BY <2>1, <2>3 DEF Populations
  <2> QED BY <2>1, <2>2, <2>3, <2>4 DEF EmptyPopulation
<1>11. NoResult' = NoResult  BY <1>10 DEF NoResult
<1> QED BY <1>6, <1>7, <1>8, <1>9, <1>11 DEF Answer

(***************************************************************************)
(* AnswerInv is an invariant.                                              *)
(***************************************************************************)

\* A request that is refused or late keeps nothing but its plan.
LEMMA Stopped ==
    ASSUME AnswerInv, UNCHANGED <<products, plan>>, step' = "end", reply' \in {"refused", "timeout"}
    PROVE  AnswerInv'
BY DEF AnswerInv, Alive

\* A stage that goes on hands over what the stages before it established.
LEMMA ResolveKeeps == ASSUME AnswerInv, Resolve PROVE AnswerInv'
<1>1. step = "resolve" /\ reply = "none" /\ UNCHANGED <<products, plan>>  BY DEF AnswerInv, Resolve
<1>2. CASE plan.intent = "clarify"  BY <1>1, <1>2 DEF AnswerInv, Resolve, Going, Alive
<1>3. CASE plan.intent # "clarify" /\ plan.ents # <<>> /\ ~Indexable
  BY <1>1, <1>3, Stopped DEF Resolve, Refusing
<1>4. CASE plan.intent # "clarify" /\ ~(plan.ents # <<>> /\ ~Indexable)
  <2>1. resolved' = Resolutions /\ step' = "validate" /\ reply' = "none"
    BY <1>1, <1>4 DEF Resolve, Going, Resolutions
  <2>2. Resolutions' = Resolutions  BY <1>1, ReadSame
  <2> QED BY <1>1, <2>1, <2>2 DEF AnswerInv, Alive
<1> QED BY <1>2, <1>3, <1>4

LEMMA ValidateKeeps == ASSUME AnswerInv, Validate PROVE AnswerInv'
<1>1. step = "validate" /\ reply = "none" /\ UNCHANGED <<products, plan>>  BY DEF AnswerInv, Validate
<1>2. CASE step' = "end"  BY <1>1, <1>2, Stopped DEF Validate, Refusing, Going
<1>3. CASE step' # "end"
  <2>1. step' = "segment" /\ reply' = "none" /\ UNCHANGED resolved /\ ValidPlan
    BY <1>1, <1>3 DEF Validate, Refusing, Going, ValidPlan
  <2>2. Resolutions' = Resolutions /\ ValidPlan' = ValidPlan  BY <1>1, ReadSame
  <2> QED BY <1>1, <2>1, <2>2 DEF AnswerInv, Alive
<1> QED BY <1>2, <1>3

LEMMA SegmentKeeps == ASSUME AnswerInv, Segment PROVE AnswerInv'
<1>1. step = "segment" /\ reply = "none" /\ UNCHANGED <<products, plan>>  BY DEF AnswerInv, Segment
<1>2. CASE step' = "end"  BY <1>1, <1>2, Stopped DEF Segment, Refusing, Going
<1>3. CASE step' # "end"
  <2> DEFINE ts == {t \in Types : ~(Prunes /\ t = "overseas")}
  <2>1. /\ step' = "execute" /\ reply' = "none" /\ UNCHANGED resolved /\ segments' = ts
        /\ \A t \in ts : \A f \in AggFields : t \in Registered[f]
        /\ ~PerType /\ (plan.sort # <<>> \/ plan.intent = "aggregate") =>
              Cardinality(UNION {ComparisonKeys(t) : t \in ts}) = 1
    BY <1>1, <1>3 DEF Segment, Refusing, Going
  <2>2. Resolutions' = Resolutions /\ ValidPlan' = ValidPlan  BY <1>1, ReadSame
  <2>3. /\ Types' = Types /\ Prunes' = Prunes /\ PerType' = PerType /\ AggFields' = AggFields
        /\ \A t : ComparisonKeys(t)' = ComparisonKeys(t)
    BY <1>1, PlanSame
  <2>4. OnePartition'  BY <1>1, <2>1, <2>3 DEF OnePartition
  <2> QED BY <1>1, <2>1, <2>2, <2>4 DEF AnswerInv, Alive
<1> QED BY <1>2, <1>3

LEMMA ExecuteKeeps == ASSUME AnswerInv, Execute PROVE AnswerInv'
<1>1. step = "execute" /\ reply = "none" /\ UNCHANGED <<products, plan>>  BY DEF AnswerInv, Execute
<1>2. CASE step' = "end"  BY <1>1, <1>2, Stopped DEF Execute, Refusing, Going
<1>3. CASE step' # "end"
  <2>1. /\ step' = "policy" /\ reply' = "none" /\ UNCHANGED <<resolved, segments>>
        /\ raw' = UNION {RowsOf(t) : t \in segments}
    BY <1>1, <1>3 DEF Execute, Refusing, Going
  <2>2. Resolutions' = Resolutions /\ ValidPlan' = ValidPlan /\ \A t : RowsOf(t)' = RowsOf(t)
    BY <1>1, <2>1, ReadSame
  <2>3. /\ Types' = Types /\ Prunes' = Prunes /\ PerType' = PerType /\ AggFields' = AggFields
        /\ \A t : ComparisonKeys(t)' = ComparisonKeys(t)
    BY <1>1, PlanSame
  <2>4. OnePartition' = OnePartition  BY <1>1, <2>1, <2>3 DEF OnePartition
  <2> QED BY <1>1, <2>1, <2>2, <2>4 DEF AnswerInv, Alive
<1> QED BY <1>2, <1>3

\* What the stages before the policy engine established, kept by those after.
LEMMA ReadKept ==
    ASSUME UNCHANGED <<products, plan, resolved, segments, raw>>
    PROVE  /\ Resolutions' = Resolutions /\ ValidPlan' = ValidPlan /\ OnePartition' = OnePartition
           /\ (raw = UNION {RowsOf(t) : t \in segments})' = (raw = UNION {RowsOf(t) : t \in segments})
           /\ PolicyResult' = PolicyResult /\ OneScale' = OneScale
<1>1. Resolutions' = Resolutions /\ ValidPlan' = ValidPlan /\ \A t : RowsOf(t)' = RowsOf(t)  BY ReadSame
<1>2. PolicyResult' = PolicyResult /\ OneScale' = OneScale /\ OnePartition' = OnePartition  BY PolicySame
<1>3. (UNION {RowsOf(t) : t \in segments})' = UNION {RowsOf(t) : t \in segments}  BY <1>1
<1> QED BY <1>1, <1>2, <1>3

LEMMA ApplyPolicyKeeps == ASSUME AnswerInv, ApplyPolicy PROVE AnswerInv'
<1>1. step = "policy" /\ reply = "none" /\ UNCHANGED <<products, plan>>  BY DEF AnswerInv, ApplyPolicy
<1>2. CASE step' = "end"  BY <1>1, <1>2, Stopped DEF ApplyPolicy, Refusing, Going
<1>3. CASE step' # "end"
  <2>1. /\ step' = "evidence" /\ reply' = "none" /\ UNCHANGED <<resolved, segments, raw>>
        /\ policy' = PolicyResult /\ OneScale
    BY <1>1, <1>3 DEF ApplyPolicy, Refusing, Going, OneScale
  <2> QED BY <1>1, <2>1, ReadKept DEF AnswerInv, Alive
<1> QED BY <1>2, <1>3

LEMMA BuildEvidenceKeeps == ASSUME AnswerInv, BuildEvidence PROVE AnswerInv'
<1>1. step = "evidence" /\ reply = "none" /\ UNCHANGED <<products, plan>>  BY DEF AnswerInv, BuildEvidence
<1>2. CASE step' = "end"  BY <1>1, <1>2, Stopped DEF BuildEvidence, Refusing, Going
<1>3. CASE step' # "end"
  <2>1. /\ step' = "render" /\ reply' = "none" /\ UNCHANGED <<resolved, segments, raw, policy>>
        /\ evidence' = Bundle /\ ~(Cardinality(Records) > MaxRecords)
    BY <1>1, <1>3 DEF BuildEvidence, Refusing, Going
  <2>2. Bundle' = Bundle /\ Records' = Records  BY <1>1, <2>1, EvidenceSame
  <2> QED BY <1>1, <2>1, <2>2, ReadKept DEF AnswerInv, Alive
<1> QED BY <1>2, <1>3

\* The stages past the evidence builder.
LEMMA AnswerKept ==
    ASSUME AnswerInv, UNCHANGED <<products, plan, resolved, segments, raw, policy, evidence>>,
           Alive({"render", "verify", "pack"}),
           (step' \in {"verify", "pack"} /\ reply' = "none") \/ (step' = "end" /\ reply' = "answered"),
           plan.intent # "clarify" => claims' = Answer
    PROVE  AnswerInv'
<1>1. Bundle' = Bundle /\ Records' = Records /\ Answer' = Answer  BY EvidenceSame, AnswerSame
<1>2. plan.intent # "clarify" =>
        /\ resolved = Resolutions /\ ValidPlan /\ OnePartition /\ raw = UNION {RowsOf(t) : t \in segments}
        /\ policy = PolicyResult /\ OneScale /\ evidence = Bundle /\ ~(Cardinality(Records) > MaxRecords)
  BY DEF AnswerInv, Alive
<1>3. (plan.intent # "clarify" =>
        /\ resolved = Resolutions /\ ValidPlan /\ OnePartition /\ raw = UNION {RowsOf(t) : t \in segments}
        /\ policy = PolicyResult /\ OneScale /\ evidence = Bundle /\ ~(Cardinality(Records) > MaxRecords)
        /\ claims = Answer)'
  BY <1>1, <1>2, ReadKept
<1>4. (products \in Catalogs /\ plan \in Plans)' /\ (step = "end" <=> reply # "none")'  BY DEF AnswerInv
<1> QED BY <1>3, <1>4 DEF AnswerInv

LEMMA RenderKeeps == ASSUME AnswerInv, Render PROVE AnswerInv'
<1>1. /\ step = "render" /\ step' = "verify" /\ reply = "none" /\ reply' = "none"
      /\ UNCHANGED <<products, plan, resolved, segments, raw, policy, evidence>>
      /\ plan.intent # "clarify" => claims' = Answer
  BY DEF AnswerInv, Render, Going
<1> QED BY <1>1, AnswerKept DEF Alive

LEMMA VerifyKeeps == ASSUME AnswerInv, Verify PROVE AnswerInv'
<1>1. step = "verify" /\ reply = "none" /\ UNCHANGED <<products, plan>>  BY DEF AnswerInv, Verify
<1>2. CASE step' = "end"  BY <1>1, <1>2, Stopped DEF Verify, Refusing, Going
<1>3. CASE step' # "end"
  <2>1. /\ step' = "pack" /\ reply' = "none"
        /\ UNCHANGED <<products, plan, resolved, segments, raw, policy, evidence, claims>>
    BY <1>1, <1>3 DEF Verify, Refusing, Going
  <2>2. Alive({"render", "verify", "pack"}) /\ (plan.intent # "clarify" => claims = Answer)
    BY <1>1 DEF Alive, AnswerInv
  <2> QED BY <2>1, <2>2, AnswerKept
<1> QED BY <1>2, <1>3

LEMMA PackKeeps == ASSUME AnswerInv, Pack PROVE AnswerInv'
<1>1. step = "pack" /\ reply = "none" /\ UNCHANGED <<products, plan>>  BY DEF AnswerInv, Pack
<1>2. CASE reply' = "refused"  BY <1>1, <1>2, Stopped DEF Pack, Refusing
<1>3. CASE reply' # "refused"
  <2>1. /\ step' = "end" /\ reply' = "answered"
        /\ UNCHANGED <<products, plan, resolved, segments, raw, policy, evidence, claims>>
    BY <1>1, <1>3 DEF Pack, Refusing
  <2>2. Alive({"render", "verify", "pack"}) /\ (plan.intent # "clarify" => claims = Answer)
    BY <1>1 DEF Alive, AnswerInv
  <2> QED BY <2>1, <2>2, AnswerKept
<1> QED BY <1>2, <1>3

\* No stage changes what an earlier one decided (_answer_plan).
THEOREM AnswerKeeps == QSpec => []AnswerInv
<1>1. QInit => AnswerInv  BY DEF QInit, AnswerInv, Alive
<1>2. AnswerInv /\ [QNext]_qvars => AnswerInv'
  <2> SUFFICES ASSUME AnswerInv, [QNext]_qvars PROVE AnswerInv'
    OBVIOUS
  <2>1. CASE Resolve  BY <2>1, ResolveKeeps
  <2>2. CASE Validate  BY <2>2, ValidateKeeps
  <2>3. CASE Segment  BY <2>3, SegmentKeeps
  <2>4. CASE Execute  BY <2>4, ExecuteKeeps
  <2>5. CASE ApplyPolicy  BY <2>5, ApplyPolicyKeeps
  <2>6. CASE BuildEvidence  BY <2>6, BuildEvidenceKeeps
  <2>7. CASE Render  BY <2>7, RenderKeeps
  <2>8. CASE Verify  BY <2>8, VerifyKeeps
  <2>9. CASE Pack  BY <2>9, PackKeeps
  <2>10. CASE Expire  BY <2>10, Stopped DEF Expire
  <2>11. CASE UNCHANGED qvars
    <3>1. UNCHANGED <<products, plan, step, resolved, segments, raw, policy, evidence, claims, reply>>
      BY <2>11 DEF qvars
    <3>2. Bundle' = Bundle /\ Records' = Records /\ Answer' = Answer  BY <3>1, EvidenceSame, AnswerSame
    <3> QED BY <3>1, <3>2, ReadKept DEF AnswerInv, Alive
  <2> QED BY <2>1, <2>2, <2>3, <2>4, <2>5, <2>6, <2>7, <2>8, <2>9, <2>10, <2>11 DEF QNext
<1> QED BY <1>1, <1>2, PTL DEF QSpec

(***************************************************************************)
(* The catalogue and the plan.                                             *)
(***************************************************************************)

\* What the stages established, at the end of a request that was answered.
Settled ==
    /\ Catalogue(products) /\ Legal(plan) /\ plan.intent # "clarify"
    /\ resolved = Resolutions /\ ValidPlan /\ OnePartition /\ raw = UNION {RowsOf(t) : t \in segments}
    /\ policy = PolicyResult /\ OneScale /\ evidence = Bundle /\ ~(Cardinality(Records) > MaxRecords)
    /\ claims = Answer

LEMMA IsSettled ==
    ASSUME AnswerInv, reply = "answered", plan.intent # "clarify"
    PROVE  Settled
BY AnsweringAssumption DEF AnswerInv, Alive, Settled

TypeSet  == {"bond", "etf", "overseas", "fund"}
FieldSet == {"yield", "ret", "aum", "region", "name", "sale"}

LEMMA Kinds ==
    /\ ToSet(TypeOrder) = TypeSet /\ DOMAIN Registered = FieldSet
    /\ Registered["yield"] = {"bond"} /\ Registered["ret"] = {"etf", "fund"}
    /\ Registered["aum"] = {"etf", "overseas", "fund"} /\ Registered["region"] = {"etf", "overseas", "fund"}
    /\ Registered["name"] = TypeSet /\ Registered["sale"] = {"etf", "overseas", "fund"}
    /\ \A t \in TypeSet : TypeAt(t) \in 1..4
<1>1. ToSet(TypeOrder) = TypeSet /\ DOMAIN TypeOrder = 1..4  BY DEF ToSet, TypeOrder, TypeSet
<1>2. DOMAIN Registered = FieldSet  BY DEF Registered, FieldSet
<1>3. \A t \in TypeSet : \E i \in DOMAIN TypeOrder : TypeOrder[i] = t  BY DEF TypeOrder, TypeSet
<1>4. \A t \in TypeSet : TypeAt(t) \in 1..4  BY <1>1, <1>3 DEF TypeAt
<1> QED BY <1>1, <1>2, <1>4 DEF Registered

\* A product of the catalogue, and the product a value or a rank is about.
LEMMA ProductFacts ==
    ASSUME Catalogue(products), NEW p \in products
    PROVE  /\ p.t \in TypeSet /\ p.id \in Nat /\ p.val \in [FieldSet -> Int] /\ p.cur \in {"KRW", "USD"}
           /\ p.trust \in BOOLEAN /\ p.ok \in BOOLEAN
           /\ \A x : x.t = p.t /\ x.id = p.id => ProductOf(x) = p
           /\ \A q \in products : q.t = p.t /\ q.id = p.id => q = p
<1>1. p \in Shape  BY DEF Catalogue
<1>2. /\ p.t \in TypeSet /\ p.id \in Nat /\ p.val \in [FieldSet -> Int] /\ p.cur \in {"KRW", "USD"}
      /\ p.trust \in BOOLEAN /\ p.ok \in BOOLEAN
  BY <1>1, Kinds DEF Shape
<1>3. \A q \in products : q.t = p.t /\ q.id = p.id => q = p  BY DEF Catalogue
<1>4. \A x : x.t = p.t /\ x.id = p.id => ProductOf(x) = p  BY <1>3 DEF ProductOf
<1> QED BY <1>2, <1>3, <1>4

\* What a legal plan says.
LEMMA PlanFacts ==
    ASSUME Legal(plan)
    PROVE  /\ Types \subseteq TypeSet /\ IsFiniteSet(Types)
           /\ \A c \in plan.filters : c.f \in FieldSet
           /\ ToSet(plan.metrics) \subseteq FieldSet
           /\ \A i \in DOMAIN plan.sort : i \in Nat /\ 1 <= i /\ plan.sort[i].f \in FieldSet /\ plan.sort[i].desc \in BOOLEAN
           /\ plan.sort # <<>> => 1 \in DOMAIN plan.sort
           /\ plan.sort = <<>> => DOMAIN plan.sort = {}
           /\ Sorts(plan.sort) \subseteq FieldSet
           /\ Targeted => Ranks /\ PerType /\ DOMAIN plan.targets = Types
                          /\ \A t \in Types : ToSet(plan.targets[t]) \subseteq FieldSet
           /\ plan.intent = "aggregate" <=> plan.agg # <<>>
           /\ plan.topk \in Nat /\ plan.topk > 0
<1>1. /\ plan.types \in Seq(TypeSet) /\ plan.metrics \in Seq(FieldSet)
      /\ plan.sort \in Seq([f : FieldSet, desc : BOOLEAN])
      /\ plan.filters \subseteq [f : FieldSet, op : {"missing", "present", "gte", "eq"}, v : Int]
      /\ plan.topk \in Nat \ {0}
  BY Kinds DEF Legal
<1>2. Types \subseteq TypeSet  BY <1>1 DEF Types, ToSet
<1>3. IsFiniteSet(TypeSet)
  <2>1. TypeSet = (({"bond"} \cup {"etf"}) \cup {"overseas"}) \cup {"fund"}  BY DEF TypeSet
  <2>2. IsFiniteSet({"bond"})  BY FS_Singleton
  <2> QED BY <2>1, <2>2, FS_AddElement
<1>4. IsFiniteSet(Types)  BY <1>2, <1>3, FS_Subset
<1>5. ToSet(plan.metrics) \subseteq FieldSet  BY <1>1 DEF ToSet
<1>6. \A i \in DOMAIN plan.sort : i \in Nat /\ 1 <= i /\ plan.sort[i] \in [f : FieldSet, desc : BOOLEAN]
  <2> DEFINE K == [f : FieldSet, desc : BOOLEAN]
  <2>1. plan.sort \in Seq(K)  BY <1>1
  <2> HIDE DEF K
  <2>2. Len(plan.sort) \in Nat /\ DOMAIN plan.sort = 1..Len(plan.sort)  BY <2>1, LenProperties
  <2>3. \A i \in DOMAIN plan.sort : plan.sort[i] \in K  BY <2>1, <2>2, ElementOfSeq
  <2> QED BY <2>2, <2>3 DEF K
<1>7. \A i \in DOMAIN plan.sort : plan.sort[i].f \in FieldSet /\ plan.sort[i].desc \in BOOLEAN  BY <1>6
<1>8. plan.sort # <<>> => 1 \in DOMAIN plan.sort
  <2>1. plan.sort # <<>> => Len(plan.sort) # 0 /\ Len(plan.sort) \in Nat  BY <1>1
  <2> QED BY <1>1, <2>1
<1>9. Sorts(plan.sort) \subseteq FieldSet  BY <1>7 DEF Sorts
<1>10. plan.sort = <<>> => DOMAIN plan.sort = {}  OBVIOUS
<1>11. Targeted => Ranks /\ PerType /\ DOMAIN plan.targets = Types
                          /\ \A t \in Types : ToSet(plan.targets[t]) \subseteq FieldSet
  <2> SUFFICES ASSUME Targeted
               PROVE  Ranks /\ PerType /\ DOMAIN plan.targets = Types
                      /\ \A t \in Types : ToSet(plan.targets[t]) \subseteq FieldSet
    OBVIOUS
  <2>1. plan.targets # <<>>  BY DEF Targeted
  <2>2. plan.intent = "screen_rank" /\ plan.scope = "each" /\ plan.targets \in [ToSet(plan.types) -> Seq(FieldSet)]
    BY <2>1, Kinds DEF Legal
  <2>3. \A t \in Types : plan.targets[t] \in Seq(FieldSet)  BY <2>2 DEF Types
  <2> QED BY <2>2, <2>3 DEF Ranks, PerType, Types, ToSet
<1>12. plan.intent = "aggregate" <=> plan.agg # <<>>
  <2>1. CASE plan.intent = "aggregate"
    <3>1. \E a : plan.agg = <<a>>  BY <2>1 DEF Legal
    <3>2. \A a : <<a>> # <<>>  OBVIOUS
    <3> QED BY <2>1, <3>1, <3>2
  <2>2. CASE plan.intent # "aggregate"  BY <2>2 DEF Legal
  <2> QED BY <2>1, <2>2
<1> QED BY <1>1, <1>2, <1>4, <1>5, <1>6, <1>7, <1>8, <1>9, <1>10, <1>11, <1>12

\* An aggregate counts products if it has no field, else it applies its function.
LEMMA AggregateFacts ==
    ASSUME Legal(plan), plan.agg # <<>>
    PROVE  /\ plan.agg[1].fn \in {"count", "min", "max", "sum", "avg"}
           /\ plan.agg[1].fn = "count" <=> plan.agg[1].f = "count"
<1> DEFINE K == [fn : {"count", "min", "max", "sum", "avg"}, f : FieldSet \cup {"count"}, by : Seq(FieldSet)]
<1>1. plan.agg \in Seq(K)  BY Kinds DEF Legal
<1> HIDE DEF K
<1>2. 1 \in DOMAIN plan.agg
  <2>1. Len(plan.agg) # 0 /\ Len(plan.agg) \in Nat  BY <1>1
  <2> QED BY <1>1, <2>1
<1>3. plan.agg[1] \in K  BY <1>1, <1>2, ElementOfSeq, LenProperties
<1>4. plan.agg[1].fn = "count" <=> plan.agg[1].f = "count"  BY <1>2 DEF Legal
<1> QED BY <1>3, <1>4 DEF K

\* A set of numbers has a least one.
LEMMA LeastNumber ==
    ASSUME NEW T \in SUBSET Nat, T # {} PROVE \E m \in T : \A k \in T : m <= k
<1>1. PICK x \in T : \A y \in T : ~ (<<y, x>> \in OpToRel(<, Nat))
  BY WFMin, NatLessThanWellFounded
<1>2. \A y \in T : ~(y < x)  BY <1>1 DEF OpToRel
<1> QED BY <1>2

\* The resolver selects products of the catalogue.
LEMMA FirstIsOne ==
    ASSUME Settled, NEW S \in SUBSET {p \in products : p.t \in Types}, S # {}
    PROVE  FirstOf(S) \in S
<1> DEFINE at(x) == CHOOSE i \in DOMAIN plan.types : plan.types[i] = x.t
           places == {at(x) : x \in S}
<1>1. Catalogue(products) /\ plan.types \in Seq(TypeSet)  BY Kinds DEF Settled, Legal
<1>2. \A x \in S : at(x) \in DOMAIN plan.types  BY DEF Types, ToSet
<1>3. \A x \in S : at(x) \in Nat
  <2>1. DOMAIN plan.types = 1..Len(plan.types) /\ Len(plan.types) \in Nat  BY <1>1, LenProperties
  <2> HIDE DEF at
  <2> QED BY <1>2, <2>1
<1> HIDE DEF at
<1>4. PICK m \in places : \A k \in places : m <= k
  <2>1. places \in SUBSET Nat /\ places # {}  BY <1>3
  <2> HIDE DEF places
  <2> QED BY <2>1, LeastNumber
<1> DEFINE ids == {x.id : x \in {y \in S : at(y) = m}}
<1>5. \A x \in S : x.id \in Nat  BY <1>1, ProductFacts
<1>6. PICK n \in ids : \A k \in ids : n <= k
  <2>1. ids \subseteq Nat /\ ids # {}  BY <1>4, <1>5
  <2> HIDE DEF ids
  <2> QED BY <2>1, LeastNumber
<1>7. PICK p \in S : at(p) = m /\ p.id = n  BY <1>6
<1>8. \A q \in S : at(p) < at(q) \/ (at(p) = at(q) /\ p.id <= q.id)
  <2> TAKE q \in S
  <2>1. m <= at(q) /\ (at(q) = m => n <= q.id)  BY <1>4, <1>6
  <2> QED BY <2>1, <1>3, <1>7
<1>9. FirstOf(S) = CHOOSE x \in S : \A q \in S : at(x) < at(q) \/ (at(x) = at(q) /\ x.id <= q.id)
  BY DEF FirstOf, at
<1> QED BY <1>7, <1>8, <1>9

LEMMA ResolvedAreProducts ==
    ASSUME Settled, NEW m, NEW p \in Resolution(m)
    PROVE  p \in products
<1> DEFINE pool  == {q \in products : q.t \in Types}
           byId  == {q \in pool : m.kind \in {"any", "id"} /\ q.id = m.text}
           byAlt == {q \in pool : m.kind \in {"any", "alt"} /\ q.alt = m.text}
           names == {q \in pool : m.kind \in {"any", "name"} /\ q.val["name"] = m.text}
<1>1. /\ byId # {} => FirstOf(byId) \in byId
      /\ byAlt # {} => FirstOf(byAlt) \in byAlt
  BY FirstIsOne
<1>2. Resolution(m) = IF byId # {} THEN {FirstOf(byId)}
                      ELSE IF byAlt # {} THEN {FirstOf(byAlt)}
                      ELSE IF Cardinality(names) = 1 THEN names ELSE {}
  BY DEF Resolution
<1>3. byId \subseteq products /\ byAlt \subseteq products /\ names \subseteq products  OBVIOUS
<1> HIDE DEF byId, byAlt, names
<1> QED BY <1>1, <1>2, <1>3

(***************************************************************************)
(* The rows that count are the products that match.                        *)
(***************************************************************************)
LEMMA RowsAreMatches ==
    ASSUME Settled
    PROVE  /\ SourceRows = {p \in products : Matches(p)}
           /\ IncludedRows = {p \in products : Qualifies(p)}
           /\ \A p \in products : Matches(p) => p.t \in segments
           /\ \A p \in products : Qualifies(p) <=> Matches(p) /\ InState(p)
           /\ IsFiniteSet(products) /\ IsFiniteSet(SourceRows) /\ IsFiniteSet(IncludedRows)
<1>1. /\ Catalogue(products) /\ Legal(plan) /\ resolved = Resolutions
      /\ segments = {t \in Types : ~(Prunes /\ t = "overseas")} /\ raw = UNION {RowsOf(t) : t \in segments}
  BY DEF Settled, OnePartition
<1>2. \A p \in products : Matches(p) => p.t \in segments  BY <1>1 DEF Matches, Prunes
<1> DEFINE all      == UNION {Resolution(plan.ents[i]) : i \in DOMAIN plan.ents}
           named(t) == {m \in all : m.t = t}
<1>3. all \subseteq products  BY ResolvedAreProducts
<1>4. all = UNION {resolved[i] : i \in DOMAIN resolved}  BY <1>1 DEF Resolutions
<1>5. \A t : IdsFor(t) = {m.id : m \in named(t)}  BY <1>4 DEF IdsFor
<1>6. \A p \in products : (IdsFor(p.t) # {} => p.id \in IdsFor(p.t)) <=> (named(p.t) = {} \/ p \in named(p.t))
  <2> TAKE p \in products
  <2>1. \A m \in named(p.t) : m.id = p.id => m = p
    <3> TAKE m \in named(p.t)
    <3>1. m \in products /\ m.t = p.t  BY <1>3
    <3> QED BY <3>1, <1>1 DEF Catalogue
  <2>2. p \in named(p.t) => p.id \in IdsFor(p.t)  BY <1>5
  <2>3. p.id \in IdsFor(p.t) => p \in named(p.t)  BY <1>5, <2>1
  <2>4. IdsFor(p.t) = {} <=> named(p.t) = {}  BY <1>5
  <2> HIDE DEF named
  <2> QED BY <2>2, <2>3, <2>4
<1>7. \A p \in products : Matches(p) <=>
         /\ p.t \in Types /\ ~(p.t = "overseas" /\ "ret" \in Asked /\ ~Targeted)
         /\ \A c \in plan.filters : p.t \in Registered[c.f] => Meets(p, c)
         /\ plan.hold # 0 => plan.hold \in p.holds
         /\ named(p.t) = {} \/ p \in named(p.t)
  BY DEF Matches
<1>8. \A p : p \in SourceRows <=>
         /\ p \in products /\ p.t \in segments
         /\ \A c \in FiltersFor(p.t) : Meets(p, c)
         /\ IdsFor(p.t) # {} => p.id \in IdsFor(p.t)
         /\ plan.hold # 0 => plan.hold \in p.holds
  BY <1>1 DEF SourceRows, RowsOf
<1>9. \A p \in products : p.t \in segments <=> p.t \in Types /\ ~(p.t = "overseas" /\ "ret" \in Asked /\ ~Targeted)
  BY <1>1 DEF Prunes
<1>10. \A p \in products : (\A c \in FiltersFor(p.t) : Meets(p, c))
                             <=> (\A c \in plan.filters : p.t \in Registered[c.f] => Meets(p, c))
  BY DEF FiltersFor
<1>11. SourceRows = {p \in products : Matches(p)}
  <2>1. \A p \in products : p \in SourceRows <=> Matches(p)
    <3> HIDE DEF named
    <3> QED BY <1>6, <1>7, <1>8, <1>9, <1>10
  <2> QED BY <2>1, <1>8
<1>12. \A p \in products : Qualifies(p) <=> Matches(p) /\ InState(p)
  <2> TAKE p \in products
  <2>1. p.t \in TypeSet  BY <1>1, ProductFacts
  <2> QED BY <2>1 DEF Qualifies, InState, TypeSet
<1>13. IncludedRows = {p \in products : Qualifies(p)}  BY <1>11, <1>12 DEF IncludedRows
<1>14. IsFiniteSet(products)  BY <1>1 DEF Catalogue
<1>15. IsFiniteSet(SourceRows) /\ IsFiniteSet(IncludedRows)  BY <1>11, <1>13, <1>14, FS_Subset
<1> QED BY <1>2, <1>11, <1>12, <1>13, <1>14, <1>15

(***************************************************************************)
(* The values that are compared are those that count.                      *)
(***************************************************************************)

\* The value of a field of a product.
ValueOf(p, f) == [t |-> p.t, id |-> p.id, f |-> f, v |-> p.val[f], trust |-> p.trust,
                  cur |-> IF WithCurrency(p.t) THEN p.cur ELSE "none"]

\* A segment asks for no field its type is not registered for.
LEMMA FieldsAreRegistered ==
    ASSUME Settled, NEW t \in segments, NEW f \in MetricFields(t)
    PROVE  t \in Registered[f] /\ f \in FieldsFor(t)
<1>1. ValidPlan /\ Legal(plan) /\ t \in Types /\ \A g \in AggFields : t \in Registered[g]
  BY DEF Settled, OnePartition
<1>2. CASE f \in MetricsFor(t)
  <2>1. f \in FieldsFor(t)  BY <1>2 DEF FieldsFor
  <2>2. CASE Targeted
    <3>1. t \in DOMAIN plan.targets /\ f \in ToSet(plan.targets[t])  BY <1>1, <1>2, <2>2, PlanFacts DEF MetricsFor
    <3> QED BY <1>1, <2>1, <3>1 DEF ValidPlan
  <2>3. CASE ~Targeted  BY <1>2, <2>1, <2>3 DEF MetricsFor
  <2> QED BY <2>2, <2>3
<1>3. CASE f \in AggFields  BY <1>1, <1>3 DEF FieldsFor
<1>4. CASE f \in {c.f : c \in {d \in FiltersFor(t) : d.op \in {"missing", "present"}}}
  BY <1>4 DEF FiltersFor, FieldsFor
<1> QED BY <1>2, <1>3, <1>4 DEF MetricFields

LEMMA MetricValuesAre ==
    ASSUME Settled
    PROVE  /\ \A p \in products : \A f : Qualifies(p) /\ f \in MetricFields(p.t) /\ IsMetric(f) => ValueOf(p, f) \in MetricValues
           /\ \A x \in MetricValues : \E p \in products : \E f \in MetricFields(p.t) :
                 Qualifies(p) /\ IsMetric(f) /\ p.t \in Registered[f] /\ x = ValueOf(p, f)
<1>1. \A p, F : ValuesOf(p, F) = {ValueOf(p, f) : f \in {g \in F : IsMetric(g)}}  BY DEF ValuesOf, ValueOf
<1>2. MetricValues = UNION {{ValueOf(p, f) : f \in {g \in MetricFields(p.t) : IsMetric(g)}} : p \in IncludedRows}
  BY <1>1 DEF MetricValues
<1>3. IncludedRows = {p \in products : Qualifies(p)} /\ \A p \in products : Qualifies(p) => p.t \in segments
  BY RowsAreMatches DEF Qualifies
<1>4. \A p \in products : Qualifies(p) => \A f \in MetricFields(p.t) : p.t \in Registered[f]
  BY <1>3, FieldsAreRegistered
<1>5. ASSUME NEW x \in MetricValues
      PROVE  \E p \in products : \E f \in MetricFields(p.t) :
                Qualifies(p) /\ IsMetric(f) /\ p.t \in Registered[f] /\ x = ValueOf(p, f)
  <2>1. PICK p \in IncludedRows : x \in {ValueOf(p, f) : f \in {g \in MetricFields(p.t) : IsMetric(g)}}  BY <1>2
  <2>2. PICK f \in MetricFields(p.t) : IsMetric(f) /\ x = ValueOf(p, f)  BY <2>1
  <2> QED BY <2>2, <1>3, <1>4
<1>6. ASSUME NEW p \in products, NEW f, Qualifies(p), f \in MetricFields(p.t), IsMetric(f)
      PROVE  ValueOf(p, f) \in MetricValues
  <2>1. p \in IncludedRows /\ ValueOf(p, f) \in {ValueOf(p, g) : g \in {h \in MetricFields(p.t) : IsMetric(h)}}
    BY <1>3, <1>6
  <2> QED BY <2>1, <1>2
<1> QED BY <1>5, <1>6

LEMMA PolicyValuesAre ==
    ASSUME Settled, Compares
    PROVE  /\ \A p \in products : \A f : f \in MetricFields(p.t) /\ IsMetric(f) =>
                 (ValueOf(p, f) \in PolicyValues <=> Counts(p, f))
           /\ \A x \in PolicyValues : \E p \in products : \E f \in MetricFields(p.t) :
                 Counts(p, f) /\ IsMetric(f) /\ x = ValueOf(p, f)
<1>1. PolicyValues = {x \in MetricValues : x.v # Null /\ ComparisonValid(x)}
  BY DEF PolicyValues, RecordedValues
<1>2. \A p, f : /\ ValueOf(p, f).v = p.val[f] /\ ValueOf(p, f).t = p.t /\ ValueOf(p, f).f = f
                /\ ValueOf(p, f).trust = p.trust /\ ValueOf(p, f).id = p.id
  BY DEF ValueOf
<1>3. \A p \in products : \A f : ComparisonValid(ValueOf(p, f)) <=>
         p.trust /\ ~(Ranks /\ p.val[f] = 0 /\ f = "aum" /\ p.t # "fund")
  BY <1>2 DEF ComparisonValid
<1>4. ASSUME NEW x \in PolicyValues
      PROVE  \E p \in products : \E f \in MetricFields(p.t) : Counts(p, f) /\ IsMetric(f) /\ x = ValueOf(p, f)
  <2>1. x \in MetricValues /\ x.v # Null /\ ComparisonValid(x)  BY <1>1
  <2>2. PICK p \in products : \E f \in MetricFields(p.t) :
           Qualifies(p) /\ IsMetric(f) /\ p.t \in Registered[f] /\ x = ValueOf(p, f)
    BY <2>1, MetricValuesAre
  <2>5. PICK f \in MetricFields(p.t) : Qualifies(p) /\ IsMetric(f) /\ p.t \in Registered[f] /\ x = ValueOf(p, f)
    BY <2>2
  <2>3. p.val[f] # Null /\ p.trust /\ ~(Ranks /\ p.val[f] = 0 /\ f = "aum" /\ p.t # "fund")
    BY <2>1, <2>5, <1>2, <1>3
  <2>4. Counts(p, f)  BY <2>3, <2>5 DEF Counts
  <2> QED BY <2>4, <2>5
<1>5. ASSUME NEW p \in products, NEW f, f \in MetricFields(p.t), IsMetric(f), Counts(p, f)
      PROVE  ValueOf(p, f) \in PolicyValues
  <2>1. ValueOf(p, f) \in MetricValues  BY <1>5, MetricValuesAre DEF Counts
  <2>2. ValueOf(p, f).v # Null /\ ComparisonValid(ValueOf(p, f))  BY <1>2, <1>3, <1>5 DEF Counts
  <2> QED BY <1>1, <2>1, <2>2
<1>6. ASSUME NEW p \in products, NEW f, f \in MetricFields(p.t), IsMetric(f), ValueOf(p, f) \in PolicyValues
      PROVE  Counts(p, f)
  <2>1. PICK q \in products : \E g \in MetricFields(q.t) : Counts(q, g) /\ ValueOf(p, f) = ValueOf(q, g)
    BY <1>4, <1>6
  <2>4. PICK g \in MetricFields(q.t) : Counts(q, g) /\ ValueOf(p, f) = ValueOf(q, g)  BY <2>1
  <2>2. q.t = p.t /\ q.id = p.id /\ g = f  BY <2>4, <1>2
  <2>3. q = p  BY <2>2, ProductFacts DEF Settled
  <2> QED BY <2>2, <2>3, <2>4
<1> QED BY <1>4, <1>5, <1>6

\* Products have as many values of a field as there are products.
LEMMA ValuesCount ==
    ASSUME Catalogue(products), NEW Q \in SUBSET products, NEW f
    PROVE  /\ IsFiniteSet(Q) /\ IsFiniteSet({ValueOf(p, f) : p \in Q})
           /\ Cardinality({ValueOf(p, f) : p \in Q}) = Cardinality(Q) /\ Cardinality(Q) \in Nat
<1> DEFINE g == [p \in Q |-> ValueOf(p, f)]
           T == {ValueOf(p, f) : p \in Q}
<1>1. IsFiniteSet(Q)  BY FS_Subset DEF Catalogue
<1>2. \A p, q \in Q : ValueOf(p, f) = ValueOf(q, f) => p = q
  <2> TAKE p, q \in Q
  <2>1. ValueOf(p, f) = ValueOf(q, f) => p.t = q.t /\ p.id = q.id  BY DEF ValueOf
  <2> QED BY <2>1, ProductFacts
<1>3. g \in Bijection(Q, T)
  <2> HIDE DEF ValueOf
  <2>1. g \in [Q -> T] /\ \A y \in T : \E p \in Q : g[p] = y  OBVIOUS
  <2>2. \A p, q \in Q : g[p] = g[q] => p = q  BY <1>2
  <2> HIDE DEF g, T
  <2> QED BY <2>1, <2>2 DEF Bijection, Injection, Surjection, IsInjective
<1>4. ExistsBijection(Q, T)  BY <1>3 DEF ExistsBijection
<1> HIDE DEF T
<1>5. IsFiniteSet(T) /\ Cardinality(T) = Cardinality(Q)  BY <1>1, <1>4, FS_Bijection
<1> QED BY <1>1, <1>5, FS_CardinalityType DEF T

\* An aggregate of the values of products is one of the products (_aggregate,
\* _source_aggregate).
LEMMA AggregateOfProducts ==
    ASSUME Catalogue(products), plan.agg # <<>>, plan.agg[1].fn \in {"min", "max", "sum", "avg"},
           NEW Q \in SUBSET products, Q # {}
    PROVE  LET X == {ValueOf(p, plan.agg[1].f) : p \in Q}
           IN AggregateIs(Aggregated(X), Q) /\ Cardinality(X) = Cardinality(Q)
<1> DEFINE f == plan.agg[1].f
           X == {ValueOf(p, f) : p \in Q}
           N == {<<p.id, p.val[f]>> : p \in Q}
<1>1. \A p : ValueOf(p, f).id = p.id /\ ValueOf(p, f).v = p.val[f]  BY DEF ValueOf
<1> HIDE DEF f
<1>2. X # {} /\ X = {ValueOf(p, f) : p \in Q}  OBVIOUS
<1>3. Cardinality(X) = Cardinality(Q)  BY ValuesCount
<1> HIDE DEF X
<1>4. X # {}  BY <1>2
<1>5. {<<x.id, x.v>> : x \in X} = N
  <2> DEFINE pair(p) == <<p.id, p.val[f]>>
  <2>1. \A p \in Q : <<ValueOf(p, f).id, ValueOf(p, f).v>> = pair(p)  BY <1>1
  <2>2. N = {pair(p) : p \in Q}  OBVIOUS
  <2> HIDE DEF pair
  <2> QED BY <1>2, <2>1, <2>2
<1>6. {x.v : x \in X} = {n[2] : n \in N}
  <2>1. {x.v : x \in X} = {p.val[f] : p \in Q}  BY <1>1, <1>2
  <2>2. {n[2] : n \in N} = {p.val[f] : p \in Q}
    <3>1. \A n \in N : n[2] \in {p.val[f] : p \in Q}  OBVIOUS
    <3>2. \A w \in {p.val[f] : p \in Q} : w \in {n[2] : n \in N}
      <4>1. SUFFICES ASSUME NEW p \in Q PROVE p.val[f] \in {n[2] : n \in N}  OBVIOUS
      <4>2. <<p.id, p.val[f]>> \in N /\ <<p.id, p.val[f]>>[2] = p.val[f]  OBVIOUS
      <4> HIDE DEF N
      <4> QED BY <4>2
    <3> DEFINE T == {p.val[f] : p \in Q}
    <3>3. \A n \in N : n[2] \in T  BY <3>1
    <3>4. \A w \in T : w \in {n[2] : n \in N}  BY <3>2
    <3> HIDE DEF N, T
    <3>5. {n[2] : n \in N} = T  BY <3>3, <3>4
    <3> QED BY <3>5 DEF T
  <2> QED BY <2>1, <2>2
<1> HIDE DEF N
<1>7. Aggregated(X) =
        CASE plan.agg[1].fn = "min" -> <<Min({x.v : x \in X})>>
          [] plan.agg[1].fn = "max" -> <<Max({x.v : x \in X})>>
          [] plan.agg[1].fn = "sum" -> <<Total({<<x.id, x.v>> : x \in X})>>
          [] plan.agg[1].fn = "avg" -> <<Total({<<x.id, x.v>> : x \in X}), Cardinality(X)>>
          [] plan.agg[1].fn = "count" -> <<Cardinality(X)>>
  BY <1>4 DEF Aggregated
<1>8. /\ plan.agg[1].fn = "min" => Aggregated(X) = <<Min({n[2] : n \in N})>>
      /\ plan.agg[1].fn = "max" => Aggregated(X) = <<Max({n[2] : n \in N})>>
      /\ plan.agg[1].fn = "sum" => Aggregated(X) = <<Total(N)>>
      /\ plan.agg[1].fn = "avg" => Aggregated(X) = <<Total(N), Cardinality(Q)>>
  BY <1>3, <1>5, <1>6, <1>7
<1> QED BY <1>3, <1>8 DEF AggregateIs, N, X, f

(***************************************************************************)
(* Ranks.                                                                  *)
(***************************************************************************)

\* Some segment keeps each sort of the plan, even if overseas products are dropped.
LEMMA SortedSomewhere ==
    ASSUME Settled, ~Targeted, NEW i \in DOMAIN plan.sort
    PROVE  \E t \in segments : plan.sort[i].f \in SortsFor(t)
<1> DEFINE f == plan.sort[i].f
<1>1. /\ Legal(plan) /\ segments = {t \in Types : ~(Prunes /\ t = "overseas")}
      /\ \A g \in Asked : Registered[g] \cap Types # {}
  BY DEF Settled, ValidPlan, OnePartition
<1>2. f \in FieldSet /\ f \in Asked  BY <1>1, PlanFacts DEF Asked, Sorts
<1>3. \E t \in segments : t \in Registered[f]
  <2>1. PICK t \in Types : t \in Registered[f]  BY <1>1, <1>2
  <2>2. CASE t \in segments  BY <2>1, <2>2
  <2>3. CASE t \notin segments
    <3>1. t = "overseas" /\ "ret" \in Asked  BY <1>1, <2>3 DEF Prunes
    <3>2. PICK u \in Types : u \in Registered["ret"]  BY <1>1, <3>1
    <3>3. u \in {"etf", "fund"}  BY <3>2, Kinds
    <3>4. u \in segments  BY <1>1, <3>3
    <3>5. f \in {"aum", "region", "name", "sale"}  BY <1>2, <2>1, <3>1, Kinds DEF FieldSet
    <3>6. u \in Registered[f]  BY <3>3, <3>5, Kinds DEF TypeSet
    <3> QED BY <3>4, <3>6
  <2> QED BY <2>2, <2>3
<1>4. PICK t \in segments : t \in Registered[f]  BY <1>3
<1>5. i \in SortFor(t)  BY <1>4 DEF SortFor, Keeps
<1> QED BY <1>4, <1>5 DEF SortsFor

\* A ranking within the whole plan is by its first sort.
LEMMA OneDirection ==
    ASSUME Settled, Ranks, NEW x \in PolicyValues
    PROVE  Descends(x) <=> FirstDescends(x.f)
<1>1. CASE PerType  BY <1>1 DEF Descends
<1>2. CASE ~PerType
  <2>1. /\ Legal(plan) /\ OnePartition /\ OneScale /\ ~Targeted /\ plan.agg = <<>> /\ ~Counting
    <3>1. Legal(plan) /\ OnePartition /\ OneScale  BY DEF Settled
    <3>2. plan.agg = <<>>  BY <3>1 DEF Legal, Ranks
    <3> QED BY <1>2, <3>1, <3>2, PlanFacts DEF Counting
  <2>2. CASE plan.sort = <<>>
    <3>1. DOMAIN plan.sort = {}  BY <2>1, <2>2, PlanFacts
    <3> QED BY <1>2, <2>2, <3>1 DEF Descends, FirstDescends
  <2>3. CASE plan.sort # <<>>
    <3>1. 1 \in DOMAIN plan.sort /\ \A i \in DOMAIN plan.sort : i \in Nat /\ 1 <= i
      BY <2>1, <2>3, PlanFacts
    <3> DEFINE g    == plan.sort[1].f
               keys == UNION {ComparisonKeys(t) : t \in segments}
    <3>2. PICK t \in segments : g \in SortsFor(t)  BY <2>1, <3>1, SortedSomewhere
    <3>3. \E k \in keys : k[1] = g
      <4>1. <<g, IF IsMetric(g) THEN Period(g, t) ELSE "field">> \in ComparisonKeys(t)
        BY <3>2, <2>1 DEF ComparisonKeys
      <4> QED BY <4>1
    <3>4. x.f \in MetricsFor(x.t) /\ x.t \in segments
      <4>1. x.f \in MetricsFor(x.t)  BY <2>1 DEF OneScale
      <4>2. PICK p \in products : Qualifies(p) /\ x.t = p.t
        <5>1. PICK p \in products : \E f \in MetricFields(p.t) : Counts(p, f) /\ x = ValueOf(p, f)
          BY PolicyValuesAre DEF Compares
        <5> QED BY <5>1 DEF Counts, ValueOf
      <4> QED BY <4>1, <4>2, RowsAreMatches
    <3>5. \E k \in keys : k[1] = x.f
      <4>1. <<x.f, IF IsMetric(x.f) THEN Period(x.f, x.t) ELSE "field">> \in ComparisonKeys(x.t)
        BY <3>4, <2>1 DEF ComparisonKeys
      <4> QED BY <3>4, <4>1
    <3>6. Cardinality(keys) = 1  BY <1>2, <2>1, <2>3 DEF OnePartition
    <3>7. \A k, l \in keys : k = l
      <4>1. IsFiniteSet(keys)
        <5>1. IsFiniteSet(segments)  BY <2>1, PlanFacts, FS_Subset DEF OnePartition
        <5>2. \A t1 \in segments : IsFiniteSet(ComparisonKeys(t1))
          <6> TAKE t1 \in segments
          <6> DEFINE fs == MetricsFor(t1) \cup SortsFor(t1) \cup AggFields
                     key(f) == <<f, IF IsMetric(f) THEN Period(f, t1) ELSE "field">>
          <6>1. IsFiniteSet(FieldSet)
            <7>1. FieldSet = (((({"yield"} \cup {"ret"}) \cup {"aum"}) \cup {"region"}) \cup {"name"}) \cup {"sale"}  BY DEF FieldSet
            <7>2. IsFiniteSet({"yield"})  BY FS_Singleton
            <7> QED BY <7>1, <7>2, FS_AddElement
          <6>2. fs \subseteq FieldSet
            <7>1. AggFields = {}  BY <2>1 DEF AggFields
            <7>2. MetricsFor(t1) \subseteq FieldSet  BY <2>1, PlanFacts DEF MetricsFor
            <7>3. SortsFor(t1) \subseteq FieldSet  BY <2>1, PlanFacts DEF SortsFor, SortFor
            <7> QED BY <7>1, <7>2, <7>3
          <6>3. IsFiniteSet(fs)  BY <6>1, <6>2, FS_Subset
          <6> HIDE DEF key, fs
          <6>4. IsFiniteSet({key(f) : f \in fs})
            <7>1. [f \in fs |-> key(f)] \in Surjection(fs, {key(f) : f \in fs})  BY DEF Surjection
            <7> QED BY <6>3, <7>1, FS_Surjection
          <6>5. ComparisonKeys(t1) = {key(f) : f \in fs}  BY <2>1 DEF ComparisonKeys, key, fs
          <6> QED BY <6>4, <6>5
        <5> HIDE DEF keys
        <5>3. IsFiniteSet(keys)
          <6> DEFINE K == {ComparisonKeys(t1) : t1 \in segments}
          <6>1. IsFiniteSet(K)
            <7>1. [t1 \in segments |-> ComparisonKeys(t1)] \in Surjection(segments, K)  BY DEF Surjection
            <7> QED BY <5>1, <7>1, FS_Surjection
          <6>2. \A k \in K : IsFiniteSet(k)  BY <5>2
          <6> HIDE DEF K
          <6>3. IsFiniteSet(UNION K)  BY <6>1, <6>2, FS_UNION
          <6> QED BY <6>3 DEF keys, K
        <5> QED BY <5>3
      <4> HIDE DEF keys
      <4>2. \E k : keys = {k}  BY <3>6, <4>1, FS_Singleton
      <4> QED BY <4>2
    <3>8. g = x.f
      <4> HIDE DEF keys
      <4> QED BY <3>3, <3>5, <3>7
    <3>9. FirstDescends(x.f) <=> plan.sort[1].desc
      <4>1. ASSUME NEW i \in DOMAIN plan.sort, i # 1 PROVE ~ \A j \in 1..(i - 1) : plan.sort[j].f # x.f
        <5>1. i \in Nat /\ 1 <= i  BY <3>1
        <5>2. 1 \in 1..(i - 1)  BY <4>1, <5>1
        <5> QED BY <5>2, <3>8
      <4>2. \A j \in 1..(1 - 1) : FALSE  OBVIOUS
      <4> QED BY <3>1, <3>8, <4>1, <4>2 DEF FirstDescends
    <3> QED BY <1>2, <2>3, <3>9 DEF Descends
  <2> QED BY <2>2, <2>3
<1> QED BY <1>1, <1>2

\* The values a value is ranked among are those of the products' peers.
LEMMA PeerValues ==
    ASSUME Settled, Ranks, NEW p \in products, NEW f, f \in MetricFields(p.t), IsMetric(f), Counts(p, f)
    PROVE  {y \in PolicyValues : PartitionOf(y) = PartitionOf(ValueOf(p, f))} = {ValueOf(q, f) : q \in PeersOf(p, f)}
<1> DEFINE x == ValueOf(p, f)
           S == {y \in PolicyValues : PartitionOf(y) = PartitionOf(x)}
<1>1. Catalogue(products) /\ Legal(plan) /\ OneScale /\ Compares /\ x \in PolicyValues
  BY PolicyValuesAre DEF Settled, Compares
<1>2. p.t \in TypeSet /\ p.cur \in {"KRW", "USD"}  BY <1>1, ProductFacts
<1>3. f \in MetricsFor(p.t)
  <2>1. x.f = f /\ x.t = p.t  BY DEF ValueOf
  <2> QED BY <1>1, <2>1 DEF OneScale
<1>4. \A q : /\ ValueOf(q, f).f = f /\ ValueOf(q, f).t = q.t
             /\ ValueOf(q, f).cur = IF WithCurrency(q.t) THEN q.cur ELSE "none"
  BY DEF ValueOf
<1>5. ASSUME NEW q \in products
      PROVE  PartitionOf(ValueOf(q, f)) = PartitionOf(x) <=>
                /\ PerType \/ f = "aum" => q.t = p.t
                /\ (IF WithCurrency(q.t) THEN q.cur ELSE "none") = (IF WithCurrency(p.t) THEN p.cur ELSE "none")
  BY <1>4 DEF PartitionOf, Period
<1>6. ASSUME NEW y \in S
      PROVE  y \in {ValueOf(q, f) : q \in PeersOf(p, f)}
  <2>1. PICK q \in products : \E g \in MetricFields(q.t) : Counts(q, g) /\ y = ValueOf(q, g)
    BY <1>1, PolicyValuesAre
  <2>2. Counts(q, f) /\ y = ValueOf(q, f)
    <3>1. PICK g \in MetricFields(q.t) : Counts(q, g) /\ y = ValueOf(q, g)  BY <2>1
    <3>2. y.f = g /\ PartitionOf(y)[1] = y.f /\ PartitionOf(x)[1] = x.f  BY <3>1 DEF PartitionOf, ValueOf
    <3> QED BY <3>1, <3>2, <1>4
  <2>3. q.cur \in {"KRW", "USD"}  BY <1>1, ProductFacts
  <2>4. q \in PeersOf(p, f)  BY <1>2, <1>5, <2>2, <2>3 DEF PeersOf, WithCurrency
  <2> QED BY <2>2, <2>4
<1>7. ASSUME NEW q \in PeersOf(p, f)
      PROVE  ValueOf(q, f) \in S
  <2>1. /\ q \in products /\ Counts(q, f) /\ (PerType \/ f = "aum" => q.t = p.t)
        /\ WithCurrency(p.t) => q.cur = p.cur
    BY DEF PeersOf, WithCurrency
  <2>2. q.t = p.t \/ (~PerType /\ f # "aum" /\ ~Targeted)  BY <2>1, <1>1, PlanFacts
  <2>3. f \in MetricsFor(q.t)
    <3>1. q.t \in Registered[f]  BY <2>1 DEF Counts
    <3> QED BY <1>3, <2>2, <3>1 DEF MetricsFor
  <2>4. ValueOf(q, f) \in PolicyValues  BY <1>1, <2>1, <2>3, PolicyValuesAre DEF MetricFields
  <2>5. WithCurrency(q.t) = WithCurrency(p.t)
    <3>1. CASE q.t = p.t  BY <3>1
    <3>2. CASE q.t # p.t
      <4>1. ~PerType /\ f # "aum" /\ ~Targeted  BY <2>2, <3>2
      <4>2. p.t \in Registered[f] /\ q.t \in Registered[f] /\ f \in {"yield", "ret"}
        BY <4>1, <2>1 DEF Counts, IsMetric
      <4>3. p.t \in Registered["aum"] /\ q.t \in Registered["aum"]  BY <4>2, <3>2, Kinds
      <4>4. \A t : t \in Registered["aum"] =>
              ("aum" \in FieldsFor(t) <=> \/ "aum" \in {c.f : c \in plan.filters} \/ "aum" \in ToSet(plan.metrics)
                                          \/ "aum" \in Sorts(plan.sort) \/ "aum" \in AggFields \/ "aum" \in AggBy)
        BY <4>1 DEF FieldsFor, FiltersFor, MetricsFor, SortsFor, SortFor, Keeps, Sorts
      <4> QED BY <4>3, <4>4 DEF WithCurrency
    <3> QED BY <3>1, <3>2
  <2>6. PartitionOf(ValueOf(q, f)) = PartitionOf(x)  BY <1>5, <2>1, <2>5
  <2> QED BY <2>4, <2>6
<1> QED BY <1>6, <1>7

\* The rank the engine gives is the rank among the peers.
RankOf(p, f) == Ranked(ValueOf(p, f), {y \in PolicyValues : PartitionOf(y) = PartitionOf(ValueOf(p, f))})
TiesIn(p, f) == Cardinality({q \in PeersOf(p, f) : q.val[f] = p.val[f]})

LEMMA RankIsTrue ==
    ASSUME Settled, Ranks, NEW p \in products, NEW f, f \in MetricFields(p.t), IsMetric(f), Counts(p, f)
    PROVE  /\ RankOf(p, f).t = p.t /\ RankOf(p, f).id = p.id /\ RankOf(p, f).f = f /\ RankOf(p, f).v = p.val[f]
           /\ RankOf(p, f).rank = RankIn(p, f, PeersOf(p, f))
           /\ RankOf(p, f).ties = TiesIn(p, f)
<1> DEFINE x == ValueOf(p, f)
           S == {y \in PolicyValues : PartitionOf(y) = PartitionOf(x)}
           P == PeersOf(p, f)
           better(q) == IF FirstDescends(f) THEN q.val[f] > p.val[f] ELSE q.val[f] < p.val[f]
<1>1. Catalogue(products) /\ Compares  BY DEF Settled, Compares
<1>2. S = {ValueOf(q, f) : q \in P} /\ P \subseteq products  BY PeerValues DEF PeersOf
<1>3. \A q : ValueOf(q, f).v = q.val[f] /\ ValueOf(q, f).f = f  BY DEF ValueOf
<1>4. \A q \in P : Above(ValueOf(q, f), x) <=> better(q)
  <2> TAKE q \in P
  <2>1. ValueOf(q, f) \in PolicyValues  BY <1>2
  <2>2. Descends(ValueOf(q, f)) <=> FirstDescends(f)  BY <2>1, <1>3, OneDirection
  <2> QED BY <2>2, <1>3 DEF Above
<1>5. {y \in S : Above(y, x)} = {ValueOf(q, f) : q \in {o \in P : better(o)}}
  <2> HIDE DEF better, x, S, P
  <2> QED BY <1>2, <1>4
<1>6. {y \in S : y.v = x.v} = {ValueOf(q, f) : q \in {o \in P : o.val[f] = p.val[f]}}
  <2>1. \A q \in P : ValueOf(q, f).v = x.v <=> q.val[f] = p.val[f]  BY <1>3
  <2> HIDE DEF S, P
  <2> QED BY <1>2, <2>1
<1>7. /\ Cardinality({y \in S : Above(y, x)}) = Cardinality({o \in P : better(o)})
      /\ Cardinality({y \in S : y.v = x.v}) = Cardinality({o \in P : o.val[f] = p.val[f]})
  <2> DEFINE A == {o \in P : better(o)}
             B == {o \in P : o.val[f] = p.val[f]}
  <2>1. A \in SUBSET products /\ B \in SUBSET products  BY <1>2
  <2> HIDE DEF x, S, P, better, A, B
  <2>2. Cardinality({ValueOf(q, f) : q \in A}) = Cardinality(A)  BY <1>1, <2>1, ValuesCount
  <2>3. Cardinality({ValueOf(q, f) : q \in B}) = Cardinality(B)  BY <1>1, <2>1, ValuesCount
  <2> QED BY <1>5, <1>6, <2>2, <2>3 DEF A, B
<1>8. RankIn(p, f, P) = 1 + Cardinality({o \in P : better(o)})  BY DEF RankIn
<1>9. x.t = p.t /\ x.id = p.id /\ x.f = f /\ x.v = p.val[f]  BY DEF ValueOf
<1>10. /\ Ranked(x, S).t = x.t /\ Ranked(x, S).id = x.id /\ Ranked(x, S).f = x.f /\ Ranked(x, S).v = x.v
       /\ Ranked(x, S).rank = 1 + Cardinality({y \in S : Above(y, x)})
       /\ Ranked(x, S).ties = Cardinality({y \in S : y.v = x.v})
  BY DEF Ranked
<1>11. RankOf(p, f) = Ranked(x, S)  BY DEF RankOf
<1> HIDE DEF x, S, P, better
<1> QED BY <1>7, <1>8, <1>9, <1>10, <1>11 DEF P, TiesIn

\* What the policy engine, the evidence builder and the renderer hand over.
LEMMA Handed ==
    ASSUME Settled
    PROVE  /\ policy.source = SourceRows /\ policy.included = IncludedRows /\ policy.metric = MetricValues
           /\ policy.valid = PolicyValues /\ policy.recorded = RecordedValues
           /\ policy.ranks = {r \in RankResults : r.rank <= plan.topk}
           /\ policy.selected = IF ~PerType THEN TopRows(FieldRows, DOMAIN plan.sort)
                                ELSE UNION {TopRows({p \in FieldRows : p.t = t}, SortFor(t)) : t \in segments}
           /\ policy.aggs = IF plan.agg = <<>> THEN {}
                            ELSE UNION {UNION {AggregatesOf(t, c) : c \in Partitions(t)} : t \in segments}
           /\ evidence.records = Records /\ evidence.lens = LensRecords /\ evidence.zeros = FittedZeros
           /\ evidence.ranks = BoundedRanks \cup FieldRanks
           /\ claims.ranks = BoundedRanks \cup FieldRanks /\ claims.values = ValueClaims
           /\ claims.source = SourceClaims /\ claims.aggs = AggregateClaims /\ claims.counts = SourceCounts
           /\ claims.diff = Difference(Records) /\ claims.limits = Limits(Records)
<1>1. policy = PolicyResult /\ evidence = Bundle /\ claims = Answer  BY DEF Settled
<1>2. /\ policy.source = SourceRows /\ policy.included = IncludedRows /\ policy.metric = MetricValues
      /\ policy.valid = PolicyValues /\ policy.recorded = RecordedValues
      /\ policy.ranks = {r \in RankResults : r.rank <= plan.topk}
      /\ policy.selected = IF ~PerType THEN TopRows(FieldRows, DOMAIN plan.sort)
                           ELSE UNION {TopRows({p \in FieldRows : p.t = t}, SortFor(t)) : t \in segments}
      /\ policy.aggs = IF plan.agg = <<>> THEN {}
                       ELSE UNION {UNION {AggregatesOf(t, c) : c \in Partitions(t)} : t \in segments}
  BY <1>1 DEF PolicyResult
<1>3. /\ evidence.records = Records /\ evidence.lens = LensRecords /\ evidence.zeros = FittedZeros
      /\ evidence.ranks = BoundedRanks \cup FieldRanks /\ evidence.counts = SourceCounts
      /\ evidence.diff = Difference(Records) /\ evidence.limits = Limits(Records)
  BY <1>1 DEF Bundle
<1>4. /\ claims.ranks = evidence.ranks /\ claims.values = ValueClaims
      /\ claims.source = SourceClaims /\ claims.aggs = AggregateClaims /\ claims.counts = evidence.counts
      /\ claims.diff = evidence.diff /\ claims.limits = evidence.limits
  BY <1>1 DEF Answer
<1> QED BY <1>2, <1>3, <1>4

\* The rows the engine selects count, and so do those it ranks.
LEMMA SelectedQualify ==
    ASSUME Settled
    PROVE  policy.selected \subseteq {p \in products : Qualifies(p)}
<1>1. FieldRows \subseteq {p \in products : Qualifies(p)}  BY RowsAreMatches DEF FieldRows
<1>2. \A S, I : TopRows(S, I) \subseteq S  BY DEF TopRows
<1>3. policy.selected = IF ~PerType THEN TopRows(FieldRows, DOMAIN plan.sort)
                        ELSE UNION {TopRows({p \in FieldRows : p.t = t}, SortFor(t)) : t \in segments}
  BY Handed
<1>4. CASE ~PerType  BY <1>1, <1>2, <1>3, <1>4
<1>5. CASE PerType
  <2> DEFINE top(t) == TopRows({p \in FieldRows : p.t = t}, SortFor(t))
  <2>1. \A t \in segments : top(t) \subseteq FieldRows  BY <1>2
  <2>2. policy.selected = UNION {top(t) : t \in segments}  BY <1>3, <1>5
  <2> HIDE DEF top
  <2>3. UNION {top(t) : t \in segments} \subseteq FieldRows  BY <2>1
  <2> QED BY <1>1, <2>2, <2>3
<1> QED BY <1>4, <1>5

LEMMA RanksAre ==
    ASSUME Settled, NEW r \in BoundedRanks
    PROVE  /\ Ranks
           /\ \E p \in products : \E f \in MetricFields(p.t) :
                 IsMetric(f) /\ Counts(p, f) /\ r = RankOf(p, f)
<1>1. r \in RankResults  BY Handed DEF BoundedRanks
<1>2. Ranks /\ Compares  BY <1>1 DEF RankResults, Compares
<1>3. PICK x \in PolicyValues : r = Ranked(x, {y \in PolicyValues : PartitionOf(y) = PartitionOf(x)})
  BY <1>1, <1>2 DEF RankResults
<1>4. PICK p \in products : \E f \in MetricFields(p.t) : Counts(p, f) /\ IsMetric(f) /\ x = ValueOf(p, f)
  BY <1>2, PolicyValuesAre
<1> QED BY <1>2, <1>3, <1>4 DEF RankOf

\* Every rank and every tie count is the competition rank among the peers
\* (CompatibilityPartitioner, TiePolicy.rank, _nonmetric_rank_summaries).
LEMMA RanksAreTrue == ASSUME Settled PROVE RanksTrue
<1> SUFFICES ASSUME NEW r \in claims.ranks
             PROVE  LET p == ProductOf(r) IN
                      /\ Qualifies(p) /\ r.v = p.val[r.f]
                      /\ IsMetric(r.f) => /\ Counts(p, r.f) /\ r.rank = RankIn(p, r.f, PeersOf(p, r.f))
                                          /\ r.ties = Cardinality({q \in PeersOf(p, r.f) : q.val[r.f] = p.val[r.f]})
  BY DEF RanksTrue
<1>1. r \in BoundedRanks \/ r \in FieldRanks  BY Handed
<1>2. Catalogue(products)  BY DEF Settled
<1>3. CASE r \in BoundedRanks
  <2>1. Ranks  BY <1>3, RanksAre
  <2>2. PICK p \in products : \E f \in MetricFields(p.t) :
           IsMetric(f) /\ Counts(p, f) /\ r = RankOf(p, f)
    BY <1>3, RanksAre
  <2>3. PICK f \in MetricFields(p.t) :
           IsMetric(f) /\ Counts(p, f) /\ r = RankOf(p, f)
    BY <2>2
  <2>4. /\ r.t = p.t /\ r.id = p.id /\ r.f = f /\ r.v = p.val[f]
        /\ r.rank = RankIn(p, f, PeersOf(p, f))
        /\ r.ties = TiesIn(p, f)
    BY <2>1, <2>3, RankIsTrue
  <2>5. ProductOf(r) = p  BY <1>2, <2>4, ProductFacts
  <2>6. Qualifies(p)  BY <2>3 DEF Counts
  <2> QED BY <2>3, <2>4, <2>5, <2>6 DEF TiesIn
<1>4. CASE r \in FieldRanks
  <2> DEFINE f == plan.sort[1].f
             peers(p) == {q \in policy.included : (PerType => q.t = p.t) /\ q.val[f] # Null}
             above(q, p) == IF plan.sort[1].desc THEN q.val[f] > p.val[f] ELSE q.val[f] < p.val[f]
             item(p) == [t |-> p.t, id |-> p.id, f |-> f, v |-> p.val[f], part |-> <<f, "field">>,
                         rank |-> 1 + Cardinality({q \in peers(p) : above(q, p)}),
                         ties |-> Cardinality({q \in peers(p) : q.val[f] = p.val[f]}), at |-> 0]
  <2>1. ~IsMetric(f) /\ \E p \in policy.selected : r.t = p.t /\ r.id = p.id /\ r.f = f /\ r.v = p.val[f]
    <3>1. FieldRanks = IF ~Ranks \/ plan.sort = <<>> THEN {}
                       ELSE IF IsMetric(f) THEN {} ELSE {item(p) : p \in {q \in policy.selected : q.val[f] # Null}}
      BY DEF FieldRanks
    <3>2. \A p : item(p).t = p.t /\ item(p).id = p.id /\ item(p).f = f /\ item(p).v = p.val[f]  OBVIOUS
    <3> HIDE DEF item, f
    <3> QED BY <1>4, <3>1, <3>2
  <2>2. PICK p \in policy.selected : r.t = p.t /\ r.id = p.id /\ r.f = f /\ r.v = p.val[f]  BY <2>1
  <2>3. p \in products /\ Qualifies(p)  BY SelectedQualify
  <2>4. ProductOf(r) = p  BY <1>2, <2>2, <2>3, ProductFacts
  <2> QED BY <2>1, <2>2, <2>3, <2>4
<1> QED BY <1>1, <1>3, <1>4

\* A product that ranks up to top_k is named, or the cut is stated
\* (_bounded_ranks, material_policy_limitations).
LEMMA RanksAreComplete == ASSUME Settled PROVE RanksComplete
<1> SUFFICES ASSUME Ranks, NEW f \in ToSet(plan.metrics) \cap Sorts(plan.sort), NEW p \in products,
                    IsMetric(f), Counts(p, f), f \in MetricsFor(p.t), RankIn(p, f, PeersOf(p, f)) <= plan.topk,
                    "cut" \notin claims.limits
             PROVE  \E r \in claims.ranks : r.t = p.t /\ r.id = p.id /\ r.f = f
  BY DEF RanksComplete
<1> DEFINE x == ValueOf(p, f)
           r == RankOf(p, f)
<1>1. f \in MetricFields(p.t) /\ Compares  BY DEF MetricFields, Compares
<1>2. x \in PolicyValues  BY <1>1, PolicyValuesAre
<1>3. r.t = p.t /\ r.id = p.id /\ r.f = f /\ r.rank = RankIn(p, f, PeersOf(p, f))  BY <1>1, RankIsTrue
<1>4. r \in RankResults  BY <1>2 DEF RankResults, RankOf
<1> HIDE DEF r
<1>5. r \in policy.ranks  BY <1>3, <1>4, Handed
<1>6. BoundedRanks = policy.ranks
  <2>1. BoundedRanks # policy.ranks => "cut" \in Limits(Records)  BY DEF Limits
  <2> QED BY <2>1, Handed
<1>7. r \in claims.ranks  BY <1>5, <1>6, Handed
<1> QED BY <1>3, <1>7

(***************************************************************************)
(* What is shown.                                                          *)
(***************************************************************************)

\* The records an answer shows for their own sake count, and the others are
\* excluded only by their state.
LEMMA RecordsAre ==
    ASSUME Settled
    PROVE  /\ OwnRecords \subseteq IncludedRows
           /\ \A x \in FittedZeros : ProductOf(x) \in IncludedRows
           /\ LensRecords \subseteq SourceRows \ IncludedRows
           /\ Records \ LensRecords = OwnRecords
           /\ Records = OwnRecords \cup LensRecords
<1>1. Catalogue(products) /\ IncludedRows = {p \in products : Qualifies(p)}  BY RowsAreMatches DEF Settled
<1>2. BoundedRows \subseteq IncludedRows  BY <1>1, SelectedQualify DEF BoundedRows
<1>3. \A r \in BoundedRanks : ProductOf(r) \in IncludedRows
  <2> TAKE r \in BoundedRanks
  <2>1. r \in claims.ranks /\ RanksTrue  BY Handed, RanksAreTrue
  <2>2. Qualifies(ProductOf(r))  BY <2>1 DEF RanksTrue
  <2>3. \E p \in products : r.t = p.t /\ r.id = p.id
    <3>1. Ranks /\ \E p \in products : \E f \in MetricFields(p.t) :
                     IsMetric(f) /\ Counts(p, f) /\ r = RankOf(p, f)
      BY RanksAre
    <3>2. PICK p \in products : \E f \in MetricFields(p.t) : IsMetric(f) /\ Counts(p, f) /\ r = RankOf(p, f)
      BY <3>1
    <3>3. PICK f \in MetricFields(p.t) : IsMetric(f) /\ Counts(p, f) /\ r = RankOf(p, f)  BY <3>2
    <3>4. r.t = p.t /\ r.id = p.id  BY <3>1, <3>3, RankIsTrue
    <3> QED BY <3>4
  <2> QED BY <1>1, <2>2, <2>3, ProductFacts
<1>4. \A x \in FittedZeros : ProductOf(x) \in IncludedRows
  <2> TAKE x \in FittedZeros
  <2>1. x \in RecordedZeros  BY DEF FittedZeros, Fitting
  <2>2. x \in policy.recorded  BY <2>1 DEF RecordedZeros, Keyed
  <2>3. x \in MetricValues  BY <2>2, Handed DEF RecordedValues
  <2>4. PICK p \in products : \E f \in MetricFields(p.t) : Qualifies(p) /\ x = ValueOf(p, f)
    BY <2>3, MetricValuesAre
  <2>5. x.t = p.t /\ x.id = p.id  BY <2>4 DEF ValueOf
  <2> QED BY <1>1, <2>4, <2>5, ProductFacts
<1>5. OwnRecords \subseteq IncludedRows  BY <1>2, <1>3, <1>4 DEF OwnRecords, FirstRecords
<1>6. LensRecords \subseteq SourceRows \ IncludedRows  BY Handed DEF LensRecords, SourceOnly
<1> QED BY <1>4, <1>5, <1>6 DEF Records

\* A row has the plan's metrics that are registered for its type.
LEMMA MetricsOfRow ==
    ASSUME Settled, NEW t \in Types PROVE MetricsFor(t) \subseteq SourceFields(t)
<1>1. CASE Targeted
  <2>1. plan.targets # <<>> /\ Legal(plan)  BY <1>1 DEF Targeted, Settled
  <2>2. UNION {ToSet(plan.targets[u]) : u \in ToSet(plan.types)} = ToSet(plan.metrics)  BY <2>1 DEF Legal
  <2>3. ToSet(plan.targets[t]) \subseteq ToSet(plan.metrics)  BY <2>2 DEF Types
  <2> QED BY <1>1, <2>3 DEF MetricsFor, SourceFields, FieldsFor
<1>2. CASE ~Targeted  BY <1>2 DEF MetricsFor, SourceFields, FieldsFor
<1> QED BY <1>1, <1>2

\* A record of another state is fetched only for a plan that asks for it
\* (_requests_source_lens, _bounded_source_rows).
LEMMA LensAsked ==
    ASSUME Settled, LensRecords # {} PROVE AsksForSource /\ plan.metrics # <<>>
<1>1. SourceLens /\ plan.metrics # <<>> /\ plan.intent # "aggregate"  BY DEF LensRecords, SourceOnly
<1>2. ~Counting
  <2>1. plan.agg = <<>>  BY <1>1, PlanFacts DEF Settled
  <2> QED BY <2>1 DEF Counting
<1> QED BY <1>1, <1>2 DEF SourceLens, AsksForSource

\* No product is shown that does not match, none in another state unless the plan
\* asks for such, and the counts and source aggregates are those of the catalogue
\* (fetch_final_record_evidence, _source_lens_summaries, _comparison_evidence).
LEMMA ValuesAreTrue == ASSUME Settled PROVE ValuesTrue
<1>1. Catalogue(products)  BY DEF Settled
<1>2. /\ SourceRows = {p \in products : Matches(p)} /\ IncludedRows = {p \in products : Qualifies(p)}
      /\ \A p \in products : Qualifies(p) <=> Matches(p) /\ InState(p)
  BY RowsAreMatches
<1>3. \A p \in products : \A f : ProductOf(Stated(p, f)) = p
  <2> TAKE p \in products
  <2> TAKE f
  <2>1. Stated(p, f).t = p.t /\ Stated(p, f).id = p.id  BY DEF Stated
  <2> QED BY <1>1, <2>1, ProductFacts
<1>4. ASSUME NEW x \in claims.values
      PROVE  LET p == ProductOf(x)
             IN Qualifies(p) \/ (Matches(p) /\ AsksForSource /\ plan.metrics # <<>> /\ MetricsFor(p.t) = {})
  <2>1. x \in UNION {{Stated(p, f) : f \in Shown(p.t)} : p \in evidence.records \ SourceStated}
    BY <1>4, Handed DEF ValueClaims
  <2>2. PICK p \in evidence.records \ SourceStated : x \in {Stated(p, f) : f \in Shown(p.t)}  BY <2>1
  <2>3. PICK f \in Shown(p.t) : x = Stated(p, f)  BY <2>2
  <2>4. CASE p \notin LensRecords
    <3>1. p \in IncludedRows  BY <2>2, <2>4, Handed, RecordsAre
    <3> QED BY <1>2, <1>3, <2>3, <3>1
  <2>5. CASE p \in LensRecords
    <3>1. p \in products /\ Matches(p)  BY <1>2, <2>5, RecordsAre
    <3>2. SourceFields(p.t) = {}  BY <2>2, <2>5, Handed DEF SourceStated
    <3>3. MetricsFor(p.t) = {}
      <4>1. p.t \in Types  BY <3>1 DEF Matches
      <4>2. MetricsFor(p.t) \subseteq SourceFields(p.t)  BY <4>1, MetricsOfRow
      <4> QED BY <3>2, <4>2
    <3>4. AsksForSource /\ plan.metrics # <<>>  BY <2>5, LensAsked
    <3> QED BY <1>3, <2>3, <3>1, <3>3, <3>4
  <2> QED BY <2>4, <2>5
<1>5. ASSUME NEW x \in claims.source PROVE Matches(ProductOf(x)) /\ ~InState(ProductOf(x)) /\ AsksForSource
  <2>1. x \in UNION {{Stated(p, f) : f \in SourceFields(p.t)} : p \in SourceStated}
    BY <1>5, Handed DEF SourceClaims
  <2>2. PICK p \in SourceStated : x \in {Stated(p, f) : f \in SourceFields(p.t)}  BY <2>1
  <2>3. p \in LensRecords  BY <2>2, Handed DEF SourceStated
  <2>4. p \in SourceRows /\ p \notin IncludedRows  BY <2>3, RecordsAre
  <2>5. \E f : x = Stated(p, f)  BY <2>2
  <2> QED BY <1>2, <1>3, <2>3, <2>4, <2>5, LensAsked
<1>6. ASSUME NEW c \in claims.counts
      PROVE  LET S == {p \in products : p.t = c.t /\ Matches(p)}
                 V == {q \in S : \A f \in AggFields : q.val[f] # Null}
             IN /\ c.all = Cardinality(S) /\ c.valid = Cardinality({p \in S : Qualifies(p)})
                /\ c.value # <<>> => c.recorded = Cardinality(V) /\ AggregateIs(c.value, V)
  <2> DEFINE rows(t) == {p \in policy.source : p.t = t}
             vals(t) == {x \in UNION {ValuesOf(p, AggFields) : p \in rows(t)} : x.v # Null}
             count(t) == [t |-> t, all |-> Cardinality(rows(t)), valid |-> Cardinality(rows(t) \cap policy.included),
                          recorded |-> Cardinality(vals(t)), value |-> Aggregated(vals(t))]
  <2>1. c \in {count(t) : t \in {p.t : p \in policy.source}}
    <3>1. c \in SourceCounts  BY <1>6, Handed
    <3> QED BY <3>1 DEF SourceCounts
  <2>2. PICK t : c = count(t)  BY <2>1
  <2>3. /\ c.t = t /\ c.all = Cardinality(rows(t)) /\ c.valid = Cardinality(rows(t) \cap policy.included)
        /\ c.recorded = Cardinality(vals(t)) /\ c.value = Aggregated(vals(t))
    <3> HIDE DEF rows, vals
    <3> QED BY <2>2
  <2>4. policy.source = SourceRows /\ policy.included = IncludedRows  BY Handed
  <2> DEFINE S == {p \in products : p.t = t /\ Matches(p)}
             V == {q \in S : \A f \in AggFields : q.val[f] # Null}
  <2>5. rows(t) = S  BY <1>2, <2>4
  <2>6. rows(t) \cap policy.included = {p \in S : Qualifies(p)}  BY <1>2, <2>4
  <2>7. ASSUME c.value # <<>> PROVE c.recorded = Cardinality(V) /\ AggregateIs(c.value, V)
    <3>1. vals(t) # {}
      <4> HIDE DEF vals
      <4> QED BY <2>3, <2>7 DEF Aggregated
    <3>2. PICK q \in rows(t) : \E x \in ValuesOf(q, AggFields) : x.v # Null  BY <3>1
    <3>3. PICK f \in AggFields : IsMetric(f)  BY <3>2 DEF ValuesOf
    <3>4. AggFields = {f} /\ f = plan.agg[1].f /\ plan.agg # <<>> /\ f # "count"  BY <3>3 DEF AggFields
    <3>5. plan.agg[1].fn \in {"min", "max", "sum", "avg"}
      <4>1. Legal(plan)  BY DEF Settled
      <4> QED BY <3>4, <4>1, AggregateFacts
    <3>6. vals(t) = {ValueOf(p, f) : p \in V}
      <4>1. \A p : ValuesOf(p, AggFields) = {ValueOf(p, f)}  BY <3>3, <3>4 DEF ValuesOf, ValueOf
      <4>2. \A p : ValueOf(p, f).v = p.val[f]  BY DEF ValueOf
      <4>3. V = {p \in rows(t) : p.val[f] # Null}  BY <2>5, <3>4
      <4>4. vals(t) = {x \in UNION {{ValueOf(p, f)} : p \in rows(t)} : x.v # Null}  BY <4>1
      <4> HIDE DEF rows, V, vals
      <4> QED BY <4>2, <4>3, <4>4
    <3>7. V \in SUBSET products  OBVIOUS
    <3> HIDE DEF V, vals
    <3>8. V # {}  BY <3>1, <3>6
    <3> QED BY <1>1, <2>3, <3>4, <3>5, <3>6, <3>7, <3>8, AggregateOfProducts
  <2> HIDE DEF rows
  <2> QED BY <2>3, <2>5, <2>6, <2>7
<1>7. ASSUME NEW d \in claims.diff PROVE \A p \in d.of : Counts(p, d.f)
  <2> DEFINE f  == plan.metrics[1]
             at == {p \in Records : p.t \in Registered[f]}
             ok == {p \in at : p \in policy.included /\ p.trust /\ p.val[f] # Null}
             vs == {p.val[f] : p \in ok}
             diff == [of |-> ok, f |-> f, v |-> Max(vs) - Min(vs)]
  <2>1. plan.intent = "compare" /\ d.of = ok /\ d.f = f
    <3>1. d \in Difference(Records)  BY <1>7, Handed
    <3>2. Difference(Records) \subseteq {diff} /\ (plan.intent # "compare" => Difference(Records) = {})
      BY DEF Difference
    <3>3. diff.of = ok /\ diff.f = f  OBVIOUS
    <3> HIDE DEF diff
    <3> QED BY <3>1, <3>2, <3>3
  <2>2. ~Ranks /\ policy.included = IncludedRows  BY <2>1, Handed DEF Ranks
  <2> QED BY <1>2, <2>1, <2>2 DEF Counts
<1> QED BY <1>4, <1>5, <1>6, <1>7 DEF ValuesTrue

\* What is left out is disclosed (material_policy_limitations).
LEMMA LimitsAreDisclosed == ASSUME Settled PROVE Disclosed
<1>1. claims.limits = Limits(Records) /\ policy.valid = PolicyValues /\ policy.metric = MetricValues  BY Handed
<1>2. ("overseas" \in Types /\ ~Targeted /\ "ret" \in Asked) => "pruned" \in claims.limits
  BY <1>1 DEF Limits, Prunes
<1>3. ASSUME Ranks, NEW f \in ToSet(plan.metrics), NEW p \in products,
             IsMetric(f), Qualifies(p), p.t \in Registered[f], f \in MetricsFor(p.t), ~Counts(p, f)
      PROVE  "excluded" \in claims.limits
  <2>1. Compares /\ f \in MetricFields(p.t)  BY <1>3 DEF Compares, MetricFields
  <2>2. ValueOf(p, f) \in MetricValues  BY <1>3, <2>1, MetricValuesAre
  <2>3. ValueOf(p, f) \notin PolicyValues  BY <1>3, <2>1, PolicyValuesAre
  <2>4. policy.valid # policy.metric  BY <1>1, <2>2, <2>3
  <2> QED BY <1>1, <2>4 DEF Limits
<1> QED BY <1>2, <1>3 DEF Disclosed

\* No row comes before itself, so that a row always has a place among its own.
LEMMA NoneBeforeItself ==
    ASSUME Settled, NEW p \in products, NEW I \in SUBSET DOMAIN plan.sort
    PROVE  ~SortsBefore(I, p, p)
<1>1. Catalogue(products) /\ Legal(plan)  BY DEF Settled
<1>2. p.t \in TypeSet /\ p.id \in Nat /\ p.val \in [FieldSet -> Int] /\ TypeAt(p.t) \in 1..4
  BY <1>1, ProductFacts, Kinds
<1>3. ~ListedBefore(p, p)  BY <1>2 DEF ListedBefore
<1>4. \A i \in I : p.val[plan.sort[i].f] \in Int  BY <1>1, <1>2, PlanFacts
<1> QED BY <1>3, <1>4 DEF SortsBefore, Null

\* A row is among the first N of a set of N rows.
LEMMA RoomForAll ==
    ASSUME NEW S, IsFiniteSet(S), NEW p \in S, NEW T \in SUBSET S, p \notin T, NEW n \in Nat, Cardinality(S) <= n
    PROVE  Cardinality(T) < n
<1>1. IsFiniteSet(T) /\ Cardinality(T) <= Cardinality(S) /\ Cardinality(T) # Cardinality(S)
  BY FS_Subset
<1> QED BY <1>1, FS_CardinalityType

\* What has room is shown (PolicyEngine._select, _bounded_source_rows).
LEMMA RoomIsUsed == ASSUME Settled PROVE Displayed
<1> DEFINE out == {q \in products : Matches(q) /\ ~InState(q)}
<1> SUFFICES ASSUME ~Compares, NEW f \in ToSet(plan.metrics), NEW p \in products, p.t \in Registered[f]
             PROVE  /\ Qualifies(p)
                         /\ Cardinality({q \in products : Qualifies(q) /\ (PerType => q.t = p.t)}) <= plan.topk
                         => Stated(p, f) \in claims.values
                    /\ (/\ AsksForSource /\ p \in out /\ Cardinality(out) <= plan.topk
                        /\ Cardinality(evidence.records \ evidence.lens) + Cardinality(out) <= MaxRecords)
                         => Stated(p, f) \in claims.source
  BY DEF Displayed
<1>1. Catalogue(products) /\ Legal(plan)  BY DEF Settled
<1>2. /\ SourceRows = {q \in products : Matches(q)} /\ IncludedRows = {q \in products : Qualifies(q)}
      /\ \A q \in products : Qualifies(q) <=> Matches(q) /\ InState(q)
      /\ \A q \in products : Matches(q) => q.t \in segments
      /\ IsFiniteSet(SourceRows) /\ IsFiniteSet(IncludedRows)
  BY RowsAreMatches
<1>3. FieldRows = IncludedRows  BY DEF FieldRows
<1>4. ~Ranks /\ plan.intent # "aggregate" /\ ~Targeted  BY <1>1, PlanFacts DEF Compares
<1>5. plan.topk \in Nat  BY <1>1, PlanFacts
<1>6. ASSUME Qualifies(p), Cardinality({q \in products : Qualifies(q) /\ (PerType => q.t = p.t)}) <= plan.topk
      PROVE  Stated(p, f) \in claims.values
  <2> DEFINE S == {q \in products : Qualifies(q) /\ (PerType => q.t = p.t)}
  <2>1. S \subseteq IncludedRows /\ p \in S  BY <1>2, <1>6
  <2>2. IsFiniteSet(S)  BY <1>2, <2>1, FS_Subset
  <2>3. \A I \in SUBSET DOMAIN plan.sort : p \in TopRows(S, I)
    <3> TAKE I \in SUBSET DOMAIN plan.sort
    <3> DEFINE T == {q \in S : SortsBefore(I, q, p)}
    <3>1. T \in SUBSET S /\ p \notin T  BY NoneBeforeItself
    <3>2. Cardinality(S) <= plan.topk  BY <1>6
    <3> HIDE DEF S, T
    <3>3. Cardinality(T) < plan.topk  BY <1>5, <2>1, <2>2, <3>1, <3>2, RoomForAll
    <3> QED BY <2>1, <3>3 DEF TopRows, T
  <2>4. p \in policy.selected
    <3>1. policy.selected = IF ~PerType THEN TopRows(FieldRows, DOMAIN plan.sort)
                            ELSE UNION {TopRows({q \in FieldRows : q.t = t}, SortFor(t)) : t \in segments}
      BY Handed
    <3>2. CASE ~PerType
      <4>1. S = FieldRows  BY <1>2, <1>3, <3>2
      <4> QED BY <2>3, <3>1, <3>2, <4>1
    <3>3. CASE PerType
      <4>1. S = {q \in FieldRows : q.t = p.t}  BY <1>2, <1>3, <3>3
      <4>2. p.t \in segments /\ SortFor(p.t) \in SUBSET DOMAIN plan.sort  BY <1>2, <1>6 DEF SortFor
      <4> DEFINE top(t) == TopRows({q \in FieldRows : q.t = t}, SortFor(t))
      <4>3. p \in top(p.t)
        <5> HIDE DEF S
        <5> QED BY <2>3, <4>1, <4>2
      <4>4. policy.selected = UNION {top(t) : t \in segments}  BY <3>1, <3>3
      <4> HIDE DEF top
      <4> QED BY <4>2, <4>3, <4>4
    <3> QED BY <3>2, <3>3
  <2>5. p \in Records /\ p \notin LensRecords
    <3>1. p \in OwnRecords  BY <1>4, <2>4 DEF OwnRecords, FirstRecords, BoundedRows
    <3> QED BY <3>1, <2>1, RecordsAre
  <2>6. f \in Shown(p.t)  BY <1>4 DEF Shown, Asked
  <2>7. evidence.ranks = {}
    <3>1. BoundedRanks = {}  BY <1>4, RanksAre
    <3>2. FieldRanks = {}  BY <1>4 DEF FieldRanks
    <3> QED BY <3>1, <3>2, Handed
  <2>8. claims.values = ValueClaims /\ evidence.records = Records /\ evidence.lens = LensRecords  BY Handed
  <2>9. Stated(p, f) \in UNION {{Stated(q, g) : g \in Shown(q.t)} : q \in evidence.records \ SourceStated}
    BY <2>5, <2>6, <2>8 DEF SourceStated
  <2> QED BY <1>4, <2>7, <2>8, <2>9 DEF ValueClaims
<1>7. ASSUME AsksForSource, p \in out, Cardinality(out) <= plan.topk,
             Cardinality(evidence.records \ evidence.lens) + Cardinality(out) <= MaxRecords
      PROVE  Stated(p, f) \in claims.source
  <2>1. /\ policy.source = SourceRows /\ policy.included = IncludedRows /\ claims.source = SourceClaims
        /\ evidence.records = Records /\ evidence.lens = LensRecords
    BY Handed
  <2>2. policy.source \ policy.included = out /\ policy.source # policy.included  BY <1>2, <1>7, <2>1
  <2>3. plan.metrics # <<>>  BY DEF ToSet
  <2>4. SourceLens  BY <1>7, <2>2 DEF SourceLens, AsksForSource
  <2> DEFINE room == Min({plan.topk, Max({0, MaxRecords - Cardinality(OwnRecords)})})
             ahead(a, b) == TypeAt(a.t) < TypeAt(b.t) \/ (a.t = b.t /\ SortsBefore(SortFor(a.t), a, b))
  <2>5. LensRecords = {a \in out : Cardinality({q \in out : ahead(q, a)}) < room}
    BY <1>4, <2>2, <2>3, <2>4 DEF LensRecords, SourceOnly
  <2>6. IsFiniteSet(out) /\ Cardinality(out) \in Nat
    <3>1. out \subseteq SourceRows  BY <1>2
    <3> QED BY <1>2, <3>1, FS_Subset, FS_CardinalityType
  <2>7. Cardinality(OwnRecords) \in Nat
    BY <1>2, RecordsAre, FS_Subset, FS_CardinalityType
  <2>8. evidence.records \ evidence.lens = OwnRecords  BY <2>1, RecordsAre
  <2>9. room \in Nat /\ Cardinality(out) <= room
    <3> DEFINE free == MaxRecords - Cardinality(OwnRecords)
               m == Max({0, free})
    <3>1. MaxRecords \in Nat  BY AnsweringAssumption
    <3>2. free \in Int /\ Cardinality(out) <= free
      <4> HIDE DEF out
      <4>1. Cardinality(OwnRecords) + Cardinality(out) <= MaxRecords  BY <1>7, <2>8
      <4> QED BY <2>6, <2>7, <3>1, <4>1
    <3> HIDE DEF free
    <3>3. m \in Nat /\ free <= m
      <4>1. \E x \in {0, free} : \A y \in {0, free} : x >= y  BY <3>2
      <4> QED BY <3>2, <4>1 DEF Max
    <3>4. room \in {plan.topk, m} /\ \A y \in {plan.topk, m} : room <= y
      <4> HIDE DEF m
      <4>1. \E x \in {plan.topk, m} : \A y \in {plan.topk, m} : x <= y  BY <1>5, <3>3
      <4>2. Min({plan.topk, m}) \in {plan.topk, m} /\ \A y \in {plan.topk, m} : Min({plan.topk, m}) <= y
        BY <4>1 DEF Min
      <4> QED BY <4>2 DEF m, free
    <3> HIDE DEF m, room
    <3> QED BY <1>5, <1>7, <2>6, <3>2, <3>3, <3>4
  <2>10. ~ahead(p, p)
    <3>1. TypeAt(p.t) \in 1..4  BY <1>1, ProductFacts, Kinds
    <3>2. ~SortsBefore(SortFor(p.t), p, p)  BY NoneBeforeItself DEF SortFor
    <3> QED BY <3>1, <3>2
  <2>11. p \in LensRecords
    <3> DEFINE T == {q \in out : ahead(q, p)}
    <3>1. T \in SUBSET out /\ p \notin T  BY <2>10
    <3> HIDE DEF T, out, room
    <3>2. Cardinality(T) < room  BY <1>7, <2>6, <2>9, <3>1, RoomForAll
    <3> QED BY <1>7, <2>5, <3>2 DEF T
  <2>12. Stated(p, f) \in UNION {{Stated(q, g) : g \in SourceFields(q.t)} : q \in SourceStated}
    <3>1. f \in SourceFields(p.t)  BY <1>4 DEF SourceFields, FieldsFor, MetricsFor
    <3>2. p \in SourceStated  BY <2>1, <2>11, <3>1 DEF SourceStated
    <3> QED BY <3>1, <3>2
  <2> QED BY <2>1, <2>12 DEF SourceClaims
<1> QED BY <1>6, <1>7

(***************************************************************************)
(* Aggregates.                                                             *)
(***************************************************************************)

\* The products of a group and its values.
GroupProducts(t, c, g) ==
    {p \in products : /\ Qualifies(p) /\ p.t = t /\ (c \in {"all", "none"} \/ p.cur = c)
                      /\ \A f \in DOMAIN g : p.val[f] = g[f]}
GroupValues(t, c, g) == {x \in AggregateValues(t) : x.id \in {p.id : p \in GroupProducts(t, c, g)}}

LEMMA GroupIs ==
    ASSUME Settled, plan.agg # <<>>, NEW t \in segments, NEW c, NEW g \in Groups(t, c)
    PROVE  /\ {p \in PartitionRows(t, c) : GroupOf(p) = g} = GroupProducts(t, c, g)
           /\ \A f : AggFields = {f} /\ IsMetric(f) =>
                 GroupValues(t, c, g) = {ValueOf(p, f) : p \in {q \in GroupProducts(t, c, g) : Counts(q, f)}}
<1> DEFINE R == GroupProducts(t, c, g)
           V == {p \in R : \A f \in AggFields : Counts(p, f)}
<1> USE DEF GroupProducts
<1>1. Catalogue(products) /\ Legal(plan) /\ IncludedRows = {p \in products : Qualifies(p)}
  BY RowsAreMatches DEF Settled
<1>2. DOMAIN g = AggBy /\ g = [f \in AggBy |-> g[f]]
  <2>1. CASE g \in {GroupOf(p) : p \in PartitionRows(t, c)}  BY <2>1 DEF GroupOf
  <2>2. CASE AggBy = {} /\ g = [f \in {} |-> 0]
    <3>1. DOMAIN g = AggBy  BY <2>2
    <3>2. g = [f \in DOMAIN g |-> g[f]]  BY <2>2
    <3> QED BY <3>1, <3>2
  <2> QED BY <2>1, <2>2 DEF Groups
<1>3. \A p : GroupOf(p) = g <=> \A f \in DOMAIN g : p.val[f] = g[f]
  <2> TAKE p
  <2>1. GroupOf(p) = g => \A f \in DOMAIN g : p.val[f] = g[f]  BY <1>2 DEF GroupOf
  <2>2. (\A f \in DOMAIN g : p.val[f] = g[f]) => [f \in AggBy |-> p.val[f]] = [f \in AggBy |-> g[f]]  BY <1>2
  <2> QED BY <1>2, <2>1, <2>2 DEF GroupOf
<1>4. {p \in PartitionRows(t, c) : GroupOf(p) = g} = R  BY <1>1, <1>3 DEF PartitionRows
<1>5. ASSUME NEW f, AggFields = {f}, IsMetric(f)
      PROVE  GroupValues(t, c, g) = {ValueOf(p, f) : p \in {q \in GroupProducts(t, c, g) : Counts(q, f)}}
  <2>1. Compares /\ f \in MetricFields(t)  BY <1>1, <1>5, PlanFacts DEF Compares, MetricFields
  <2>2. ASSUME NEW x \in AggregateValues(t), x.id \in {p.id : p \in R}
        PROVE  x \in {ValueOf(p, f) : p \in V}
    <3>1. x \in PolicyValues /\ x.t = t /\ x.f = f  BY <1>5 DEF AggregateValues
    <3>2. PICK p \in products : \E h \in MetricFields(p.t) : Counts(p, h) /\ x = ValueOf(p, h)
      BY <2>1, <3>1, PolicyValuesAre
    <3>3. x = ValueOf(p, f) /\ Counts(p, f) /\ p.t = t /\ x.id = p.id  BY <3>1, <3>2 DEF ValueOf
    <3>4. PICK q \in R : q.id = x.id  BY <2>2
    <3>5. p = q  BY <1>1, <3>3, <3>4, ProductFacts
    <3>6. p \in V  BY <1>5, <3>3, <3>4, <3>5
    <3> QED BY <3>3, <3>6
  <2>3. ASSUME NEW p \in V
        PROVE  ValueOf(p, f) \in AggregateValues(t) /\ ValueOf(p, f).id \in {q.id : q \in R}
    <3>1. p \in products /\ p.t = t /\ Counts(p, f) /\ p \in R  BY <1>5
    <3>2. ValueOf(p, f) \in PolicyValues  BY <1>5, <2>1, <3>1, PolicyValuesAre
    <3>3. ValueOf(p, f).t = t /\ ValueOf(p, f).f = f /\ ValueOf(p, f).id = p.id  BY <3>1 DEF ValueOf
    <3> QED BY <1>5, <3>1, <3>2, <3>3 DEF AggregateValues
  <2>4. V = {q \in R : Counts(q, f)}  BY <1>5
  <2>5. GroupValues(t, c, g) = {x \in AggregateValues(t) : x.id \in {p.id : p \in R}}  BY DEF GroupValues
  <2> HIDE DEF R, V
  <2> QED BY <2>2, <2>3, <2>4, <2>5 DEF R
<1> QED BY <1>4, <1>5

\* An aggregate is taken over exactly the products of its group that count, and
\* what it leaves out is disclosed (PolicyEngine._aggregate).
LEMMA AggregatesAreTrue == ASSUME Settled PROVE AggregatesTrue
<1> SUFFICES ASSUME NEW a \in claims.aggs
             PROVE
               LET R == {p \in products : /\ Qualifies(p) /\ p.t = a.t /\ (a.cur \in {"all", "none"} \/ p.cur = a.cur)
                                          /\ \A f \in DOMAIN a.group : p.val[f] = a.group[f]}
                   V == {p \in R : Counting \/ \A f \in AggFields : Counts(p, f)}
               IN /\ a.incl = Cardinality(V)
                  /\ IF Counting THEN a.value = <<Cardinality(R)>> ELSE AggregateIs(a.value, V)
                  /\ V # R => "partial aggregate" \in claims.limits
  BY DEF AggregatesTrue
<1> DEFINE R == GroupProducts(a.t, a.cur, a.group)
           V == {p \in R : Counting \/ \A f \in AggFields : Counts(p, f)}
           rest == IF AggBy = {} THEN Cardinality({p \in SourceRows \ IncludedRows : p.t = a.t}) ELSE 0
           X == GroupValues(a.t, a.cur, a.group)
<1>1. Catalogue(products) /\ Legal(plan)  BY DEF Settled
<1>2. a \in policy.aggs /\ a.value # <<>>  BY Handed DEF AggregateClaims
<1>3. /\ policy.aggs = IF plan.agg = <<>> THEN {}
                       ELSE UNION {UNION {AggregatesOf(t, c) : c \in Partitions(t)} : t \in segments}
      /\ claims.limits = Limits(Records)
  BY Handed
<1>4. plan.agg # <<>> /\ plan.intent = "aggregate"  BY <1>1, <1>2, <1>3, PlanFacts
<1>5. \E t \in segments : \E c \in Partitions(t) : \E g \in Groups(t, c) : a = AggregateOf(t, c, g)
  <2>1. PICK t \in segments : a \in UNION {AggregatesOf(t, c) : c \in Partitions(t)}  BY <1>2, <1>3, <1>4
  <2>2. PICK c \in Partitions(t) : a \in AggregatesOf(t, c)  BY <2>1
  <2> QED BY <2>2 DEF AggregatesOf
<1>6. /\ a.t \in segments /\ a.cur \in Partitions(a.t) /\ a.group \in Groups(a.t, a.cur)
      /\ a = AggregateOf(a.t, a.cur, a.group)
  <2>1. \A t, c, g : AggregateOf(t, c, g).t = t /\ AggregateOf(t, c, g).cur = c /\ AggregateOf(t, c, g).group = g
    BY DEF AggregateOf
  <2> QED BY <1>5, <2>1
<1>7. {p \in PartitionRows(a.t, a.cur) : GroupOf(p) = a.group} = R  BY <1>4, <1>6, GroupIs
<1>8. /\ a.incl = IF Counting THEN Cardinality(R) ELSE Cardinality(X)
      /\ a.value = IF Counting THEN <<Cardinality(R)>> ELSE Aggregated(X)
      /\ a.excl = Cardinality(R) - a.incl + rest
  <2> DEFINE A == {p \in PartitionRows(a.t, a.cur) : GroupOf(p) = a.group}
             W == {x \in AggregateValues(a.t) : x.id \in {p.id : p \in A}}
             n == IF Counting THEN Cardinality(A) ELSE Cardinality(W)
             agg == [t |-> a.t, cur |-> a.cur, group |-> a.group, incl |-> n,
                     value |-> IF Counting THEN <<Cardinality(A)>> ELSE Aggregated(W),
                     excl |-> Cardinality(A) - n + rest]
  <2>1. AggregateOf(a.t, a.cur, a.group) = agg  BY DEF AggregateOf
  <2>2. agg.incl = n /\ agg.excl = Cardinality(A) - n + rest
        /\ agg.value = IF Counting THEN <<Cardinality(A)>> ELSE Aggregated(W)
    OBVIOUS
  <2>3. A = R /\ W = X  BY <1>7 DEF GroupValues
  <2> HIDE DEF A, W, R, X, rest, agg
  <2> QED BY <1>6, <2>1, <2>2, <2>3
<1>9. IsFiniteSet(R) /\ Cardinality(R) \in Nat /\ rest \in Nat
  <2>1. R \subseteq products  BY DEF GroupProducts
  <2>2. {p \in SourceRows \ IncludedRows : p.t = a.t} \subseteq SourceRows  OBVIOUS
  <2> HIDE DEF R
  <2> QED BY <2>1, <2>2, RowsAreMatches, FS_Subset, FS_CardinalityType
<1>10. /\ plan.agg[1].fn \in {"count", "min", "max", "sum", "avg"}
       /\ plan.agg[1].fn = "count" <=> plan.agg[1].f = "count"
  BY <1>1, <1>4, AggregateFacts
<1>11. CASE Counting
  <2>1. V = R  BY <1>11
  <2> HIDE DEF R, V
  <2> QED BY <1>8, <1>11, <2>1 DEF R, V, GroupProducts
<1>12. CASE ~Counting
  <2> DEFINE f == plan.agg[1].f
  <2>1. AggFields = {f} /\ plan.agg[1].fn # "count"  BY <1>4, <1>10, <1>12 DEF Counting, AggFields
  <2>2. X # {}  BY <1>2, <1>8, <1>12 DEF Aggregated
  <2>3. IsMetric(f)
    <3>1. PICK x \in PolicyValues : x.f = f  BY <2>1, <2>2 DEF GroupValues, AggregateValues
    <3>2. \E p \in products : \E h \in MetricFields(p.t) : IsMetric(h) /\ x = ValueOf(p, h)
      BY <1>4, PolicyValuesAre DEF Compares
    <3> QED BY <3>1, <3>2 DEF ValueOf
  <2>4. X = {ValueOf(p, f) : p \in V}
    <3>1. V = {p \in R : Counts(p, f)}  BY <1>12, <2>1
    <3>2. X = {ValueOf(p, f) : p \in {q \in R : Counts(q, f)}}  BY <1>4, <1>6, <2>1, <2>3, GroupIs
    <3> HIDE DEF R, V, X, f
    <3> QED BY <3>1, <3>2
  <2>5. V \in SUBSET products /\ V \in SUBSET R  BY DEF GroupProducts
  <2>6. plan.agg[1].fn \in {"min", "max", "sum", "avg"}  BY <1>10, <2>1
  <2> HIDE DEF R, V, X, f, rest
  <2>7. V # {}  BY <2>2, <2>4
  <2>8. AggregateIs(Aggregated(X), V) /\ Cardinality(X) = Cardinality(V)
    BY <1>1, <1>4, <2>4, <2>5, <2>6, <2>7, AggregateOfProducts DEF f
  <2>9. Cardinality(V) \in Nat  BY <1>1, <2>5, ValuesCount
  <2>10. V # R => "partial aggregate" \in claims.limits
    <3> SUFFICES ASSUME V # R PROVE "partial aggregate" \in claims.limits
      OBVIOUS
    <3>1. Cardinality(V) < Cardinality(R)  BY <1>9, <2>5, <2>9, FS_Subset
    <3>2. a.excl > 0  BY <1>8, <1>9, <1>12, <2>8, <2>9, <3>1
    <3> QED BY <1>2, <1>3, <3>2 DEF Limits
  <2> QED BY <1>8, <1>12, <2>8, <2>10 DEF R, V, GroupProducts
<1> QED BY <1>11, <1>12

(***************************************************************************)
(* What an answer states is true.                                          *)
(***************************************************************************)

\* Every answer the service gives is true of the catalogue: ranks, ties,
\* aggregates, values, what is shown and what is disclosed (_answer_plan).
THEOREM AnswersAreTrue == QSpec => []AnswerTrue
<1>1. AnswerInv => AnswerTrue
  <2> SUFFICES ASSUME AnswerInv, reply = "answered", plan.intent # "clarify"
               PROVE  RanksTrue /\ RanksComplete /\ AggregatesTrue /\ ValuesTrue /\ Displayed /\ Disclosed
    BY DEF AnswerTrue
  <2>1. Settled  BY IsSettled
  <2> QED BY <2>1, RanksAreTrue, RanksAreComplete, AggregatesAreTrue, ValuesAreTrue, RoomIsUsed, LimitsAreDisclosed
<1> QED BY <1>1, AnswerKeeps, PTL
=============================================================================
