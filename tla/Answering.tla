------------------------------ MODULE Answering ------------------------------
(* From a query plan to an answer (service/answer_service.py and the packages it
   calls): entities are resolved, the plan is validated and cut into one segment
   per product type, the segments are executed, the policy engine decides which
   rows and values count and ranks or aggregates them, the evidence builder
   bounds what is shown, the renderer states claims, the verifier and the fact
   pack admit them.  Every stage may refuse, and the deadline may pass between
   stages.

   A product has a number or Null for each field.  ETF stands for ETF and ETN,
   ret for the one-year return (not registered for overseas products), aum for
   the metric that carries a currency; name, region and sale (the flag saleable,
   1, 0 or Null) for fields that are no metric.  Values of such fields stand for
   texts in their order.  Wording, units, locators and hashes are left out.   *)
EXTENDS Integers, Sequences, FiniteSets, FiniteSetsExt, SequencesExt

CONSTANTS
    Catalogs,       \* sets of products, see Shape
    Plans,          \* query plans, see PlanShape
    MaxCandidates,  \* _CANDIDATE_LIMIT: rows of one segment
    MaxFields,      \* fields of a record whose evidence is fetched
    MaxRecords,     \* records whose evidence is fetched
    MaxTable,       \* max_table_rows: records behind an aggregate
    MaxDirect,      \* EvidenceBundle.direct
    MaxSummaries,   \* EvidenceBundle.summaries
    MaxClaims       \* claims of one answer (the size of the fact pack)

VARIABLES
    products,  \* the catalogue of the runtime session
    plan,
    step,      \* the next stage
    resolved,  \* entity mention -> the product it selects, as a set of at most one
    segments,  \* product types with a segment
    raw,       \* rows the segments returned
    policy,    \* what the policy engine decided
    evidence,  \* what the evidence builder issued
    claims,    \* what the answer states
    reply,     \* "none", "answered", "refused", "timeout"
    reason

qvars == <<products, plan, step, resolved, segments, raw, policy, evidence, claims, reply, reason>>

Null      == -1
TypeOrder == <<"bond", "etf", "overseas", "fund">>
TypeAt(t) == CHOOSE i \in DOMAIN TypeOrder : TypeOrder[i] = t

\* FieldRegistry: the product types a field is projected for, and which of the
\* fields are metrics.  The aum of two product types has two periods.
Registered == [yield |-> {"bond"}, ret |-> {"etf", "fund"}, aum |-> {"etf", "overseas", "fund"},
               region |-> {"etf", "overseas", "fund"}, name |-> ToSet(TypeOrder),
               sale |-> {"etf", "overseas", "fund"}]
IsMetric(f)  == f \in {"yield", "ret", "aum"}
Period(f, t) == IF f = "aum" THEN t ELSE "any"

Shape == [t : ToSet(TypeOrder), id : Nat, alt : Nat, val : [DOMAIN Registered -> Int], cur : {"KRW", "USD"},
          trust : BOOLEAN, ok : BOOLEAN, holds : SUBSET Nat, cover : {"full", "partial", "none"}]
\* QueryPlan and its validators.  "lookup" and "explain" are executed as "screen".
PlanShape == {"intent", "types", "ents", "filters", "metrics", "targets", "sort", "agg", "topk", "scope", "hold"}
Intents   == {"lookup", "screen", "screen_rank", "compare", "aggregate", "explain", "clarify"}
Legal(q) ==
    /\ DOMAIN q = PlanShape /\ q.intent \in Intents /\ q.scope \in {"each", "global"}
    /\ q.topk \in Nat \ {0} /\ q.hold \in Nat
    /\ q.types \in Seq(ToSet(TypeOrder)) /\ IsInjective(q.types)
    /\ q.ents \in Seq([text : Nat, kind : {"any", "id", "alt", "name"}])
    /\ q.filters \subseteq [f : DOMAIN Registered, op : {"missing", "present", "gte", "eq"}, v : Int]
    /\ q.metrics \in Seq(DOMAIN Registered) /\ IsInjective(q.metrics)
    /\ q.sort \in Seq([f : DOMAIN Registered, desc : BOOLEAN])
    /\ q.targets = <<>> \/ /\ q.intent = "screen_rank" /\ q.scope = "each" /\ q.types # <<>>
                           /\ q.targets \in [ToSet(q.types) -> Seq(DOMAIN Registered)]
                           /\ \A t \in ToSet(q.types) : q.targets[t] # <<>>
                           /\ UNION {ToSet(q.targets[t]) : t \in ToSet(q.types)} = ToSet(q.metrics)
    /\ q.agg \in Seq([fn : {"count", "min", "max", "sum", "avg"}, f : DOMAIN Registered \cup {"count"},
                      by : Seq(DOMAIN Registered)])
    /\ Len(q.agg) = IF q.intent = "aggregate" THEN 1 ELSE 0
    /\ \A i \in DOMAIN q.agg : (q.agg[i].fn = "count" <=> q.agg[i].f = "count") /\ IsInjective(q.agg[i].by)

\* Identifiers are the keys of the product tables; a listed product of the
\* domestic market has a purchasable state only if it is flagged saleable; a
\* product whose holdings are unavailable has no holding row.
Catalogue(S) ==
    /\ S \subseteq Shape /\ IsFiniteSet(S)
    /\ \A p, q \in S : p.t = q.t /\ p.id = q.id => p = q
    /\ \A p \in S : /\ p.t = "etf" /\ p.ok => p.val["sale"] = 1
                    /\ p.cover = "none" => p.holds = {}

ASSUME AnsweringAssumption ==
    /\ {MaxCandidates, MaxFields, MaxRecords, MaxTable, MaxDirect, MaxSummaries, MaxClaims} \subseteq Nat
    /\ \A S \in Catalogs : Catalogue(S)
    /\ \A q \in Plans : Legal(q)

QInit ==
    /\ products \in Catalogs /\ plan \in Plans /\ step = "resolve"
    /\ resolved = <<>> /\ segments = {} /\ raw = {} /\ policy = <<>> /\ evidence = <<>> /\ claims = <<>>
    /\ reply = "none" /\ reason = "none"

-----------------------------------------------------------------------------
Types     == ToSet(plan.types)
Sorts(s)  == {s[i].f : i \in DOMAIN s}
AggFields == IF plan.agg # <<>> /\ plan.agg[1].f # "count" THEN {plan.agg[1].f} ELSE {}
AggBy     == IF plan.agg # <<>> THEN ToSet(plan.agg[1].by) ELSE {}
Filtered  == {c.f : c \in plan.filters}
Asked     == Filtered \cup ToSet(plan.metrics) \cup Sorts(plan.sort) \cup AggFields \cup AggBy
PerType      == plan.scope = "each"
Ranks     == plan.intent = "screen_rank"
Compares  == Ranks \/ plan.intent = "aggregate"      \* Operation.RANK or AGGREGATE
Targeted  == DOMAIN plan.targets # {}

\* _matches: a missing value meets no condition but IS_MISSING.
Meets(p, c) ==
    LET v == p.val[c.f]
    IN CASE c.op = "missing" -> v = Null
         [] c.op = "present" -> v # Null
         [] c.op = "gte"     -> v # Null /\ v >= c.v
         [] c.op = "eq"      -> v # Null /\ v = c.v

Refusing(why) ==
    /\ reply' = "refused" /\ reason' = why /\ step' = "end"
    /\ UNCHANGED <<resolved, segments, raw, policy, evidence, claims>>
Going(next) == step' = next /\ UNCHANGED <<reply, reason>>

\* EntityResolver.resolve: an identifier selects the first product in the order
\* of the plan's types, a name only if it is the name of one product.
FirstOf(S) ==
    CHOOSE p \in S : \A q \in S :
        LET at(x) == CHOOSE i \in DOMAIN plan.types : plan.types[i] = x.t
        IN at(p) < at(q) \/ (at(p) = at(q) /\ p.id <= q.id)
Resolution(m) ==
    LET pool  == {p \in products : p.t \in Types}
        byId  == {p \in pool : m.kind \in {"any", "id"} /\ p.id = m.text}
        byAlt == {p \in pool : m.kind \in {"any", "alt"} /\ p.alt = m.text}
        names == {p \in pool : m.kind \in {"any", "name"} /\ p.val["name"] = m.text}
    IN IF byId # {} THEN {FirstOf(byId)}
       ELSE IF byAlt # {} THEN {FirstOf(byAlt)}
       ELSE IF Cardinality(names) = 1 THEN names ELSE {}

\* HoldingResolver: without any holding row the text stands for itself.
HoldingKnown == LET rows0 == UNION {p.holds : p \in products} IN rows0 = {} \/ plan.hold \in rows0

\* EntityIndex.from_session refuses a catalogue with a nameless product.
Indexable == \A p \in products : p.val["name"] # Null

Resolve ==
    /\ step = "resolve"
    /\ IF plan.intent = "clarify"
       THEN Going("render") /\ evidence' = [limits |-> {}]
            /\ UNCHANGED <<resolved, segments, raw, policy, claims>>
       ELSE IF plan.ents # <<>> /\ ~Indexable
       THEN Refusing("entity index")
       ELSE /\ resolved' = [i \in DOMAIN plan.ents |-> Resolution(plan.ents[i])] /\ Going("validate")
            /\ UNCHANGED <<segments, raw, policy, evidence, claims>>
    /\ UNCHANGED <<products, plan>>

\* field_registry.yaml: the conditions, sorts and aggregates a field allows.
Allowed ==
    /\ \A c \in plan.filters : IsMetric(c.f) \/ c.op = "eq"
    /\ "sale" \notin Sorts(plan.sort)
    /\ \A f \in AggFields : IsMetric(f) /\ (plan.agg[1].fn = "sum" => f = "aum")

\* SemanticValidator.validate
Validate ==
    /\ step = "validate"
    /\ IF /\ Allowed /\ ("sale" \in Asked => Types \cap {"overseas", "fund"} = {})
          /\ \A i \in DOMAIN resolved : resolved[i] # {}
          /\ plan.hold # 0 => "bond" \notin Types /\ HoldingKnown
          /\ \A f \in Asked : Registered[f] \cap Types # {}
          /\ \A t \in DOMAIN plan.targets : \A f \in ToSet(plan.targets[t]) : t \in Registered[f]
       THEN Going("segment") /\ UNCHANGED <<resolved, segments, raw, policy, evidence, claims>>
       ELSE Refusing("validation")
    /\ UNCHANGED <<products, plan>>

-----------------------------------------------------------------------------
\* ExecutionBundleBuilder: what the plan asks of one product type.  A filter, a
\* metric or a sort is dropped for a type it is not registered for.
Prunes        == ~Targeted /\ "ret" \in Asked /\ "overseas" \in Types
FiltersFor(t) == {c \in plan.filters : t \in Registered[c.f]}
MetricsFor(t) == IF Targeted THEN ToSet(plan.targets[t]) ELSE {f \in ToSet(plan.metrics) : t \in Registered[f]}
Keeps(t, f)   == t \in Registered[f] /\ (~Targeted \/ f \notin ToSet(plan.metrics) \/ f \in ToSet(plan.targets[t]))
SortFor(t)    == {i \in DOMAIN plan.sort : Keeps(t, plan.sort[i].f)}     \* by their places
SortsFor(t)   == {plan.sort[i].f : i \in SortFor(t)}
IdsFor(t)     == {p.id : p \in {q \in UNION {resolved[i] : i \in DOMAIN resolved} : q.t = t}}
FieldsFor(t)  == {c.f : c \in FiltersFor(t)} \cup MetricsFor(t) \cup SortsFor(t) \cup AggFields \cup AggBy
WithCurrency(t) == "aum" \in FieldsFor(t)                 \* QueryAst adds the currency
HasMetric(t)  == \E f \in MetricsFor(t) : IsMetric(f)

\* _comparison_partitions
Counting == plan.agg # <<>> /\ plan.agg[1].f = "count"
ComparisonKeys(t) ==
    (IF Counting THEN {<<"count", t>>} ELSE {})
      \cup {<<f, IF IsMetric(f) THEN Period(f, t) ELSE "field">> :
              f \in (IF Counting THEN {} ELSE MetricsFor(t)) \cup SortsFor(t) \cup AggFields}

Segment ==
    /\ step = "segment"
    /\ LET ts == {t \in Types : ~(Prunes /\ t = "overseas")}
       IN IF \E t \in ts : \E f \in AggFields : t \notin Registered[f]
          THEN Refusing("aggregate field")
          ELSE IF /\ ~PerType /\ (plan.sort # <<>> \/ plan.intent = "aggregate")
                  /\ Cardinality(UNION {ComparisonKeys(t) : t \in ts}) # 1
          THEN Refusing("one partition")
          ELSE /\ segments' = ts /\ Going("execute")
               /\ UNCHANGED <<resolved, raw, policy, evidence, claims>>
    /\ UNCHANGED <<products, plan>>

\* SqlCompiler and ProductRepository: only the conditions on fields that are no
\* metric are compiled, with the entities and the holding condition.
RowsOf(t) ==
    {p \in products :
        /\ p.t = t
        /\ \A c \in FiltersFor(t) : IsMetric(c.f) \/ Meets(p, c)
        /\ IdsFor(t) # {} => p.id \in IdsFor(t)
        /\ plan.hold # 0 => plan.hold \in p.holds}

Execute ==
    /\ step = "execute"
    /\ IF \E t \in segments : \E f \in AggBy : t \notin Registered[f]
       THEN Refusing("group field")
       ELSE IF \E t \in segments : Cardinality(RowsOf(t)) > MaxCandidates
       THEN Refusing("candidates")
       ELSE /\ raw' = UNION {RowsOf(t) : t \in segments} /\ Going("policy")
            /\ UNCHANGED <<resolved, segments, policy, evidence, claims>>
    /\ UNCHANGED <<products, plan>>

-----------------------------------------------------------------------------
\* StatePolicy: listed products of the domestic market and bonds have a state.
InState(p) == p.t \in {"overseas", "fund"} \/ p.ok

\* _metric_values of a row.
ValuesOf(p, F) ==
    {[t |-> p.t, id |-> p.id, f |-> f, v |-> p.val[f], trust |-> p.trust,
      cur |-> IF WithCurrency(p.t) THEN p.cur ELSE "none"] : f \in {g \in F : IsMetric(g)}}
PopulationFields(t) == MetricsFor(t) \cup {c.f : c \in FiltersFor(t)} \cup AggFields
MetricFields(t) ==
    MetricsFor(t) \cup AggFields \cup {c.f : c \in {d \in FiltersFor(t) : d.op \in {"missing", "present"}}}

\* MetricPolicy: a zero aum of a listed product is recorded and not ranked.
ComparisonValid(x) == x.trust /\ ~(Ranks /\ x.v = 0 /\ x.f = "aum" /\ x.t # "fund")

\* CompatibilityPartitioner, within a product type if the scope is per type.
PartitionOf(x) == <<x.f, Period(x.f, x.t), x.cur, IF PerType THEN x.t ELSE "all">>

\* The direction of a partition: that of the first sort by its metric if the scope
\* is per type, else of the plan's first sort.
FirstDescends(f) ==
    \E i \in DOMAIN plan.sort : plan.sort[i].f = f /\ plan.sort[i].desc /\ \A j \in 1..(i - 1) : plan.sort[j].f # f
Descends(x)    == IF PerType THEN FirstDescends(x.f) ELSE plan.sort # <<>> /\ plan.sort[1].desc
Above(x, y)    == IF Descends(x) THEN x.v > y.v ELSE x.v < y.v
ListedBefore(x, y) == x.id < y.id \/ (x.id = y.id /\ TypeAt(x.t) < TypeAt(y.t))

\* Mutant: ranks without gaps.
RankedDense(x, S) ==
    [t |-> x.t, id |-> x.id, f |-> x.f, v |-> x.v, part |-> PartitionOf(x),
     rank |-> 1 + Cardinality({y.v : y \in {z \in S : Above(z, x)}}),
     ties |-> Cardinality({y \in S : y.v = x.v}),
     at   |-> 1 + Cardinality({y \in S : Above(y, x) \/ (y.v = x.v /\ ListedBefore(y, x))})]

\* TiePolicy.rank: competition ranks; equal values are listed by product id.
Ranked(x, S) ==
    [t |-> x.t, id |-> x.id, f |-> x.f, v |-> x.v, part |-> PartitionOf(x),
     rank |-> 1 + Cardinality({y \in S : Above(y, x)}),
     ties |-> Cardinality({y \in S : y.v = x.v}),
     at   |-> 1 + Cardinality({y \in S : Above(y, x) \/ (y.v = x.v /\ ListedBefore(y, x))})]

\* _sort_rows: stable, last key first, a missing value after the others.  The keys
\* are those of the plan's sorts at the places I.
SortsBefore(I, p, q) ==
    LET less(i)  == LET s == plan.sort[i]
                        a == p.val[s.f]
                        b == q.val[s.f]
                    IN a # Null /\ (b = Null \/ (IF s.desc THEN a > b ELSE a < b))
        same(i)  == p.val[plan.sort[i].f] = q.val[plan.sort[i].f]
    IN \/ \E i \in I : less(i) /\ \A j \in I : j < i => same(j)
       \/ (\A i \in I : same(i)) /\ ListedBefore(p, q)
TopRows(S, I) == {p \in S : Cardinality({q \in S : SortsBefore(I, q, p)}) < plan.topk}

\* _aggregate; an average is the pair of sum and count.
Total(N) == MapThenSumSet(LAMBDA n : n[2], N)      \* of pairs of identifier and value
Aggregated(V) ==
    LET vs == {x.v : x \in V}
        total == Total({<<x.id, x.v>> : x \in V})
    IN IF V = {} THEN <<>>
       ELSE CASE plan.agg[1].fn = "min" -> <<Min(vs)>>
              [] plan.agg[1].fn = "max" -> <<Max(vs)>>
              [] plan.agg[1].fn = "sum" -> <<total>>
              [] plan.agg[1].fn = "avg" -> <<total, Cardinality(V)>>
              [] plan.agg[1].fn = "count" -> <<Cardinality(V)>>

\* What the policy engine makes of the rows: those that meet every condition,
\* those in a state that counts, their values, and the values that are compared.
SourceRows     == {p \in raw : \A c \in FiltersFor(p.t) : Meets(p, c)}
IncludedRows   == {p \in SourceRows : InState(p)}
MetricValues   == UNION {ValuesOf(p, MetricFields(p.t)) : p \in IncludedRows}
RecordedValues == {x \in MetricValues : x.v # Null}
PolicyValues   == IF Compares THEN {x \in RecordedValues : ComparisonValid(x)} ELSE RecordedValues
FieldRows      == {p \in IncludedRows : ~Compares \/ ~HasMetric(p.t)}
RankResults    == IF ~Ranks THEN {}
                  ELSE {Ranked(x, {y \in PolicyValues : PartitionOf(y) = PartitionOf(x)}) : x \in PolicyValues}

\* One aggregate per currency of a segment and value of the grouping field.  The
\* rows its state excluded count in each of them unless the segment is grouped.
AggregateValues(t)  == {x \in PolicyValues : x.t = t /\ x.f \in AggFields}
Partitions(t)       == IF AggregateValues(t) = {} THEN {"all"} ELSE {x.cur : x \in AggregateValues(t)}
PartitionRows(t, c) == {p \in IncludedRows : p.t = t /\ (c \in {"all", "none"} \/ p.cur = c)}
GroupOf(p)          == [f \in AggBy |-> p.val[f]]
Groups(t, c)        == {GroupOf(p) : p \in PartitionRows(t, c)} \cup (IF AggBy = {} THEN {[f \in {} |-> 0]} ELSE {})
AggregateOf(t, c, g) ==
    LET R == {p \in PartitionRows(t, c) : GroupOf(p) = g}
        V == {x \in AggregateValues(t) : x.id \in {p.id : p \in R}}
        n == IF Counting THEN Cardinality(R) ELSE Cardinality(V)
    IN [t |-> t, cur |-> c, group |-> g, incl |-> n,
        value |-> IF Counting THEN <<Cardinality(R)>> ELSE Aggregated(V),
        excl |-> Cardinality(R) - n
                   + (IF AggBy = {} THEN Cardinality({p \in SourceRows \ IncludedRows : p.t = t}) ELSE 0)]
\* The order of the groups: as text, or by value if the plan sorts by it, a group
\* without a value last; an average is compared as the quotient it is.
GroupAhead(t, a, b) ==
    LET by     == plan.agg[1].by
        asText == \E i \in DOMAIN by : /\ a.group[by[i]] < b.group[by[i]]
                                       /\ \A j \in 1..(i - 1) : a.group[by[j]] = b.group[by[j]]
        over(x) == IF Len(x.value) = 2 THEN x.value[2] ELSE 1
        gain    == a.value[1] * over(b) - b.value[1] * over(a)
        byValue == SortFor(t) # {} /\ {plan.sort[Min(SortFor(t))].f} = AggFields
    IN IF ~byValue \/ (a.value = <<>> /\ b.value = <<>>) THEN asText
       ELSE /\ a.value # <<>>
            /\ b.value # <<>> => IF gain = 0 THEN asText ELSE plan.sort[Min(SortFor(t))].desc <=> gain > 0
AggregatesOf(t, c) ==
    LET all == {AggregateOf(t, c, g) : g \in Groups(t, c)}
    IN {a \in all : Cardinality({b \in all : GroupAhead(t, b, a)}) < plan.topk}

\* PolicyExecutionResult
PolicyResult ==
    [source   |-> SourceRows,
     included |-> IncludedRows,
     population |-> UNION {ValuesOf(p, PopulationFields(p.t)) : p \in {q \in raw : InState(q)}},
     metric   |-> MetricValues,
     valid    |-> PolicyValues,
     recorded |-> RecordedValues,
     ranks    |-> {r \in RankResults : r.rank <= plan.topk},
     selected |-> IF ~PerType THEN TopRows(FieldRows, DOMAIN plan.sort)
                  ELSE UNION {TopRows({p \in FieldRows : p.t = t}, SortFor(t)) : t \in segments},
     aggs     |-> IF plan.agg = <<>> THEN {}
                  ELSE UNION {UNION {AggregatesOf(t, c) : c \in Partitions(t)} : t \in segments}]

\* PolicyEngine.apply.  A rank needs a sort and a metric of the segment.
ApplyPolicy ==
    /\ step = "policy"
    /\ IF ~PerType /\ Compares /\ Cardinality({PartitionOf(x) : x \in PolicyValues}) > 1
       THEN Refusing("several partitions")
       ELSE IF Ranks /\ \E x \in PolicyValues : x.f \notin MetricsFor(x.t) \/ (PerType /\ x.f \notin SortsFor(x.t))
       THEN Refusing("unsorted metric")
       ELSE IF ~PerType /\ \E p \in FieldRows : \E f \in Sorts(plan.sort) : p.t \notin Registered[f]
       THEN Refusing("unsortable row")
       ELSE /\ policy' = PolicyResult
            /\ Going("evidence") /\ UNCHANGED <<resolved, segments, raw, evidence, claims>>
    /\ UNCHANGED <<products, plan>>

-----------------------------------------------------------------------------
ProductOf(x) == CHOOSE p \in products : p.t = x.t /\ p.id = x.id
Shown(t)     == {f \in Asked : t \in Registered[f]
                               /\ (~Targeted \/ f \notin ToSet(plan.metrics) \/ f \in ToSet(plan.targets[t]))}

\* _bounded_selected_rows: an aggregate shows the records of a few rows.
RowAhead(p, q) == IF PerType THEN TypeAt(p.t) < TypeAt(q.t) \/ (p.t = q.t /\ SortsBefore(SortFor(p.t), p, q))
                  ELSE SortsBefore(DOMAIN plan.sort, p, q)
BoundedRows == IF plan.intent # "aggregate" THEN policy.selected
               ELSE {p \in policy.selected : Cardinality({q \in policy.selected : RowAhead(q, p)}) < MaxTable}

\* _bounded_ranks: of the ranks up to top_k the first top_k are shown.
BoundedRanks == {r \in policy.ranks : r.at <= plan.topk}

\* _bounded_recorded_values: recorded zeros among the first top_k values of a
\* group that the comparison leaves out.  A descending sort reverses identifiers too.
GroupsWith(x, y)   == x.f = y.f /\ x.cur = y.cur /\ (PerType => x.t = y.t)
ComesBefore(x, y)  == \/ IF FirstDescends(x.f) THEN x.v > y.v \/ (x.v = y.v /\ x.id > y.id)
                         ELSE x.v < y.v \/ (x.v = y.v /\ x.id < y.id)
                      \/ x.v = y.v /\ x.id = y.id /\ TypeAt(x.t) < TypeAt(y.t)
Keyed == {x \in policy.recorded : x.f \in Sorts(plan.sort)}
RecordedZeros ==
    IF ~Ranks THEN {}
    ELSE {x \in Keyed \ policy.valid :
            x.v = 0 /\ Cardinality({y \in Keyed : GroupsWith(x, y) /\ ComesBefore(y, x)}) < plan.topk}

\* Groups are listed in the order in which their first value is met, row by row
\* and metric by metric; _fit_recorded_values takes products while there is room.
MetBefore(x, y) ==
    LET at(f) == IF f \in ToSet(plan.metrics) THEN Min({i \in DOMAIN plan.metrics : plan.metrics[i] = f})
                 ELSE Len(plan.metrics) + Min({i \in DOMAIN plan.sort : plan.sort[i].f = f})
    IN \/ TypeAt(x.t) < TypeAt(y.t)
       \/ x.t = y.t /\ SortsBefore(SortFor(x.t), ProductOf(x), ProductOf(y))
       \/ x.t = y.t /\ x.id = y.id /\ at(x.f) < at(y.f)
ZeroBefore(x, y) ==
    IF GroupsWith(x, y) THEN ComesBefore(x, y)
    ELSE \E u \in Keyed : GroupsWith(u, x) /\ \A w \in Keyed : GroupsWith(w, y) => MetBefore(u, w)
Fitting(S, taken) ==
    LET new == {ProductOf(x) : x \in S} \ taken
        earlier(p, q) == \E x \in S : /\ ProductOf(x) = p
                                      /\ \A y \in S : ProductOf(y) = q => ZeroBefore(x, y)
    IN {x \in S : \/ ProductOf(x) \in taken
                  \/ Cardinality({p \in new : p # ProductOf(x) /\ earlier(p, ProductOf(x))})
                       < MaxRecords - Cardinality(taken)}

\* _requests_source_lens, _bounded_source_rows: rows only their state excluded.
SourceLens ==
    \/ plan.intent = "aggregate" /\ "sale" \in Filtered
    \/ /\ policy.source # policy.included
       /\ plan.intent = "compare" \/ (Counting /\ AggBy = {}) \/ "sale" \in Filtered
SourceOnly(taken) ==
    LET out  == policy.source \ policy.included
        room == Min({plan.topk, Max({0, MaxRecords - Cardinality(taken)})})
        ahead(p, q) == TypeAt(p.t) < TypeAt(q.t) \/ (p.t = q.t /\ SortsBefore(SortFor(p.t), p, q))
    IN IF SourceLens /\ plan.metrics # <<>> /\ plan.intent # "aggregate"
       THEN {p \in out : Cardinality({q \in out : ahead(q, p)}) < room} ELSE {}

\* _source_lens_summaries: how many rows match, how many of them are in a state
\* that counts, how many have the value an aggregate is about and the aggregate of
\* those values, in whatever currency; the plan's metrics of a source record, as
\* far as the row has them (QueryAst adds the flag saleable to a domestic one).
SourceCounts ==
    IF ~SourceLens THEN {}
    ELSE {LET S == {p \in policy.source : p.t = t}
              V == {x \in UNION {ValuesOf(p, AggFields) : p \in S} : x.v # Null}
          IN [t |-> t, all |-> Cardinality(S), valid |-> Cardinality(S \cap policy.included),
              recorded |-> Cardinality(V), value |-> Aggregated(V)] :
            t \in {p.t : p \in policy.source}}
SourceFields(t) == ToSet(plan.metrics) \cap (FieldsFor(t) \cup (IF t = "etf" THEN {"sale"} ELSE {}))

\* fetch_final_record_evidence: a bond's yield is derived, every other field direct.
DirectCount(S) ==
    MapThenSumSet(LAMBDA p : 2 + Cardinality({f \in Shown(p.t) : f # "yield" /\ f # "name"}), S)

\* _nonmetric_rank_summaries looks the first sort field up for the plan's types
\* in their order and stops at the first for which it is a metric.
SortLookupFails ==
    Ranks /\ plan.sort # <<>> /\
      LET f == plan.sort[1].f
      IN \E i \in DOMAIN plan.types :
            /\ plan.types[i] \notin Registered[f]
            /\ \A j \in 1..(i - 1) : ~(IsMetric(f) /\ plan.types[j] \in Registered[f])
\* An empty partition of a type needs a metric to be named after.
EmptyTypes == IF Ranks /\ PerType /\ plan.sort # <<>>
              THEN {t \in Types : t \notin {x.t : x \in policy.valid} /\ t \in Registered[plan.sort[1].f]} ELSE {}

FieldRanks ==
    LET f == plan.sort[1].f
        peers(p) == {q \in policy.included : (PerType => q.t = p.t) /\ q.val[f] # Null}
        above(q, p) == IF plan.sort[1].desc THEN q.val[f] > p.val[f] ELSE q.val[f] < p.val[f]
    IN IF ~Ranks \/ plan.sort = <<>> THEN {}
       ELSE IF IsMetric(f) THEN {}
       ELSE {[t |-> p.t, id |-> p.id, f |-> f, v |-> p.val[f], part |-> <<f, "field">>,
              rank |-> 1 + Cardinality({q \in peers(p) : above(q, p)}),
              ties |-> Cardinality({q \in peers(p) : q.val[f] = p.val[f]}), at |-> 0] :
               p \in {q \in policy.selected : q.val[f] # Null}}
FieldRanksCut == \E r \in FieldRanks :
    Cardinality({s \in FieldRanks : s.v = r.v /\ (PerType => s.t = r.t)}) < r.ties

\* _comparison_evidence: the difference of the two values that may be compared,
\* which the renderer states only if no third product shows the metric.
Difference(recs) ==
    LET f  == plan.metrics[1]
        at == {p \in recs : p.t \in Registered[f]}
        ok == {p \in at : p \in policy.included /\ p.trust /\ p.val[f] # Null}
    IN IF plan.intent # "compare" \/ Len(plan.metrics) # 1 THEN {}
       ELSE IF Cardinality(ok) # 2 \/ Cardinality({p.t : p \in ok}) # 1 \/ ~IsMetric(f) THEN {}
       ELSE IF Cardinality({p \in at : p.t \in {q.t : q \in ok}}) # 2 THEN {}
       ELSE LET vs == {p.val[f] : p \in ok} IN {[of |-> ok, f |-> f, v |-> Max(vs) - Min(vs)]}

\* _metric_population_summaries: of which metrics the values are counted, and
\* whether one of them has nothing to compare.
PopulationOf(t, f) == {x \in policy.population : x.t = t /\ x.f = f}
Populations ==
    {g \in Types \X DOMAIN Registered :
        LET t == g[1]
            f == g[2]
            X == PopulationOf(t, f)
        IN /\ IsMetric(f) /\ t \in Registered[f] /\ (X # {} \/ f \in Filtered)
           /\ f \in Filtered \/ (plan.intent \in {"screen", "screen_rank", "aggregate"} /\ \E x \in X : x.v \in {Null, 0})}
EmptyPopulation ==
    \E g \in Populations : \A x \in PopulationOf(g[1], g[2]) : x.v \in {Null, 0} \/ (Compares /\ ~ComparisonValid(x))

\* The coverage of a type without a result: which answers a holding query cannot give.
CoverageOf(t) ==
    LET states == {p.cover : p \in {q \in products : q.t = t}}
    IN IF states = {"none"} THEN {<<t, "unavailable">>}
       ELSE (IF "none" \in states THEN {<<t, "some unavailable">>} ELSE {})
              \cup (IF "partial" \in states THEN {<<t, "partial">>} ELSE {})

\* material_policy_limitations
Limits(recs) ==
    LET When(c, l) == IF c THEN {l} ELSE {}
    IN {"snapshot"}
       \cup When(Compares /\ policy.valid # policy.recorded, "lens")
       \cup When(plan.intent = "compare" /\ policy.source # policy.included /\ Cardinality(policy.included) < 2, "incomplete")
       \cup When((\E c \in plan.filters : c.op \in {"missing", "present"})
                   \/ (Ranks /\ \E x \in policy.population : x.v = Null), "missing")
       \cup When(\E a \in policy.aggs : a.excl > 0, "partial aggregate")
       \cup When(BoundedRanks # policy.ranks \/ FieldRanksCut, "cut")
       \cup When(Cardinality({x.cur : x \in policy.valid} \ {"none"}) > 1, "currencies")
       \cup When(\E p \in recs : \E f \in Shown(p.t) : f # "yield" /\ IsMetric(f) /\ p.val[f] = 0 /\ ~p.trust, "zero")
       \cup When(Prunes, "pruned")
       \cup When(plan.hold # 0 /\ \E p \in recs : p.cover = "partial", "partial holdings")
       \cup When(\E p \in policy.source : p.t \in {"overseas", "fund"}, "eligibility")
       \cup When(policy.valid # policy.metric, "excluded")

\* The records of the bundle: those selected or ranked, those of recorded zeros,
\* and those only their state excluded.
FirstRecords == BoundedRows \cup {ProductOf(r) : r \in BoundedRanks}
FittedZeros  == Fitting(RecordedZeros, FirstRecords)
OwnRecords   == FirstRecords \cup {ProductOf(x) : x \in FittedZeros}
LensRecords  == SourceOnly(OwnRecords)
Records      == OwnRecords \cup LensRecords
Bare         == IF plan.hold = 0 THEN {} ELSE {t \in Types : \A p \in Records : p.t # t}
Bundle ==
    [records |-> Records, lens |-> LensRecords, zeros |-> FittedZeros,
     counts |-> SourceCounts, ranks |-> BoundedRanks \cup FieldRanks, empty |-> EmptyTypes,
     diff |-> Difference(Records), limits |-> Limits(Records),
     coverage |-> UNION {CoverageOf(t) : t \in Bare}]

\* fetch_holding_evidence refuses a record whose holdings do not show what the
\* plan asks for: no catalogue that was loaded selects one.
HoldingMismatch == plan.hold # 0 /\ \E p \in Records : p.cover = "none" \/ plan.hold \notin p.holds
FieldCount == 1 + Cardinality(Asked \cup {"name"}) + (IF plan.hold # 0 THEN 1 ELSE 0)
\* The summaries: the row count, the coverage of types without a result, what was
\* pruned and excluded, the source lens, the populations, the partitions, the
\* recorded zeros, the ranks, one for each group of ties, and the aggregates.
SummaryCount ==
    LET one(c) == IF c THEN 1 ELSE 0
    IN 1 + Cardinality({<<p.t, p.cover>> : p \in {q \in products : q.t \in Bare}})
         + one(Prunes) + one(raw # policy.included \/ policy.metric # policy.valid)
         + (2 + Cardinality(AggFields)) * Cardinality(SourceCounts)
         + MapThenSumSet(LAMBDA p : Cardinality(SourceFields(p.t)), LensRecords)
         + 3 * Cardinality(Populations)
         + Cardinality(EmptyTypes) + Cardinality({PartitionOf(x) : x \in policy.valid})
         + Cardinality(FittedZeros) + Cardinality(BoundedRanks) + Cardinality(FieldRanks)
         + Cardinality({<<r.part, r.rank>> : r \in {s \in BoundedRanks : s.ties > 1}})
         + Cardinality({<<r.v, IF PerType THEN r.t ELSE "all">> : r \in {s \in FieldRanks : s.ties > 1}})
         + Cardinality(policy.aggs)

\* EvidenceBuilder.build
BuildEvidence ==
    /\ step = "evidence"
    /\ IF HoldingMismatch THEN Refusing("holding")
       ELSE IF \E t \in Bare : \A p \in products : p.t # t THEN Refusing("coverage")
       ELSE IF FieldCount > MaxFields THEN Refusing("fields")
       ELSE IF Cardinality(Records) > MaxRecords THEN Refusing("records")
       ELSE IF \E t \in EmptyTypes : ~IsMetric(plan.sort[1].f) THEN Refusing("rank partition")
       ELSE IF SortLookupFails THEN Refusing("sort field")
       ELSE IF SummaryCount > MaxSummaries THEN Refusing("summaries")
       ELSE IF DirectCount(Records) > MaxDirect THEN Refusing("direct evidence")
       ELSE /\ evidence' = Bundle
            /\ Going("render") /\ UNCHANGED <<resolved, segments, raw, policy, claims>>
    /\ UNCHANGED <<products, plan>>

-----------------------------------------------------------------------------
Stated(p, f) == [t |-> p.t, id |-> p.id, f |-> f, v |-> p.val[f]]

\* What is stated of a product beside its rank, of a source record, of a value
\* that is recorded and not ranked, and of a group.  A source record whose row has
\* none of the plan's metrics has no source-recorded summary: what evidence there
\* is of it is stated as that of any other product.
SourceStated == {p \in evidence.lens : SourceFields(p.t) # {}}
ValueClaims ==
    IF plan.intent = "aggregate" THEN {}
    ELSE {x \in UNION {{Stated(p, f) : f \in Shown(p.t)} : p \in evidence.records \ SourceStated} :
            \A r \in evidence.ranks : <<r.t, r.id, r.f>> # <<x.t, x.id, x.f>>}
SourceClaims    == UNION {{Stated(p, f) : f \in SourceFields(p.t)} : p \in SourceStated}
ZeroClaims      == {Stated(ProductOf(x), x.f) : x \in evidence.zeros}
AggregateClaims == {a \in policy.aggs : a.value # <<>>}
NoResult        == evidence.records = {} /\ (policy.included = {} \/ evidence.empty # {} \/ EmptyPopulation)

Answer ==
    [ranks  |-> evidence.ranks, values |-> ValueClaims, source |-> SourceClaims, zeros |-> ZeroClaims,
     aggs   |-> AggregateClaims, counts |-> evidence.counts, empty |-> evidence.empty,
     diff   |-> evidence.diff, none |-> NoResult,
     limits |-> evidence.limits, coverage |-> evidence.coverage]

\* AnswerRenderer.render
Render ==
    /\ step = "render"
    /\ claims' = IF plan.intent = "clarify" THEN [limits |-> {"clarify"}] ELSE Answer
    /\ Going("verify") /\ UNCHANGED <<products, plan, resolved, segments, raw, policy, evidence>>

\* _require_holding_claim_evidence: a product ranked for a holding has it on record.
HoldingProven(r) == plan.hold # 0 => plan.hold \in ProductOf(r).holds /\ ProductOf(r).cover # "none"

\* ClaimVerifier.verify: every limitation is stated, every claim has its evidence.
Verify ==
    /\ step = "verify"
    /\ IF /\ evidence.limits \subseteq claims.limits
          /\ plan.intent # "clarify" =>
               /\ claims.ranks \subseteq evidence.ranks /\ evidence.coverage \subseteq claims.coverage
               /\ \A r \in claims.ranks : HoldingProven(r)
       THEN Going("pack") /\ UNCHANGED <<resolved, segments, raw, policy, evidence, claims>>
       ELSE Refusing("verification")
    /\ UNCHANGED <<products, plan>>

\* _build_fact_pack: every product an answer speaks of has a name, and the pack
\* fits the context of the model that words it.
Named ==
    /\ \A x \in claims.ranks : ProductOf(x).val["name"] # Null
    /\ \A x \in claims.values \cup claims.source \cup claims.zeros : ProductOf(x).val["name"] # Null
    /\ \A d \in claims.diff : \A p \in d.of : p.val["name"] # Null
Sized == Cardinality(claims.ranks) + Cardinality(claims.values) + Cardinality(claims.source)
           + Cardinality(claims.zeros) + Cardinality(claims.aggs) + Cardinality(claims.limits) <= MaxClaims
Pack ==
    /\ step = "pack"
    /\ IF plan.intent # "clarify" /\ ~Named THEN Refusing("name")
       ELSE IF plan.intent # "clarify" /\ ~Sized THEN Refusing("size")
       ELSE /\ reply' = "answered" /\ step' = "end"
            /\ UNCHANGED <<reason, resolved, segments, raw, policy, evidence, claims>>
    /\ UNCHANGED <<products, plan>>

\* _require_work before resolving and after validation, execution, evidence and
\* verification.
Expire ==
    /\ step \in {"resolve", "segment", "policy", "render", "pack"}
    /\ reply' = "timeout" /\ step' = "end"
    /\ UNCHANGED <<products, plan, resolved, segments, raw, policy, evidence, claims, reason>>

QNext ==
    \/ Resolve \/ Validate \/ Segment \/ Execute \/ ApplyPolicy
    \/ BuildEvidence \/ Render \/ Verify \/ Pack \/ Expire

QSpec == QInit /\ [][QNext]_qvars

-----------------------------------------------------------------------------
\* The reference, read off the plan and the catalogue alone.
Matches(p) ==
    /\ p.t \in Types
    /\ ~(p.t = "overseas" /\ "ret" \in Asked /\ ~Targeted)
    /\ \A c \in plan.filters : p.t \in Registered[c.f] => Meets(p, c)
    /\ plan.hold # 0 => plan.hold \in p.holds
    /\ LET named == {m \in UNION {Resolution(plan.ents[i]) : i \in DOMAIN plan.ents} : m.t = p.t}
       IN named = {} \/ p \in named
Qualifies(p) == Matches(p) /\ (p.t \in {"bond", "etf"} => p.ok)
Counts(p, f) == /\ Qualifies(p) /\ p.t \in Registered[f] /\ p.val[f] # Null /\ p.trust
                /\ ~(Ranks /\ f = "aum" /\ p.t # "fund" /\ p.val[f] = 0)
PeersOf(p, f) ==
    {q \in products : /\ Counts(q, f) /\ (PerType \/ f = "aum" => q.t = p.t)
                      /\ "aum" \in FieldsFor(p.t) => q.cur = p.cur}
RankIn(p, f, S) == 1 + Cardinality({q \in S : IF FirstDescends(f) THEN q.val[f] > p.val[f] ELSE q.val[f] < p.val[f]})

RanksTrue ==
    \A r \in claims.ranks : LET p == ProductOf(r) IN
        /\ Qualifies(p) /\ r.v = p.val[r.f]
        /\ IsMetric(r.f) => /\ Counts(p, r.f) /\ r.rank = RankIn(p, r.f, PeersOf(p, r.f))
                            /\ r.ties = Cardinality({q \in PeersOf(p, r.f) : q.val[r.f] = p.val[r.f]})
RanksComplete ==
    Ranks => \A f \in ToSet(plan.metrics) \cap Sorts(plan.sort) : \A p \in products :
        /\ IsMetric(f) /\ Counts(p, f) /\ f \in MetricsFor(p.t) /\ RankIn(p, f, PeersOf(p, f)) <= plan.topk
        => "cut" \in claims.limits \/ \E r \in claims.ranks : r.t = p.t /\ r.id = p.id /\ r.f = f
\* v is what the function of the plan's aggregate makes of the products V.
AggregateIs(v, V) ==
    LET N == {<<p.id, p.val[plan.agg[1].f]>> : p \in V}
    IN /\ plan.agg[1].fn = "min" => v = <<Min({n[2] : n \in N})>>
       /\ plan.agg[1].fn = "max" => v = <<Max({n[2] : n \in N})>>
       /\ plan.agg[1].fn = "sum" => v = <<Total(N)>>
       /\ plan.agg[1].fn = "avg" => v = <<Total(N), Cardinality(V)>>
AggregatesTrue ==
    \A a \in claims.aggs :
        LET R == {p \in products : /\ Qualifies(p) /\ p.t = a.t /\ (a.cur \in {"all", "none"} \/ p.cur = a.cur)
                                   /\ \A f \in DOMAIN a.group : p.val[f] = a.group[f]}
            V == {p \in R : Counting \/ \A f \in AggFields : Counts(p, f)}
        IN /\ a.incl = Cardinality(V)
           /\ IF Counting THEN a.value = <<Cardinality(R)>> ELSE AggregateIs(a.value, V)
           /\ V # R => "partial aggregate" \in claims.limits
\* Whether a product of another state may be shown.
AsksForSource == plan.intent = "compare" \/ "sale" \in Filtered
ValuesTrue ==
    /\ \A x \in claims.values : LET p == ProductOf(x) IN
         Qualifies(p) \/ (Matches(p) /\ AsksForSource /\ plan.metrics # <<>> /\ MetricsFor(p.t) = {})
    /\ \A x \in claims.source : Matches(ProductOf(x)) /\ ~InState(ProductOf(x)) /\ AsksForSource
    /\ \A c \in claims.counts :
         LET S == {p \in products : p.t = c.t /\ Matches(p)}
             V == {q \in S : \A f \in AggFields : q.val[f] # Null}
         IN /\ c.all = Cardinality(S) /\ c.valid = Cardinality({p \in S : Qualifies(p)})
            /\ c.value # <<>> => c.recorded = Cardinality(V) /\ AggregateIs(c.value, V)
    /\ \A d \in claims.diff : \A p \in d.of : Counts(p, d.f)
\* Where nothing is ranked or aggregated every product that qualifies is shown if
\* top_k has room for it, and one that only its state excludes is shown as a source
\* record if the plan asks for such and the records that others take leave room.
Displayed ==
    LET out == {q \in products : Matches(q) /\ ~InState(q)}
    IN ~Compares => \A f \in ToSet(plan.metrics) : \A p \in products : p.t \in Registered[f] =>
        /\ Qualifies(p) /\ Cardinality({q \in products : Qualifies(q) /\ (PerType => q.t = p.t)}) <= plan.topk
             => Stated(p, f) \in claims.values
        /\ (/\ AsksForSource /\ p \in out /\ Cardinality(out) <= plan.topk
            /\ Cardinality(evidence.records \ evidence.lens) + Cardinality(out) <= MaxRecords)
             => Stated(p, f) \in claims.source
Disclosed ==
    /\ ("overseas" \in Types /\ ~Targeted /\ "ret" \in Asked) => "pruned" \in claims.limits
    /\ Ranks => \A f \in ToSet(plan.metrics) : (\E p \in products :
            IsMetric(f) /\ Qualifies(p) /\ p.t \in Registered[f] /\ f \in MetricsFor(p.t) /\ ~Counts(p, f))
         => "excluded" \in claims.limits

\* What an answer states is true of the catalogue: every rank and tie count is
\* the competition rank among the products that match the plan, are in a
\* purchasable state and have a comparable value of the same scope and currency;
\* every such product up to top_k is named or the cut is stated; aggregates are
\* taken over exactly those products, and source aggregates over all that match and
\* have the value; no product that does not match is shown, and one in another
\* state only where the plan asks for it, as a source record unless the plan names
\* metrics of which its type has none; a product that qualifies is shown
\* if there is room; what was left out is disclosed (the whole of _answer_plan: segmenter, compiler, PolicyEngine, EvidenceBuilder, renderer).
AnswerTrue ==
    reply = "answered" /\ plan.intent # "clarify" =>
        RanksTrue /\ RanksComplete /\ AggregatesTrue /\ ValuesTrue /\ Displayed /\ Disclosed

\* What every stage that is past has established, while the request is alive.
Alive(steps)  == step \in steps \/ reply = "answered"
Resolutions   == [i \in DOMAIN plan.ents |-> Resolution(plan.ents[i])]
ValidPlan ==
    /\ \A f \in Asked : Registered[f] \cap Types # {}
    /\ \A t \in DOMAIN plan.targets : \A f \in ToSet(plan.targets[t]) : t \in Registered[f]
OnePartition ==
    /\ segments = {t \in Types : ~(Prunes /\ t = "overseas")}
    /\ \A t \in segments : \A f \in AggFields : t \in Registered[f]
    /\ ~PerType /\ (plan.sort # <<>> \/ plan.intent = "aggregate") =>
         Cardinality(UNION {ComparisonKeys(t) : t \in segments}) = 1
OneScale ==
    /\ ~(~PerType /\ Compares /\ Cardinality({PartitionOf(x) : x \in PolicyValues}) > 1)
    /\ ~(Ranks /\ \E x \in PolicyValues : x.f \notin MetricsFor(x.t) \/ (PerType /\ x.f \notin SortsFor(x.t)))
AnswerInv ==
    /\ products \in Catalogs /\ plan \in Plans
    /\ step = "end" <=> reply # "none"
    /\ plan.intent # "clarify" =>
         /\ Alive({"validate", "segment", "execute", "policy", "evidence", "render", "verify", "pack"}) =>
              resolved = Resolutions
         /\ Alive({"segment", "execute", "policy", "evidence", "render", "verify", "pack"}) => ValidPlan
         /\ Alive({"execute", "policy", "evidence", "render", "verify", "pack"}) => OnePartition
         /\ Alive({"policy", "evidence", "render", "verify", "pack"}) => raw = UNION {RowsOf(t) : t \in segments}
         /\ Alive({"evidence", "render", "verify", "pack"}) => policy = PolicyResult /\ OneScale
         /\ Alive({"render", "verify", "pack"}) => evidence = Bundle /\ ~(Cardinality(Records) > MaxRecords)
         /\ Alive({"verify", "pack"}) => claims = Answer

\* The golden case SEED-POLICY-013: products listed by name for each of several
\* product types are answered (tests/golden/seed_cases.jsonl), unless a bound is
\* exceeded.  The evidence builder refuses such a plan.
NamesOfEachAnswered ==
    /\ Ranks /\ PerType /\ plan.filters = {} /\ plan.ents = <<>>
    /\ plan.sort # <<>> /\ Sorts(plan.sort) = {"name"} /\ plan.metrics = <<"name">>
    /\ (\A t \in Types : \E p \in products : p.t = t) /\ \A p \in products : p.val["name"] # Null
    => reply # "refused" \/ reason \in {"candidates", "fields", "records", "summaries", "direct evidence", "size"}
=============================================================================
