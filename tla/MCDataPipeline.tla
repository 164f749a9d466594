---------------------------- MODULE MCDataPipeline ----------------------------
(* What the artifact says, whether it may be believed and what is answered from
   it: the rows from their sources to the final verifier's recount, the
   verifier's reading of files that others change, and the path of a query plan
   over a small catalogue.  A behaviour runs one of the three.                 *)
EXTENDS ArtifactVerification, ArtifactRows, Answering

CONSTANT Focuses    \* the parts that may run
VARIABLE focus      \* the part that runs

MCTables  == <<"rows", "quality">>
MCReports == <<"audit">>

Row(s, i, a, b) == [src |-> s, id |-> i, a |-> a, b |-> b]
\* Lots of one product that disagree on maturity and yield, an identifier that
\* does not parse, listed products and funds that share identifiers.
MCVariants ==
    {Row("bond", 0, 1, 1), Row("bond", 1, 1, 1), Row("bond", 1, 0, 2),
     Row("domestic", 1, 1, 0), Row("domestic", 2, 1, 0), Row("domestic", 2, 2, 0), Row("domestic", 0, 0, 0),
     Row("overseas", 1, 1, 0),
     Row("fund", 1, 1, 0), Row("fund", 2, 1, 0), Row("fund", 2, 2, 0), Row("fund", 1, 0, 0), Row("fund", 0, 0, 0)}

Product(t, i, m, region, name, cur, trust, ok, holds, cover) ==
    [t |-> t, id |-> i, alt |-> 10 + i,
     val |-> [yield |-> IF t = "bond" THEN m[1] ELSE Null, ret |-> IF t \in {"etf", "fund"} THEN m[1] ELSE Null,
              aum |-> m[2], region |-> region, name |-> name, sale |-> IF t \in {"etf", "fund"} THEN 1 ELSE Null],
     cur |-> cur, trust |-> trust, ok |-> ok, holds |-> holds, cover |-> cover]

\* Ties, a recorded zero, a missing and an untrusted value, a product that may
\* not be bought, two currencies, a product without a name, identifiers and
\* names that two products share, holdings known, partly known and unknown.
MCPool ==
    {Product("bond", 1, <<3, Null>>, Null, 21, "KRW", TRUE, TRUE, {}, "none"),
     Product("bond", 2, <<4, Null>>, Null, 22, "KRW", TRUE, TRUE, {}, "none"),
     Product("bond", 3, <<2, Null>>, Null, 23, "KRW", TRUE, FALSE, {}, "none"),
     Product("etf", 1, <<5, 0>>, 1, 24, "KRW", TRUE, TRUE, {7}, "full"),
     Product("etf", 2, <<4, 6>>, 1, 25, "KRW", TRUE, TRUE, {7}, "partial"),
     Product("etf", 3, <<4, 6>>, 2, 26, "USD", TRUE, FALSE, {}, "none"),
     Product("etf", 4, <<Null, 8>>, 2, 25, "USD", TRUE, TRUE, {}, "full"),
     Product("etf", 5, <<5, 7>>, 1, 31, "KRW", FALSE, TRUE, {}, "full"),
     Product("overseas", 1, <<Null, 9>>, 2, 27, "USD", TRUE, TRUE, {7}, "full"),
     Product("overseas", 5, <<Null, 0>>, 2, 28, "USD", TRUE, TRUE, {}, "none"),
     Product("fund", 1, <<4, 0>>, 1, 29, "KRW", TRUE, TRUE, {7}, "partial"),
     Product("fund", 2, <<0, 3>>, 2, 30, "USD", TRUE, TRUE, {}, "none"),
     Product("fund", 6, <<4, 3>>, 2, Null, "KRW", FALSE, TRUE, {7}, "full")}
MCCatalogs == {S \in SUBSET MCPool : Cardinality(S) \in 1..4}

NoSort  == <<>>
By(f)   == <<[f |-> f, desc |-> TRUE]>>
Up(f)   == <<[f |-> f, desc |-> FALSE]>>
Plan(i, ts, ms, s, k, sc) ==
    [intent |-> i, types |-> ts, ents |-> <<>>, filters |-> {}, metrics |-> ms, targets |-> <<>>,
     sort |-> s, agg |-> <<>>, topk |-> k, scope |-> sc, hold |-> 0]
Rank(ts, f, k, sc) == Plan("screen_rank", ts, <<f>>, By(f), k, sc)
Agg(ts, fn, f, by, s, k) ==
    [Plan("aggregate", ts, IF f = "count" THEN <<>> ELSE <<f>>, s, k, IF Len(ts) = 1 THEN "global" ELSE "each")
       EXCEPT !.agg = <<[fn |-> fn, f |-> f, by |-> by]>>]
If(f, op, v)     == [f |-> f, op |-> op, v |-> v]
OnSale           == If("sale", "eq", 1)
Mention(x, kind) == [text |-> x, kind |-> kind]

MCPlans ==
    {Rank(<<"etf">>, f, k, "global") : f \in {"ret", "aum", "region"}, k \in 1..2}
    \cup {Rank(<<"bond">>, "yield", 1, "global"), Rank(<<"etf", "fund">>, "ret", 3, "global"),
          Rank(<<"etf", "fund">>, "aum", 1, "global"), Rank(<<"bond", "etf">>, "ret", 1, "global"),
          Rank(<<"etf", "fund">>, "ret", 1, "each"), Rank(<<"etf", "overseas", "fund">>, "aum", 2, "each"),
          Rank(<<"etf", "overseas">>, "ret", 1, "each"), Rank(<<"overseas", "etf">>, "ret", 1, "each"),
          [Rank(<<"bond", "etf", "fund">>, "name", 3, "each") EXCEPT !.sort = Up("name")],
          [Rank(<<"etf", "fund">>, "name", 2, "global") EXCEPT !.sort = Up("name")],
          [Rank(<<"etf">>, "ret", 1, "each") EXCEPT !.metrics = <<"ret", "aum">>],
          [Rank(<<"etf", "fund">>, "ret", 3, "global") EXCEPT !.filters = {If("aum", "present", 0)}],
          [Rank(<<"etf", "fund">>, "ret", 2, "each") EXCEPT !.filters = {If("region", "eq", 2)}],
          [Rank(<<"etf", "bond">>, "ret", 2, "each") EXCEPT !.metrics = <<"ret", "yield">>, !.sort = By("ret") \o Up("yield")],
          [Rank(<<"bond", "etf">>, "ret", 2, "each") EXCEPT !.metrics = <<"ret", "yield">>, !.sort = By("ret") \o By("yield"),
             !.targets = [bond |-> <<"yield">>, etf |-> <<"ret">>]],
          [Rank(<<"etf">>, "aum", 2, "global") EXCEPT !.hold = 7],
          [Rank(<<"etf", "fund">>, "ret", 2, "each") EXCEPT !.hold = 7]}
    \cup {Agg(<<"etf">>, fn, "aum", <<>>, NoSort, 1) : fn \in {"min", "max", "sum", "avg"}}
    \cup {Agg(<<"etf">>, "max", "ret", <<"region">>, By("ret"), 1), Agg(<<"etf">>, "sum", "aum", <<"region">>, NoSort, 2),
          Agg(<<"etf">>, "count", "count", <<>>, NoSort, 1), Agg(<<"etf">>, "count", "count", <<"region">>, NoSort, 1),
          Agg(<<"bond", "etf">>, "count", "count", <<"region">>, NoSort, 1), Agg(<<"bond", "etf">>, "max", "ret", <<>>, NoSort, 1),
          Agg(<<"etf", "fund">>, "avg", "ret", <<>>, NoSort, 1), Agg(<<"etf", "fund">>, "avg", "ret", <<"region">>, By("ret"), 1),
          Agg(<<"etf">>, "max", "aum", <<"region", "ret">>, NoSort, 2),
          [Agg(<<"etf">>, "max", "aum", <<>>, NoSort, 1) EXCEPT !.filters = {If("ret", "gte", 4)}],
          [Agg(<<"etf">>, "sum", "aum", <<>>, NoSort, 1) EXCEPT !.filters = {OnSale}],
          [Agg(<<"bond", "etf">>, "count", "count", <<>>, NoSort, 1) EXCEPT !.filters = {OnSale}]}
    \cup {[Plan("compare", <<"etf", "fund">>, <<f>>, NoSort, 3, "each")
             EXCEPT !.ents = <<Mention(a, "any"), Mention(b, "any")>>] :
            f \in {"ret", "aum"}, a \in {1, 12}, b \in {3, 25}}
    \cup {[Plan("compare", <<"bond", "etf">>, <<"ret">>, Up("name"), 3, "each")
             EXCEPT !.ents = <<Mention(23, "any"), Mention(24, "any")>>]}
    \cup {[p EXCEPT !.filters = {OnSale}] :
            p \in {Plan("screen", <<"etf">>, <<"ret">>, NoSort, 2, "global"), Rank(<<"etf">>, "ret", 2, "global"),
                   Plan("screen", <<"bond", "etf">>, <<"ret">>, NoSort, 2, "each"),
                   Plan("screen", <<"etf", "overseas">>, <<"aum">>, NoSort, 2, "each"),
                   Plan("screen", <<"etf">>, <<"ret", "aum">>, Up("region"), 2, "each")}}
    \cup {[Plan("screen", <<"etf", "overseas">>, <<"aum">>, s, 2, "each") EXCEPT !.filters = {c}] :
            s \in {NoSort, By("aum")}, c \in {If("ret", "missing", 0), If("aum", "present", 0), If("aum", "gte", 6)}}
    \cup {[Plan("screen", <<"overseas", "fund">>, <<"name">>, NoSort, 2, "each") EXCEPT !.hold = h] : h \in {7, 8}}
    \cup {Plan("screen", <<"bond", "etf">>, <<"yield">>, NoSort, 2, "each"),
          Plan("screen", <<"bond", "etf">>, <<"region">>, Up("region"), 2, "global"),
          Plan("clarify", <<"etf">>, <<>>, NoSort, 1, "global")}

\* A verified artifact has at most one fault; the baseline matters to a caller
\* that compares with it, and any caller meets an unsound file the same way.
Init ==
    /\ focus \in Focuses /\ VInit
    /\ (baseline \/ expecting) /\ (sound = Files \/ (mode = "root" /\ expecting /\ baseline))
    /\ focus # "verification" =>
         /\ mode = "path" /\ ~expecting /\ baseline /\ sound = Files
         /\ \A f \in Files : bytes[f][1] = "other"
    /\ RInit /\ (focus # "rows" => ~spill)
    /\ IF focus = "answers" THEN TRUE
       ELSE products = (CHOOSE S \in MCCatalogs : TRUE) /\ plan = (CHOOSE p \in MCPlans : TRUE)
    /\ QInit

Rows         == focus = "rows" /\ RNext /\ UNCHANGED <<vvars, qvars>>
Verification == focus = "verification" /\ VNext /\ UNCHANGED <<rvars, qvars>>
Answers      == focus = "answers" /\ QNext /\ UNCHANGED <<rvars, vvars>>

Next == (Rows \/ Verification \/ Answers) /\ UNCHANGED focus
Spec == Init /\ [][Next]_<<rvars, vvars, qvars, focus>>
=============================================================================
