----------------------------- MODULE ArtifactRows -----------------------------
(* What the artifact tables contain, from the source rows to the final verifier
   (data/normalization, data/artifacts/{silver,links,staging,quality_persistence,
   reports,database}.py and data/holdings.py).

   Source rows arrive table by table.  Each is stored in Bronze, normalised and
   staged in an ordering store; the Silver tables are drained from the store in
   key order, exact links are joined from two candidate relations, and two
   reports count what is there.  The verifier gets the finished tables, in which
   one thing may have been altered, and counts everything again.

   A row carries what the properties tell apart: its identifier (0 when it does
   not parse) and one or two values.  A row's number stands for its locator.   *)
EXTENDS Integers, Sequences, FiniteSets, SequencesExt

CONSTANTS Variants,     \* source rows, see Shapes
          MaxRows,      \* bound: rows of a source
          Limit,        \* exact_link_candidate_limit
          Batch         \* rows of one batch of the database comparison

\* OFFICIAL_TABLE_IDS
Order   == [bond |-> 1, domestic |-> 2, overseas |-> 3, fund |-> 4]
\* a: maturity (bond), group 1 = ETF, 2 = ETN (domestic), ksd identifier (fund),
\* 0 when it does not parse or is empty;  b: buy yield of a bond, 0 for none.
Shapes  == [src : DOMAIN Order, id : Nat, a : Nat, b : Nat]

ASSUME RowsAssumption == /\ Variants \subseteq Shapes /\ IsFiniteSet(Variants)
                         /\ MaxRows \in Nat /\ Limit \in Nat /\ Batch \in Nat \ {0}

Relations == {"bond", "domestic", "overseas", "fund", "quality", "left", "right"}
Silver    == {"bond", "instrument", "domestic", "overseas", "fund", "quality", "coverage"}
Stages    == {"rows", "bonds", "domestic", "overseas", "fund", "quality", "coverage",
              "verify", "join", "links", "evidence", "reports", "database",
              "handed", "recount", "compare", "accepted"}
\* _drain_silver_tables: the relations that are drained as they are, in order
After     == [domestic |-> "overseas", overseas |-> "fund", fund |-> "quality", quality |-> "coverage"]

VARIABLES
    rows,      \* the source rows, Bronze
    spill,     \* the ordering store works in sorted runs instead of one table
    stage,     \* of Stages, or "failed" (build) or "refused" (verifier)
    store,     \* relation -> staged rows in the order of insertion
    tables,    \* Silver table -> its rows
    enabled,   \* products that need a holding coverage row, in order of arrival
    excluded,  \* grain -> rows without a Silver record
    links,     \* exact links
    proof,     \* evidence rows of the links
    reports,   \* the two reports
    db,        \* Silver table -> its rows in the database
    altered    \* was something changed before verification

rvars == <<rows, spill, stage, store, tables, enabled, excluded, links, proof, reports, db, altered>>

None    == [r \in {"audit", "summary"} |-> <<>>]
Grains  == {"fund_item", "instrument", "listed_product"}
Grain(src) == IF src = "bond" THEN "instrument" ELSE IF src = "fund" THEN "fund_item" ELSE "listed_product"

RInit ==
    /\ rows = <<>> /\ spill \in BOOLEAN /\ stage = "rows"
    /\ store = [r \in Relations |-> <<>>] /\ tables = [t \in Silver |-> <<>>]
    /\ enabled = <<>> /\ excluded = [g \in Grains |-> 0]
    /\ links = <<>> /\ proof = <<>> /\ reports = None
    /\ db = [t \in Silver |-> <<>>] /\ altered = FALSE

-----------------------------------------------------------------------------
(* Normalisation.  An issue is keyed by row, column and rule.                  *)
Issue(n, col, rule, q) == [key |-> <<n, col, rule>>, row |-> n, quarantined |-> q]
Identity == 1  Domain == 2  Conflict == 3  Unverifiable == 4      \* rules

\* normalize_bond_lot: the first invalid key part blocks; a malformed date warns.
BondIssues(r, n) ==
    IF r.id = 0 THEN {Issue(n, 1, Identity, TRUE)}
    ELSE IF r.a = 0 THEN {Issue(n, 2, Domain, FALSE)} ELSE {}
\* normalize_domestic_listed and normalize_overseas_listed: group and identifier.
ListedIssues(r, n) ==
    (IF r.a = 0 THEN {Issue(n, 1, Identity, TRUE)} ELSE {})
    \cup (IF r.id = 0 THEN {Issue(n, 2, Identity, TRUE)} ELSE {})
\* normalize_public_fund_item
FundIssues(r, n) == IF r.id = 0 THEN {Issue(n, 1, Identity, TRUE)} ELSE {}

Issues(r, n) == CASE r.src = "bond" -> BondIssues(r, n)
                  [] r.src = "fund" -> FundIssues(r, n)
                  [] OTHER          -> ListedIssues(r, n)
Blocked(r, n) == \E i \in Issues(r, n) : i.quarantined

\* The key a record is staged under; lots and fund items keep the row number.
Record(r, n) == [key |-> IF r.src \in {"bond", "fund"} THEN <<r.id, n>> ELSE <<r.id>>,
                 id |-> r.id, row |-> n, a |-> r.a, b |-> r.b]

-----------------------------------------------------------------------------
(* The ordering store.                                                        *)
LexLess(k, l) == \E i \in 1..Len(k) : k[i] < l[i] /\ \A j \in 1..(i - 1) : k[j] = l[j]
ByKey(x, y)   == LexLess(x.key, y.key) \/ (x.key = y.key /\ x.row < y.row)
Before(s, j, i) == ByKey(s[j], s[i]) \/ (~ByKey(s[i], s[j]) /\ j < i)
\* A row stands behind as many rows as come before it.
Sorted(s)     == [p \in 1..Len(s) |->
                    s[CHOOSE i \in 1..Len(s) : Cardinality({j \in 1..Len(s) : Before(s, j, i)}) = p - 1]]
Twice(s)      == \E i, j \in 1..Len(s) : i # j /\ s[i].key = s[j].key

\* insert_batch: a table with a UNIQUE key refuses at once, runs do not look.
Inserted(st, rel, x) == [st EXCEPT ![rel] = Append(@, x)]
Clash(st, rel, x)    == ~spill /\ \E i \in 1..Len(st[rel]) : st[rel][i].key = x.key
\* iter_ordered_batches: the merge of the runs refuses two equal keys.
ReadRefuses(rel)     == spill /\ Twice(store[rel])

InsertAll(st, rel, S) == [st EXCEPT ![rel] = @ \o SetToSeq(S)]

\* Candidates of an exact link: a domestic ETF by its own identifier, a fund by
\* its ksd identifier.
Candidates(r, n) ==
    IF r.src = "domestic" /\ r.a = 1 THEN {<<"left", [key |-> <<r.id, r.id>>, id |-> r.id, row |-> n]>>}
    ELSE IF r.src = "fund" /\ r.a # 0 THEN {<<"right", [key |-> <<r.a, r.id>>, id |-> r.id, row |-> n]>>}
    ELSE {}

\* The owner of a holding coverage row: a code for its type, and its identifier.
Owner(r) == <<IF r.src = "fund" THEN 5 ELSE 2 * (Order[r.src] - 2) + r.a, r.id>>

Failed(s) == stage' = s

\* fanout: Bronze takes the row, then SilverArtifactEmitter.consume stages it.
Receive(r) ==
    /\ stage = "rows" /\ Len(rows) < MaxRows
    /\ rows # <<>> => Order[rows[Len(rows)].src] <= Order[r.src]
    /\ rows' = Append(rows, r)
    /\ LET n    == Len(rows) + 1
           rec  == Record(r, n)
           cand == Candidates(r, n)
           bad  == ~Blocked(r, n) /\ (Clash(store, r.src, rec) \/ \E c \in cand : Clash(store, c[1], c[2]))
           kept == IF Blocked(r, n) THEN store
                   ELSE LET s1 == Inserted(store, r.src, rec)
                        IN IF cand = {} THEN s1
                           ELSE LET c == CHOOSE x \in cand : TRUE IN Inserted(s1, c[1], c[2])
       IN /\ stage' = IF bad THEN "failed" ELSE stage
          /\ store' = InsertAll(kept, "quality", Issues(r, n))
          /\ excluded' = IF Blocked(r, n) THEN [excluded EXCEPT ![Grain(r.src)] = @ + 1] ELSE excluded
          /\ enabled' = IF Blocked(r, n) \/ r.src = "bond" THEN enabled
                        ELSE Append(enabled, Owner(r))
    /\ UNCHANGED <<spill, tables, links, proof, reports, db, altered>>

\* The Bronze writers close and are verified; the Bronze result is issued.
EndRows ==
    /\ stage = "rows" /\ stage' = "bonds"
    /\ UNCHANGED <<rows, spill, store, tables, enabled, excluded, links, proof, reports, db, altered>>

-----------------------------------------------------------------------------
(* Silver.                                                                    *)
Lots(id) == {x \in ToSet(store["bond"]) : x.id = id}
Ids      == {x.id : x \in ToSet(store["bond"])}

\* project_bond_instrument: the lot with the highest buy yield, the earliest of
\* equals, which is the first lot if none has a yield; a maturity on which the lots
\* disagree is unknown.
FirstLot(S)   == CHOOSE x \in S : \A y \in S : x.row <= y.row
Selected(S)   == CHOOSE x \in S : \A y \in S : y.b < x.b \/ (y.b = x.b /\ x.row <= y.row)
Agreed(S)     == \A x, y \in S : x.a = y.a
Instrument(S) == [key |-> <<FirstLot(S).id>>, id |-> FirstLot(S).id, row |-> Selected(S).row,
                  a |-> IF Agreed(S) THEN FirstLot(S).a ELSE 0, b |-> Selected(S).b]
ParentIssues(S) ==
    (IF Agreed(S) THEN {} ELSE {Issue(FirstLot(S).row, 2, Conflict, FALSE)})
    \cup (IF Instrument(S).a = 0 THEN {Issue(FirstLot(S).row, 2, Unverifiable, FALSE)} ELSE {})

\* Mutant: the quality relation is drained before the bonds add to it.
DrainBondsLast ==
    /\ stage = "bonds"
    /\ IF ReadRefuses("bond") THEN Failed("failed") /\ UNCHANGED <<tables, store>>
       ELSE /\ tables' = [tables EXCEPT !["bond"] = Sorted(store["bond"]),
                                        !["instrument"] = Sorted(SetToSeq({Instrument(Lots(p)) : p \in Ids}))]
            /\ stage' = "domestic" /\ UNCHANGED store
    /\ UNCHANGED <<rows, spill, enabled, excluded, links, proof, reports, db, altered>>

\* _drain_bond_relation: lots and one instrument per product; the projection's
\* issues are staged while the relation is read.
DrainBonds ==
    /\ stage = "bonds"
    /\ IF ReadRefuses("bond") THEN Failed("failed") /\ UNCHANGED <<tables, store>>
       ELSE /\ tables' = [tables EXCEPT !["bond"] = Sorted(store["bond"]),
                                        !["instrument"] = Sorted(SetToSeq({Instrument(Lots(p)) : p \in Ids}))]
            /\ store' = InsertAll(store, "quality", UNION {ParentIssues(Lots(p)) : p \in Ids})
            /\ stage' = "domestic"
    /\ UNCHANGED <<rows, spill, enabled, excluded, links, proof, reports, db, altered>>

\* _drain_model_relation
Drain(rel) ==
    /\ stage = rel
    /\ IF ReadRefuses(rel) THEN Failed("failed") /\ UNCHANGED tables
       ELSE /\ tables' = [tables EXCEPT ![rel] = Sorted(store[rel])]
            /\ stage' = After[rel]
    /\ UNCHANGED <<rows, spill, store, enabled, excluded, links, proof, reports, db, altered>>

\* build_holding_relations without generations: one "unavailable" row per
\* product, in the order of owner type and identifier; none twice.
BuildCoverage ==
    /\ stage = "coverage"
    /\ IF ~IsInjective(enabled) THEN Failed("failed") /\ UNCHANGED tables
       ELSE /\ tables' = [tables EXCEPT !["coverage"] =
                            Sorted([i \in 1..Len(enabled) |->
                                      [key |-> enabled[i], id |-> enabled[i][2], row |-> 0, a |-> 0, b |-> 0]])]
            /\ stage' = "verify"
    /\ UNCHANGED <<rows, spill, store, enabled, excluded, links, proof, reports, db, altered>>

\* The unique key of a table; a fund item is unique by its identifier alone.
UniqueKey(t, x) == IF t = "fund" THEN <<x.id>> ELSE x.key
\* _check_opened_parquet: keys never fall, unique keys never repeat.
TableOrdered(t) ==
    /\ \A i \in 1..(Len(tables[t]) - 1) : ~LexLess(tables[t][i + 1].key, tables[t][i].key)
    /\ \A i, j \in 1..Len(tables[t]) : UniqueKey(t, tables[t][i]) = UniqueKey(t, tables[t][j]) => i = j
CheckTables ==
    /\ stage = "verify"
    /\ stage' = IF \A t \in Silver : TableOrdered(t) THEN "join" ELSE "failed"
    /\ UNCHANGED <<rows, spill, store, tables, enabled, excluded, links, proof, reports, db, altered>>

-----------------------------------------------------------------------------
(* Reports.                                                                   *)
\* verify_quality_to_bronze: every issue meets its Bronze row, in strict order.
QualityJoined(q) == /\ \A i \in 1..Len(q) : q[i].row \in 1..Len(rows)
                    /\ \A i \in 1..(Len(q) - 1) : LexLess(q[i].key, q[i + 1].key)
Quarantined(q)   == {x.row : x \in {y \in ToSet(q) : y.quarantined}}
ByRule(q)        == [r \in 1..4 |-> Cardinality({x \in ToSet(q) : x.key[3] = r})]

\* QualitySummaryReport.from_verified_quality
Summary(q, ex) == [total |-> Len(q), affected |-> Cardinality({x.row : x \in ToSet(q)}),
                   by_rule |-> ByRule(q), quarantined_rows |-> Cardinality(Quarantined(q)),
                   excluded |-> ex]

\* with_silver and _issue_from_finalizer: counters against rows of the tables
SilverCounts(t) == [x \in Silver \ {"quality", "coverage"} |-> Len(t[x])]
CountRows(r) == [s \in DOMAIN Order |-> Cardinality({n \in 1..Len(r) : r[n].src = s})]
CountsAgree ==
    /\ \A r \in {"bond", "domestic", "overseas", "quality"} : Len(store[r]) = Len(tables[r])
    /\ Len(tables["coverage"]) = Len(tables["domestic"]) + Len(tables["overseas"]) + Len(tables["fund"])
    /\ CountRows(rows)["fund"] - Len(store["fund"])
         \in 0..Cardinality(Quarantined(tables["quality"]))

JoinQuality ==
    /\ stage = "join"
    /\ IF QualityJoined(tables["quality"]) /\ CountsAgree /\ ~ReadRefuses("quality")
       THEN /\ stage' = "links"
            /\ reports' = [reports EXCEPT !["summary"] = Summary(Sorted(store["quality"]), excluded)]
       ELSE Failed("failed") /\ UNCHANGED reports
    /\ UNCHANGED <<rows, spill, store, tables, enabled, excluded, links, proof, db, altered>>

-----------------------------------------------------------------------------
(* Exact links.                                                               *)
\* _iter_exact_link_candidate_batches: the merge of two ordered relations joins the
\* candidates of one raw identifier; their number is bounded by the limit.
Joined == {[raw |-> p[1].key[1], left |-> p[1], right |-> p[2]] :
             p \in {q \in ToSet(store["left"]) \X ToSet(store["right"]) : q[1].key[1] = q[2].key[1]}}
Bounded(pairs) == Cardinality(pairs) <= Limit

\* Mutant: a left product may be linked twice.
LeftTolerated(pairs) == TRUE
\* _reject_left_conflicts
LeftUnique(pairs)  == \A p, q \in pairs : p.left.id = q.left.id => p.right.id = q.right.id
\* _reject_right_and_duplicate_conflicts
RightUnique(pairs) == \A p, q \in pairs : p.right.id = q.right.id => p.left.id = q.left.id

Link(p)        == [key |-> <<p.left.id, p.right.id>>, row |-> 0, raw |-> p.raw]
\* _evidence_from_candidate: one identifier cell on either side
Evidence(p)    == {[key |-> <<p.left.id, p.right.id, 0>>, row |-> p.left.row, raw |-> p.raw],
                   [key |-> <<p.left.id, p.right.id, 1>>, row |-> p.right.row, raw |-> p.raw]}

\* build_exact_links, the Gold tables, and the evidence admitted to the custody
BuildLinks ==
    /\ stage = "links"
    /\ LET P == Joined
       IN IF /\ ~ReadRefuses("left") /\ ~ReadRefuses("right")
             /\ Bounded(P) /\ LeftUnique(P) /\ RightUnique(P)
          THEN /\ links' = Sorted(SetToSeq({Link(p) : p \in P}))
               /\ proof' = Sorted(SetToSeq(UNION {Evidence(p) : p \in P}))
               /\ stage' = "evidence"
          ELSE Failed("failed") /\ UNCHANGED <<links, proof>>
    /\ UNCHANGED <<rows, spill, store, tables, enabled, excluded, reports, db, altered>>

\* The identifier cell of a row, where evidence may point.
Cell(n) == IF rows[n].src = "fund" THEN rows[n].a ELSE rows[n].id
\* verify_exact_evidence_to_bronze and _verify_evidence_relationships: every row of
\* evidence is a Bronze cell with that raw value, and every link has both sides.
EvidenceHolds(l, e) ==
    /\ \A i \in 1..Len(e) : e[i].row \in 1..Len(rows) /\ Cell(e[i].row) = e[i].raw
    /\ Len(e) = 2 * Len(l)
    /\ \A i \in 1..Len(e) : \E j \in 1..Len(l) :
          <<e[i].key[1], e[i].key[2]>> = l[j].key /\ e[i].raw = l[j].raw
    /\ \A j \in 1..Len(l) : \A role \in 0..1 : \E i \in 1..Len(e) : e[i].key = <<l[j].key[1], l[j].key[2], role>>
\* iter_linked_record_json: the linked products are there, in strict order.
LinkedExist(l, t) ==
    /\ {x.key[1] : x \in ToSet(l)} \subseteq {x.id : x \in ToSet(t["domestic"])}
    /\ {x.key[2] : x \in ToSet(l)} \subseteq {x.id : x \in ToSet(t["fund"])}
\* canonical_link_pair_tsv
PairsOrdered(l) == \A i \in 1..(Len(l) - 1) : LexLess(l[i].key, l[i + 1].key)

VerifyEvidence ==
    /\ stage = "evidence"
    /\ stage' = IF EvidenceHolds(links, proof) /\ LinkedExist(links, tables) /\ PairsOrdered(links)
                THEN "reports" ELSE "failed"
    /\ UNCHANGED <<rows, spill, store, tables, enabled, excluded, links, proof, reports, db, altered>>

\* SourceAuditReport: what the tables hold, source by source
Audit(t, l, e, q) == [sources |-> CountRows(rows), silver |-> SilverCounts(t),
                      quarantined |-> Cardinality(Quarantined(q)),
                      links |-> Len(l), evidence |-> Len(e),
                      pairs |-> [i \in 1..Len(l) |-> l[i].key]]
WriteReports ==
    /\ stage = "reports" /\ stage' = "database"
    /\ reports' = [reports EXCEPT !["audit"] = Audit(tables, links, proof, tables["quality"])]
    /\ UNCHANGED <<rows, spill, store, tables, enabled, excluded, links, proof, db, altered>>

\* _materialize_tables: every table goes into the database, the Gold ones too.
Contents == [t \in Silver \cup {"link", "evidence"} |->
               IF t = "link" THEN links ELSE IF t = "evidence" THEN proof ELSE tables[t]]
BuildDatabase ==
    /\ stage = "database" /\ stage' = "handed" /\ db' = Contents
    /\ UNCHANGED <<rows, spill, store, tables, enabled, excluded, links, proof, reports, altered>>

-----------------------------------------------------------------------------
(* One thing is changed in the finished set, its manifest with it.            *)
Dropped(s)  == {RemoveAt(s, i) : i \in 1..Len(s)}
Changed(s)  == {[s EXCEPT ![i].a = @ + 1] : i \in 1..Len(s)}
Copied(s)   == {[s EXCEPT ![i] = s[j]] : i, j \in 1..Len(s)} \ {s}
Altering    == stage = "handed" /\ ~altered /\ altered' = TRUE
Rest        == UNCHANGED <<rows, spill, stage, store, enabled, excluded>>
AlterSilver == /\ Altering /\ Rest /\ UNCHANGED <<links, proof, reports, db>>
               /\ \E t \in Silver : \E s \in Dropped(tables[t]) : tables' = [tables EXCEPT ![t] = s]
AlterGold   == /\ Altering /\ Rest /\ UNCHANGED <<tables, reports, db>>
               /\ \/ (\E s \in Dropped(links) : links' = s) /\ UNCHANGED proof
                  \/ (\E s \in Dropped(proof) \cup {[proof EXCEPT ![i].row = @ + 1] : i \in 1..Len(proof)} :
                         proof' = s) /\ UNCHANGED links
AlterReport == /\ Altering /\ Rest /\ UNCHANGED <<tables, links, proof, db>>
               /\ \/ reports' = [reports EXCEPT !["summary"].affected = @ + 1]
                  \/ \E g \in Grains : reports' = [reports EXCEPT !["summary"].excluded[g] = @ + 1]
                  \/ reports' = [reports EXCEPT !["audit"].quarantined = @ + 1]
AlterBase   == /\ Altering /\ Rest /\ UNCHANGED <<tables, links, proof, reports>>
               /\ \E t \in {"bond", "instrument", "domestic", "overseas", "fund"} :
                    \E s \in Dropped(db[t]) \cup Changed(db[t]) \cup Copied(db[t]) :
                       db' = [db EXCEPT ![t] = s]

-----------------------------------------------------------------------------
(* The final verifier.                                                        *)
HandOver == /\ stage = "handed" /\ stage' = "recount"
            /\ UNCHANGED <<rows, spill, store, tables, enabled, excluded, links, proof, reports, db, altered>>

\* verify_reports: rows without a record, from the tables alone
RecountSkewed == [g \in Grains |-> 0]       \* Mutant: nothing is excluded
Recount ==
    LET missing(src) == CountRows(rows)[src] - Len(tables[src])
    IN [g \in Grains |-> CASE g = "fund_item"  -> missing("fund")
                           [] g = "instrument" -> missing("bond")
                           [] OTHER            -> missing("domestic") + missing("overseas")]

\* verify_reports: both reports are rebuilt from Bronze, Silver and Gold.
ReportsRight ==
    /\ QualityJoined(tables["quality"])
    /\ EvidenceHolds(links, proof) /\ LinkedExist(links, tables) /\ PairsOrdered(links)
    /\ reports["audit"] = Audit(tables, links, proof, tables["quality"])
    /\ reports["summary"] = Summary(tables["quality"], Recount)
RecountReports ==
    /\ stage = "recount" /\ stage' = IF ReportsRight THEN "compare" ELSE "refused"
    /\ UNCHANGED <<rows, spill, store, tables, enabled, excluded, links, proof, reports, db, altered>>

\* One batch: the database rows with a key of the batch, within its sort bounds.
InBounds(k, s) == ~LexLess(k, s[1].key) /\ ~LexLess(s[Len(s)].key, k)
Times(x, s)    == Cardinality({i \in 1..Len(s) : s[i] = x})
Hit(x, t, s)   == InBounds(x.key, s) /\ \E i \in 1..Len(s) : UniqueKey(t, s[i]) = UniqueKey(t, x)
BatchSame(actual, t, s) ==
    \A x \in ToSet(actual) \cup ToSet(s) : (IF Hit(x, t, s) THEN Times(x, actual) ELSE 0) = Times(x, s)
Slice(s, k)    == SubSeq(s, k * Batch + 1, IF (k + 1) * Batch < Len(s) THEN (k + 1) * Batch ELSE Len(s))
\* _verify_database_against_parquet: equal counts, then batch by batch
SameRows(t) ==
    LET s == Contents[t]
    IN /\ Len(db[t]) = Len(s)
       /\ \A k \in 0..Len(s) : k * Batch < Len(s) => BatchSame(db[t], t, Slice(s, k))
BaseRight == \A t \in DOMAIN Contents : SameRows(t)
CompareRows ==
    /\ stage = "compare" /\ stage' = IF BaseRight THEN "accepted" ELSE "refused"
    /\ UNCHANGED <<rows, spill, store, tables, enabled, excluded, links, proof, reports, db, altered>>

RNext ==
    \/ \E r \in Variants : Receive(r)
    \/ EndRows \/ DrainBonds \/ (\E rel \in {"domestic", "overseas", "fund", "quality"} : Drain(rel))
    \/ BuildCoverage \/ CheckTables \/ JoinQuality \/ BuildLinks \/ VerifyEvidence
    \/ WriteReports \/ BuildDatabase
    \/ AlterSilver \/ AlterGold \/ AlterReport \/ AlterBase
    \/ HandOver \/ RecountReports \/ CompareRows

RSpec == RInit /\ [][RNext]_rvars

-----------------------------------------------------------------------------
Built == stage \in {"handed", "recount", "compare", "accepted"}
Of(src) == {n \in 1..Len(rows) : rows[n].src = src}

\* Nothing is lost between the source and a finished set: every source row has a
\* record in its Silver table or is quarantined, and never both; every bond
\* product has one instrument, with the best yield of its lots, and a conflict
\* among the lots is on record; every listed product and fund has one coverage
\* row (consume, _drain_bond_relation, project_bond_instrument,
\* build_holding_relations).
RowsAccounted ==
    Built /\ ~altered =>
      /\ \A n \in 1..Len(rows) :
           (\E x \in ToSet(tables[rows[n].src]) : x.row = n) # (n \in Quarantined(tables["quality"]))
      /\ {x.id : x \in ToSet(tables["instrument"])} = {x.id : x \in ToSet(tables["bond"])}
      /\ \A x \in ToSet(tables["instrument"]), y \in ToSet(tables["bond"]) : x.id = y.id =>
           /\ y.b <= x.b
           /\ \A z \in ToSet(tables["bond"]) : z.id = x.id /\ z.a # y.a =>
                x.a = 0 /\ \E q \in ToSet(tables["quality"]) : q.key[3] = Conflict /\ rows[q.row].id = x.id
      /\ {x.key : x \in ToSet(tables["coverage"])} =
           {Owner(rows[n]) : n \in {m \in 1..Len(rows) : rows[m].src # "bond" /\ ~Blocked(rows[m], m)}}
      /\ IsInjective([i \in 1..Len(tables["coverage"]) |-> tables["coverage"][i].key])

\* A finished set links a domestic ETF and a fund exactly when the fund's ksd
\* identifier is the ETF's own, and never one product to two; its evidence is the
\* two source cells with that identifier (build_exact_links, _reject_left_conflicts).
LinksExact ==
    Built /\ ~altered =>
      /\ {x.key : x \in ToSet(links)} =
           {<<rows[p[1]].id, rows[p[2]].id>> :
              p \in {q \in Of("domestic") \X Of("fund") :
                       /\ rows[q[1]].id # 0 /\ rows[q[1]].a = 1 /\ rows[q[2]].id # 0
                       /\ rows[q[2]].a = rows[q[1]].id}}
      /\ \A x, y \in ToSet(links) : x.key[1] = y.key[1] \/ x.key[2] = y.key[2] => x = y

\* The verifier accepts what the builder wrote and refuses every set in which a
\* table row, a link, a piece of evidence, a report or the database was altered
\* (verify_reports, _verify_database_against_parquet).
VerifierExact ==
    /\ stage = "accepted" => ~altered
    /\ stage = "refused" => altered

-----------------------------------------------------------------------------
(* The inductive invariant behind the three.                                  *)

IsSeq(s)    == s \in Seq(ToSet(s))
Staged(src) == {n \in Of(src) : ~Blocked(rows[n], n)}
Etfs        == {n \in Staged("domestic") : rows[n].a = 1}
KsdFunds    == {n \in Staged("fund") : rows[n].a # 0}
Instruments == {Instrument(Lots(p)) : p \in Ids}
Owners      == [i \in 1..Len(enabled) |-> [key |-> enabled[i], id |-> enabled[i][2], row |-> 0, a |-> 0, b |-> 0]]
Running     == stage \notin {"failed", "refused"}
Draining    == {"domestic", "overseas", "fund", "quality", "coverage", "verify", "join"}

RowTypes ==
    /\ rows \in Seq(Shapes) /\ stage \in Stages \cup {"failed", "refused"}
    /\ spill \in BOOLEAN /\ altered \in BOOLEAN
    /\ DOMAIN store = Relations /\ DOMAIN tables = Silver /\ excluded \in [Grains -> Nat]
    /\ DOMAIN reports = {"audit", "summary"}

\* What is staged, counted and owed a coverage row is what the rows so far say.
RelationsStaged ==
    \A src \in DOMAIN Order : /\ ToSet(store[src]) = {Record(rows[n], n) : n \in Staged(src)}
                              /\ Len(store[src]) = Cardinality(Staged(src))
CandidatesStaged ==
    /\ ToSet(store["left"]) = {[key |-> <<rows[n].id, rows[n].id>>, id |-> rows[n].id, row |-> n] : n \in Etfs}
    /\ ToSet(store["right"]) = {[key |-> <<rows[n].a, rows[n].id>>, id |-> rows[n].id, row |-> n] : n \in KsdFunds}
QualityStaged ==
    ToSet(store["quality"]) =
        (UNION {Issues(rows[n], n) : n \in 1..Len(rows)})
        \cup (IF stage \in {"rows", "bonds"} THEN {} ELSE UNION {ParentIssues(Lots(p)) : p \in Ids})
CoverageOwed ==
    ToSet(enabled) = {Owner(rows[n]) : n \in {m \in 1..Len(rows) : rows[m].src # "bond" /\ ~Blocked(rows[m], m)}}
ExcludedCounted ==
    /\ excluded["instrument"] = Cardinality(Of("bond") \ Staged("bond"))
    /\ excluded["fund_item"] = Cardinality(Of("fund") \ Staged("fund"))
    /\ excluded["listed_product"] = Cardinality(Of("domestic") \ Staged("domestic"))
                                    + Cardinality(Of("overseas") \ Staged("overseas"))
StoreInv ==
    Running => /\ IsSeq(enabled) /\ \A rel \in Relations : IsSeq(store[rel])
               /\ RelationsStaged /\ CandidatesStaged /\ QualityStaged /\ CoverageOwed /\ ExcludedCounted

\* A table that has been drained is its relation in order.
TablesInv ==
    Running /\ ~altered /\ stage \notin {"rows", "bonds"} =>
        /\ tables["bond"] = Sorted(store["bond"]) /\ tables["instrument"] = Sorted(SetToSeq(Instruments))
        /\ stage # "domestic" => tables["domestic"] = Sorted(store["domestic"])
        /\ stage \notin {"domestic", "overseas"} => tables["overseas"] = Sorted(store["overseas"])
        /\ stage \notin {"domestic", "overseas", "fund"} => tables["fund"] = Sorted(store["fund"])
        /\ stage \notin {"domestic", "overseas", "fund", "quality"} => tables["quality"] = Sorted(store["quality"])
        /\ stage \notin Draining \ {"verify", "join"} => tables["coverage"] = Sorted(Owners) /\ IsInjective(enabled)
        /\ stage \notin Draining \ {"join"} => \A t \in Silver : TableOrdered(t)

\* Reports, links, evidence and database, as each of them is made.
MadeInv ==
    Running /\ ~altered /\ stage \notin Draining \cup {"rows", "bonds"} =>
        /\ QualityJoined(tables["quality"]) /\ reports["summary"] = Summary(tables["quality"], excluded)
        /\ stage # "links" =>
              /\ links = Sorted(SetToSeq({Link(p) : p \in Joined}))
              /\ proof = Sorted(SetToSeq(UNION {Evidence(p) : p \in Joined}))
              /\ LeftUnique(Joined) /\ RightUnique(Joined)
        /\ stage \notin {"links", "evidence"} =>
              EvidenceHolds(links, proof) /\ LinkedExist(links, tables) /\ PairsOrdered(links)
        /\ stage \notin {"links", "evidence", "reports"} =>
              reports["audit"] = Audit(tables, links, proof, tables["quality"])
        /\ Built => db = Contents

\* An alteration shows, in the reports or in the database.
AlteredInv ==
    /\ altered => /\ stage \in {"handed", "recount", "compare", "refused"}
                  /\ ~ReportsRight \/ ~BaseRight
                  /\ stage = "compare" => ReportsRight
    /\ stage = "refused" => altered

RowsInv == RowTypes /\ StoreInv /\ TablesInv /\ MadeInv /\ AlteredInv
=============================================================================
