------------------------- MODULE ArtifactBuildProofs -------------------------
(* What one artifact build guarantees for every list of tables and every number
   of failing calls.  BuildInv of ArtifactBuild is inductive: each call of the
   builder, each step of its cleanup and a changing input file keep it.  One
   lemma per action, one step per conjunct; where an action updates several
   fields of disk, reg, store or db, its first step <1>e says what the fields
   are afterwards, and the later steps use only that.                         *)
EXTENDS ArtifactBuild, SequenceTheorems, TLAPS

USE DEF tables, extern, Same

(* What a step does to the fields of disk, reg and db.                        *)
NamesOnly  == /\ disk'.dir = disk.dir /\ disk'.marker = disk.marker
              /\ disk'.parquet = disk.parquet /\ disk'.reports = disk.reports
              /\ reg'.parquet = reg.parquet /\ reg'.final = reg.final /\ reg'.reports = reg.reports
LeavesOnly == /\ disk'.dir = disk.dir /\ disk'.marker = disk.marker
              /\ disk'.names = disk.names /\ disk'.reports = disk.reports
              /\ reg'.names = reg.names /\ reg'.final = reg.final /\ reg'.reports = reg.reports
BaseKept   == db'.leaf = db.leaf /\ db'.seal = db.seal

USE DEF NamesOnly, LeavesOnly, BaseKept

(* Types, by the part of the state they are about.                            *)

Errors == {"none", "refused", "io", "cleanup", "untyped"}
DiskTypes ==
    /\ disk \in [marker : BOOLEAN, dir : BOOLEAN, names : SUBSET (FinalNames \cup WorkNames),
                 parquet : SUBSET Tables, reports : SUBSET Reports]
    /\ reg \in [names : SUBSET (FinalNames \cup WorkNames), parquet : SUBSET Tables,
                final : SUBSET Range(Finals), reports : BOOLEAN]
TableTypes ==
    /\ layer \in 1..3 /\ leaf \in [Tables -> {"none", "claimed", "created"}]
    /\ writer \in [Tables -> {"none", "open", "broken"}]
    /\ verified \subseteq Tables /\ staged \in 0..Len(TableSpecs)
StoreTypes  == store \in Stores /\ db \in Bases
HolderTypes == holder \in Holders
StepTypes   == /\ error \in Errors /\ changed \in {"no", "early", "late"}
               /\ temp \subseteq CoreSteps /\ faults \in 0..MaxFaults

\* The type invariant, taken apart.
LEMMA TypeParts ==
    ASSUME BuildTypes PROVE DiskTypes /\ TableTypes /\ StoreTypes /\ HolderTypes /\ StepTypes
  BY DEF BuildTypes, TypeOK, DiskTypes, TableTypes, StoreTypes, HolderTypes, StepTypes, Errors

\* The type invariant, put together.
LEMMA PartsGiveTypes ==
    ASSUME DiskTypes, TableTypes, StoreTypes, HolderTypes, StepTypes PROVE BuildTypes
<1>1. /\ store.state \in {"none", "LIVE", "CLEANED", "AMBIGUOUS"}
      /\ db.work \in Discardable \cup {"none", "CLOSED", "AMBIGUOUS"}
      /\ db.leaf \in {"none", "claimed", "created"} /\ db.fresh \in BOOLEAN /\ db.seal \in BOOLEAN
      /\ holder.owner \in {"none", "session", "stage", "custody", "transferred"}
  BY DEF StoreTypes, HolderTypes, Stores, Bases, Holders
<1>2. TypeOK
  BY <1>1 DEF TypeOK, DiskTypes, TableTypes, StepTypes, Errors
<1> QED BY <1>2 DEF BuildTypes, StoreTypes, HolderTypes

\* The same for the state after a step.
LEMMA TypesFromParts ==
    ASSUME DiskTypes', TableTypes', StoreTypes', HolderTypes', StepTypes' PROVE BuildTypes'
<1>1. /\ store'.state \in {"none", "LIVE", "CLEANED", "AMBIGUOUS"}
      /\ db'.work \in Discardable \cup {"none", "CLOSED", "AMBIGUOUS"}
      /\ db'.leaf \in {"none", "claimed", "created"} /\ db'.fresh \in BOOLEAN /\ db'.seal \in BOOLEAN
      /\ holder'.owner \in {"none", "session", "stage", "custody", "transferred"}
  BY DEF StoreTypes, HolderTypes, Stores, Bases, Holders
<1>2. TypeOK'
  BY <1>1 DEF TypeOK, DiskTypes, TableTypes, StepTypes, Errors
<1> QED BY <1>2 DEF BuildTypes, StoreTypes, HolderTypes

\* A record is made of its fields: the stage and its marker.
LEMMA DiskShape ==
    ASSUME BuildTypes
    PROVE  disk = [marker |-> disk.marker, dir |-> disk.dir, names |-> disk.names,
                   parquet |-> disk.parquet, reports |-> disk.reports]
  BY TypeParts DEF DiskTypes
\* The same for the registry.
LEMMA RegShape ==
    ASSUME BuildTypes
    PROVE  reg = [names |-> reg.names, parquet |-> reg.parquet, final |-> reg.final,
                  reports |-> reg.reports]
  BY TypeParts DEF DiskTypes
\* The same for the order store.
LEMMA StoreShape ==
    ASSUME BuildTypes
    PROVE  store = [state |-> store.state, custody |-> store.custody, candidate |-> store.candidate,
                    evidence |-> store.evidence, verifier |-> store.verifier]
  BY TypeParts DEF StoreTypes, Stores
\* The same for the database.
LEMMA BaseShape ==
    ASSUME BuildTypes
    PROVE  db = [work |-> db.work, leaf |-> db.leaf, fresh |-> db.fresh, seal |-> db.seal]
  BY TypeParts DEF StoreTypes, Bases
\* The same for the holder.
LEMMA HolderShape ==
    ASSUME BuildTypes
    PROVE  holder = [owner |-> holder.owner, state |-> holder.state, lock |-> holder.lock,
                     inputs |-> holder.inputs]
  BY TypeParts DEF HolderTypes, Holders

\* Where an error goes, from each call of the builder.
LEMMA Handlers ==
    /\ pc \in {"admit", "initialize", "issue"} => Handler(pc) = "closeInputs"
    /\ pc \in {"openWriters", "writeRows", "closeWriters", "verifyTables"} => Handler(pc) = "abortLayer"
    /\ pc \in {"claim", "extend"} => Handler(pc) \in {"closeCustody", "abortCheck"}
    /\ pc \in {"joinCandidates", "admitEvidence", "verifyEvidence"} => Handler(pc) = "closeCustody"
    /\ pc \in {"materialize", "checkpoint", "copy", "reopen", "seal"} => Handler(pc) = "closeWorkspace"
    /\ pc \in {"coreTables", "coreReports", "coreDatabase", "issueSet"} => Handler(pc) = "discardCheck"
    /\ pc = "accept" => Handler(pc) = "dropCheck"
    /\ pc \in {"openStore", "issueCustody", "takeCustody", "claimDatabase", "openWorkspace",
               "writeFinal", "transfer"} => Handler(pc) = "abortCheck"
<1> USE DEF Handler, LayerSteps, GoldSteps, BaseSteps, CoreSteps
<1>1. pc \in {"admit", "initialize", "issue"} => Handler(pc) = "closeInputs"  OBVIOUS
<1>2. pc \in {"openWriters", "writeRows", "closeWriters", "verifyTables"} => Handler(pc) = "abortLayer"
  OBVIOUS
<1>3. pc \in {"claim", "extend"} => Handler(pc) \in {"closeCustody", "abortCheck"}  OBVIOUS
<1>4. pc \in {"joinCandidates", "admitEvidence", "verifyEvidence"} => Handler(pc) = "closeCustody"
  OBVIOUS
<1>5. pc \in {"materialize", "checkpoint", "copy", "reopen", "seal"} => Handler(pc) = "closeWorkspace"
  OBVIOUS
<1>6. pc \in {"coreTables", "coreReports", "coreDatabase", "issueSet"} => Handler(pc) = "discardCheck"
  OBVIOUS
<1>7. pc = "accept" => Handler(pc) = "dropCheck"  OBVIOUS
<1>8. pc \in {"openStore", "issueCustody", "takeCustody", "claimDatabase", "openWorkspace",
              "writeFinal", "transfer"} => Handler(pc) = "abortCheck"
  OBVIOUS
<1> QED BY <1>1, <1>2, <1>3, <1>4, <1>5, <1>6, <1>7, <1>8

\* A call that succeeds goes on, error and faults as they were.
LEMMA GoEffect ==
    ASSUME NEW p, Go(p) PROVE pc' = p /\ error' = error /\ faults' = faults
  BY DEF Go

\* A refusal raises and counts no fault.
LEMMA RefuseEffect ==
    ASSUME BuildTypes, Refuse
    PROVE  /\ pc' = Handler(pc) /\ faults' = faults /\ error' # "none"
           /\ error' \in Errors
  BY DEF Refuse, Raise, BuildTypes, TypeOK, Errors

\* A fault raises and is counted.
LEMMA FaultEffect ==
    ASSUME BuildTypes, Fault
    PROVE  /\ pc' = Handler(pc) /\ faults' \in 0..MaxFaults /\ faults' # 0 /\ error' # "none"
           /\ error' \in Errors
  BY BuildAssumption DEF Fault, Raise, BuildTypes, TypeOK, Errors

\* Two faults, the second in the cleanup of the first.
LEMMA FaultTwiceEffect ==
    ASSUME BuildTypes, FaultTwice
    PROVE  /\ pc' = Handler(pc) /\ faults' \in 0..MaxFaults /\ faults' # 0 /\ error' # "none"
           /\ error' \in Errors
  BY BuildAssumption DEF FaultTwice, Raise, BuildTypes, TypeOK, Errors

\* A fault of a cleanup replaces the error.
LEMMA CleanupFaultEffect ==
    ASSUME BuildTypes, NEW p, CleanupFault(p)
    PROVE  pc' = p /\ faults' \in 0..MaxFaults /\ faults' # 0 /\ error' = "cleanup" /\ error' \in Errors
  BY BuildAssumption DEF CleanupFault, BuildTypes, TypeOK, Errors

\* A cleanup that gives up goes to its finally block.
LEMMA AbortFailsEffect ==
    ASSUME NEW k, AbortFails(k) PROVE pc' = "release" /\ faults' = faults /\ error' = k
  BY DEF AbortFails

(* The sequences of tables and leaves.                                        *)

\* Each layer is a sequence.
LEMMA LayersAreSequences ==
    /\ Bronze \in Seq(Range(Bronze)) /\ Silver \in Seq(Range(Silver)) /\ Gold \in Seq(Range(Gold))
<1>1. Layers[1] = Bronze /\ Layers[2] = Silver /\ Layers[3] = Gold
  BY DEF Layers
<1>2. 1 \in 1..3 /\ 2 \in 1..3 /\ 3 \in 1..3  OBVIOUS
<1> QED BY <1>1, <1>2, BuildAssumption

\* TABLE_SPECS is the three layers one after the other.
LEMMA TablesAreLayers ==
    /\ Tables = Range(Bronze) \cup Range(Silver) \cup Range(Gold)
    /\ TableSpecs \in Seq(Tables)
    /\ Len(TableSpecs) = Len(Bronze) + Len(Silver) + Len(Gold)
<1> DEFINE U == Range(Bronze) \cup Range(Silver) \cup Range(Gold)
           s == Bronze \o Silver
<1>1. Bronze \in Seq(U) /\ Silver \in Seq(U) /\ Gold \in Seq(U)
  BY LayersAreSequences, SeqMonotonic
<1>2. TableSpecs = s \o Gold  BY DEF TableSpecs
<1>3. U = Range(Bronze) \cup Range(Silver) \cup Range(Gold)  OBVIOUS
<1> HIDE DEF U
<1>4. s \in Seq(U) /\ Len(s) = Len(Bronze) + Len(Silver)
  BY <1>1, ConcatProperties
<1>5. Range(s) = Range(Bronze) \cup Range(Silver)
  BY <1>1, RangeConcatenation
<1> HIDE DEF s
<1>6. s \o Gold \in Seq(U) /\ Len(s \o Gold) = Len(s) + Len(Gold)
  BY <1>1, <1>4, ConcatProperties
<1>7. Range(s \o Gold) = Range(s) \cup Range(Gold)
  BY <1>1, <1>4, RangeConcatenation
<1>8. Tables = U  BY <1>2, <1>3, <1>5, <1>7 DEF Tables
<1> QED BY <1>2, <1>3, <1>4, <1>6, <1>8

\* The layer being written is part of TABLE_SPECS.
LEMMA LayerIsTables ==
    ASSUME BuildTypes PROVE LayerTables \subseteq Tables
<1>1. layer \in 1..3  BY DEF BuildTypes, TypeOK
<1>2. layer = 1 \/ layer = 2 \/ layer = 3  BY <1>1
<1> QED BY <1>2, TablesAreLayers DEF LayerTables, Layers

\* _require_staged_table_order counts within TABLE_SPECS.
LEMMA PrefixBound ==
    ASSUME BuildTypes PROVE Prefix \in 0..Len(TableSpecs)
<1>1. Len(Bronze) \in Nat /\ Len(Silver) \in Nat /\ Len(Gold) \in Nat
  BY LayersAreSequences, LenProperties
<1>2. Len(TableSpecs) = Len(Bronze) + Len(Silver) + Len(Gold)  BY TablesAreLayers
<1>3. layer \in 1..3  BY DEF BuildTypes, TypeOK
<1>4. CASE layer = 1  BY <1>1, <1>2, <1>4 DEF Prefix
<1>5. CASE layer = 2  BY <1>1, <1>2, <1>5 DEF Prefix
<1>6. CASE layer = 3  BY <1>1, <1>2, <1>6 DEF Prefix
<1> QED BY <1>3, <1>4, <1>5, <1>6

\* A staged set of full length has every table verified.
LEMMA RegisteredAll ==
    ASSUME Registered(Len(TableSpecs)) PROVE Tables \subseteq verified
<1>1. \A i \in 1..Len(TableSpecs) : SubSeq(TableSpecs, 1, Len(TableSpecs))[i] = TableSpecs[i]
  BY TablesAreLayers
<1>2. SubSeq(TableSpecs, 1, Len(TableSpecs)) = TableSpecs
  BY TablesAreLayers
<1> QED BY <1>2 DEF Registered, Tables

\* The two reports and the manifest.
LEMMA FinalsAre ==
    /\ Range(Finals) = {"source_audit", "quality_summary", "manifest.json"}
    /\ DOMAIN Finals = 1..3 /\ Finals[1] = "source_audit" /\ Finals[2] = "quality_summary"
    /\ Finals[3] = "manifest.json"
<1>1. /\ DOMAIN Finals = 1..3 /\ Finals[1] = "source_audit" /\ Finals[2] = "quality_summary"
      /\ Finals[3] = "manifest.json"
  BY DEF Finals
<1>2. 1..3 = {1, 2, 3}  OBVIOUS
<1> QED BY <1>1, <1>2 DEF Range

\* The manifest is the last final leaf.
LEMMA ManifestIsLast ==
    ASSUME NEW S, IsFirst(Finals, S, "manifest.json")
    PROVE  "source_audit" \notin S /\ "quality_summary" \notin S
<1>1. PICK i \in 1..3 : Finals[i] = "manifest.json" /\ \A j \in 1..3 : j < i => Finals[j] \notin S
  BY FinalsAre DEF IsFirst
<1>2. i = 3  BY <1>1, FinalsAre
<1> QED BY <1>1, <1>2, FinalsAre

\* What a removal takes.
LEMMA RemovalRange ==
    Range(RemovalOrder) = {"quality_summary", "source_audit", "reports", "manifest.json",
                           "finproof.duckdb", "parquet", "dir", "marker"} \cup Tables
<1> DEFINE a == <<"quality_summary", "source_audit", "reports", "manifest.json">>
           z == <<"finproof.duckdb", "parquet", "dir", "marker">>
           U == Range(a) \cup Tables \cup Range(z)
           s == a \o TableSpecs
<1>1. DOMAIN a = 1..4 /\ DOMAIN z = 1..4 /\ 1..4 = {1, 2, 3, 4}  OBVIOUS
<1>2. Range(a) = {a[1], a[2], a[3], a[4]} /\ Range(z) = {z[1], z[2], z[3], z[4]}
  BY <1>1 DEF Range
<1>3. a \in Seq(U) /\ z \in Seq(U) /\ TableSpecs \in Seq(U)
  <2>1. a \in Seq(Range(a)) /\ z \in Seq(Range(z))  BY <1>2
  <2> QED BY <2>1, TablesAreLayers, SeqMonotonic
<1>4. RemovalOrder = s \o z  BY DEF RemovalOrder
<1>5. /\ Range(a) = {"quality_summary", "source_audit", "reports", "manifest.json"}
      /\ Range(z) = {"finproof.duckdb", "parquet", "dir", "marker"}
  BY <1>2
<1> HIDE DEF a, z, U
<1>6. s \in Seq(U) /\ Range(s) = Range(a) \cup Tables
  BY <1>3, ConcatProperties, RangeConcatenation DEF Tables
<1> HIDE DEF s
<1>7. Range(s \o z) = Range(s) \cup Range(z)
  BY <1>3, <1>6, RangeConcatenation
<1> QED BY <1>4, <1>5, <1>6, <1>7

\* When no artifact of the removal order is present, the stage is gone, but for
\* names that are not artifacts.
LEMMA NothingLeft ==
    ASSUME BuildTypes, Left = {}
    PROVE  /\ ~disk.dir /\ ~disk.marker /\ disk.parquet = {} /\ disk.reports = {}
           /\ disk.names \cap FinalNames = {}
<1>1. \A i \in Range(RemovalOrder) : ~Present(i)  BY DEF Left
<1>2. ~Present("dir") /\ ~Present("marker")  BY <1>1, RemovalRange
<1>3. ~disk.dir /\ ~disk.marker
  BY <1>2, BuildAssumption DEF Present, Reports, FinalNames
<1>4. \A t \in Tables : t \notin disk.parquet
  <2> SUFFICES ASSUME NEW t \in Tables, t \in disk.parquet PROVE FALSE
    OBVIOUS
  <2>1. t \notin Reports /\ t \notin FinalNames /\ t # "dir" /\ t # "marker"
    BY BuildAssumption
  <2>2. ~Present(t)  BY <1>1, RemovalRange
  <2> QED BY <2>1, <2>2 DEF Present
<1>5. \A r \in Reports : r \notin disk.reports
  <2> SUFFICES ASSUME NEW r \in Reports, r \in disk.reports PROVE FALSE
    OBVIOUS
  <2>1. r \notin FinalNames /\ r \notin Tables /\ r # "dir" /\ r # "marker"
    BY BuildAssumption DEF Reports, FinalNames
  <2>2. ~Present(r)  BY <1>1, RemovalRange DEF Reports
  <2> QED BY <2>1, <2>2 DEF Present
<1>6. \A n \in FinalNames : n \notin disk.names
  <2> SUFFICES ASSUME NEW n \in FinalNames, n \in disk.names PROVE FALSE
    OBVIOUS
  <2>1. n \notin Reports /\ n \notin Tables /\ n # "dir" /\ n # "marker"
    BY BuildAssumption DEF Reports, FinalNames
  <2>2. ~Present(n)  BY <1>1, RemovalRange DEF FinalNames
  <2> QED BY <2>1, <2>2 DEF Present
<1>7. disk.parquet \subseteq Tables /\ disk.reports \subseteq Reports
  BY TypeParts DEF DiskTypes
<1> QED BY <1>3, <1>4, <1>5, <1>6, <1>7

\* The marker goes after the stage directory.
LEMMA MarkerIsLast ==
    ASSUME NEW S, IsFirst(RemovalOrder, S, "marker") PROVE "dir" \notin S
<1> DEFINE a == <<"quality_summary", "source_audit", "reports", "manifest.json">>
           z == <<"finproof.duckdb", "parquet", "dir", "marker">>
           U == Range(a) \cup Tables
           V == Range(z)
           s == a \o TableSpecs
<1>1. DOMAIN a = 1..4 /\ DOMAIN z = 1..4 /\ 1..4 = {1, 2, 3, 4}  OBVIOUS
<1>2. Range(a) = {"quality_summary", "source_audit", "reports", "manifest.json"}
  BY <1>1 DEF Range
<1>3. a \in Seq(U) /\ TableSpecs \in Seq(U) /\ z \in Seq(V)
  <2>1. a \in Seq(Range(a)) /\ z \in Seq(Range(z))  BY <1>1 DEF Range
  <2> QED BY <2>1, TablesAreLayers, SeqMonotonic
<1>4. RemovalOrder = s \o z  BY DEF RemovalOrder
<1>5. Len(z) = 4 /\ z[1] # "marker" /\ z[2] # "marker" /\ z[3] = "dir" /\ z[3] # "marker"  OBVIOUS
<1>6. "marker" \notin U  BY <1>2, BuildAssumption
<1> HIDE DEF a, z, U, V
<1>7. s \in Seq(U)  BY <1>3, ConcatProperties
<1> HIDE DEF s
<1> DEFINE n == Len(s)
<1>8. n \in Nat /\ \A j \in 1..n : s[j] # "marker"
  BY <1>6, <1>7, LenProperties, ElementOfSeq
<1>9. /\ Len(s \o z) = n + 4 /\ DOMAIN (s \o z) = 1..(n + 4)
      /\ \A j \in 1..(n + 4) : (s \o z)[j] = IF j <= n THEN s[j] ELSE z[j - n]
  <2> DEFINE W == U \cup V
  <2>1. s \in Seq(W) /\ z \in Seq(W)  BY <1>3, <1>7, SeqMonotonic
  <2> HIDE DEF W
  <2>2. /\ s \o z \in Seq(W) /\ Len(s \o z) = Len(s) + Len(z)
        /\ \A i \in 1..Len(s) + Len(z) : (s \o z)[i] = IF i <= Len(s) THEN s[i] ELSE z[i - Len(s)]
    BY <2>1, ConcatProperties
  <2> QED BY <1>5, <1>8, <2>2, LenProperties
<1> HIDE DEF n
<1>10. PICK k \in 1..(n + 4) : /\ (s \o z)[k] = "marker"
                               /\ \A j \in 1..(n + 4) : j < k => (s \o z)[j] \notin S
  BY <1>4, <1>9 DEF IsFirst
<1>11. k > n  BY <1>8, <1>9, <1>10
<1>12. k - n \in 1..4 /\ z[k - n] = "marker"  BY <1>8, <1>9, <1>10, <1>11
<1>13. k = n + 4
  <2>1. k - n = 1 \/ k - n = 2 \/ k - n = 3 \/ k - n = 4  BY <1>8, <1>12
  <2> QED BY <1>5, <1>8, <1>12, <2>1
<1>14. (s \o z)[n + 3] = "dir" /\ n + 3 \in 1..(n + 4) /\ n + 3 < k
  BY <1>5, <1>8, <1>9, <1>13
<1> QED BY <1>10, <1>14

\* verify_build_inputs: nothing but the inputs is held.
LEMMA AdmitInputsKeeps ==
    ASSUME BuildInv, AdmitInputs PROVE BuildInv'
<1> USE DEF BuildInv, AdmitInputs, InputsHeld
<1>1. BuildTypes'
  <2>1. DiskTypes'
    BY TypeParts DEF DiskTypes, FinalNames, WorkNames, Reports, Finals
  <2>2. TableTypes'
    BY TypeParts DEF TableTypes
  <2>3. StoreTypes'
    BY TypeParts DEF StoreTypes, Stores, Bases, Discardable
  <2>4. HolderTypes'
    BY TypeParts DEF HolderTypes, Holders
  <2>5. StepTypes'
    BY TypeParts, RefuseEffect, GoEffect, Handlers DEF StepTypes, Errors
  <2> QED BY <2>1, <2>2, <2>3, <2>4, <2>5, TypesFromParts
<1>2. ErrorInv'
  BY TypeParts, HolderShape, RefuseEffect, GoEffect, Handlers DEF ErrorInv, Aborting
<1>3. PhaseInv'
  BY TypeParts, HolderShape, RefuseEffect, GoEffect, Handlers DEF PhaseInv, Opening, Finishing,
     BaseSteps, Registered, NoStage
<1>4. ForwardInv'
  BY TypeParts, HolderShape, RefuseEffect, GoEffect, Handlers DEF ForwardInv, Removing, Opening,
     LayerTables, ErrorInv, Aborting
<1>5. HolderInv'
  BY TypeParts, HolderShape, RefuseEffect, GoEffect, Handlers DEF HolderInv, HandedOver,
     CoreSteps, Opening, Removing
<1>6. CandidateComplete'
  BY TypeParts, HolderShape, RefuseEffect, GoEffect, Handlers DEF CandidateComplete, HolderInv,
     HandedOver, CoreSteps, Complete
<1>7. InventoryInv'
  BY TypeParts, HolderShape, RefuseEffect, GoEffect, Handlers DEF InventoryInv, Opening,
     Removing
<1>8. WorkingInv'
  BY TypeParts, HolderShape, RefuseEffect, GoEffect, Handlers DEF WorkingInv, Discardable,
     FreshInv, LeafIntact
<1>9. LeftoverInv'
  BY TypeParts, HolderShape, RefuseEffect, GoEffect, Handlers DEF LeftoverInv, NoStage,
     PhaseInv, Opening
<1>10. FreshInv'
  BY TypeParts, HolderShape, RefuseEffect, GoEffect, Handlers DEF FreshInv, LeafIntact,
     PhaseInv, Finishing, BaseSteps
<1>11. RemovalInv'
  BY TypeParts, HolderShape, RefuseEffect, GoEffect, Handlers DEF RemovalInv, Remaining,
     PhaseInv, NoStage, Opening, HolderInv
<1>12. ResidueReported'
  BY TypeParts, HolderShape, RefuseEffect, GoEffect, Handlers DEF ResidueReported, RemovalInv,
     Remaining
<1> QED BY <1>1, <1>2, <1>3, <1>4, <1>5, <1>6, <1>7, <1>8, <1>9, <1>10, <1>11, <1>12

\* ArtifactBuildSession.initialize makes the first registered inventory.
LEMMA InitializeKeeps ==
    ASSUME BuildInv, Initialize PROVE BuildInv'
<1> BuildTypes  BY DEF BuildInv
<1>e. /\ pc = "initialize" /\ UNCHANGED <<layer, leaf, writer, verified, staged, store, db, changed, temp>>
      /\ \/ /\ Go("openStore") /\ disk'.marker /\ disk'.dir /\ disk'.names = {"parquet"}
            /\ disk'.parquet = disk.parquet /\ disk'.reports = disk.reports
            /\ reg'.names = {"parquet"} /\ reg'.parquet = reg.parquet /\ reg'.final = reg.final
            /\ reg'.reports = reg.reports
            /\ holder'.owner = "session" /\ holder'.state = "LIVE" /\ holder'.lock
         \/ Refuse /\ UNCHANGED <<disk, reg, holder>>
  BY DiskShape, RegShape, HolderShape DEF Initialize
<1> USE DEF BuildInv
<1>1. BuildTypes'
  <2>1. DiskTypes'
    <3>1. CASE UNCHANGED <<disk, reg>>  BY <3>1, TypeParts DEF DiskTypes
    <3>2. CASE /\ disk' = [disk EXCEPT !.marker = TRUE, !.dir = TRUE, !.names = {"parquet"}]
               /\ reg' = [reg EXCEPT !.names = {"parquet"}]
      <4>1. disk' = [marker |-> TRUE, dir |-> TRUE, names |-> {"parquet"}, parquet |-> disk.parquet,
                     reports |-> disk.reports]
        BY <3>2, DiskShape
      <4>2. reg' = [names |-> {"parquet"}, parquet |-> reg.parquet, final |-> reg.final,
                    reports |-> reg.reports]
        BY <3>2, RegShape
      <4> QED BY <4>1, <4>2, TypeParts DEF DiskTypes, FinalNames
    <3> QED BY <3>1, <3>2 DEF Initialize
  <2>2. TableTypes'
    BY TypeParts DEF TableTypes, Initialize
  <2>3. StoreTypes'
    BY TypeParts DEF StoreTypes, Stores, Bases, Discardable, Initialize
  <2>4. HolderTypes'
    BY TypeParts DEF HolderTypes, Holders, Initialize
  <2>5. StepTypes'
    BY TypeParts, RefuseEffect, GoEffect, Handlers DEF StepTypes, Errors, Initialize
  <2> QED BY <2>1, <2>2, <2>3, <2>4, <2>5, TypesFromParts
<1>2. ErrorInv'
  BY <1>e, TypeParts, RefuseEffect, GoEffect, Handlers DEF ErrorInv, Aborting
<1>3. PhaseInv'
  BY <1>e, TypeParts, RefuseEffect, GoEffect, Handlers DEF PhaseInv, Opening, Finishing,
     BaseSteps, Registered, NoStage
<1>4. ForwardInv'
  BY <1>e, TypeParts, RefuseEffect, GoEffect, Handlers DEF ForwardInv, Removing, Opening,
     LayerTables, ErrorInv, Aborting, PhaseInv, NoStage
<1>5. HolderInv'
  BY <1>e, TypeParts, RefuseEffect, GoEffect, Handlers DEF HolderInv, HandedOver, CoreSteps,
     Opening, Removing
<1>6. CandidateComplete'
  BY <1>e, TypeParts, RefuseEffect, GoEffect, Handlers DEF CandidateComplete, HolderInv,
     HandedOver, CoreSteps, Complete
<1>7. InventoryInv'
  BY <1>e, TypeParts, RefuseEffect, GoEffect, Handlers DEF InventoryInv, Opening, Removing
<1>8. WorkingInv'
  BY <1>e, TypeParts, RefuseEffect, GoEffect, Handlers DEF WorkingInv, Discardable, FreshInv,
     LeafIntact
<1>9. LeftoverInv'
  BY <1>e, TypeParts, RefuseEffect, GoEffect, Handlers DEF LeftoverInv, NoStage, PhaseInv,
     Opening
<1>10. FreshInv'
  BY <1>e, TypeParts, RefuseEffect, GoEffect, Handlers DEF FreshInv, LeafIntact, PhaseInv,
     Finishing, BaseSteps
<1>11. RemovalInv'
  BY <1>e, TypeParts, RefuseEffect, GoEffect, Handlers DEF RemovalInv, Remaining, PhaseInv,
     NoStage, Opening, HolderInv
<1>12. ResidueReported'
  BY <1>e, TypeParts, RefuseEffect, GoEffect, Handlers DEF ResidueReported, RemovalInv,
     Remaining
<1> QED BY <1>1, <1>2, <1>3, <1>4, <1>5, <1>6, <1>7, <1>8, <1>9, <1>10, <1>11, <1>12

\* The store's directory is registered before the store is live.
LEMMA OpenOrderStoreKeeps ==
    ASSUME BuildInv, OpenOrderStore PROVE BuildInv'
<1> BuildTypes  BY DEF BuildInv
<1>e. /\ pc = "openStore" /\ UNCHANGED <<layer, leaf, writer, verified, staged, holder, changed, temp>>
      /\ \/ Refuse /\ UNCHANGED <<disk, reg, store, db>>
         \/ /\ NamesOnly /\ BaseKept /\ db'.work = db.work
            /\ disk'.names = disk.names \cup {"order-store"} /\ reg'.names = reg.names \cup {"order-store"}
            /\ \/ store'.state = "LIVE" /\ store'.verifier = store.verifier /\ Go("claim")
               \/ UNCHANGED store /\ Fault
  BY DiskShape, RegShape, StoreShape, BaseShape DEF OpenOrderStore, InputsHeld, AddName, Register, Touched
<1> USE DEF BuildInv
<1>1. BuildTypes'
  <2>1. DiskTypes'
    BY TypeParts DEF DiskTypes, FinalNames, WorkNames, Reports, Finals, OpenOrderStore,
       InputsHeld, AddName, Register, Touched
  <2>2. TableTypes'
    BY TypeParts DEF TableTypes, OpenOrderStore, InputsHeld, AddName, Register, Touched
  <2>3. StoreTypes'
    BY TypeParts DEF StoreTypes, Stores, Bases, Discardable, OpenOrderStore, InputsHeld,
       AddName, Register, Touched
  <2>4. HolderTypes'
    BY TypeParts DEF HolderTypes, Holders, OpenOrderStore, InputsHeld, AddName, Register,
       Touched
  <2>5. StepTypes'
    BY TypeParts, RefuseEffect, FaultEffect, GoEffect, Handlers DEF StepTypes, Errors,
       OpenOrderStore, InputsHeld, AddName, Register, Touched
  <2> QED BY <2>1, <2>2, <2>3, <2>4, <2>5, TypesFromParts
<1>2. ErrorInv'
  BY <1>e, TypeParts, RefuseEffect, FaultEffect, GoEffect, Handlers DEF ErrorInv, Aborting
<1>3. PhaseInv'
  BY <1>e, TypeParts, RefuseEffect, FaultEffect, GoEffect, Handlers DEF PhaseInv, Opening,
     Finishing, BaseSteps, Registered, NoStage
<1>4. ForwardInv'
  BY <1>e, TypeParts, RefuseEffect, FaultEffect, GoEffect, Handlers DEF ForwardInv, Removing,
     Opening, LayerTables, ErrorInv, Aborting
<1>5. HolderInv'
  BY <1>e, TypeParts, RefuseEffect, FaultEffect, GoEffect, Handlers DEF HolderInv, HandedOver,
     CoreSteps, Opening, Removing
<1>6. CandidateComplete'
  BY <1>e, TypeParts, RefuseEffect, FaultEffect, GoEffect, Handlers DEF CandidateComplete,
     HolderInv, HandedOver, CoreSteps, Complete
<1>7. InventoryInv'
  BY <1>e, TypeParts, RefuseEffect, FaultEffect, GoEffect, Handlers DEF InventoryInv, Opening,
     Removing
<1>8. WorkingInv'
  BY <1>e, TypeParts, RefuseEffect, FaultEffect, GoEffect, Handlers DEF WorkingInv, Discardable,
     FreshInv, LeafIntact
<1>9. LeftoverInv'
  BY <1>e, TypeParts, RefuseEffect, FaultEffect, GoEffect, Handlers DEF LeftoverInv, NoStage,
     PhaseInv, Opening
<1>10. FreshInv'
  BY <1>e, TypeParts, RefuseEffect, FaultEffect, GoEffect, Handlers DEF FreshInv, LeafIntact,
     PhaseInv, Finishing, BaseSteps
<1>11. RemovalInv'
  BY <1>e, TypeParts, RefuseEffect, FaultEffect, GoEffect, Handlers DEF RemovalInv, Remaining,
     PhaseInv, NoStage, Opening, HolderInv
<1>12. ResidueReported'
  BY <1>e, TypeParts, RefuseEffect, FaultEffect, GoEffect, Handlers DEF ResidueReported,
     RemovalInv, Remaining
<1> QED BY <1>1, <1>2, <1>3, <1>4, <1>5, <1>6, <1>7, <1>8, <1>9, <1>10, <1>11, <1>12

\* claim_parquet_leaf: claims are not on disk.
LEMMA ClaimLeavesKeeps ==
    ASSUME BuildInv, ClaimLeaves PROVE BuildInv'
<1> USE DEF BuildInv, ClaimLeaves, InputsHeld, Claimed
<1>1. BuildTypes'
  <2>1. DiskTypes'
    BY TypeParts, LayerIsTables DEF DiskTypes, FinalNames, WorkNames, Reports, Finals
  <2>2. TableTypes'
    BY TypeParts, LayerIsTables DEF TableTypes
  <2>3. StoreTypes'
    BY TypeParts DEF StoreTypes, Stores, Bases, Discardable
  <2>4. HolderTypes'
    BY TypeParts DEF HolderTypes, Holders
  <2>5. StepTypes'
    BY TypeParts, RefuseEffect, GoEffect, Handlers DEF StepTypes, Errors
  <2> QED BY <2>1, <2>2, <2>3, <2>4, <2>5, TypesFromParts
<1>2. ErrorInv'
  BY TypeParts, RefuseEffect, GoEffect, Handlers DEF ErrorInv, Aborting
<1>3. PhaseInv'
  BY TypeParts, RefuseEffect, GoEffect, Handlers DEF PhaseInv, Opening, Finishing, BaseSteps,
     Registered, NoStage
<1>4. ForwardInv'
  BY TypeParts, LayerIsTables, RefuseEffect, GoEffect, Handlers DEF ForwardInv, Removing,
     Opening, LayerTables, ErrorInv, Aborting, TableTypes
<1>5. HolderInv'
  BY TypeParts, RefuseEffect, GoEffect, Handlers DEF HolderInv, HandedOver, CoreSteps, Opening,
     Removing
<1>6. CandidateComplete'
  BY TypeParts, RefuseEffect, GoEffect, Handlers DEF CandidateComplete, HolderInv, HandedOver,
     CoreSteps, Complete
<1>7. InventoryInv'
  BY TypeParts, RefuseEffect, GoEffect, Handlers DEF InventoryInv, Opening, Removing
<1>8. WorkingInv'
  BY TypeParts, RefuseEffect, GoEffect, Handlers DEF WorkingInv, Discardable, FreshInv,
     LeafIntact
<1>9. LeftoverInv'
  BY TypeParts, RefuseEffect, GoEffect, Handlers DEF LeftoverInv, NoStage, PhaseInv, Opening
<1>10. FreshInv'
  BY TypeParts, RefuseEffect, GoEffect, Handlers DEF FreshInv, LeafIntact, PhaseInv, Finishing,
     BaseSteps
<1>11. RemovalInv'
  BY TypeParts, RefuseEffect, GoEffect, Handlers DEF RemovalInv, Remaining, PhaseInv, NoStage,
     Opening, HolderInv
<1>12. ResidueReported'
  BY TypeParts, RefuseEffect, GoEffect, Handlers DEF ResidueReported, RemovalInv, Remaining
<1> QED BY <1>1, <1>2, <1>3, <1>4, <1>5, <1>6, <1>7, <1>8, <1>9, <1>10, <1>11, <1>12

\* A created leaf is registered, unless the call that creates it fails.
LEMMA OpenWriterKeeps ==
    ASSUME BuildInv, OpenWriter PROVE BuildInv'
<1> BuildTypes  BY DEF BuildInv
<1>e. /\ pc = "openWriters" /\ UNCHANGED <<layer, verified, staged, store, db, holder, changed, temp>>
      /\ LeavesOnly
      /\ \E t \in LayerTables :
            /\ disk'.parquet = disk.parquet \cup {t}
            /\ \/ /\ reg'.parquet = reg.parquet \cup {t} /\ leaf' = [leaf EXCEPT ![t] = "created"]
                  /\ writer' = [writer EXCEPT ![t] = "open"]
                  /\ (Go("writeRows") \/ Go("openWriters"))
               \/ /\ Fault /\ UNCHANGED writer
                  /\ \/ reg'.parquet = reg.parquet \cup {t} /\ leaf' = [leaf EXCEPT ![t] = "created"]
                     \/ reg' = reg /\ UNCHANGED leaf
  BY DiskShape, RegShape DEF OpenWriter, Created
<1> USE DEF BuildInv
<1>1. BuildTypes'
  <2>1. DiskTypes'
    BY TypeParts, LayerIsTables DEF DiskTypes, FinalNames, WorkNames, Reports, Finals,
       OpenWriter, Created
  <2>2. TableTypes'
    BY TypeParts, LayerIsTables DEF TableTypes, OpenWriter, Created
  <2>3. StoreTypes'
    BY TypeParts DEF StoreTypes, Stores, Bases, Discardable, OpenWriter, Created
  <2>4. HolderTypes'
    BY TypeParts DEF HolderTypes, Holders, OpenWriter, Created
  <2>5. StepTypes'
    BY TypeParts, FaultEffect, GoEffect, Handlers DEF StepTypes, Errors, OpenWriter, Created
  <2> QED BY <2>1, <2>2, <2>3, <2>4, <2>5, TypesFromParts
<1>2. ErrorInv'
  BY <1>e, TypeParts, FaultEffect, GoEffect, Handlers DEF ErrorInv, Aborting
<1>3. PhaseInv'
  BY <1>e, TypeParts, FaultEffect, GoEffect, Handlers DEF PhaseInv, Opening, Finishing,
     BaseSteps, Registered, NoStage
<1>4. ForwardInv'
  BY <1>e, TypeParts, LayerIsTables, FaultEffect, GoEffect, Handlers DEF ForwardInv, Removing,
     Opening, LayerTables, ErrorInv, Aborting, TableTypes
<1>5. HolderInv'
  BY <1>e, TypeParts, FaultEffect, GoEffect, Handlers DEF HolderInv, HandedOver, CoreSteps,
     Opening, Removing
<1>6. CandidateComplete'
  BY <1>e, TypeParts, FaultEffect, GoEffect, Handlers DEF CandidateComplete, HolderInv,
     HandedOver, CoreSteps, Complete
<1>7. InventoryInv'
  BY <1>e, TypeParts, FaultEffect, GoEffect, Handlers DEF InventoryInv, Opening, Removing
<1>8. WorkingInv'
  BY <1>e, TypeParts, LayerIsTables, FaultEffect, GoEffect, Handlers DEF WorkingInv,
     Discardable, FreshInv, LeafIntact, TableTypes
<1>9. LeftoverInv'
  BY <1>e, TypeParts, FaultEffect, GoEffect, Handlers DEF LeftoverInv, NoStage, PhaseInv,
     Opening
<1>10. FreshInv'
  BY <1>e, TypeParts, FaultEffect, GoEffect, Handlers DEF FreshInv, LeafIntact, PhaseInv,
     Finishing, BaseSteps
<1>11. RemovalInv'
  BY <1>e, TypeParts, FaultEffect, GoEffect, Handlers DEF RemovalInv, Remaining, PhaseInv,
     NoStage, Opening, HolderInv
<1>12. ResidueReported'
  BY <1>e, TypeParts, FaultEffect, GoEffect, Handlers DEF ResidueReported, RemovalInv, Remaining
<1> QED BY <1>1, <1>2, <1>3, <1>4, <1>5, <1>6, <1>7, <1>8, <1>9, <1>10, <1>11, <1>12

\* write_batch breaks a writer only through a failing call.
LEMMA WriteRowsKeeps ==
    ASSUME BuildInv, WriteRows PROVE BuildInv'
<1> USE DEF BuildInv, WriteRows
<1>1. BuildTypes'
  <2>1. DiskTypes'
    BY TypeParts, LayerIsTables DEF DiskTypes, FinalNames, WorkNames, Reports, Finals
  <2>2. TableTypes'
    BY TypeParts, LayerIsTables DEF TableTypes
  <2>3. StoreTypes'
    BY TypeParts DEF StoreTypes, Stores, Bases, Discardable
  <2>4. HolderTypes'
    BY TypeParts DEF HolderTypes, Holders
  <2>5. StepTypes'
    BY TypeParts, RefuseEffect, FaultEffect, GoEffect, Handlers DEF StepTypes, Errors
  <2> QED BY <2>1, <2>2, <2>3, <2>4, <2>5, TypesFromParts
<1>2. ErrorInv'
  BY TypeParts, RefuseEffect, FaultEffect, GoEffect, Handlers DEF ErrorInv, Aborting
<1>3. PhaseInv'
  BY TypeParts, RefuseEffect, FaultEffect, GoEffect, Handlers DEF PhaseInv, Opening, Finishing,
     BaseSteps, Registered, NoStage
<1>4. ForwardInv'
  BY TypeParts, RefuseEffect, FaultEffect, GoEffect, Handlers DEF ForwardInv, Removing, Opening,
     LayerTables, ErrorInv, Aborting
<1>5. HolderInv'
  BY TypeParts, RefuseEffect, FaultEffect, GoEffect, Handlers DEF HolderInv, HandedOver,
     CoreSteps, Opening, Removing
<1>6. CandidateComplete'
  BY TypeParts, RefuseEffect, FaultEffect, GoEffect, Handlers DEF CandidateComplete, HolderInv,
     HandedOver, CoreSteps, Complete
<1>7. InventoryInv'
  BY TypeParts, RefuseEffect, FaultEffect, GoEffect, Handlers DEF InventoryInv, Opening,
     Removing
<1>8. WorkingInv'
  BY TypeParts, RefuseEffect, FaultEffect, GoEffect, Handlers DEF WorkingInv, Discardable,
     FreshInv, LeafIntact
<1>9. LeftoverInv'
  BY TypeParts, RefuseEffect, FaultEffect, GoEffect, Handlers DEF LeftoverInv, NoStage,
     PhaseInv, Opening
<1>10. FreshInv'
  BY TypeParts, RefuseEffect, FaultEffect, GoEffect, Handlers DEF FreshInv, LeafIntact,
     PhaseInv, Finishing, BaseSteps
<1>11. RemovalInv'
  BY TypeParts, RefuseEffect, FaultEffect, GoEffect, Handlers DEF RemovalInv, Remaining,
     PhaseInv, NoStage, Opening, HolderInv
<1>12. ResidueReported'
  BY TypeParts, RefuseEffect, FaultEffect, GoEffect, Handlers DEF ResidueReported, RemovalInv,
     Remaining
<1> QED BY <1>1, <1>2, <1>3, <1>4, <1>5, <1>6, <1>7, <1>8, <1>9, <1>10, <1>11, <1>12

\* ParquetBatchWriter.close: the layer is verified when no claim is left.
LEMMA CloseWriterKeeps ==
    ASSUME BuildInv, CloseWriter PROVE BuildInv'
<1> BuildTypes  BY DEF BuildInv
<1>e. /\ pc = "closeWriters" /\ UNCHANGED <<layer, leaf, disk, reg, verified, staged, store, db, holder, changed, temp>>
      /\ \E t \in LayerTables :
            \/ /\ writer' = [writer EXCEPT ![t] = "none"]
               /\ \/ Go("closeWriters") \/ Go("openWriters")
                  \/ Go("verifyTables") /\ \A u \in LayerTables : leaf[u] # "claimed"
            \/ writer' = [writer EXCEPT ![t] = "broken"] /\ Fault
  BY BuildTypes DEF CloseWriter, AnyLeaf
<1> USE DEF BuildInv
<1>1. BuildTypes'
  <2>1. DiskTypes'
    BY TypeParts, LayerIsTables DEF DiskTypes, FinalNames, WorkNames, Reports, Finals,
       CloseWriter, AnyLeaf
  <2>2. TableTypes'
    BY TypeParts, LayerIsTables DEF TableTypes, CloseWriter, AnyLeaf
  <2>3. StoreTypes'
    BY TypeParts DEF StoreTypes, Stores, Bases, Discardable, CloseWriter, AnyLeaf
  <2>4. HolderTypes'
    BY TypeParts DEF HolderTypes, Holders, CloseWriter, AnyLeaf
  <2>5. StepTypes'
    BY TypeParts, FaultEffect, GoEffect, Handlers DEF StepTypes, Errors, CloseWriter, AnyLeaf
  <2> QED BY <2>1, <2>2, <2>3, <2>4, <2>5, TypesFromParts
<1>2. ErrorInv'
  BY <1>e, TypeParts, FaultEffect, GoEffect, Handlers DEF ErrorInv, Aborting
<1>3. PhaseInv'
  BY <1>e, TypeParts, FaultEffect, GoEffect, Handlers DEF PhaseInv, Opening, Finishing,
     BaseSteps, Registered, NoStage
<1>4. ForwardInv'
  BY <1>e, TypeParts, LayerIsTables, FaultEffect, GoEffect, Handlers DEF ForwardInv, Removing,
     Opening, LayerTables, ErrorInv, Aborting, TableTypes
<1>5. HolderInv'
  BY <1>e, TypeParts, FaultEffect, GoEffect, Handlers DEF HolderInv, HandedOver, CoreSteps,
     Opening, Removing
<1>6. CandidateComplete'
  BY <1>e, TypeParts, FaultEffect, GoEffect, Handlers DEF CandidateComplete, HolderInv,
     HandedOver, CoreSteps, Complete
<1>7. InventoryInv'
  BY <1>e, TypeParts, FaultEffect, GoEffect, Handlers DEF InventoryInv, Opening, Removing
<1>8. WorkingInv'
  BY <1>e, TypeParts, LayerIsTables, FaultEffect, GoEffect, Handlers DEF WorkingInv,
     Discardable, FreshInv, LeafIntact, TableTypes
<1>9. LeftoverInv'
  BY <1>e, TypeParts, FaultEffect, GoEffect, Handlers DEF LeftoverInv, NoStage, PhaseInv,
     Opening
<1>10. FreshInv'
  BY <1>e, TypeParts, FaultEffect, GoEffect, Handlers DEF FreshInv, LeafIntact, PhaseInv,
     Finishing, BaseSteps
<1>11. RemovalInv'
  BY <1>e, TypeParts, FaultEffect, GoEffect, Handlers DEF RemovalInv, Remaining, PhaseInv,
     NoStage, Opening, HolderInv
<1>12. ResidueReported'
  BY <1>e, TypeParts, FaultEffect, GoEffect, Handlers DEF ResidueReported, RemovalInv, Remaining
<1> QED BY <1>1, <1>2, <1>3, <1>4, <1>5, <1>6, <1>7, <1>8, <1>9, <1>10, <1>11, <1>12

\* Only leaves that are registered become verified.
LEMMA VerifyTableKeeps ==
    ASSUME BuildInv, VerifyTable PROVE BuildInv'
<1> USE DEF BuildInv, VerifyTable, Touched, AddName
<1>1. BuildTypes'
  <2>1. DiskTypes'
    BY TypeParts, LayerIsTables DEF DiskTypes, FinalNames, WorkNames, Reports, Finals
  <2>2. TableTypes'
    BY TypeParts, LayerIsTables DEF TableTypes
  <2>3. StoreTypes'
    BY TypeParts DEF StoreTypes, Stores, Bases, Discardable
  <2>4. HolderTypes'
    BY TypeParts DEF HolderTypes, Holders
  <2>5. StepTypes'
    BY TypeParts, RefuseEffect, FaultEffect, GoEffect, Handlers DEF StepTypes, Errors
  <2> QED BY <2>1, <2>2, <2>3, <2>4, <2>5, TypesFromParts
<1>2. ErrorInv'
  BY TypeParts, DiskShape, BaseShape, RefuseEffect, FaultEffect, GoEffect, Handlers
     DEF ErrorInv, Aborting
<1>3. PhaseInv'
  BY TypeParts, DiskShape, BaseShape, RefuseEffect, FaultEffect, GoEffect, Handlers
     DEF PhaseInv, Opening, Finishing, BaseSteps, Registered, NoStage
<1>4. ForwardInv'
  BY TypeParts, DiskShape, BaseShape, RefuseEffect, FaultEffect, GoEffect, Handlers
     DEF ForwardInv, Removing, Opening, LayerTables, ErrorInv, Aborting
<1>5. HolderInv'
  BY TypeParts, DiskShape, BaseShape, RefuseEffect, FaultEffect, GoEffect, Handlers
     DEF HolderInv, HandedOver, CoreSteps, Opening, Removing
<1>6. CandidateComplete'
  BY TypeParts, DiskShape, BaseShape, RefuseEffect, FaultEffect, GoEffect, Handlers
     DEF CandidateComplete, HolderInv, HandedOver, CoreSteps, Complete
<1>7. InventoryInv'
  BY TypeParts, DiskShape, BaseShape, RefuseEffect, FaultEffect, GoEffect, Handlers
     DEF InventoryInv, Opening, Removing
<1>8. WorkingInv'
  BY TypeParts, DiskShape, BaseShape, RefuseEffect, FaultEffect, GoEffect, Handlers
     DEF WorkingInv, Discardable, FreshInv, LeafIntact
<1>9. LeftoverInv'
  BY TypeParts, DiskShape, BaseShape, RefuseEffect, FaultEffect, GoEffect, Handlers
     DEF LeftoverInv, NoStage, PhaseInv, Opening
<1>10. FreshInv'
  BY TypeParts, DiskShape, BaseShape, RefuseEffect, FaultEffect, GoEffect, Handlers
     DEF FreshInv, LeafIntact, PhaseInv, Finishing, BaseSteps
<1>11. RemovalInv'
  BY TypeParts, DiskShape, BaseShape, RefuseEffect, FaultEffect, GoEffect, Handlers
     DEF RemovalInv, Remaining, PhaseInv, NoStage, Opening, HolderInv
<1>12. ResidueReported'
  BY TypeParts, DiskShape, BaseShape, RefuseEffect, FaultEffect, GoEffect, Handlers
     DEF ResidueReported, RemovalInv, Remaining
<1> QED BY <1>1, <1>2, <1>3, <1>4, <1>5, <1>6, <1>7, <1>8, <1>9, <1>10, <1>11, <1>12

\* The staged set is a registered prefix of TABLE_SPECS.
LEMMA ExtendSetKeeps ==
    ASSUME BuildInv, ExtendSet PROVE BuildInv'
<1> BuildTypes  BY DEF BuildInv
<1>e. /\ pc = "extend" /\ UNCHANGED <<leaf, writer, disk, reg, verified, store, db, holder, changed, temp>>
      /\ \/ /\ Registered(Prefix) /\ staged' = Prefix /\ layer' \in {layer, 2}
            /\ (Go("claim") \/ Go("issueCustody") \/ Go("verifyEvidence"))
         \/ Refuse /\ UNCHANGED <<staged, layer>>
  <2>1. layer = 1 \/ layer = 2 \/ layer = 3  BY TypeParts DEF TableTypes
  <2> USE DEF ExtendSet
  <2>2. CASE layer = 1  BY <2>2
  <2>3. CASE layer = 2  BY <2>3
  <2>4. CASE layer = 3  BY <2>4
  <2> QED BY <2>1, <2>2, <2>3, <2>4
<1> USE DEF BuildInv
<1>1. BuildTypes'
  <2>1. DiskTypes'
    BY TypeParts DEF DiskTypes, FinalNames, WorkNames, Reports, Finals, ExtendSet
  <2>2. TableTypes'
    BY TypeParts, PrefixBound DEF TableTypes, ExtendSet
  <2>3. StoreTypes'
    BY TypeParts DEF StoreTypes, Stores, Bases, Discardable, ExtendSet
  <2>4. HolderTypes'
    BY TypeParts DEF HolderTypes, Holders, ExtendSet
  <2>5. StepTypes'
    BY TypeParts, RefuseEffect, GoEffect, Handlers DEF StepTypes, Errors, ExtendSet
  <2> QED BY <2>1, <2>2, <2>3, <2>4, <2>5, TypesFromParts
<1>2. ErrorInv'
  BY <1>e, TypeParts, RefuseEffect, GoEffect, Handlers DEF ErrorInv, Aborting
<1>3. PhaseInv'
  BY <1>e, TypeParts, RefuseEffect, GoEffect, Handlers DEF PhaseInv, Opening, Finishing,
     BaseSteps, Registered, NoStage
<1>4. ForwardInv'
  BY <1>e, TypeParts, RefuseEffect, GoEffect, Handlers DEF ForwardInv, Removing, Opening,
     LayerTables, ErrorInv, Aborting
<1>5. HolderInv'
  BY <1>e, TypeParts, RefuseEffect, GoEffect, Handlers DEF HolderInv, HandedOver, CoreSteps,
     Opening, Removing
<1>6. CandidateComplete'
  BY <1>e, TypeParts, RefuseEffect, GoEffect, Handlers DEF CandidateComplete, HolderInv,
     HandedOver, CoreSteps, Complete
<1>7. InventoryInv'
  BY <1>e, TypeParts, RefuseEffect, GoEffect, Handlers DEF InventoryInv, Opening, Removing
<1>8. WorkingInv'
  BY <1>e, TypeParts, RefuseEffect, GoEffect, Handlers DEF WorkingInv, Discardable, FreshInv,
     LeafIntact
<1>9. LeftoverInv'
  BY <1>e, TypeParts, RefuseEffect, GoEffect, Handlers DEF LeftoverInv, NoStage, PhaseInv,
     Opening
<1>10. FreshInv'
  BY <1>e, TypeParts, RefuseEffect, GoEffect, Handlers DEF FreshInv, LeafIntact, PhaseInv,
     Finishing, BaseSteps
<1>11. RemovalInv'
  BY <1>e, TypeParts, RefuseEffect, GoEffect, Handlers DEF RemovalInv, Remaining, PhaseInv,
     NoStage, Opening, HolderInv
<1>12. ResidueReported'
  BY <1>e, TypeParts, RefuseEffect, GoEffect, Handlers DEF ResidueReported, RemovalInv,
     Remaining
<1> QED BY <1>1, <1>2, <1>3, <1>4, <1>5, <1>6, <1>7, <1>8, <1>9, <1>10, <1>11, <1>12

\* The open writers of a failed layer give up their leaves.
LEMMA AbortLayerKeeps ==
    ASSUME BuildInv, AbortLayer PROVE BuildInv'
<1> BuildTypes  BY DEF BuildInv
<1>e. /\ pc = "abortLayer" /\ UNCHANGED <<layer, verified, staged, store, db, holder, changed, temp>>
      /\ LeavesOnly /\ pc' \in {"closeCustody", "abortCheck"} /\ error' = error
      /\ \/ /\ faults' = faults
            /\ \E S : disk'.parquet = disk.parquet \ S /\ reg'.parquet = reg.parquet \ S
            /\ \A t \in Tables : writer'[t] \in {"none", writer[t]}
         \/ faults' \in 0..MaxFaults /\ faults' # 0
  <2> DEFINE open == {t \in LayerTables : writer[t] = "open"}
             next == IF layer = 3 THEN "closeCustody" ELSE "abortCheck"
             Abort(S) == /\ disk' = [disk EXCEPT !.parquet = @ \ S]
                         /\ reg' = [reg EXCEPT !.parquet = @ \ S]
  <2>1. /\ pc = "abortLayer" /\ UNCHANGED <<layer, verified, staged, store, db, holder, changed, temp>>
        /\ \/ /\ Abort(open) /\ Go(next)
              /\ writer' = [t \in Tables |-> IF t \in open THEN "none" ELSE writer[t]]
           \/ \E t \in open : /\ faults < MaxFaults /\ faults' = faults + 1
                              /\ Abort(open \ {t}) /\ pc' = next /\ UNCHANGED error
    BY DEF AbortLayer
  <2>2. ASSUME NEW S, Abort(S)
        PROVE  LeavesOnly /\ disk'.parquet = disk.parquet \ S /\ reg'.parquet = reg.parquet \ S
    BY <2>2, DiskShape, RegShape
  <2>3. faults \in 0..MaxFaults  BY TypeParts DEF StepTypes
  <2> HIDE DEF Abort
  <2>4. CASE /\ Abort(open) /\ Go(next)
             /\ writer' = [t \in Tables |-> IF t \in open THEN "none" ELSE writer[t]]
    <3>1. \E S : disk'.parquet = disk.parquet \ S /\ reg'.parquet = reg.parquet \ S
      BY <2>2, <2>4
    <3>2. \A t \in Tables : writer'[t] \in {"none", writer[t]}  BY <2>4
    <3> QED BY <2>1, <2>2, <2>4, <3>1, <3>2, GoEffect
  <2>5. CASE \E t \in open : /\ faults < MaxFaults /\ faults' = faults + 1
                             /\ Abort(open \ {t}) /\ pc' = next /\ UNCHANGED error
    <3>1. faults' \in 0..MaxFaults /\ faults' # 0  BY <2>3, <2>5, BuildAssumption
    <3> QED BY <2>1, <2>2, <2>5, <3>1
  <2> QED BY <2>1, <2>4, <2>5
<1> USE DEF BuildInv
<1>1. BuildTypes'
  <2>1. DiskTypes'
    BY TypeParts, LayerIsTables DEF DiskTypes, FinalNames, WorkNames, Reports, Finals,
       AbortLayer, Claimed
  <2>2. TableTypes'
    BY TypeParts, LayerIsTables DEF TableTypes, AbortLayer, Claimed
  <2>3. StoreTypes'
    BY TypeParts DEF StoreTypes, Stores, Bases, Discardable, AbortLayer, Claimed
  <2>4. HolderTypes'
    BY TypeParts DEF HolderTypes, Holders, AbortLayer, Claimed
  <2>5. StepTypes'
    BY <1>e, TypeParts DEF StepTypes, Errors
  <2> QED BY <2>1, <2>2, <2>3, <2>4, <2>5, TypesFromParts
<1>2. ErrorInv'
  BY <1>e, TypeParts, GoEffect DEF ErrorInv, Aborting
<1>3. PhaseInv'
  BY <1>e, TypeParts, GoEffect DEF PhaseInv, Opening, Finishing, BaseSteps, Registered, NoStage,
     ErrorInv, Aborting
<1>4. ForwardInv'
  BY <1>e, TypeParts, GoEffect DEF ForwardInv, Removing, Opening, LayerTables, ErrorInv,
     Aborting
<1>5. HolderInv'
  BY <1>e, TypeParts, GoEffect DEF HolderInv, HandedOver, CoreSteps, Opening, Removing
<1>6. CandidateComplete'
  BY <1>e, TypeParts, GoEffect DEF CandidateComplete, HolderInv, HandedOver, CoreSteps, Complete
<1>7. InventoryInv'
  BY <1>e, TypeParts, GoEffect DEF InventoryInv, Opening, Removing
<1>8. WorkingInv'
  BY <1>e, TypeParts, GoEffect DEF WorkingInv, Discardable, FreshInv, LeafIntact
<1>9. LeftoverInv'
  BY <1>e, TypeParts, GoEffect DEF LeftoverInv, NoStage, PhaseInv, Opening
<1>10. FreshInv'
  BY <1>e, TypeParts, GoEffect DEF FreshInv, LeafIntact, PhaseInv, Finishing, BaseSteps
<1>11. RemovalInv'
  BY <1>e, TypeParts, GoEffect DEF RemovalInv, Remaining, PhaseInv, NoStage, Opening, HolderInv
<1>12. ResidueReported'
  BY <1>e, TypeParts, GoEffect DEF ResidueReported, RemovalInv, Remaining
<1> QED BY <1>1, <1>2, <1>3, <1>4, <1>5, <1>6, <1>7, <1>8, <1>9, <1>10, <1>11, <1>12

\* The candidate custody changes neither the store's state nor the disk.
LEMMA IssueCustodyKeeps ==
    ASSUME BuildInv, IssueCustody PROVE BuildInv'
<1> USE DEF BuildInv, IssueCustody
<1>1. BuildTypes'
  <2>1. DiskTypes'
    BY TypeParts DEF DiskTypes, FinalNames, WorkNames, Reports, Finals
  <2>2. TableTypes'
    BY TypeParts DEF TableTypes
  <2>3. StoreTypes'
    BY TypeParts, ZenonT(60) DEF StoreTypes, Stores, Bases, Discardable
  <2>4. HolderTypes'
    BY TypeParts DEF HolderTypes, Holders
  <2>5. StepTypes'
    BY TypeParts, RefuseEffect, GoEffect, Handlers DEF StepTypes, Errors
  <2> QED BY <2>1, <2>2, <2>3, <2>4, <2>5, TypesFromParts
<1>2. ErrorInv'
  BY TypeParts, StoreShape, RefuseEffect, GoEffect, Handlers DEF ErrorInv, Aborting
<1>3. PhaseInv'
  BY TypeParts, StoreShape, RefuseEffect, GoEffect, Handlers DEF PhaseInv, Opening, Finishing,
     BaseSteps, Registered, NoStage
<1>4. ForwardInv'
  BY TypeParts, StoreShape, RefuseEffect, GoEffect, Handlers DEF ForwardInv, Removing, Opening,
     LayerTables, ErrorInv, Aborting
<1>5. HolderInv'
  BY TypeParts, StoreShape, RefuseEffect, GoEffect, Handlers DEF HolderInv, HandedOver,
     CoreSteps, Opening, Removing
<1>6. CandidateComplete'
  BY TypeParts, StoreShape, RefuseEffect, GoEffect, Handlers DEF CandidateComplete, HolderInv,
     HandedOver, CoreSteps, Complete
<1>7. InventoryInv'
  BY TypeParts, StoreShape, RefuseEffect, GoEffect, Handlers DEF InventoryInv, Opening, Removing
<1>8. WorkingInv'
  <2>1. store'.state = store.state  BY TypeParts, StoreShape
  <2> QED BY <2>1, TypeParts, RefuseEffect, GoEffect, Handlers DEF WorkingInv
<1>9. LeftoverInv'
  BY TypeParts, StoreShape, RefuseEffect, GoEffect, Handlers DEF LeftoverInv, NoStage, PhaseInv,
     Opening
<1>10. FreshInv'
  BY TypeParts, StoreShape, RefuseEffect, GoEffect, Handlers DEF FreshInv, LeafIntact, PhaseInv,
     Finishing, BaseSteps
<1>11. RemovalInv'
  BY TypeParts, StoreShape, RefuseEffect, GoEffect, Handlers DEF RemovalInv, Remaining,
     PhaseInv, NoStage, Opening, HolderInv
<1>12. ResidueReported'
  BY TypeParts, StoreShape, RefuseEffect, GoEffect, Handlers DEF ResidueReported, RemovalInv,
     Remaining
<1> QED BY <1>1, <1>2, <1>3, <1>4, <1>5, <1>6, <1>7, <1>8, <1>9, <1>10, <1>11, <1>12

\* take_exact_link_candidate_store moves the custody once.
LEMMA TakeCustodyKeeps ==
    ASSUME BuildInv, TakeCustody PROVE BuildInv'
<1> USE DEF BuildInv, TakeCustody, InputsHeld
<1>1. BuildTypes'
  <2>1. DiskTypes'
    BY TypeParts DEF DiskTypes, FinalNames, WorkNames, Reports, Finals
  <2>2. TableTypes'
    BY TypeParts DEF TableTypes
  <2>3. StoreTypes'
    BY TypeParts DEF StoreTypes, Stores, Bases, Discardable
  <2>4. HolderTypes'
    BY TypeParts DEF HolderTypes, Holders
  <2>5. StepTypes'
    BY TypeParts, RefuseEffect, GoEffect, Handlers DEF StepTypes, Errors
  <2> QED BY <2>1, <2>2, <2>3, <2>4, <2>5, TypesFromParts
<1>2. ErrorInv'
  BY TypeParts, StoreShape, RefuseEffect, GoEffect, Handlers DEF ErrorInv, Aborting
<1>3. PhaseInv'
  BY TypeParts, StoreShape, RefuseEffect, GoEffect, Handlers DEF PhaseInv, Opening, Finishing,
     BaseSteps, Registered, NoStage
<1>4. ForwardInv'
  BY TypeParts, StoreShape, RefuseEffect, GoEffect, Handlers DEF ForwardInv, Removing, Opening,
     LayerTables, ErrorInv, Aborting
<1>5. HolderInv'
  BY TypeParts, StoreShape, RefuseEffect, GoEffect, Handlers DEF HolderInv, HandedOver,
     CoreSteps, Opening, Removing
<1>6. CandidateComplete'
  BY TypeParts, StoreShape, RefuseEffect, GoEffect, Handlers DEF CandidateComplete, HolderInv,
     HandedOver, CoreSteps, Complete
<1>7. InventoryInv'
  BY TypeParts, StoreShape, RefuseEffect, GoEffect, Handlers DEF InventoryInv, Opening, Removing
<1>8. WorkingInv'
  BY TypeParts, StoreShape, RefuseEffect, GoEffect, Handlers DEF WorkingInv, Discardable,
     FreshInv, LeafIntact
<1>9. LeftoverInv'
  BY TypeParts, StoreShape, RefuseEffect, GoEffect, Handlers DEF LeftoverInv, NoStage, PhaseInv,
     Opening
<1>10. FreshInv'
  BY TypeParts, StoreShape, RefuseEffect, GoEffect, Handlers DEF FreshInv, LeafIntact, PhaseInv,
     Finishing, BaseSteps
<1>11. RemovalInv'
  BY TypeParts, StoreShape, RefuseEffect, GoEffect, Handlers DEF RemovalInv, Remaining,
     PhaseInv, NoStage, Opening, HolderInv
<1>12. ResidueReported'
  BY TypeParts, StoreShape, RefuseEffect, GoEffect, Handlers DEF ResidueReported, RemovalInv,
     Remaining
<1> QED BY <1>1, <1>2, <1>3, <1>4, <1>5, <1>6, <1>7, <1>8, <1>9, <1>10, <1>11, <1>12

\* iter_candidate_join_batches works on the custody only.
LEMMA JoinCandidatesKeeps ==
    ASSUME BuildInv, JoinCandidates PROVE BuildInv'
<1> USE DEF BuildInv, JoinCandidates
<1>1. BuildTypes'
  <2>1. DiskTypes'
    BY TypeParts DEF DiskTypes, FinalNames, WorkNames, Reports, Finals
  <2>2. TableTypes'
    BY TypeParts DEF TableTypes
  <2>3. StoreTypes'
    BY TypeParts DEF StoreTypes, Stores, Bases, Discardable
  <2>4. HolderTypes'
    BY TypeParts DEF HolderTypes, Holders
  <2>5. StepTypes'
    BY TypeParts, RefuseEffect, FaultEffect, GoEffect, Handlers DEF StepTypes, Errors
  <2> QED BY <2>1, <2>2, <2>3, <2>4, <2>5, TypesFromParts
<1>2. ErrorInv'
  BY TypeParts, StoreShape, RefuseEffect, FaultEffect, GoEffect, Handlers DEF ErrorInv, Aborting
<1>3. PhaseInv'
  BY TypeParts, StoreShape, RefuseEffect, FaultEffect, GoEffect, Handlers DEF PhaseInv, Opening,
     Finishing, BaseSteps, Registered, NoStage
<1>4. ForwardInv'
  BY TypeParts, StoreShape, RefuseEffect, FaultEffect, GoEffect, Handlers DEF ForwardInv,
     Removing, Opening, LayerTables, ErrorInv, Aborting
<1>5. HolderInv'
  BY TypeParts, StoreShape, RefuseEffect, FaultEffect, GoEffect, Handlers DEF HolderInv,
     HandedOver, CoreSteps, Opening, Removing
<1>6. CandidateComplete'
  BY TypeParts, StoreShape, RefuseEffect, FaultEffect, GoEffect, Handlers DEF CandidateComplete,
     HolderInv, HandedOver, CoreSteps, Complete
<1>7. InventoryInv'
  BY TypeParts, StoreShape, RefuseEffect, FaultEffect, GoEffect, Handlers DEF InventoryInv,
     Opening, Removing
<1>8. WorkingInv'
  BY TypeParts, StoreShape, RefuseEffect, FaultEffect, GoEffect, Handlers DEF WorkingInv,
     Discardable, FreshInv, LeafIntact
<1>9. LeftoverInv'
  BY TypeParts, StoreShape, RefuseEffect, FaultEffect, GoEffect, Handlers DEF LeftoverInv,
     NoStage, PhaseInv, Opening
<1>10. FreshInv'
  BY TypeParts, StoreShape, RefuseEffect, FaultEffect, GoEffect, Handlers DEF FreshInv,
     LeafIntact, PhaseInv, Finishing, BaseSteps
<1>11. RemovalInv'
  BY TypeParts, StoreShape, RefuseEffect, FaultEffect, GoEffect, Handlers DEF RemovalInv,
     Remaining, PhaseInv, NoStage, Opening, HolderInv
<1>12. ResidueReported'
  BY TypeParts, StoreShape, RefuseEffect, FaultEffect, GoEffect, Handlers DEF ResidueReported,
     RemovalInv, Remaining
<1> QED BY <1>1, <1>2, <1>3, <1>4, <1>5, <1>6, <1>7, <1>8, <1>9, <1>10, <1>11, <1>12

\* admit_exact_evidence works on the custody only.
LEMMA AdmitEvidenceKeeps ==
    ASSUME BuildInv, AdmitEvidence PROVE BuildInv'
<1> USE DEF BuildInv, AdmitEvidence
<1>1. BuildTypes'
  <2>1. DiskTypes'
    BY TypeParts DEF DiskTypes, FinalNames, WorkNames, Reports, Finals
  <2>2. TableTypes'
    BY TypeParts DEF TableTypes
  <2>3. StoreTypes'
    BY TypeParts DEF StoreTypes, Stores, Bases, Discardable
  <2>4. HolderTypes'
    BY TypeParts DEF HolderTypes, Holders
  <2>5. StepTypes'
    BY TypeParts, RefuseEffect, FaultEffect, GoEffect, Handlers DEF StepTypes, Errors
  <2> QED BY <2>1, <2>2, <2>3, <2>4, <2>5, TypesFromParts
<1>2. ErrorInv'
  BY TypeParts, StoreShape, RefuseEffect, FaultEffect, GoEffect, Handlers DEF ErrorInv, Aborting
<1>3. PhaseInv'
  BY TypeParts, StoreShape, RefuseEffect, FaultEffect, GoEffect, Handlers DEF PhaseInv, Opening,
     Finishing, BaseSteps, Registered, NoStage
<1>4. ForwardInv'
  BY TypeParts, StoreShape, RefuseEffect, FaultEffect, GoEffect, Handlers DEF ForwardInv,
     Removing, Opening, LayerTables, ErrorInv, Aborting
<1>5. HolderInv'
  BY TypeParts, StoreShape, RefuseEffect, FaultEffect, GoEffect, Handlers DEF HolderInv,
     HandedOver, CoreSteps, Opening, Removing
<1>6. CandidateComplete'
  BY TypeParts, StoreShape, RefuseEffect, FaultEffect, GoEffect, Handlers DEF CandidateComplete,
     HolderInv, HandedOver, CoreSteps, Complete
<1>7. InventoryInv'
  BY TypeParts, StoreShape, RefuseEffect, FaultEffect, GoEffect, Handlers DEF InventoryInv,
     Opening, Removing
<1>8. WorkingInv'
  BY TypeParts, StoreShape, RefuseEffect, FaultEffect, GoEffect, Handlers DEF WorkingInv,
     Discardable, FreshInv, LeafIntact
<1>9. LeftoverInv'
  BY TypeParts, StoreShape, RefuseEffect, FaultEffect, GoEffect, Handlers DEF LeftoverInv,
     NoStage, PhaseInv, Opening
<1>10. FreshInv'
  BY TypeParts, StoreShape, RefuseEffect, FaultEffect, GoEffect, Handlers DEF FreshInv,
     LeafIntact, PhaseInv, Finishing, BaseSteps
<1>11. RemovalInv'
  BY TypeParts, StoreShape, RefuseEffect, FaultEffect, GoEffect, Handlers DEF RemovalInv,
     Remaining, PhaseInv, NoStage, Opening, HolderInv
<1>12. ResidueReported'
  BY TypeParts, StoreShape, RefuseEffect, FaultEffect, GoEffect, Handlers DEF ResidueReported,
     RemovalInv, Remaining
<1> QED BY <1>1, <1>2, <1>3, <1>4, <1>5, <1>6, <1>7, <1>8, <1>9, <1>10, <1>11, <1>12

\* The one step that sets the verifier, on the way to closeCustody.
LEMMA VerifyEvidenceKeeps ==
    ASSUME BuildInv, VerifyEvidence PROVE BuildInv'
<1> USE DEF BuildInv, VerifyEvidence
<1>1. BuildTypes'
  <2>1. DiskTypes'
    BY TypeParts DEF DiskTypes, FinalNames, WorkNames, Reports, Finals
  <2>2. TableTypes'
    BY TypeParts DEF TableTypes
  <2>3. StoreTypes'
    BY TypeParts DEF StoreTypes, Stores, Bases, Discardable
  <2>4. HolderTypes'
    BY TypeParts DEF HolderTypes, Holders
  <2>5. StepTypes'
    BY TypeParts, RefuseEffect, FaultEffect, GoEffect, Handlers DEF StepTypes, Errors
  <2> QED BY <2>1, <2>2, <2>3, <2>4, <2>5, TypesFromParts
<1>2. ErrorInv'
  BY TypeParts, StoreShape, RefuseEffect, FaultEffect, GoEffect, Handlers DEF ErrorInv, Aborting
<1>3. PhaseInv'
  BY TypeParts, StoreShape, RefuseEffect, FaultEffect, GoEffect, Handlers DEF PhaseInv, Opening,
     Finishing, BaseSteps, Registered, NoStage
<1>4. ForwardInv'
  BY TypeParts, StoreShape, RefuseEffect, FaultEffect, GoEffect, Handlers DEF ForwardInv,
     Removing, Opening, LayerTables, ErrorInv, Aborting
<1>5. HolderInv'
  BY TypeParts, StoreShape, RefuseEffect, FaultEffect, GoEffect, Handlers DEF HolderInv,
     HandedOver, CoreSteps, Opening, Removing
<1>6. CandidateComplete'
  BY TypeParts, StoreShape, RefuseEffect, FaultEffect, GoEffect, Handlers DEF CandidateComplete,
     HolderInv, HandedOver, CoreSteps, Complete
<1>7. InventoryInv'
  BY TypeParts, StoreShape, RefuseEffect, FaultEffect, GoEffect, Handlers DEF InventoryInv,
     Opening, Removing
<1>8. WorkingInv'
  BY TypeParts, StoreShape, RefuseEffect, FaultEffect, GoEffect, Handlers DEF WorkingInv,
     Discardable, FreshInv, LeafIntact
<1>9. LeftoverInv'
  BY TypeParts, StoreShape, RefuseEffect, FaultEffect, GoEffect, Handlers DEF LeftoverInv,
     NoStage, PhaseInv, Opening
<1>10. FreshInv'
  BY TypeParts, StoreShape, RefuseEffect, FaultEffect, GoEffect, Handlers DEF FreshInv,
     LeafIntact, PhaseInv, Finishing, BaseSteps
<1>11. RemovalInv'
  BY TypeParts, StoreShape, RefuseEffect, FaultEffect, GoEffect, Handlers DEF RemovalInv,
     Remaining, PhaseInv, NoStage, Opening, HolderInv
<1>12. ResidueReported'
  BY TypeParts, StoreShape, RefuseEffect, FaultEffect, GoEffect, Handlers DEF ResidueReported,
     RemovalInv, Remaining
<1> QED BY <1>1, <1>2, <1>3, <1>4, <1>5, <1>6, <1>7, <1>8, <1>9, <1>10, <1>11, <1>12

\* The store's directory and its registration go together.
LEMMA CloseCustodyKeeps ==
    ASSUME BuildInv, CloseCustody PROVE BuildInv'
<1> BuildTypes  BY DEF BuildInv
<1>e. /\ pc = "closeCustody" /\ UNCHANGED <<layer, leaf, writer, verified, staged, holder, changed, temp>>
      /\ store'.verifier = store.verifier
      /\ \/ /\ NamesOnly /\ BaseKept /\ db'.work = db.work /\ store'.state = "CLEANED"
            /\ disk'.names = disk.names \ {"order-store"} /\ reg'.names = reg.names \ {"order-store"}
            /\ Go(IF error = "none" THEN "claimDatabase" ELSE "abortCheck")
         \/ UNCHANGED <<disk, reg, db>> /\ CleanupFault("abortCheck")
  BY DiskShape, RegShape, StoreShape, BaseShape DEF CloseCustody, CloseStore, AmbiguousStore, Touched
<1> USE DEF BuildInv
<1>1. BuildTypes'
  <2>1. DiskTypes'
    BY TypeParts DEF DiskTypes, FinalNames, WorkNames, Reports, Finals, CloseCustody,
       CloseStore, AmbiguousStore, Touched
  <2>2. TableTypes'
    BY TypeParts DEF TableTypes, CloseCustody, CloseStore, AmbiguousStore, Touched
  <2>3. StoreTypes'
    BY TypeParts DEF StoreTypes, Stores, Bases, Discardable, CloseCustody, CloseStore,
       AmbiguousStore, Touched
  <2>4. HolderTypes'
    BY TypeParts DEF HolderTypes, Holders, CloseCustody, CloseStore, AmbiguousStore, Touched
  <2>5. StepTypes'
    BY TypeParts, GoEffect, CleanupFaultEffect DEF StepTypes, Errors, CloseCustody, CloseStore,
       AmbiguousStore, Touched
  <2> QED BY <2>1, <2>2, <2>3, <2>4, <2>5, TypesFromParts
<1>2. ErrorInv'
  BY <1>e, TypeParts, GoEffect, CleanupFaultEffect DEF ErrorInv, Aborting
<1>3. PhaseInv'
  BY <1>e, TypeParts, GoEffect, CleanupFaultEffect DEF PhaseInv, Opening, Finishing, BaseSteps,
     Registered, NoStage
<1>4. ForwardInv'
  BY <1>e, TypeParts, GoEffect, CleanupFaultEffect DEF ForwardInv, Removing, Opening,
     LayerTables, ErrorInv, Aborting
<1>5. HolderInv'
  BY <1>e, TypeParts, GoEffect, CleanupFaultEffect DEF HolderInv, HandedOver, CoreSteps,
     Opening, Removing
<1>6. CandidateComplete'
  BY <1>e, TypeParts, GoEffect, CleanupFaultEffect DEF CandidateComplete, HolderInv, HandedOver,
     CoreSteps, Complete
<1>7. InventoryInv'
  BY <1>e, TypeParts, GoEffect, CleanupFaultEffect DEF InventoryInv, Opening, Removing
<1>8. WorkingInv'
  BY <1>e, TypeParts, GoEffect, CleanupFaultEffect DEF WorkingInv, Discardable, FreshInv,
     LeafIntact
<1>9. LeftoverInv'
  BY <1>e, TypeParts, GoEffect, CleanupFaultEffect DEF LeftoverInv, NoStage, PhaseInv, Opening
<1>10. FreshInv'
  BY <1>e, TypeParts, GoEffect, CleanupFaultEffect DEF FreshInv, LeafIntact, PhaseInv,
     Finishing, BaseSteps
<1>11. RemovalInv'
  BY <1>e, TypeParts, GoEffect, CleanupFaultEffect DEF RemovalInv, Remaining, PhaseInv, NoStage,
     Opening, HolderInv
<1>12. ResidueReported'
  BY <1>e, TypeParts, GoEffect, CleanupFaultEffect DEF ResidueReported, RemovalInv, Remaining
<1> QED BY <1>1, <1>2, <1>3, <1>4, <1>5, <1>6, <1>7, <1>8, <1>9, <1>10, <1>11, <1>12

\* The database is claimed by a build whose custody is closed.
LEMMA ClaimDatabaseKeeps ==
    ASSUME BuildInv, ClaimDatabase PROVE BuildInv'
<1> USE DEF BuildInv, ClaimDatabase, InputsHeld
<1>1. BuildTypes'
  <2>1. DiskTypes'
    BY TypeParts DEF DiskTypes, FinalNames, WorkNames, Reports, Finals
  <2>2. TableTypes'
    BY TypeParts DEF TableTypes
  <2>3. StoreTypes'
    BY TypeParts DEF StoreTypes, Stores, Bases, Discardable
  <2>4. HolderTypes'
    BY TypeParts DEF HolderTypes, Holders
  <2>5. StepTypes'
    BY TypeParts, RefuseEffect, GoEffect, Handlers DEF StepTypes, Errors
  <2> QED BY <2>1, <2>2, <2>3, <2>4, <2>5, TypesFromParts
<1>2. ErrorInv'
  BY TypeParts, BaseShape, RefuseEffect, GoEffect, Handlers DEF ErrorInv, Aborting
<1>3. PhaseInv'
  BY TypeParts, BaseShape, RefuseEffect, GoEffect, Handlers DEF PhaseInv, Opening, Finishing,
     BaseSteps, Registered, NoStage
<1>4. ForwardInv'
  BY TypeParts, BaseShape, RefuseEffect, GoEffect, Handlers DEF ForwardInv, Removing, Opening,
     LayerTables, ErrorInv, Aborting
<1>5. HolderInv'
  BY TypeParts, BaseShape, RefuseEffect, GoEffect, Handlers DEF HolderInv, HandedOver,
     CoreSteps, Opening, Removing
<1>6. CandidateComplete'
  BY TypeParts, BaseShape, RefuseEffect, GoEffect, Handlers DEF CandidateComplete, HolderInv,
     HandedOver, CoreSteps, Complete
<1>7. InventoryInv'
  BY TypeParts, BaseShape, RefuseEffect, GoEffect, Handlers DEF InventoryInv, Opening, Removing
<1>8. WorkingInv'
  BY TypeParts, BaseShape, RefuseEffect, GoEffect, Handlers DEF WorkingInv, Discardable,
     FreshInv, LeafIntact
<1>9. LeftoverInv'
  BY TypeParts, BaseShape, RefuseEffect, GoEffect, Handlers DEF LeftoverInv, NoStage, PhaseInv,
     Opening
<1>10. FreshInv'
  BY TypeParts, BaseShape, RefuseEffect, GoEffect, Handlers DEF FreshInv, LeafIntact, PhaseInv,
     Finishing, BaseSteps
<1>11. RemovalInv'
  BY TypeParts, BaseShape, RefuseEffect, GoEffect, Handlers DEF RemovalInv, Remaining, PhaseInv,
     NoStage, Opening, HolderInv
<1>12. ResidueReported'
  BY TypeParts, BaseShape, RefuseEffect, GoEffect, Handlers DEF ResidueReported, RemovalInv,
     Remaining
<1> QED BY <1>1, <1>2, <1>3, <1>4, <1>5, <1>6, <1>7, <1>8, <1>9, <1>10, <1>11, <1>12

\* The workspace is registered by name before it is live.
LEMMA OpenWorkspaceKeeps ==
    ASSUME BuildInv, OpenWorkspace PROVE BuildInv'
<1> BuildTypes  BY DEF BuildInv
<1>e. /\ pc = "openWorkspace" /\ UNCHANGED <<layer, leaf, writer, verified, staged, store, holder, changed, temp>>
      /\ NamesOnly /\ BaseKept
      /\ disk'.names = disk.names \cup {"database-build"} /\ reg'.names = reg.names \cup {"database-build"}
      /\ \/ db'.work = "LIVE" /\ Go("materialize")
         \/ db'.work = db.work /\ Fault
  BY DiskShape, RegShape, BaseShape DEF OpenWorkspace, AddName, Register, Touched
<1> USE DEF BuildInv
<1>1. BuildTypes'
  <2>1. DiskTypes'
    BY TypeParts DEF DiskTypes, FinalNames, WorkNames, Reports, Finals, OpenWorkspace, AddName,
       Register, Touched
  <2>2. TableTypes'
    BY TypeParts DEF TableTypes, OpenWorkspace, AddName, Register, Touched
  <2>3. StoreTypes'
    BY TypeParts, ZenonT(60) DEF StoreTypes, Stores, Bases, Discardable, OpenWorkspace, AddName, Register,
       Touched
  <2>4. HolderTypes'
    BY TypeParts DEF HolderTypes, Holders, OpenWorkspace, AddName, Register, Touched
  <2>5. StepTypes'
    BY TypeParts, FaultEffect, GoEffect, Handlers DEF StepTypes, Errors, OpenWorkspace, AddName,
       Register, Touched
  <2> QED BY <2>1, <2>2, <2>3, <2>4, <2>5, TypesFromParts
<1>2. ErrorInv'
  BY <1>e, TypeParts, FaultEffect, GoEffect, Handlers DEF ErrorInv, Aborting
<1>3. PhaseInv'
  BY <1>e, TypeParts, FaultEffect, GoEffect, Handlers DEF PhaseInv, Opening, Finishing,
     BaseSteps, Registered, NoStage
<1>4. ForwardInv'
  BY <1>e, TypeParts, FaultEffect, GoEffect, Handlers DEF ForwardInv, Removing, Opening,
     LayerTables, ErrorInv, Aborting
<1>5. HolderInv'
  BY <1>e, TypeParts, FaultEffect, GoEffect, Handlers DEF HolderInv, HandedOver, CoreSteps,
     Opening, Removing
<1>6. CandidateComplete'
  BY <1>e, TypeParts, FaultEffect, GoEffect, Handlers DEF CandidateComplete, HolderInv,
     HandedOver, CoreSteps, Complete
<1>7. InventoryInv'
  BY <1>e, TypeParts, FaultEffect, GoEffect, Handlers DEF InventoryInv, Opening, Removing
<1>8. WorkingInv'
  BY <1>e, TypeParts, FaultEffect, GoEffect, Handlers DEF WorkingInv, Discardable, FreshInv,
     LeafIntact
<1>9. LeftoverInv'
  BY <1>e, TypeParts, FaultEffect, GoEffect, Handlers DEF LeftoverInv, NoStage, PhaseInv,
     Opening
<1>10. FreshInv'
  BY <1>e, TypeParts, FaultEffect, GoEffect, Handlers DEF FreshInv, LeafIntact, PhaseInv,
     Finishing, BaseSteps
<1>11. RemovalInv'
  BY <1>e, TypeParts, FaultEffect, GoEffect, Handlers DEF RemovalInv, Remaining, PhaseInv,
     NoStage, Opening, HolderInv
<1>12. ResidueReported'
  BY <1>e, TypeParts, FaultEffect, GoEffect, Handlers DEF ResidueReported, RemovalInv, Remaining
<1> QED BY <1>1, <1>2, <1>3, <1>4, <1>5, <1>6, <1>7, <1>8, <1>9, <1>10, <1>11, <1>12

\* _materialize_tables reads only.
LEMMA MaterializeKeeps ==
    ASSUME BuildInv, Materialize PROVE BuildInv'
<1> USE DEF BuildInv, Materialize
<1>1. BuildTypes'
  <2>1. DiskTypes'
    BY TypeParts DEF DiskTypes, FinalNames, WorkNames, Reports, Finals
  <2>2. TableTypes'
    BY TypeParts DEF TableTypes
  <2>3. StoreTypes'
    BY TypeParts DEF StoreTypes, Stores, Bases, Discardable
  <2>4. HolderTypes'
    BY TypeParts DEF HolderTypes, Holders
  <2>5. StepTypes'
    BY TypeParts, RefuseEffect, FaultEffect, GoEffect, Handlers DEF StepTypes, Errors
  <2> QED BY <2>1, <2>2, <2>3, <2>4, <2>5, TypesFromParts
<1>2. ErrorInv'
  BY TypeParts, RefuseEffect, FaultEffect, GoEffect, Handlers DEF ErrorInv, Aborting
<1>3. PhaseInv'
  BY TypeParts, RefuseEffect, FaultEffect, GoEffect, Handlers DEF PhaseInv, Opening, Finishing,
     BaseSteps, Registered, NoStage
<1>4. ForwardInv'
  BY TypeParts, RefuseEffect, FaultEffect, GoEffect, Handlers DEF ForwardInv, Removing, Opening,
     LayerTables, ErrorInv, Aborting
<1>5. HolderInv'
  BY TypeParts, RefuseEffect, FaultEffect, GoEffect, Handlers DEF HolderInv, HandedOver,
     CoreSteps, Opening, Removing
<1>6. CandidateComplete'
  BY TypeParts, RefuseEffect, FaultEffect, GoEffect, Handlers DEF CandidateComplete, HolderInv,
     HandedOver, CoreSteps, Complete
<1>7. InventoryInv'
  BY TypeParts, RefuseEffect, FaultEffect, GoEffect, Handlers DEF InventoryInv, Opening,
     Removing
<1>8. WorkingInv'
  BY TypeParts, RefuseEffect, FaultEffect, GoEffect, Handlers DEF WorkingInv, Discardable,
     FreshInv, LeafIntact
<1>9. LeftoverInv'
  BY TypeParts, RefuseEffect, FaultEffect, GoEffect, Handlers DEF LeftoverInv, NoStage,
     PhaseInv, Opening
<1>10. FreshInv'
  BY TypeParts, RefuseEffect, FaultEffect, GoEffect, Handlers DEF FreshInv, LeafIntact,
     PhaseInv, Finishing, BaseSteps
<1>11. RemovalInv'
  BY TypeParts, RefuseEffect, FaultEffect, GoEffect, Handlers DEF RemovalInv, Remaining,
     PhaseInv, NoStage, Opening, HolderInv
<1>12. ResidueReported'
  BY TypeParts, RefuseEffect, FaultEffect, GoEffect, Handlers DEF ResidueReported, RemovalInv,
     Remaining
<1> QED BY <1>1, <1>2, <1>3, <1>4, <1>5, <1>6, <1>7, <1>8, <1>9, <1>10, <1>11, <1>12

\* A failing checkpoint makes the workspace ambiguous.
LEMMA CheckpointKeeps ==
    ASSUME BuildInv, Checkpoint PROVE BuildInv'
<1> USE DEF BuildInv, Checkpoint
<1>1. BuildTypes'
  <2>1. DiskTypes'
    BY TypeParts DEF DiskTypes, FinalNames, WorkNames, Reports, Finals
  <2>2. TableTypes'
    BY TypeParts DEF TableTypes
  <2>3. StoreTypes'
    BY TypeParts DEF StoreTypes, Stores, Bases, Discardable
  <2>4. HolderTypes'
    BY TypeParts DEF HolderTypes, Holders
  <2>5. StepTypes'
    BY TypeParts, FaultEffect, GoEffect, Handlers DEF StepTypes, Errors
  <2> QED BY <2>1, <2>2, <2>3, <2>4, <2>5, TypesFromParts
<1>2. ErrorInv'
  BY TypeParts, BaseShape, FaultEffect, GoEffect, Handlers DEF ErrorInv, Aborting
<1>3. PhaseInv'
  BY TypeParts, BaseShape, FaultEffect, GoEffect, Handlers DEF PhaseInv, Opening, Finishing,
     BaseSteps, Registered, NoStage
<1>4. ForwardInv'
  BY TypeParts, BaseShape, FaultEffect, GoEffect, Handlers DEF ForwardInv, Removing, Opening,
     LayerTables, ErrorInv, Aborting
<1>5. HolderInv'
  BY TypeParts, BaseShape, FaultEffect, GoEffect, Handlers DEF HolderInv, HandedOver, CoreSteps,
     Opening, Removing
<1>6. CandidateComplete'
  BY TypeParts, BaseShape, FaultEffect, GoEffect, Handlers DEF CandidateComplete, HolderInv,
     HandedOver, CoreSteps, Complete
<1>7. InventoryInv'
  BY TypeParts, BaseShape, FaultEffect, GoEffect, Handlers DEF InventoryInv, Opening, Removing
<1>8. WorkingInv'
  BY TypeParts, BaseShape, FaultEffect, GoEffect, Handlers DEF WorkingInv, Discardable,
     FreshInv, LeafIntact
<1>9. LeftoverInv'
  BY TypeParts, BaseShape, FaultEffect, GoEffect, Handlers DEF LeftoverInv, NoStage, PhaseInv,
     Opening
<1>10. FreshInv'
  BY TypeParts, BaseShape, FaultEffect, GoEffect, Handlers DEF FreshInv, LeafIntact, PhaseInv,
     Finishing, BaseSteps
<1>11. RemovalInv'
  BY TypeParts, BaseShape, FaultEffect, GoEffect, Handlers DEF RemovalInv, Remaining, PhaseInv,
     NoStage, Opening, HolderInv
<1>12. ResidueReported'
  BY TypeParts, BaseShape, FaultEffect, GoEffect, Handlers DEF ResidueReported, RemovalInv,
     Remaining
<1> QED BY <1>1, <1>2, <1>3, <1>4, <1>5, <1>6, <1>7, <1>8, <1>9, <1>10, <1>11, <1>12

\* The leaf is registered with the name it adds, and its stamp is fresh.
LEMMA CopyDatabaseKeeps ==
    ASSUME BuildInv, CopyDatabase PROVE BuildInv'
<1> BuildTypes  BY DEF BuildInv
<1>e. /\ pc = "copy" /\ UNCHANGED <<layer, leaf, writer, verified, staged, store, holder, changed, temp>>
      /\ db'.seal = db.seal
      /\ \/ /\ NamesOnly /\ db'.leaf = "created" /\ db'.fresh = TRUE
            /\ disk'.names = disk.names \cup {"finproof.duckdb"} /\ reg'.names = reg.names \cup {"finproof.duckdb"}
            /\ (db'.work = "COPIED" /\ Go("reopen")) \/ (db'.work = "AMBIGUOUS" /\ Fault)
         \/ UNCHANGED <<disk, reg>> /\ db'.leaf = db.leaf /\ db'.work = "AMBIGUOUS" /\ Fault
  BY DiskShape, RegShape, BaseShape DEF CopyDatabase, AddName, Register, LeafCreated
<1> USE DEF BuildInv
<1>1. BuildTypes'
  <2>1. DiskTypes'
    BY TypeParts DEF DiskTypes, FinalNames, WorkNames, Reports, Finals, CopyDatabase, AddName,
       Register, LeafCreated
  <2>2. TableTypes'
    BY TypeParts DEF TableTypes, CopyDatabase, AddName, Register, LeafCreated
  <2>3. StoreTypes'
    BY TypeParts, ZenonT(60) DEF StoreTypes, Stores, Bases, Discardable, CopyDatabase, AddName, Register,
       LeafCreated
  <2>4. HolderTypes'
    BY TypeParts DEF HolderTypes, Holders, CopyDatabase, AddName, Register, LeafCreated
  <2>5. StepTypes'
    BY TypeParts, FaultEffect, GoEffect, Handlers DEF StepTypes, Errors, CopyDatabase, AddName,
       Register, LeafCreated
  <2> QED BY <2>1, <2>2, <2>3, <2>4, <2>5, TypesFromParts
<1>2. ErrorInv'
  BY <1>e, TypeParts, FaultEffect, GoEffect, Handlers DEF ErrorInv, Aborting
<1>3. PhaseInv'
  BY <1>e, TypeParts, FaultEffect, GoEffect, Handlers DEF PhaseInv, Opening, Finishing,
     BaseSteps, Registered, NoStage
<1>4. ForwardInv'
  BY <1>e, TypeParts, FaultEffect, GoEffect, Handlers DEF ForwardInv, Removing, Opening,
     LayerTables, ErrorInv, Aborting
<1>5. HolderInv'
  BY <1>e, TypeParts, FaultEffect, GoEffect, Handlers DEF HolderInv, HandedOver, CoreSteps,
     Opening, Removing
<1>6. CandidateComplete'
  BY <1>e, TypeParts, FaultEffect, GoEffect, Handlers DEF CandidateComplete, HolderInv,
     HandedOver, CoreSteps, Complete
<1>7. InventoryInv'
  BY <1>e, TypeParts, FaultEffect, GoEffect, Handlers DEF InventoryInv, Opening, Removing
<1>8. WorkingInv'
  BY <1>e, TypeParts, FaultEffect, GoEffect, Handlers DEF WorkingInv, Discardable, FreshInv,
     LeafIntact
<1>9. LeftoverInv'
  BY <1>e, TypeParts, FaultEffect, GoEffect, Handlers DEF LeftoverInv, NoStage, PhaseInv,
     Opening
<1>10. FreshInv'
  BY <1>e, TypeParts, FaultEffect, GoEffect, Handlers DEF FreshInv, LeafIntact, PhaseInv,
     Finishing, BaseSteps
<1>11. RemovalInv'
  BY <1>e, TypeParts, FaultEffect, GoEffect, Handlers DEF RemovalInv, Remaining, PhaseInv,
     NoStage, Opening, HolderInv
<1>12. ResidueReported'
  BY <1>e, TypeParts, FaultEffect, GoEffect, Handlers DEF ResidueReported, RemovalInv, Remaining
<1> QED BY <1>1, <1>2, <1>3, <1>4, <1>5, <1>6, <1>7, <1>8, <1>9, <1>10, <1>11, <1>12

\* A leaf that is not intact is refused, never sealed.
LEMMA ReopenDatabaseKeeps ==
    ASSUME BuildInv, ReopenDatabase PROVE BuildInv'
<1> USE DEF BuildInv, ReopenDatabase, LeafIntact
<1>1. BuildTypes'
  <2>1. DiskTypes'
    BY TypeParts DEF DiskTypes, FinalNames, WorkNames, Reports, Finals
  <2>2. TableTypes'
    BY TypeParts DEF TableTypes
  <2>3. StoreTypes'
    BY TypeParts DEF StoreTypes, Stores, Bases, Discardable
  <2>4. HolderTypes'
    BY TypeParts DEF HolderTypes, Holders
  <2>5. StepTypes'
    BY TypeParts, RefuseEffect, FaultEffect, GoEffect, Handlers DEF StepTypes, Errors
  <2> QED BY <2>1, <2>2, <2>3, <2>4, <2>5, TypesFromParts
<1>2. ErrorInv'
  BY TypeParts, BaseShape, RefuseEffect, FaultEffect, GoEffect, Handlers DEF ErrorInv, Aborting
<1>3. PhaseInv'
  BY TypeParts, BaseShape, RefuseEffect, FaultEffect, GoEffect, Handlers DEF PhaseInv, Opening,
     Finishing, BaseSteps, Registered, NoStage
<1>4. ForwardInv'
  BY TypeParts, BaseShape, RefuseEffect, FaultEffect, GoEffect, Handlers DEF ForwardInv,
     Removing, Opening, LayerTables, ErrorInv, Aborting
<1>5. HolderInv'
  BY TypeParts, BaseShape, RefuseEffect, FaultEffect, GoEffect, Handlers DEF HolderInv,
     HandedOver, CoreSteps, Opening, Removing
<1>6. CandidateComplete'
  BY TypeParts, BaseShape, RefuseEffect, FaultEffect, GoEffect, Handlers DEF CandidateComplete,
     HolderInv, HandedOver, CoreSteps, Complete
<1>7. InventoryInv'
  BY TypeParts, BaseShape, RefuseEffect, FaultEffect, GoEffect, Handlers DEF InventoryInv,
     Opening, Removing
<1>8. WorkingInv'
  BY TypeParts, BaseShape, RefuseEffect, FaultEffect, GoEffect, Handlers DEF WorkingInv,
     Discardable, FreshInv, LeafIntact
<1>9. LeftoverInv'
  BY TypeParts, BaseShape, RefuseEffect, FaultEffect, GoEffect, Handlers DEF LeftoverInv,
     NoStage, PhaseInv, Opening
<1>10. FreshInv'
  BY TypeParts, BaseShape, RefuseEffect, FaultEffect, GoEffect, Handlers DEF FreshInv,
     LeafIntact, PhaseInv, Finishing, BaseSteps
<1>11. RemovalInv'
  BY TypeParts, BaseShape, RefuseEffect, FaultEffect, GoEffect, Handlers DEF RemovalInv,
     Remaining, PhaseInv, NoStage, Opening, HolderInv
<1>12. ResidueReported'
  BY TypeParts, BaseShape, RefuseEffect, FaultEffect, GoEffect, Handlers DEF ResidueReported,
     RemovalInv, Remaining
<1> QED BY <1>1, <1>2, <1>3, <1>4, <1>5, <1>6, <1>7, <1>8, <1>9, <1>10, <1>11, <1>12

\* The seal is registered for a leaf that was created.
LEMMA SealDatabaseKeeps ==
    ASSUME BuildInv, SealDatabase PROVE BuildInv'
<1> USE DEF BuildInv, SealDatabase, LeafIntact
<1>1. BuildTypes'
  <2>1. DiskTypes'
    BY TypeParts DEF DiskTypes, FinalNames, WorkNames, Reports, Finals
  <2>2. TableTypes'
    BY TypeParts DEF TableTypes
  <2>3. StoreTypes'
    <3>1. db' \in Bases  BY TypeParts DEF StoreTypes, Bases, Discardable
    <3> QED BY <3>1, TypeParts DEF StoreTypes
  <2>4. HolderTypes'
    BY TypeParts DEF HolderTypes, Holders
  <2>5. StepTypes'
    BY TypeParts, RefuseEffect, GoEffect, Handlers DEF StepTypes, Errors
  <2> QED BY <2>1, <2>2, <2>3, <2>4, <2>5, TypesFromParts
<1>2. ErrorInv'
  BY TypeParts, BaseShape, RefuseEffect, GoEffect, Handlers DEF ErrorInv, Aborting
<1>3. PhaseInv'
  BY TypeParts, BaseShape, RefuseEffect, GoEffect, Handlers DEF PhaseInv, Opening, Finishing,
     BaseSteps, Registered, NoStage
<1>4. ForwardInv'
  BY TypeParts, BaseShape, RefuseEffect, GoEffect, Handlers DEF ForwardInv, Removing, Opening,
     LayerTables, ErrorInv, Aborting
<1>5. HolderInv'
  BY TypeParts, BaseShape, RefuseEffect, GoEffect, Handlers DEF HolderInv, HandedOver,
     CoreSteps, Opening, Removing
<1>6. CandidateComplete'
  BY TypeParts, BaseShape, RefuseEffect, GoEffect, Handlers DEF CandidateComplete, HolderInv,
     HandedOver, CoreSteps, Complete
<1>7. InventoryInv'
  BY TypeParts, BaseShape, RefuseEffect, GoEffect, Handlers DEF InventoryInv, Opening, Removing
<1>8. WorkingInv'
  BY TypeParts, BaseShape, RefuseEffect, GoEffect, Handlers DEF WorkingInv, Discardable,
     FreshInv, LeafIntact
<1>9. LeftoverInv'
  BY TypeParts, BaseShape, RefuseEffect, GoEffect, Handlers DEF LeftoverInv, NoStage, PhaseInv,
     Opening
<1>10. FreshInv'
  BY TypeParts, BaseShape, RefuseEffect, GoEffect, Handlers DEF FreshInv, LeafIntact, PhaseInv,
     Finishing, BaseSteps
<1>11. RemovalInv'
  BY TypeParts, BaseShape, RefuseEffect, GoEffect, Handlers DEF RemovalInv, Remaining, PhaseInv,
     NoStage, Opening, HolderInv
<1>12. ResidueReported'
  BY TypeParts, BaseShape, RefuseEffect, GoEffect, Handlers DEF ResidueReported, RemovalInv,
     Remaining
<1> QED BY <1>1, <1>2, <1>3, <1>4, <1>5, <1>6, <1>7, <1>8, <1>9, <1>10, <1>11, <1>12

\* The stamp is taken again after the workspace has gone.
LEMMA CloseWorkspaceKeeps ==
    ASSUME BuildInv, CloseWorkspace PROVE BuildInv'
<1> BuildTypes  BY DEF BuildInv
<1>e. /\ pc = "closeWorkspace" /\ UNCHANGED <<layer, leaf, writer, verified, staged, store, holder, changed, temp>>
      /\ \/ /\ db.work = "AMBIGUOUS" /\ pc' = "abortCheck" /\ error' = "cleanup"
            /\ UNCHANGED <<disk, reg, db, faults>>
         \/ /\ NamesOnly /\ BaseKept /\ db'.work = "CLOSED" /\ db'.fresh = (db.leaf = "created")
            /\ disk'.names = disk.names \ {"database-build"} /\ reg'.names = reg.names \ {"database-build"}
            /\ Go(IF error = "none" THEN "writeFinal" ELSE "abortCheck")
         \/ CleanupFault("abortCheck") /\ UNCHANGED <<disk, reg>> /\ BaseKept /\ db'.work = "AMBIGUOUS" 
  BY DiskShape, RegShape, BaseShape DEF CloseWorkspace, DiscardWorkspace, Refreshed, Touched
<1> USE DEF BuildInv
<1>1. BuildTypes'
  <2>1. DiskTypes'
    BY TypeParts DEF DiskTypes, FinalNames, WorkNames, Reports, Finals, CloseWorkspace,
       DiscardWorkspace, Refreshed, Touched
  <2>2. TableTypes'
    BY TypeParts DEF TableTypes, CloseWorkspace, DiscardWorkspace, Refreshed, Touched
  <2>3. StoreTypes'
    <3>1. db' \in Bases
      <4>1. Touched(db) \in Bases /\ Refreshed(Touched(db)) \in Bases
        BY TypeParts DEF StoreTypes, Bases, Touched, Refreshed
      <4> QED BY <4>1, TypeParts DEF CloseWorkspace, DiscardWorkspace, StoreTypes, Bases
    <3> QED BY <3>1, <1>e, TypeParts DEF StoreTypes
  <2>4. HolderTypes'
    BY TypeParts DEF HolderTypes, Holders, CloseWorkspace, DiscardWorkspace, Refreshed, Touched
  <2>5. StepTypes'
    BY TypeParts, GoEffect, CleanupFaultEffect DEF StepTypes, Errors, CloseWorkspace,
       DiscardWorkspace, Refreshed, Touched
  <2> QED BY <2>1, <2>2, <2>3, <2>4, <2>5, TypesFromParts
<1>2. ErrorInv'
  BY <1>e, TypeParts, GoEffect, CleanupFaultEffect DEF ErrorInv, Aborting
<1>3. PhaseInv'
  BY <1>e, TypeParts, GoEffect, CleanupFaultEffect DEF PhaseInv, Opening, Finishing, BaseSteps,
     Registered, NoStage
<1>4. ForwardInv'
  BY <1>e, TypeParts, GoEffect, CleanupFaultEffect DEF ForwardInv, Removing, Opening,
     LayerTables, ErrorInv, Aborting
<1>5. HolderInv'
  BY <1>e, TypeParts, GoEffect, CleanupFaultEffect DEF HolderInv, HandedOver, CoreSteps,
     Opening, Removing
<1>6. CandidateComplete'
  BY <1>e, TypeParts, GoEffect, CleanupFaultEffect DEF CandidateComplete, HolderInv, HandedOver,
     CoreSteps, Complete
<1>7. InventoryInv'
  BY <1>e, TypeParts, GoEffect, CleanupFaultEffect DEF InventoryInv, Opening, Removing
<1>8. WorkingInv'
  BY <1>e, TypeParts, GoEffect, CleanupFaultEffect DEF WorkingInv, Discardable, FreshInv,
     LeafIntact
<1>9. LeftoverInv'
  BY <1>e, TypeParts, GoEffect, CleanupFaultEffect DEF LeftoverInv, NoStage, PhaseInv, Opening
<1>10. FreshInv'
  <2> SUFFICES ASSUME faults' = 0, pc' \in {"reopen", "seal", "writeFinal", "transfer"}
               PROVE  pc' = "writeFinal" /\ db'.fresh
    BY DEF FreshInv
  <2>1. /\ pc = "closeWorkspace" /\ error = "none" /\ pc' = "writeFinal"
        /\ db'.fresh = (db.leaf = "created")
    BY <1>e, GoEffect, CleanupFaultEffect
  <2> QED BY <2>1 DEF PhaseInv
<1>11. RemovalInv'
  BY <1>e, TypeParts, GoEffect, CleanupFaultEffect DEF RemovalInv, Remaining, PhaseInv, NoStage,
     Opening, HolderInv
<1>12. ResidueReported'
  BY <1>e, TypeParts, GoEffect, CleanupFaultEffect DEF ResidueReported, RemovalInv, Remaining
<1> QED BY <1>1, <1>2, <1>3, <1>4, <1>5, <1>6, <1>7, <1>8, <1>9, <1>10, <1>11, <1>12

\* A final leaf is on disk when it is registered; the manifest is the last.
LEMMA WriteFinalKeeps ==
    ASSUME BuildInv, WriteFinal PROVE BuildInv'
<1> BuildTypes  BY DEF BuildInv
<1>e. /\ pc = "writeFinal" /\ UNCHANGED <<layer, leaf, writer, verified, staged, store, holder, changed, temp>>
      /\ BaseKept /\ db'.work = db.work
      /\ disk'.parquet = disk.parquet /\ disk'.dir = disk.dir /\ disk'.marker = disk.marker
      /\ reg'.parquet = reg.parquet
      /\ \/ Refuse /\ UNCHANGED <<disk, reg, db>>
         \/ /\ Fault \/ FaultTwice
            /\ \/ reg'.final = reg.final
               \/ \E f \in Range(Finals) :
                     reg'.final = reg.final \cup {f} /\ (f = "manifest.json" => changed = "no")
         \/ \E f \in Range(Finals), d \in FinalNames :
               /\ d = (IF f \in Reports THEN "reports" ELSE f)
               /\ f = "manifest.json" => changed = "no" /\ {"source_audit", "quality_summary"} \subseteq reg.final
               /\ disk'.names = disk.names \cup {d} /\ reg'.names = reg.names \cup {d}
               /\ disk'.reports = disk.reports \cup ({f} \cap Reports) /\ reg'.final = reg.final \cup {f}
               /\ reg'.reports = (reg.reports \/ (f \in Reports /\ ~reg.reports))
               /\ db'.fresh = (db.leaf = "created")
               /\ Go(IF f = "manifest.json" THEN "transfer" ELSE "writeFinal")
  <2> PICK f \in Range(Finals) :
         /\ IsFirst(Finals, Range(Finals) \ reg.final, f)
         /\ LET dir   == IF f \in Reports THEN "reports" ELSE f
                first == f \in Reports /\ ~reg.reports
                OnDisk == disk' = [disk EXCEPT !.names = @ \cup {dir},
                                               !.reports = @ \cup ({f} \cap Reports)]
                Known(leaves, S) == reg' = [reg EXCEPT !.names = @ \cup S, !.final = @ \cup leaves,
                                                       !.reports = @ \/ first]
                Undone(kept) == /\ UNCHANGED disk
                                /\ reg' = [reg EXCEPT !.names = @ \cup (kept \ Reports),
                                                      !.final = @ \cup kept]
            IN IF (f = "source_audit" /\ ~SealValid) \/ (f = "manifest.json" /\ ~InputsHeld)
               THEN Refuse /\ Same /\ UNCHANGED db
               ELSE \/ /\ OnDisk /\ Known({f}, {dir}) /\ db' = Refreshed(Touched(db))
                       /\ Go(IF f = "manifest.json" THEN "transfer" ELSE "writeFinal")
                    \/ Refuse /\ Same /\ UNCHANGED db
                    \/ /\ first /\ Fault
                       /\ AddName(dir) /\ Known({}, {dir}) /\ db' = Touched(db)
                    \/ \E kept \in {{}, {f}} :
                          \/ Fault /\ Undone(kept) /\ db' = Refreshed(db)
                          \/ /\ FaultTwice /\ db' = Touched(db)
                             /\ \/ Undone(kept)
                                \/ first /\ AddName(dir) /\ Known(kept, {dir})
                                \/ OnDisk /\ Known(kept, ({dir} \ {f}) \cup (kept \ Reports))
    BY DEF WriteFinal
  <2> DEFINE d == IF f \in Reports THEN "reports" ELSE f
             first == f \in Reports /\ ~reg.reports
             OnDisk == disk' = [disk EXCEPT !.names = @ \cup {d}, !.reports = @ \cup ({f} \cap Reports)]
             Known(leaves, S) == reg' = [reg EXCEPT !.names = @ \cup S, !.final = @ \cup leaves,
                                                    !.reports = @ \/ first]
             Undone(kept) == /\ UNCHANGED disk
                             /\ reg' = [reg EXCEPT !.names = @ \cup (kept \ Reports),
                                                   !.final = @ \cup kept]
             Failed(kept) == \/ Undone(kept)
                             \/ AddName(d) /\ Known(kept, {d})
                             \/ OnDisk /\ Known(kept, ({d} \ {f}) \cup (kept \ Reports))
  <2>1. pc = "writeFinal" /\ UNCHANGED <<layer, leaf, writer, verified, staged, store, holder, changed, temp>>
    BY DEF WriteFinal
  <2>2. /\ db' \in {db, Refreshed(db), Touched(db), Refreshed(Touched(db))}
        /\ \/ Refuse /\ UNCHANGED <<disk, reg, db>>
           \/ /\ Fault \/ FaultTwice
              /\ \E kept \in {{}, {f}} : Failed(kept)
              /\ f = "manifest.json" => changed = "no"
           \/ /\ OnDisk /\ Known({f}, {d}) /\ db' = Refreshed(Touched(db))
              /\ f = "manifest.json" => changed = "no"
              /\ Go(IF f = "manifest.json" THEN "transfer" ELSE "writeFinal")
    BY DEF InputsHeld
  <2>3. f = "manifest.json" => {"source_audit", "quality_summary"} \subseteq reg.final
    BY ManifestIsLast, FinalsAre
  <2>4. BaseKept /\ db'.work = db.work /\ (db' = Refreshed(Touched(db)) => db'.fresh = (db.leaf = "created"))
    BY <2>2, BaseShape DEF Refreshed, Touched
  <2>5. d \in FinalNames
    BY FinalsAre DEF Reports, FinalNames
  <2>6. OnDisk => /\ disk'.names = disk.names \cup {d} /\ disk'.reports = disk.reports \cup ({f} \cap Reports)
                  /\ disk'.parquet = disk.parquet /\ disk'.dir = disk.dir /\ disk'.marker = disk.marker
    BY DiskShape
  <2>7. AddName(d) => /\ disk'.parquet = disk.parquet /\ disk'.dir = disk.dir /\ disk'.marker = disk.marker
    BY DiskShape DEF AddName
  <2>8. \A leaves, S : Known(leaves, S) => /\ reg'.names = reg.names \cup S /\ reg'.parquet = reg.parquet
                                           /\ reg'.final = reg.final \cup leaves
                                           /\ reg'.reports = (reg.reports \/ first)
    BY RegShape
  <2>u. \A kept : Undone(kept) => disk' = disk /\ reg'.final = reg.final \cup kept
                                  /\ reg'.parquet = reg.parquet
    BY RegShape
  <2>k. ASSUME NEW kept \in {{}, {f}}, Failed(kept)
        PROVE  /\ reg'.final = reg.final \cup kept /\ reg'.parquet = reg.parquet
               /\ disk'.parquet = disk.parquet /\ disk'.dir = disk.dir /\ disk'.marker = disk.marker
    <3>1. CASE Undone(kept)  BY <2>u, <3>1
    <3>2. CASE AddName(d) /\ Known(kept, {d})  BY <2>7, <2>8, <3>2
    <3>3. CASE OnDisk /\ Known(kept, ({d} \ {f}) \cup (kept \ Reports))  BY <2>6, <2>8, <3>3
    <3> HIDE DEF OnDisk, Known, Undone
    <3> QED BY <2>k, <3>1, <3>2, <3>3
  <2>9. d = (IF f \in Reports THEN "reports" ELSE f) /\ first = (f \in Reports /\ ~reg.reports)  OBVIOUS
  <2> HIDE DEF d, first, OnDisk, Known, Undone, Failed
  <2>10. CASE Refuse /\ UNCHANGED <<disk, reg, db>>  BY <2>1, <2>4, <2>10
  <2>11. CASE /\ Fault \/ FaultTwice
              /\ \E kept \in {{}, {f}} : Failed(kept)
              /\ f = "manifest.json" => changed = "no"
    <3>1. PICK kept \in {{}, {f}} : Failed(kept)  BY <2>11
    <3>2. reg'.final = reg.final \/ reg'.final = reg.final \cup {f}  BY <2>k, <3>1
    <3>3. /\ reg'.parquet = reg.parquet /\ disk'.parquet = disk.parquet
          /\ disk'.dir = disk.dir /\ disk'.marker = disk.marker
      BY <2>k, <3>1
    <3> QED BY <2>1, <2>4, <2>11, <3>2, <3>3
  <2>14. CASE /\ OnDisk /\ Known({f}, {d}) /\ db' = Refreshed(Touched(db))
              /\ f = "manifest.json" => changed = "no"
              /\ Go(IF f = "manifest.json" THEN "transfer" ELSE "writeFinal")
    <3>1. /\ reg'.names = reg.names \cup {d} /\ reg'.parquet = reg.parquet
          /\ reg'.final = reg.final \cup {f} /\ reg'.reports = (reg.reports \/ first)
      BY <2>8, <2>14
    <3> QED BY <2>1, <2>3, <2>4, <2>5, <2>6, <2>9, <2>14, <3>1
  <2> QED BY <2>2, <2>10, <2>11, <2>14
<1> USE DEF BuildInv
<1>1. BuildTypes'
  <2>1. DiskTypes'
    <3>1. CASE UNCHANGED <<disk, reg>>  BY <3>1, TypeParts DEF DiskTypes
    <3>2. ASSUME NEW N \in SUBSET FinalNames, NEW S \in SUBSET Reports,
                 \/ disk' = [disk EXCEPT !.names = @ \cup N, !.reports = @ \cup S]
                 \/ disk' = [disk EXCEPT !.names = @ \cup N]
          PROVE  disk' \in [marker : BOOLEAN, dir : BOOLEAN, names : SUBSET (FinalNames \cup WorkNames),
                            parquet : SUBSET Tables, reports : SUBSET Reports]
      BY <3>2, TypeParts DEF DiskTypes
    <3>3. ASSUME NEW N \in SUBSET FinalNames, NEW L \in SUBSET Range(Finals), NEW b \in BOOLEAN,
                 reg' = [reg EXCEPT !.names = @ \cup N, !.final = @ \cup L, !.reports = @ \/ b]
          PROVE  reg' \in [names : SUBSET (FinalNames \cup WorkNames), parquet : SUBSET Tables,
                           final : SUBSET Range(Finals), reports : BOOLEAN]
      BY <3>3, TypeParts DEF DiskTypes
    <3> DEFINE Dir(f) == IF f \in Reports THEN "reports" ELSE f
               Known(f, N, L) == reg' = [reg EXCEPT !.names = @ \cup N, !.final = @ \cup L,
                                                    !.reports = @ \/ (f \in Reports /\ ~reg.reports)]
               Undone(N, L) == reg' = [reg EXCEPT !.names = @ \cup N, !.final = @ \cup L]
    <3>4. PICK f \in Range(Finals) :
             /\ \/ disk' = disk
                \/ disk' = [disk EXCEPT !.names = @ \cup {Dir(f)}, !.reports = @ \cup ({f} \cap Reports)]
                \/ disk' = [disk EXCEPT !.names = @ \cup {Dir(f)}]
             /\ \/ reg' = reg
                \/ Known(f, {Dir(f)}, {f}) \/ Known(f, {Dir(f)}, {})
                \/ \E kept \in {{}, {f}} :
                      \/ Undone(kept \ Reports, kept) \/ Known(f, {Dir(f)}, kept)
                      \/ Known(f, ({Dir(f)} \ {f}) \cup (kept \ Reports), kept)
      BY DEF WriteFinal, AddName
    <3>5. Dir(f) \in FinalNames /\ {f} \cap Reports \in SUBSET Reports
      BY FinalsAre DEF FinalNames, Reports
    <3>6. CASE reg' = reg  BY <3>2, <3>4, <3>5, <3>6, TypeParts, ZenonT(60) DEF DiskTypes
    <3>7. ASSUME NEW N \in SUBSET FinalNames, NEW L \in SUBSET Range(Finals),
                 Known(f, N, L) \/ Undone(N, L)
          PROVE  reg' \in [names : SUBSET (FinalNames \cup WorkNames), parquet : SUBSET Tables,
                           final : SUBSET Range(Finals), reports : BOOLEAN]
      <4>1. CASE Known(f, N, L)  BY <3>3, <4>1
      <4>2. CASE Undone(N, L)  BY <4>2, TypeParts DEF DiskTypes
      <4> QED BY <3>7, <4>1, <4>2
    <3>8. \A kept \in {{}, {f}} :
             /\ kept \in SUBSET Range(Finals) /\ kept \ Reports \in SUBSET FinalNames
             /\ {Dir(f)} \in SUBSET FinalNames
             /\ ({Dir(f)} \ {f}) \cup (kept \ Reports) \in SUBSET FinalNames
      BY <3>5, FinalsAre DEF FinalNames, Reports
    <3> HIDE DEF Dir, Known, Undone
    <3>9. CASE reg' # reg
      <4>1. reg' \in [names : SUBSET (FinalNames \cup WorkNames), parquet : SUBSET Tables,
                      final : SUBSET Range(Finals), reports : BOOLEAN]
        BY <3>4, <3>7, <3>8, <3>9
      <4> QED BY <3>2, <3>4, <3>5, <4>1, TypeParts DEF DiskTypes
    <3> QED BY <3>6, <3>9
  <2>2. TableTypes'
    BY TypeParts DEF TableTypes, WriteFinal, SealValid, LeafIntact, InputsHeld, Refreshed,
       Touched, AddName
  <2>3. StoreTypes'
    <3>1. Touched(db) \in Bases /\ Refreshed(db) \in Bases /\ Refreshed(Touched(db)) \in Bases
      BY TypeParts DEF StoreTypes, Bases, Touched, Refreshed
    <3>2. db' \in {db, Touched(db), Refreshed(db), Refreshed(Touched(db))}
      BY DEF WriteFinal
    <3> QED BY <1>e, <3>1, <3>2, TypeParts DEF StoreTypes
  <2>4. HolderTypes'
    BY TypeParts DEF HolderTypes, Holders, WriteFinal, SealValid, LeafIntact, InputsHeld,
       Refreshed, Touched, AddName
  <2>5. StepTypes'
    BY TypeParts, RefuseEffect, FaultEffect, FaultTwiceEffect, GoEffect, Handlers DEF StepTypes,
       Errors, WriteFinal, SealValid, LeafIntact, InputsHeld, Refreshed, Touched, AddName
  <2> QED BY <2>1, <2>2, <2>3, <2>4, <2>5, TypesFromParts
<1>2. ErrorInv'
  BY <1>e, TypeParts, RefuseEffect, FaultEffect, FaultTwiceEffect, GoEffect, Handlers
     DEF ErrorInv, Aborting
<1>3. PhaseInv'
  BY <1>e, TypeParts, FinalsAre, RefuseEffect, FaultEffect, FaultTwiceEffect, GoEffect, Handlers
     DEF PhaseInv, Opening, Finishing, BaseSteps, Registered, NoStage, DiskTypes
<1>4. ForwardInv'
  <2> SUFFICES ASSUME error' = "none", pc' \notin Removing PROVE ForwardInv'
    BY DEF ForwardInv
  <2>1. \E f \in Range(Finals), d \in FinalNames :
           /\ d = (IF f \in Reports THEN "reports" ELSE f)
           /\ reg'.names = reg.names \cup {d} /\ disk'.reports = disk.reports \cup ({f} \cap Reports)
           /\ reg'.final = reg.final \cup {f} /\ error = "none" /\ pc' \in {"transfer", "writeFinal"}
    BY <1>e, RefuseEffect, FaultEffect, FaultTwiceEffect, GoEffect
  <2>2. ForwardInv /\ pc = "writeFinal" /\ UNCHANGED <<layer, leaf, verified>>
        /\ reg'.parquet = reg.parquet /\ db'.leaf = db.leaf
    BY <1>e
  <2> QED BY <2>1, <2>2, FinalsAre DEF ForwardInv, Opening, Removing, LayerTables, Reports
<1>5. HolderInv'
  BY <1>e, TypeParts, RefuseEffect, FaultEffect, FaultTwiceEffect, GoEffect, Handlers
     DEF HolderInv, HandedOver, CoreSteps, Opening, Removing
<1>6. CandidateComplete'
  BY <1>e, TypeParts, RefuseEffect, FaultEffect, FaultTwiceEffect, GoEffect, Handlers
     DEF CandidateComplete, HolderInv, HandedOver, CoreSteps, Complete
<1>7. InventoryInv'
  <2>1. CASE UNCHANGED <<disk, reg>> /\ Refuse
    BY <1>e, <2>1, RefuseEffect, Handlers DEF InventoryInv, Opening, Removing
  <2>2. CASE faults' # 0  BY <2>2 DEF InventoryInv
  <2>3. CASE \E f \in Range(Finals), d \in FinalNames :
               /\ disk'.names = disk.names \cup {d} /\ reg'.names = reg.names \cup {d}
               /\ disk'.reports = disk.reports \cup ({f} \cap Reports)
               /\ reg'.final = reg.final \cup {f}
               /\ reg'.reports = (reg.reports \/ (f \in Reports /\ ~reg.reports))
               /\ pc' \in {"transfer", "writeFinal"} /\ faults' = faults
    BY <1>e, <2>3 DEF InventoryInv, Opening, Removing
  <2> QED BY <1>e, <2>1, <2>2, <2>3, FaultEffect, FaultTwiceEffect, GoEffect
<1>8. WorkingInv'
  BY <1>e, TypeParts, FinalsAre, RefuseEffect, FaultEffect, FaultTwiceEffect, GoEffect, Handlers
     DEF WorkingInv, Discardable, FreshInv, LeafIntact, FinalNames
<1>9. LeftoverInv'
  BY <1>e, TypeParts, RefuseEffect, FaultEffect, FaultTwiceEffect, GoEffect, Handlers
     DEF LeftoverInv, NoStage, PhaseInv, Opening
<1>10. FreshInv'
  BY <1>e, TypeParts, RefuseEffect, FaultEffect, FaultTwiceEffect, GoEffect, Handlers
     DEF FreshInv, LeafIntact, PhaseInv, Finishing, BaseSteps
<1>11. RemovalInv'
  BY <1>e, TypeParts, RefuseEffect, FaultEffect, FaultTwiceEffect, GoEffect, Handlers
     DEF RemovalInv, Remaining, PhaseInv, NoStage, Opening, HolderInv
<1>12. ResidueReported'
  BY <1>e, TypeParts, RefuseEffect, FaultEffect, FaultTwiceEffect, GoEffect, Handlers
     DEF ResidueReported, RemovalInv, Remaining
<1> QED BY <1>1, <1>2, <1>3, <1>4, <1>5, <1>6, <1>7, <1>8, <1>9, <1>10, <1>11, <1>12

\* The stage that is handed over is the complete artifact set.
LEMMA TransferStageKeeps ==
    ASSUME BuildInv, TransferStage PROVE BuildInv'
<1> USE DEF BuildInv, TransferStage, SealValid, LeafIntact, NothingLive, Recognised
<1>1. BuildTypes'
  <2>1. DiskTypes'
    BY TypeParts DEF DiskTypes, FinalNames, WorkNames, Reports, Finals
  <2>2. TableTypes'
    BY TypeParts DEF TableTypes
  <2>3. StoreTypes'
    BY TypeParts DEF StoreTypes, Stores, Bases, Discardable
  <2>4. HolderTypes'
    BY TypeParts DEF HolderTypes, Holders
  <2>5. StepTypes'
    BY TypeParts, RefuseEffect, GoEffect, Handlers DEF StepTypes, Errors
  <2> QED BY <2>1, <2>2, <2>3, <2>4, <2>5, TypesFromParts
<1>2. ErrorInv'
  BY TypeParts, HolderShape, RefuseEffect, GoEffect, Handlers DEF ErrorInv, Aborting
<1>3. PhaseInv'
  BY TypeParts, HolderShape, RefuseEffect, GoEffect, Handlers DEF PhaseInv, Opening, Finishing,
     BaseSteps, Registered, NoStage
<1>4. ForwardInv'
  BY TypeParts, HolderShape, RefuseEffect, GoEffect, Handlers DEF ForwardInv, Removing, Opening,
     LayerTables, ErrorInv, Aborting
<1>5. HolderInv'
  BY TypeParts, HolderShape, RefuseEffect, GoEffect, Handlers DEF HolderInv, HandedOver,
     CoreSteps, Opening, Removing
<1>6. CandidateComplete'
  <2> SUFFICES ASSUME holder'.owner \in {"stage", "custody", "transferred"}, holder'.state = "LIVE"
               PROVE  CandidateComplete'
    BY DEF CandidateComplete
  <2>1. /\ SealValid /\ staged = Len(TableSpecs) /\ NothingLive /\ Recognised
        /\ reg.names \subseteq FinalNames
    BY HolderShape DEF HolderInv, HandedOver, CoreSteps
  <2>2. Tables \subseteq verified /\ verified \subseteq Tables
    BY <2>1, RegisteredAll, TypeParts DEF PhaseInv, TableTypes
  <2>3. /\ error = "none" /\ reg.final = Range(Finals) /\ store.state = "CLEANED" /\ store.verifier
        /\ db.seal /\ db.leaf = "created" /\ db.work # "none" /\ changed # "early"
    BY FinalsAre DEF PhaseInv, Finishing
  <2>4. /\ "parquet" \in reg.names /\ verified \subseteq reg.parquet /\ "finproof.duckdb" \in reg.names
        /\ "reports" \in reg.names /\ reg.final \cap Reports \subseteq disk.reports
        /\ "manifest.json" \in reg.names
    BY <2>3, FinalsAre DEF ForwardInv, Opening, Removing, Reports
  <2>5. disk.parquet \subseteq Tables /\ disk.reports \subseteq Reports
    BY TypeParts DEF DiskTypes
  <2>6. reg.names = FinalNames /\ reg.parquet = Tables /\ disk.reports = Reports /\ verified = Tables
    BY <2>1, <2>2, <2>3, <2>4, <2>5, FinalsAre, ZenonT(60) DEF FinalNames, Reports, Recognised
  <2> QED BY <2>1, <2>3, <2>6 DEF CandidateComplete, Complete, Recognised, NothingLive
<1>7. InventoryInv'
  BY TypeParts, HolderShape, RefuseEffect, GoEffect, Handlers DEF InventoryInv, Opening,
     Removing
<1>8. WorkingInv'
  BY TypeParts, HolderShape, RefuseEffect, GoEffect, Handlers DEF WorkingInv, Discardable,
     FreshInv, LeafIntact
<1>9. LeftoverInv'
  BY TypeParts, HolderShape, RefuseEffect, GoEffect, Handlers DEF LeftoverInv, NoStage,
     PhaseInv, Opening
<1>10. FreshInv'
  BY TypeParts, HolderShape, RefuseEffect, GoEffect, Handlers DEF FreshInv, LeafIntact,
     PhaseInv, Finishing, BaseSteps
<1>11. RemovalInv'
  BY TypeParts, HolderShape, RefuseEffect, GoEffect, Handlers DEF RemovalInv, Remaining,
     PhaseInv, NoStage, Opening, HolderInv
<1>12. ResidueReported'
  BY TypeParts, HolderShape, RefuseEffect, GoEffect, Handlers DEF ResidueReported, RemovalInv,
     Remaining
<1> QED BY <1>1, <1>2, <1>3, <1>4, <1>5, <1>6, <1>7, <1>8, <1>9, <1>10, <1>11, <1>12

\* issue_candidate_custody keeps the stage; a failure keeps its lock.
LEMMA IssueStageCustodyKeeps ==
    ASSUME BuildInv, IssueStageCustody PROVE BuildInv'
<1> USE DEF BuildInv, IssueStageCustody, Recognised
<1>1. BuildTypes'
  <2>1. DiskTypes'
    BY TypeParts DEF DiskTypes, FinalNames, WorkNames, Reports, Finals
  <2>2. TableTypes'
    BY TypeParts DEF TableTypes
  <2>3. StoreTypes'
    BY TypeParts DEF StoreTypes, Stores, Bases, Discardable
  <2>4. HolderTypes'
    BY TypeParts DEF HolderTypes, Holders
  <2>5. StepTypes'
    BY TypeParts, RefuseEffect, FaultEffect, GoEffect, Handlers DEF StepTypes, Errors
  <2> QED BY <2>1, <2>2, <2>3, <2>4, <2>5, TypesFromParts
<1>2. ErrorInv'
  BY TypeParts, HolderShape, RefuseEffect, FaultEffect, GoEffect, Handlers DEF ErrorInv,
     Aborting
<1>3. PhaseInv'
  BY TypeParts, HolderShape, RefuseEffect, FaultEffect, GoEffect, Handlers DEF PhaseInv,
     Opening, Finishing, BaseSteps, Registered, NoStage
<1>4. ForwardInv'
  BY TypeParts, HolderShape, RefuseEffect, FaultEffect, GoEffect, Handlers DEF ForwardInv,
     Removing, Opening, LayerTables, ErrorInv, Aborting
<1>5. HolderInv'
  BY TypeParts, HolderShape, RefuseEffect, FaultEffect, GoEffect, Handlers DEF HolderInv,
     HandedOver, CoreSteps, Opening, Removing
<1>6. CandidateComplete'
  BY TypeParts, HolderShape, RefuseEffect, FaultEffect, GoEffect, Handlers
     DEF CandidateComplete, HolderInv, HandedOver, CoreSteps, Complete
<1>7. InventoryInv'
  BY TypeParts, HolderShape, RefuseEffect, FaultEffect, GoEffect, Handlers DEF InventoryInv,
     Opening, Removing
<1>8. WorkingInv'
  BY TypeParts, HolderShape, RefuseEffect, FaultEffect, GoEffect, Handlers DEF WorkingInv,
     Discardable, FreshInv, LeafIntact
<1>9. LeftoverInv'
  BY TypeParts, HolderShape, RefuseEffect, FaultEffect, GoEffect, Handlers DEF LeftoverInv,
     NoStage, PhaseInv, Opening, InventoryInv, Removing
<1>10. FreshInv'
  BY TypeParts, HolderShape, RefuseEffect, FaultEffect, GoEffect, Handlers DEF FreshInv,
     LeafIntact, PhaseInv, Finishing, BaseSteps
<1>11. RemovalInv'
  BY TypeParts, HolderShape, RefuseEffect, FaultEffect, GoEffect, Handlers DEF RemovalInv,
     Remaining, PhaseInv, NoStage, Opening, HolderInv, Removing
<1>12. ResidueReported'
  BY TypeParts, HolderShape, RefuseEffect, FaultEffect, GoEffect, Handlers DEF ResidueReported,
     RemovalInv, Remaining
<1> QED BY <1>1, <1>2, <1>3, <1>4, <1>5, <1>6, <1>7, <1>8, <1>9, <1>10, <1>11, <1>12

\* verify_candidate_core_from_root changes no artifact.
LEMMA VerifyCoreKeeps ==
    ASSUME BuildInv, VerifyCore PROVE BuildInv'
<1> USE DEF BuildInv, VerifyCore, CoreSteps
<1>1. BuildTypes'
  <2>1. DiskTypes'
    BY TypeParts DEF DiskTypes, FinalNames, WorkNames, Reports, Finals
  <2>2. TableTypes'
    BY TypeParts DEF TableTypes
  <2>3. StoreTypes'
    BY TypeParts DEF StoreTypes, Stores, Bases, Discardable
  <2>4. HolderTypes'
    BY TypeParts DEF HolderTypes, Holders
  <2>5. StepTypes'
    BY TypeParts, RefuseEffect, FaultEffect, GoEffect, Handlers DEF StepTypes, Errors
  <2> QED BY <2>1, <2>2, <2>3, <2>4, <2>5, TypesFromParts
<1>2. ErrorInv'
  BY TypeParts, RefuseEffect, FaultEffect, GoEffect, Handlers DEF ErrorInv, Aborting
<1>3. PhaseInv'
  BY TypeParts, RefuseEffect, FaultEffect, GoEffect, Handlers DEF PhaseInv, Opening, Finishing,
     BaseSteps, Registered, NoStage
<1>4. ForwardInv'
  BY TypeParts, RefuseEffect, FaultEffect, GoEffect, Handlers DEF ForwardInv, Removing, Opening,
     LayerTables, ErrorInv, Aborting
<1>5. HolderInv'
  BY TypeParts, RefuseEffect, FaultEffect, GoEffect, Handlers DEF HolderInv, HandedOver,
     CoreSteps, Opening, Removing
<1>6. CandidateComplete'
  BY TypeParts, RefuseEffect, FaultEffect, GoEffect, Handlers DEF CandidateComplete, HolderInv,
     HandedOver, CoreSteps, Complete
<1>7. InventoryInv'
  BY TypeParts, RefuseEffect, FaultEffect, GoEffect, Handlers DEF InventoryInv, Opening,
     Removing
<1>8. WorkingInv'
  BY TypeParts, RefuseEffect, FaultEffect, GoEffect, Handlers DEF WorkingInv, Discardable,
     FreshInv, LeafIntact
<1>9. LeftoverInv'
  BY TypeParts, RefuseEffect, FaultEffect, GoEffect, Handlers DEF LeftoverInv, NoStage,
     PhaseInv, Opening
<1>10. FreshInv'
  BY TypeParts, RefuseEffect, FaultEffect, GoEffect, Handlers DEF FreshInv, LeafIntact,
     PhaseInv, Finishing, BaseSteps
<1>11. RemovalInv'
  BY TypeParts, RefuseEffect, FaultEffect, GoEffect, Handlers DEF RemovalInv, Remaining,
     PhaseInv, NoStage, Opening, HolderInv
<1>12. ResidueReported'
  BY TypeParts, RefuseEffect, FaultEffect, GoEffect, Handlers DEF ResidueReported, RemovalInv,
     Remaining
<1> QED BY <1>1, <1>2, <1>3, <1>4, <1>5, <1>6, <1>7, <1>8, <1>9, <1>10, <1>11, <1>12

\* _issue_candidate_artifact_set changes no artifact.
LEMMA IssueSetKeeps ==
    ASSUME BuildInv, IssueSet PROVE BuildInv'
<1> USE DEF BuildInv, IssueSet, Recognised
<1>1. BuildTypes'
  <2>1. DiskTypes'
    BY TypeParts DEF DiskTypes, FinalNames, WorkNames, Reports, Finals
  <2>2. TableTypes'
    BY TypeParts DEF TableTypes
  <2>3. StoreTypes'
    BY TypeParts DEF StoreTypes, Stores, Bases, Discardable
  <2>4. HolderTypes'
    BY TypeParts DEF HolderTypes, Holders
  <2>5. StepTypes'
    BY TypeParts, RefuseEffect, GoEffect, Handlers DEF StepTypes, Errors
  <2> QED BY <2>1, <2>2, <2>3, <2>4, <2>5, TypesFromParts
<1>2. ErrorInv'
  BY TypeParts, RefuseEffect, GoEffect, Handlers DEF ErrorInv, Aborting
<1>3. PhaseInv'
  BY TypeParts, RefuseEffect, GoEffect, Handlers DEF PhaseInv, Opening, Finishing, BaseSteps,
     Registered, NoStage
<1>4. ForwardInv'
  BY TypeParts, RefuseEffect, GoEffect, Handlers DEF ForwardInv, Removing, Opening, LayerTables,
     ErrorInv, Aborting
<1>5. HolderInv'
  BY TypeParts, RefuseEffect, GoEffect, Handlers DEF HolderInv, HandedOver, CoreSteps, Opening,
     Removing
<1>6. CandidateComplete'
  BY TypeParts, RefuseEffect, GoEffect, Handlers DEF CandidateComplete, HolderInv, HandedOver,
     CoreSteps, Complete
<1>7. InventoryInv'
  BY TypeParts, RefuseEffect, GoEffect, Handlers DEF InventoryInv, Opening, Removing
<1>8. WorkingInv'
  BY TypeParts, RefuseEffect, GoEffect, Handlers DEF WorkingInv, Discardable, FreshInv,
     LeafIntact
<1>9. LeftoverInv'
  BY TypeParts, RefuseEffect, GoEffect, Handlers DEF LeftoverInv, NoStage, PhaseInv, Opening
<1>10. FreshInv'
  BY TypeParts, RefuseEffect, GoEffect, Handlers DEF FreshInv, LeafIntact, PhaseInv, Finishing,
     BaseSteps
<1>11. RemovalInv'
  BY TypeParts, RefuseEffect, GoEffect, Handlers DEF RemovalInv, Remaining, PhaseInv, NoStage,
     Opening, HolderInv
<1>12. ResidueReported'
  BY TypeParts, RefuseEffect, GoEffect, Handlers DEF ResidueReported, RemovalInv, Remaining
<1> QED BY <1>1, <1>2, <1>3, <1>4, <1>5, <1>6, <1>7, <1>8, <1>9, <1>10, <1>11, <1>12

\* The custody is transferred, or its stage is given up.
LEMMA AcceptKeeps ==
    ASSUME BuildInv, Accept PROVE BuildInv'
<1> USE DEF BuildInv, Accept, Recognised
<1>1. BuildTypes'
  <2>1. DiskTypes'
    BY TypeParts DEF DiskTypes, FinalNames, WorkNames, Reports, Finals
  <2>2. TableTypes'
    BY TypeParts DEF TableTypes
  <2>3. StoreTypes'
    BY TypeParts DEF StoreTypes, Stores, Bases, Discardable
  <2>4. HolderTypes'
    BY TypeParts DEF HolderTypes, Holders
  <2>5. StepTypes'
    BY TypeParts, RefuseEffect, GoEffect, Handlers DEF StepTypes, Errors
  <2> QED BY <2>1, <2>2, <2>3, <2>4, <2>5, TypesFromParts
<1>2. ErrorInv'
  BY TypeParts, HolderShape, RefuseEffect, GoEffect, Handlers DEF ErrorInv, Aborting
<1>3. PhaseInv'
  BY TypeParts, HolderShape, RefuseEffect, GoEffect, Handlers DEF PhaseInv, Opening, Finishing,
     BaseSteps, Registered, NoStage
<1>4. ForwardInv'
  BY TypeParts, HolderShape, RefuseEffect, GoEffect, Handlers DEF ForwardInv, Removing, Opening,
     LayerTables, ErrorInv, Aborting
<1>5. HolderInv'
  BY TypeParts, HolderShape, RefuseEffect, GoEffect, Handlers DEF HolderInv, HandedOver,
     CoreSteps, Opening, Removing
<1>6. CandidateComplete'
  BY TypeParts, HolderShape, RefuseEffect, GoEffect, Handlers DEF CandidateComplete, HolderInv,
     HandedOver, CoreSteps, Complete
<1>7. InventoryInv'
  BY TypeParts, HolderShape, RefuseEffect, GoEffect, Handlers DEF InventoryInv, Opening,
     Removing
<1>8. WorkingInv'
  BY TypeParts, HolderShape, RefuseEffect, GoEffect, Handlers DEF WorkingInv, Discardable,
     FreshInv, LeafIntact
<1>9. LeftoverInv'
  BY TypeParts, HolderShape, RefuseEffect, GoEffect, Handlers DEF LeftoverInv, NoStage,
     PhaseInv, Opening
<1>10. FreshInv'
  BY TypeParts, HolderShape, RefuseEffect, GoEffect, Handlers DEF FreshInv, LeafIntact,
     PhaseInv, Finishing, BaseSteps
<1>11. RemovalInv'
  BY TypeParts, HolderShape, RefuseEffect, GoEffect, Handlers DEF RemovalInv, Remaining,
     PhaseInv, NoStage, Opening, HolderInv
<1>12. ResidueReported'
  BY TypeParts, HolderShape, RefuseEffect, GoEffect, Handlers DEF ResidueReported, RemovalInv,
     Remaining
<1> QED BY <1>1, <1>2, <1>3, <1>4, <1>5, <1>6, <1>7, <1>8, <1>9, <1>10, <1>11, <1>12

\* The first statement of the abort compares the inventory.
LEMMA AbortCheckKeeps ==
    ASSUME BuildInv, AbortCheck PROVE BuildInv'
<1> USE DEF BuildInv, AbortCheck, Recognised
<1>1. BuildTypes'
  <2>1. DiskTypes'
    BY TypeParts DEF DiskTypes, FinalNames, WorkNames, Reports, Finals
  <2>2. TableTypes'
    BY TypeParts DEF TableTypes
  <2>3. StoreTypes'
    BY TypeParts DEF StoreTypes, Stores, Bases, Discardable
  <2>4. HolderTypes'
    BY TypeParts DEF HolderTypes, Holders
  <2>5. StepTypes'
    BY TypeParts, GoEffect, CleanupFaultEffect, AbortFailsEffect DEF StepTypes, Errors
  <2> QED BY <2>1, <2>2, <2>3, <2>4, <2>5, TypesFromParts
<1>2. ErrorInv'
  BY TypeParts, GoEffect, CleanupFaultEffect, AbortFailsEffect DEF ErrorInv, Aborting
<1>3. PhaseInv'
  BY TypeParts, GoEffect, CleanupFaultEffect, AbortFailsEffect DEF PhaseInv, Opening, Finishing,
     BaseSteps, Registered, NoStage
<1>4. ForwardInv'
  BY TypeParts, GoEffect, CleanupFaultEffect, AbortFailsEffect DEF ForwardInv, Removing,
     Opening, LayerTables, ErrorInv, Aborting
<1>5. HolderInv'
  BY TypeParts, GoEffect, CleanupFaultEffect, AbortFailsEffect DEF HolderInv, HandedOver,
     CoreSteps, Opening, Removing
<1>6. CandidateComplete'
  BY TypeParts, GoEffect, CleanupFaultEffect, AbortFailsEffect DEF CandidateComplete, HolderInv,
     HandedOver, CoreSteps, Complete
<1>7. InventoryInv'
  BY TypeParts, GoEffect, CleanupFaultEffect, AbortFailsEffect DEF InventoryInv, Opening,
     Removing
<1>8. WorkingInv'
  BY TypeParts, GoEffect, CleanupFaultEffect, AbortFailsEffect DEF WorkingInv, Discardable,
     FreshInv, LeafIntact
<1>9. LeftoverInv'
  BY TypeParts, GoEffect, CleanupFaultEffect, AbortFailsEffect DEF LeftoverInv, NoStage,
     PhaseInv, Opening, InventoryInv, Removing
<1>10. FreshInv'
  BY TypeParts, GoEffect, CleanupFaultEffect, AbortFailsEffect DEF FreshInv, LeafIntact,
     PhaseInv, Finishing, BaseSteps
<1>11. RemovalInv'
  BY TypeParts, GoEffect, CleanupFaultEffect, AbortFailsEffect DEF RemovalInv, Remaining,
     PhaseInv, NoStage, Opening, HolderInv
<1>12. ResidueReported'
  BY TypeParts, GoEffect, CleanupFaultEffect, AbortFailsEffect DEF ResidueReported, RemovalInv,
     Remaining
<1> QED BY <1>1, <1>2, <1>3, <1>4, <1>5, <1>6, <1>7, <1>8, <1>9, <1>10, <1>11, <1>12

\* writer.abort removes leaf and registration, or raises.
LEMMA AbortWritersKeeps ==
    ASSUME BuildInv, AbortWriters PROVE BuildInv'
<1> BuildTypes  BY DEF BuildInv
<1>e. /\ pc = "abortWriters" /\ UNCHANGED <<layer, verified, staged, store, db, holder, changed, temp>>
      /\ \/ Go("abortStore") /\ UNCHANGED <<disk, reg, leaf, writer>>
         \/ /\ \E t \in Tables : writer[t] = "broken"
            /\ AbortFails("untyped") /\ UNCHANGED <<disk, reg, leaf, writer>>
         \/ /\ LeavesOnly /\ Go("abortWriters")
            /\ \E t \in Tables : /\ disk'.parquet = disk.parquet \ {t} /\ reg'.parquet = reg.parquet \ {t}
                                 /\ writer' = [writer EXCEPT ![t] = "none"]
         \/ CleanupFault("release") /\ UNCHANGED <<disk, reg, leaf>>
  <2> DEFINE live == {t \in Tables : writer[t] # "none"}
  <2>1. /\ pc = "abortWriters" /\ UNCHANGED <<layer, verified, staged, store, db, holder, changed, temp>>
        /\ \/ Go("abortStore") /\ UNCHANGED <<disk, reg, leaf, writer>>
           \/ \E t \in live :
                \/ writer[t] = "broken" /\ AbortFails("untyped") /\ UNCHANGED <<disk, reg, leaf, writer>>
                \/ /\ disk' = [disk EXCEPT !.parquet = @ \ {t}]
                   /\ reg' = [reg EXCEPT !.parquet = @ \ {t}]
                   /\ writer' = [writer EXCEPT ![t] = "none"] /\ Go("abortWriters")
                \/ CleanupFault("release") /\ UNCHANGED <<disk, reg, leaf>>
    BY DEF AbortWriters
  <2>2. ASSUME NEW t \in Tables, disk' = [disk EXCEPT !.parquet = @ \ {t}],
               reg' = [reg EXCEPT !.parquet = @ \ {t}]
        PROVE  LeavesOnly /\ disk'.parquet = disk.parquet \ {t} /\ reg'.parquet = reg.parquet \ {t}
    BY <2>2, DiskShape, RegShape
  <2> QED BY <2>1, <2>2
<1> USE DEF BuildInv
<1>1. BuildTypes'
  <2>1. DiskTypes'
    <3>1. disk' = disk \/ \E t \in Tables : disk' = [disk EXCEPT !.parquet = @ \ {t}]
      BY DEF AbortWriters
    <3>2. reg' = reg \/ \E t \in Tables : reg' = [reg EXCEPT !.parquet = @ \ {t}]
      BY DEF AbortWriters
    <3> QED BY <3>1, <3>2, TypeParts DEF DiskTypes
  <2>2. TableTypes'
    BY TypeParts DEF TableTypes, AbortWriters
  <2>3. StoreTypes'
    BY TypeParts DEF StoreTypes, Stores, Bases, Discardable, AbortWriters
  <2>4. HolderTypes'
    BY TypeParts DEF HolderTypes, Holders, AbortWriters
  <2>5. StepTypes'
    BY TypeParts, GoEffect, CleanupFaultEffect, AbortFailsEffect DEF StepTypes, Errors,
       AbortWriters
  <2> QED BY <2>1, <2>2, <2>3, <2>4, <2>5, TypesFromParts
<1>2. ErrorInv'
  BY <1>e, TypeParts, GoEffect, CleanupFaultEffect, AbortFailsEffect DEF ErrorInv, Aborting
<1>3. PhaseInv'
  BY <1>e, TypeParts, GoEffect, CleanupFaultEffect, AbortFailsEffect DEF PhaseInv, Opening,
     Finishing, BaseSteps, Registered, NoStage
<1>4. ForwardInv'
  BY <1>e, TypeParts, GoEffect, CleanupFaultEffect, AbortFailsEffect DEF ForwardInv, Removing,
     Opening, LayerTables, ErrorInv, Aborting
<1>5. HolderInv'
  BY <1>e, TypeParts, GoEffect, CleanupFaultEffect, AbortFailsEffect DEF HolderInv, HandedOver,
     CoreSteps, Opening, Removing
<1>6. CandidateComplete'
  BY <1>e, TypeParts, GoEffect, CleanupFaultEffect, AbortFailsEffect DEF CandidateComplete,
     HolderInv, HandedOver, CoreSteps, Complete
<1>7. InventoryInv'
  BY <1>e, TypeParts, GoEffect, CleanupFaultEffect, AbortFailsEffect DEF InventoryInv, Opening,
     Removing
<1>8. WorkingInv'
  BY <1>e, TypeParts, GoEffect, CleanupFaultEffect, AbortFailsEffect DEF WorkingInv,
     Discardable, FreshInv, LeafIntact, TableTypes
<1>9. LeftoverInv'
  BY <1>e, TypeParts, GoEffect, CleanupFaultEffect, AbortFailsEffect DEF LeftoverInv, NoStage,
     PhaseInv, Opening, WorkingInv
<1>10. FreshInv'
  BY <1>e, TypeParts, GoEffect, CleanupFaultEffect, AbortFailsEffect DEF FreshInv, LeafIntact,
     PhaseInv, Finishing, BaseSteps
<1>11. RemovalInv'
  BY <1>e, TypeParts, GoEffect, CleanupFaultEffect, AbortFailsEffect DEF RemovalInv, Remaining,
     PhaseInv, NoStage, Opening, HolderInv
<1>12. ResidueReported'
  BY <1>e, TypeParts, GoEffect, CleanupFaultEffect, AbortFailsEffect DEF ResidueReported,
     RemovalInv, Remaining
<1> QED BY <1>1, <1>2, <1>3, <1>4, <1>5, <1>6, <1>7, <1>8, <1>9, <1>10, <1>11, <1>12

\* The store's directory and its registration go together.
LEMMA AbortStoreKeeps ==
    ASSUME BuildInv, AbortStore PROVE BuildInv'
<1> BuildTypes  BY DEF BuildInv
<1>e. /\ pc = "abortStore" /\ UNCHANGED <<layer, leaf, writer, verified, staged, holder, changed, temp>>
      /\ store'.verifier = store.verifier
      /\ \/ store.state \in {"none", "CLEANED"} /\ Go("abortWorkspace") /\ UNCHANGED <<disk, reg, store, db>>
         \/ /\ NamesOnly /\ BaseKept /\ db'.work = db.work /\ store'.state = "CLEANED" /\ Go("abortWorkspace")
            /\ disk'.names = disk.names \ {"order-store"} /\ reg'.names = reg.names \ {"order-store"}
         \/ UNCHANGED <<disk, reg, db>> /\ CleanupFault("release")
         \/ store.state = "AMBIGUOUS" /\ AbortFails("cleanup") /\ UNCHANGED <<disk, reg, store, db>>
  BY DiskShape, RegShape, StoreShape, BaseShape DEF AbortStore, CloseStore, AmbiguousStore, Touched
<1> USE DEF BuildInv
<1>1. BuildTypes'
  <2>1. DiskTypes'
    BY TypeParts DEF DiskTypes, FinalNames, WorkNames, Reports, Finals, AbortStore, CloseStore,
       AmbiguousStore, Touched
  <2>2. TableTypes'
    BY TypeParts DEF TableTypes, AbortStore, CloseStore, AmbiguousStore, Touched
  <2>3. StoreTypes'
    BY TypeParts DEF StoreTypes, Stores, Bases, Discardable, AbortStore, CloseStore,
       AmbiguousStore, Touched
  <2>4. HolderTypes'
    BY TypeParts DEF HolderTypes, Holders, AbortStore, CloseStore, AmbiguousStore, Touched
  <2>5. StepTypes'
    BY TypeParts, GoEffect, CleanupFaultEffect, AbortFailsEffect DEF StepTypes, Errors,
       AbortStore, CloseStore, AmbiguousStore, Touched
  <2> QED BY <2>1, <2>2, <2>3, <2>4, <2>5, TypesFromParts
<1>2. ErrorInv'
  BY <1>e, TypeParts, GoEffect, CleanupFaultEffect, AbortFailsEffect DEF ErrorInv, Aborting
<1>3. PhaseInv'
  BY <1>e, TypeParts, GoEffect, CleanupFaultEffect, AbortFailsEffect DEF PhaseInv, Opening,
     Finishing, BaseSteps, Registered, NoStage
<1>4. ForwardInv'
  BY <1>e, TypeParts, GoEffect, CleanupFaultEffect, AbortFailsEffect DEF ForwardInv, Removing,
     Opening, LayerTables, ErrorInv, Aborting
<1>5. HolderInv'
  BY <1>e, TypeParts, GoEffect, CleanupFaultEffect, AbortFailsEffect DEF HolderInv, HandedOver,
     CoreSteps, Opening, Removing
<1>6. CandidateComplete'
  BY <1>e, TypeParts, GoEffect, CleanupFaultEffect, AbortFailsEffect DEF CandidateComplete,
     HolderInv, HandedOver, CoreSteps, Complete
<1>7. InventoryInv'
  BY <1>e, TypeParts, GoEffect, CleanupFaultEffect, AbortFailsEffect DEF InventoryInv, Opening,
     Removing
<1>8. WorkingInv'
  BY <1>e, TypeParts, GoEffect, CleanupFaultEffect, AbortFailsEffect DEF WorkingInv,
     Discardable, FreshInv, LeafIntact
<1>9. LeftoverInv'
  BY <1>e, TypeParts, GoEffect, CleanupFaultEffect, AbortFailsEffect DEF LeftoverInv, NoStage,
     PhaseInv, Opening, WorkingInv
<1>10. FreshInv'
  BY <1>e, TypeParts, GoEffect, CleanupFaultEffect, AbortFailsEffect DEF FreshInv, LeafIntact,
     PhaseInv, Finishing, BaseSteps
<1>11. RemovalInv'
  BY <1>e, TypeParts, GoEffect, CleanupFaultEffect, AbortFailsEffect DEF RemovalInv, Remaining,
     PhaseInv, NoStage, Opening, HolderInv
<1>12. ResidueReported'
  BY <1>e, TypeParts, GoEffect, CleanupFaultEffect, AbortFailsEffect DEF ResidueReported,
     RemovalInv, Remaining
<1> QED BY <1>1, <1>2, <1>3, <1>4, <1>5, <1>6, <1>7, <1>8, <1>9, <1>10, <1>11, <1>12

\* An ambiguous workspace ends the abort with the cleanup error.
LEMMA AbortWorkspaceKeeps ==
    ASSUME BuildInv, AbortWorkspace PROVE BuildInv'
<1> USE DEF BuildInv, AbortWorkspace
<1>1. BuildTypes'
  <2>1. DiskTypes'
    BY TypeParts DEF DiskTypes, FinalNames, WorkNames, Reports, Finals
  <2>2. TableTypes'
    BY TypeParts DEF TableTypes
  <2>3. StoreTypes'
    BY TypeParts DEF StoreTypes, Stores, Bases, Discardable
  <2>4. HolderTypes'
    BY TypeParts DEF HolderTypes, Holders
  <2>5. StepTypes'
    BY TypeParts, GoEffect, AbortFailsEffect DEF StepTypes, Errors
  <2> QED BY <2>1, <2>2, <2>3, <2>4, <2>5, TypesFromParts
<1>2. ErrorInv'
  BY TypeParts, GoEffect, AbortFailsEffect DEF ErrorInv, Aborting
<1>3. PhaseInv'
  BY TypeParts, GoEffect, AbortFailsEffect DEF PhaseInv, Opening, Finishing, BaseSteps,
     Registered, NoStage
<1>4. ForwardInv'
  BY TypeParts, GoEffect, AbortFailsEffect DEF ForwardInv, Removing, Opening, LayerTables,
     ErrorInv, Aborting
<1>5. HolderInv'
  BY TypeParts, GoEffect, AbortFailsEffect DEF HolderInv, HandedOver, CoreSteps, Opening,
     Removing
<1>6. CandidateComplete'
  BY TypeParts, GoEffect, AbortFailsEffect DEF CandidateComplete, HolderInv, HandedOver,
     CoreSteps, Complete
<1>7. InventoryInv'
  BY TypeParts, GoEffect, AbortFailsEffect DEF InventoryInv, Opening, Removing
<1>8. WorkingInv'
  BY TypeParts, GoEffect, AbortFailsEffect DEF WorkingInv, Discardable, FreshInv, LeafIntact
<1>9. LeftoverInv'
  BY TypeParts, GoEffect, AbortFailsEffect DEF LeftoverInv, NoStage, PhaseInv, Opening,
     WorkingInv
<1>10. FreshInv'
  BY TypeParts, GoEffect, AbortFailsEffect DEF FreshInv, LeafIntact, PhaseInv, Finishing,
     BaseSteps
<1>11. RemovalInv'
  BY TypeParts, GoEffect, AbortFailsEffect DEF RemovalInv, Remaining, PhaseInv, NoStage,
     Opening, HolderInv
<1>12. ResidueReported'
  BY TypeParts, GoEffect, AbortFailsEffect DEF ResidueReported, RemovalInv, Remaining
<1> QED BY <1>1, <1>2, <1>3, <1>4, <1>5, <1>6, <1>7, <1>8, <1>9, <1>10, <1>11, <1>12

\* Only a recognised stage without working names is removed.
LEMMA AbortRegistryKeeps ==
    ASSUME BuildInv, AbortRegistry PROVE BuildInv'
<1> USE DEF BuildInv, AbortRegistry, Recognised, FinalsKnown
<1>1. BuildTypes'
  <2>1. DiskTypes'
    BY TypeParts DEF DiskTypes, FinalNames, WorkNames, Reports, Finals
  <2>2. TableTypes'
    BY TypeParts DEF TableTypes
  <2>3. StoreTypes'
    BY TypeParts DEF StoreTypes, Stores, Bases, Discardable
  <2>4. HolderTypes'
    BY TypeParts DEF HolderTypes, Holders
  <2>5. StepTypes'
    BY TypeParts, GoEffect, CleanupFaultEffect, AbortFailsEffect DEF StepTypes, Errors
  <2> QED BY <2>1, <2>2, <2>3, <2>4, <2>5, TypesFromParts
<1>2. ErrorInv'
  BY TypeParts, HolderShape, GoEffect, CleanupFaultEffect, AbortFailsEffect DEF ErrorInv,
     Aborting
<1>3. PhaseInv'
  BY TypeParts, HolderShape, GoEffect, CleanupFaultEffect, AbortFailsEffect DEF PhaseInv,
     Opening, Finishing, BaseSteps, Registered, NoStage
<1>4. ForwardInv'
  BY TypeParts, HolderShape, GoEffect, CleanupFaultEffect, AbortFailsEffect DEF ForwardInv,
     Removing, Opening, LayerTables, ErrorInv, Aborting
<1>5. HolderInv'
  BY TypeParts, HolderShape, GoEffect, CleanupFaultEffect, AbortFailsEffect DEF HolderInv,
     HandedOver, CoreSteps, Opening, Removing
<1>6. CandidateComplete'
  BY TypeParts, HolderShape, GoEffect, CleanupFaultEffect, AbortFailsEffect
     DEF CandidateComplete, HolderInv, HandedOver, CoreSteps, Complete
<1>7. InventoryInv'
  BY TypeParts, HolderShape, GoEffect, CleanupFaultEffect, AbortFailsEffect DEF InventoryInv,
     Opening, Removing
<1>8. WorkingInv'
  BY TypeParts, HolderShape, GoEffect, CleanupFaultEffect, AbortFailsEffect DEF WorkingInv,
     Discardable, FreshInv, LeafIntact
<1>9. LeftoverInv'
  BY TypeParts, HolderShape, GoEffect, CleanupFaultEffect, AbortFailsEffect DEF LeftoverInv,
     NoStage, PhaseInv, Opening, InventoryInv, WorkingInv, Removing, DiskTypes, FinalNames,
     WorkNames
<1>10. FreshInv'
  BY TypeParts, HolderShape, GoEffect, CleanupFaultEffect, AbortFailsEffect DEF FreshInv,
     LeafIntact, PhaseInv, Finishing, BaseSteps
<1>11. RemovalInv'
  BY TypeParts, HolderShape, GoEffect, CleanupFaultEffect, AbortFailsEffect DEF RemovalInv,
     Remaining, PhaseInv, NoStage, Opening, HolderInv
<1>12. ResidueReported'
  BY TypeParts, HolderShape, GoEffect, CleanupFaultEffect, AbortFailsEffect DEF ResidueReported,
     RemovalInv, Remaining
<1> QED BY <1>1, <1>2, <1>3, <1>4, <1>5, <1>6, <1>7, <1>8, <1>9, <1>10, <1>11, <1>12

\* The same check for a custody.
LEMMA DiscardCheckKeeps ==
    ASSUME BuildInv, DiscardCheck PROVE BuildInv'
<1> USE DEF BuildInv, DiscardCheck, Recognised, FinalsKnown
<1>1. BuildTypes'
  <2>1. DiskTypes'
    BY TypeParts DEF DiskTypes, FinalNames, WorkNames, Reports, Finals
  <2>2. TableTypes'
    BY TypeParts DEF TableTypes
  <2>3. StoreTypes'
    BY TypeParts DEF StoreTypes, Stores, Bases, Discardable
  <2>4. HolderTypes'
    BY TypeParts DEF HolderTypes, Holders
  <2>5. StepTypes'
    BY TypeParts, GoEffect, CleanupFaultEffect DEF StepTypes, Errors
  <2> QED BY <2>1, <2>2, <2>3, <2>4, <2>5, TypesFromParts
<1>2. ErrorInv'
  BY TypeParts, HolderShape, GoEffect, CleanupFaultEffect DEF ErrorInv, Aborting
<1>3. PhaseInv'
  BY TypeParts, HolderShape, GoEffect, CleanupFaultEffect DEF PhaseInv, Opening, Finishing,
     BaseSteps, Registered, NoStage
<1>4. ForwardInv'
  BY TypeParts, HolderShape, GoEffect, CleanupFaultEffect DEF ForwardInv, Removing, Opening,
     LayerTables, ErrorInv, Aborting
<1>5. HolderInv'
  BY TypeParts, HolderShape, GoEffect, CleanupFaultEffect DEF HolderInv, HandedOver, CoreSteps,
     Opening, Removing
<1>6. CandidateComplete'
  BY TypeParts, HolderShape, GoEffect, CleanupFaultEffect DEF CandidateComplete, HolderInv,
     HandedOver, CoreSteps, Complete
<1>7. InventoryInv'
  BY TypeParts, HolderShape, GoEffect, CleanupFaultEffect DEF InventoryInv, Opening, Removing
<1>8. WorkingInv'
  BY TypeParts, HolderShape, GoEffect, CleanupFaultEffect DEF WorkingInv, Discardable, FreshInv,
     LeafIntact, CandidateComplete, HolderInv, HandedOver, Opening, Removing
<1>9. LeftoverInv'
  BY TypeParts, HolderShape, GoEffect, CleanupFaultEffect DEF LeftoverInv, NoStage, PhaseInv,
     Opening, InventoryInv, Removing
<1>10. FreshInv'
  BY TypeParts, HolderShape, GoEffect, CleanupFaultEffect DEF FreshInv, LeafIntact, PhaseInv,
     Finishing, BaseSteps
<1>11. RemovalInv'
  BY TypeParts, HolderShape, GoEffect, CleanupFaultEffect DEF RemovalInv, Remaining, PhaseInv,
     NoStage, Opening, HolderInv
<1>12. ResidueReported'
  BY TypeParts, HolderShape, GoEffect, CleanupFaultEffect DEF ResidueReported, RemovalInv,
     Remaining
<1> QED BY <1>1, <1>2, <1>3, <1>4, <1>5, <1>6, <1>7, <1>8, <1>9, <1>10, <1>11, <1>12

\* A removal takes a name from disk and registry; the marker goes last.
LEMMA RemoveNextKeeps ==
    ASSUME BuildInv, RemoveNext PROVE BuildInv'
<1> BuildTypes  BY DEF BuildInv
<1>e. /\ pc = "remove" /\ UNCHANGED <<layer, leaf, writer, verified, staged, store, db, holder, changed, temp>>
      /\ \/ Left = {} /\ Go("release") /\ UNCHANGED <<disk, reg>>
         \/ /\ Go("remove")
            /\ \E i : /\ disk'.names = disk.names \ {i} /\ disk'.parquet = disk.parquet \ {i}
                      /\ disk'.reports = disk.reports \ {i} /\ (disk'.dir => disk.dir)
                      /\ (disk.dir /\ disk.marker => disk'.marker)
                      /\ reg'.names = reg.names \ {i} /\ reg'.parquet = reg.parquet \ {i}
                      /\ reg'.final = reg.final \ {i}
         \/ CleanupFault("release") /\ UNCHANGED <<disk, reg>>
  <2>1. /\ pc = "remove" /\ UNCHANGED <<layer, leaf, writer, verified, staged, store, db, holder, changed, temp>>
        /\ \/ Left = {} /\ Go("release") /\ UNCHANGED <<disk, reg>>
           \/ /\ Go("remove")
              /\ \E i \in Left : /\ NextLeft(i) /\ disk' = Unlinked(disk, i)
                                 /\ reg' = [reg EXCEPT !.names = @ \ {i}, !.parquet = @ \ {i},
                                                       !.final = @ \ {i}, !.reports = @ /\ i # "reports"]
           \/ CleanupFault("release") /\ UNCHANGED <<disk, reg>>
    BY DEF RemoveNext
  <2>2. ASSUME NEW i \in Left, NextLeft(i), disk' = Unlinked(disk, i)
        PROVE  /\ disk'.names = disk.names \ {i} /\ disk'.parquet = disk.parquet \ {i}
               /\ disk'.reports = disk.reports \ {i} /\ (disk'.dir => disk.dir)
               /\ (disk.dir /\ disk.marker => disk'.marker)
    <3>1. /\ disk'.names = disk.names \ {i} /\ disk'.parquet = disk.parquet \ {i}
          /\ disk'.reports = disk.reports \ {i} /\ (disk'.dir => disk.dir)
          /\ (disk.marker /\ i # "marker" => disk'.marker)
      BY <2>2, DiskShape DEF Unlinked
    <3>2. i = "marker" => "dir" \notin Left  BY <2>2, MarkerIsLast DEF NextLeft
    <3>3. disk.dir => "dir" \in Left
      BY RemovalRange, BuildAssumption DEF Left, Present, Reports, FinalNames
    <3> QED BY <3>1, <3>2, <3>3
  <2>3. ASSUME NEW i, reg' = [reg EXCEPT !.names = @ \ {i}, !.parquet = @ \ {i},
                                         !.final = @ \ {i}, !.reports = @ /\ i # "reports"]
        PROVE  /\ reg'.names = reg.names \ {i} /\ reg'.parquet = reg.parquet \ {i}
               /\ reg'.final = reg.final \ {i}
    BY <2>3, RegShape
  <2> QED BY <2>1, <2>2, <2>3
<1> USE DEF BuildInv
<1>1. BuildTypes'
  <2>1. DiskTypes'
    <3>1. CASE UNCHANGED <<disk, reg>>  BY <3>1, TypeParts DEF DiskTypes
    <3>2. CASE \E i : /\ disk' = Unlinked(disk, i)
                      /\ reg' = [reg EXCEPT !.names = @ \ {i}, !.parquet = @ \ {i},
                                            !.final = @ \ {i}, !.reports = @ /\ i # "reports"]
      <4> PICK i : /\ disk' = Unlinked(disk, i)
                   /\ reg' = [reg EXCEPT !.names = @ \ {i}, !.parquet = @ \ {i},
                                         !.final = @ \ {i}, !.reports = @ /\ i # "reports"]
        BY <3>2
      <4>1. disk' = [marker |-> disk.marker /\ i # "marker", dir |-> disk.dir /\ i # "dir",
                     names |-> disk.names \ {i}, parquet |-> disk.parquet \ {i},
                     reports |-> disk.reports \ {i}]
        BY DiskShape DEF Unlinked
      <4>2. reg' = [names |-> reg.names \ {i}, parquet |-> reg.parquet \ {i},
                    final |-> reg.final \ {i}, reports |-> reg.reports /\ i # "reports"]
        BY RegShape
      <4>3. /\ disk.names \ {i} \in SUBSET (FinalNames \cup WorkNames)
            /\ disk.parquet \ {i} \in SUBSET Tables /\ disk.reports \ {i} \in SUBSET Reports
            /\ (disk.marker /\ i # "marker") \in BOOLEAN /\ (disk.dir /\ i # "dir") \in BOOLEAN
        BY TypeParts DEF DiskTypes
      <4>4. /\ reg.names \ {i} \in SUBSET (FinalNames \cup WorkNames)
            /\ reg.parquet \ {i} \in SUBSET Tables /\ reg.final \ {i} \in SUBSET Range(Finals)
            /\ (reg.reports /\ i # "reports") \in BOOLEAN
        BY TypeParts DEF DiskTypes
      <4>5. disk' \in [marker : BOOLEAN, dir : BOOLEAN, names : SUBSET (FinalNames \cup WorkNames),
                       parquet : SUBSET Tables, reports : SUBSET Reports]
        <5>1. PICK m \in BOOLEAN, r \in BOOLEAN : /\ m = (disk.marker /\ i # "marker")
                                                  /\ r = (disk.dir /\ i # "dir")
          BY <4>3, Zenon
        <5>2. disk' = [marker |-> m, dir |-> r, names |-> disk.names \ {i},
                       parquet |-> disk.parquet \ {i}, reports |-> disk.reports \ {i}]
          BY <4>1, <5>1, Zenon
        <5> QED BY <4>3, <5>2
      <4>6. reg' \in [names : SUBSET (FinalNames \cup WorkNames), parquet : SUBSET Tables,
                      final : SUBSET Range(Finals), reports : BOOLEAN]
        BY <4>2, <4>4, Zenon
      <4> QED BY <4>5, <4>6 DEF DiskTypes
    <3> QED BY <3>1, <3>2 DEF RemoveNext
  <2>2. TableTypes'
    BY TypeParts DEF TableTypes, RemoveNext, Unlinked
  <2>3. StoreTypes'
    BY <1>e, TypeParts DEF StoreTypes
  <2>4. HolderTypes'
    BY TypeParts DEF HolderTypes, Holders, RemoveNext, Unlinked
  <2>5. StepTypes'
    BY TypeParts, GoEffect, CleanupFaultEffect DEF StepTypes, Errors, RemoveNext, Unlinked
  <2> QED BY <2>1, <2>2, <2>3, <2>4, <2>5, TypesFromParts
<1>2. ErrorInv'
  BY <1>e, TypeParts, GoEffect, CleanupFaultEffect DEF ErrorInv, Aborting
<1>3. PhaseInv'
  BY <1>e, TypeParts, GoEffect, CleanupFaultEffect DEF PhaseInv, Opening, Finishing, BaseSteps,
     Registered, NoStage
<1>4. ForwardInv'
  BY <1>e, TypeParts, GoEffect, CleanupFaultEffect DEF ForwardInv, Removing, Opening,
     LayerTables, ErrorInv, Aborting
<1>5. HolderInv'
  BY <1>e, TypeParts, GoEffect, CleanupFaultEffect DEF HolderInv, HandedOver, CoreSteps,
     Opening, Removing
<1>6. CandidateComplete'
  BY <1>e, TypeParts, GoEffect, CleanupFaultEffect DEF CandidateComplete, HolderInv, HandedOver,
     CoreSteps, Complete
<1>7. InventoryInv'
  BY <1>e, TypeParts, GoEffect, CleanupFaultEffect DEF InventoryInv, Opening, Removing
<1>8. WorkingInv'
  BY <1>e, TypeParts, GoEffect, CleanupFaultEffect DEF WorkingInv, Discardable, FreshInv,
     LeafIntact
<1>9. LeftoverInv'
  BY <1>e, TypeParts, NothingLeft, GoEffect, CleanupFaultEffect DEF LeftoverInv, NoStage,
     PhaseInv, Opening, WorkingInv, InventoryInv, FinalNames, WorkNames, DiskTypes
<1>10. FreshInv'
  BY <1>e, TypeParts, GoEffect, CleanupFaultEffect DEF FreshInv, LeafIntact, PhaseInv,
     Finishing, BaseSteps
<1>11. RemovalInv'
  <2>1. CASE Left = {} /\ Go("release") /\ UNCHANGED <<disk, reg>>
    <3>1. ~Remaining'  BY <2>1, NothingLeft DEF Remaining
    <3> QED BY <2>1, <3>1, GoEffect DEF RemovalInv
  <2>2. CASE CleanupFault("release") /\ UNCHANGED <<disk, reg>>
    BY <2>2, CleanupFaultEffect DEF RemovalInv
  <2>3. CASE /\ Go("remove")
             /\ \E i : /\ disk'.names = disk.names \ {i} /\ disk'.parquet = disk.parquet \ {i}
                       /\ (disk'.dir => disk.dir)
                       /\ reg'.names = reg.names \ {i} /\ reg'.parquet = reg.parquet \ {i}
    BY <1>e, <2>3, GoEffect DEF RemovalInv
  <2> QED BY <1>e, <2>1, <2>2, <2>3
<1>12. ResidueReported'
  BY <1>e, TypeParts, GoEffect, CleanupFaultEffect DEF ResidueReported, RemovalInv, Remaining
<1> QED BY <1>1, <1>2, <1>3, <1>4, <1>5, <1>6, <1>7, <1>8, <1>9, <1>10, <1>11, <1>12

\* The finally blocks release what the holder still has.
LEMMA ReleaseKeeps ==
    ASSUME BuildInv, Release PROVE BuildInv'
<1> USE DEF BuildInv, Release
<1>1. BuildTypes'
  <2>1. DiskTypes'
    BY TypeParts DEF DiskTypes, FinalNames, WorkNames, Reports, Finals
  <2>2. TableTypes'
    BY TypeParts DEF TableTypes
  <2>3. StoreTypes'
    BY TypeParts DEF StoreTypes, Stores, Bases, Discardable
  <2>4. HolderTypes'
    BY TypeParts DEF HolderTypes, Holders
  <2>5. StepTypes'
    BY TypeParts, GoEffect DEF StepTypes, Errors
  <2> QED BY <2>1, <2>2, <2>3, <2>4, <2>5, TypesFromParts
<1>2. ErrorInv'
  BY TypeParts, HolderShape, GoEffect DEF ErrorInv, Aborting
<1>3. PhaseInv'
  BY TypeParts, HolderShape, GoEffect DEF PhaseInv, Opening, Finishing, BaseSteps, Registered,
     NoStage
<1>4. ForwardInv'
  BY TypeParts, HolderShape, GoEffect DEF ForwardInv, Removing, Opening, LayerTables, ErrorInv,
     Aborting
<1>5. HolderInv'
  BY TypeParts, HolderShape, GoEffect DEF HolderInv, HandedOver, CoreSteps, Opening, Removing
<1>6. CandidateComplete'
  BY TypeParts, HolderShape, GoEffect DEF CandidateComplete, HolderInv, HandedOver, CoreSteps,
     Complete
<1>7. InventoryInv'
  BY TypeParts, HolderShape, GoEffect DEF InventoryInv, Opening, Removing
<1>8. WorkingInv'
  BY TypeParts, HolderShape, GoEffect DEF WorkingInv, Discardable, FreshInv, LeafIntact
<1>9. LeftoverInv'
  BY TypeParts, HolderShape, GoEffect DEF LeftoverInv, NoStage, PhaseInv, Opening
<1>10. FreshInv'
  BY TypeParts, HolderShape, GoEffect DEF FreshInv, LeafIntact, PhaseInv, Finishing, BaseSteps
<1>11. RemovalInv'
  BY TypeParts, HolderShape, GoEffect DEF RemovalInv, Remaining, PhaseInv, NoStage, Opening,
     HolderInv
<1>12. ResidueReported'
  BY TypeParts, HolderShape, GoEffect DEF ResidueReported, RemovalInv, Remaining
<1> QED BY <1>1, <1>2, <1>3, <1>4, <1>5, <1>6, <1>7, <1>8, <1>9, <1>10, <1>11, <1>12

\* identity.close() in the outermost handler.
LEMMA CloseInputsKeeps ==
    ASSUME BuildInv, CloseInputs PROVE BuildInv'
<1> USE DEF BuildInv, CloseInputs
<1>1. BuildTypes'
  <2>1. DiskTypes'
    BY TypeParts DEF DiskTypes, FinalNames, WorkNames, Reports, Finals
  <2>2. TableTypes'
    BY TypeParts DEF TableTypes
  <2>3. StoreTypes'
    BY TypeParts DEF StoreTypes, Stores, Bases, Discardable
  <2>4. HolderTypes'
    BY TypeParts DEF HolderTypes, Holders
  <2>5. StepTypes'
    BY TypeParts, GoEffect DEF StepTypes, Errors
  <2> QED BY <2>1, <2>2, <2>3, <2>4, <2>5, TypesFromParts
<1>2. ErrorInv'
  BY TypeParts, HolderShape, GoEffect DEF ErrorInv, Aborting
<1>3. PhaseInv'
  BY TypeParts, HolderShape, GoEffect DEF PhaseInv, Opening, Finishing, BaseSteps, Registered,
     NoStage
<1>4. ForwardInv'
  BY TypeParts, HolderShape, GoEffect DEF ForwardInv, Removing, Opening, LayerTables, ErrorInv,
     Aborting
<1>5. HolderInv'
  BY TypeParts, HolderShape, GoEffect DEF HolderInv, HandedOver, CoreSteps, Opening, Removing
<1>6. CandidateComplete'
  BY TypeParts, HolderShape, GoEffect DEF CandidateComplete, HolderInv, HandedOver, CoreSteps,
     Complete
<1>7. InventoryInv'
  BY TypeParts, HolderShape, GoEffect DEF InventoryInv, Opening, Removing
<1>8. WorkingInv'
  BY TypeParts, HolderShape, GoEffect DEF WorkingInv, Discardable, FreshInv, LeafIntact
<1>9. LeftoverInv'
  BY TypeParts, HolderShape, GoEffect DEF LeftoverInv, NoStage, PhaseInv, Opening
<1>10. FreshInv'
  BY TypeParts, HolderShape, GoEffect DEF FreshInv, LeafIntact, PhaseInv, Finishing, BaseSteps
<1>11. RemovalInv'
  BY TypeParts, HolderShape, GoEffect DEF RemovalInv, Remaining, PhaseInv, NoStage, Opening,
     HolderInv
<1>12. ResidueReported'
  BY TypeParts, HolderShape, GoEffect DEF ResidueReported, RemovalInv, Remaining
<1> QED BY <1>1, <1>2, <1>3, <1>4, <1>5, <1>6, <1>7, <1>8, <1>9, <1>10, <1>11, <1>12

\* An input that changes after the manifest was taken changes late.
LEMMA ChangeInputKeeps ==
    ASSUME BuildInv, ChangeInput PROVE BuildInv'
<1> USE DEF BuildInv, ChangeInput
<1>1. BuildTypes'
  <2>1. DiskTypes'
    BY TypeParts DEF DiskTypes, FinalNames, WorkNames, Reports, Finals
  <2>2. TableTypes'
    BY TypeParts DEF TableTypes
  <2>3. StoreTypes'
    BY TypeParts DEF StoreTypes, Stores, Bases, Discardable
  <2>4. HolderTypes'
    BY TypeParts DEF HolderTypes, Holders
  <2>5. StepTypes'
    BY TypeParts DEF StepTypes, Errors
  <2> QED BY <2>1, <2>2, <2>3, <2>4, <2>5, TypesFromParts
<1>2. ErrorInv'
  BY TypeParts DEF ErrorInv, Aborting
<1>3. PhaseInv'
  BY TypeParts DEF PhaseInv, Opening, Finishing, BaseSteps, Registered, NoStage
<1>4. ForwardInv'
  BY TypeParts DEF ForwardInv, Removing, Opening, LayerTables, ErrorInv, Aborting
<1>5. HolderInv'
  BY TypeParts DEF HolderInv, HandedOver, CoreSteps, Opening, Removing
<1>6. CandidateComplete'
  BY TypeParts, FinalsAre DEF CandidateComplete, HolderInv, HandedOver, CoreSteps, Complete
<1>7. InventoryInv'
  BY TypeParts DEF InventoryInv, Opening, Removing
<1>8. WorkingInv'
  BY TypeParts DEF WorkingInv, Discardable, FreshInv, LeafIntact
<1>9. LeftoverInv'
  BY TypeParts DEF LeftoverInv, NoStage, PhaseInv, Opening
<1>10. FreshInv'
  BY TypeParts DEF FreshInv, LeafIntact, PhaseInv, Finishing, BaseSteps
<1>11. RemovalInv'
  BY TypeParts DEF RemovalInv, Remaining, PhaseInv, NoStage, Opening, HolderInv
<1>12. ResidueReported'
  BY TypeParts DEF ResidueReported, RemovalInv, Remaining
<1> QED BY <1>1, <1>2, <1>3, <1>4, <1>5, <1>6, <1>7, <1>8, <1>9, <1>10, <1>11, <1>12


-----------------------------------------------------------------------------
(* The invariant of the specification, and what follows from it.              *)

\* Before the first call nothing exists.
LEMMA InitBuild == Init => BuildInv
<1> SUFFICES ASSUME Init PROVE BuildInv
  OBVIOUS
<1> USE DEF Init
<1>1. BuildTypes
  <2>1. DiskTypes  BY DEF DiskTypes
  <2>2. TableTypes
    <3>1. Len(TableSpecs) \in Nat  BY TablesAreLayers, LenProperties
    <3> QED BY <3>1 DEF TableTypes
  <2>3. StoreTypes  BY DEF StoreTypes, Stores, Bases, NoStore, NoBase
  <2>4. HolderTypes  BY DEF HolderTypes, Holders
  <2>5. StepTypes  BY BuildAssumption DEF StepTypes, Errors
  <2> QED BY <2>1, <2>2, <2>3, <2>4, <2>5, PartsGiveTypes
<1>2. ErrorInv  BY DEF ErrorInv, Aborting
<1>3. PhaseInv
  <2>1. Registered(staged)
    <3>1. SubSeq(TableSpecs, 1, 0) = <<>>  BY TablesAreLayers
    <3> QED BY <3>1 DEF Registered, Range
  <2> QED BY <2>1 DEF PhaseInv, Opening, NoStage, Finishing, BaseSteps, NoBase
<1>4. ForwardInv  BY DEF ForwardInv, Opening, NoBase
<1>5. HolderInv  BY DEF HolderInv, Opening, HandedOver, CoreSteps
<1>6. CandidateComplete  BY DEF CandidateComplete
<1>7. InventoryInv  BY DEF InventoryInv, Opening
<1>8. WorkingInv  BY DEF WorkingInv, NoStore, NoBase
<1>9. LeftoverInv /\ FreshInv /\ RemovalInv /\ ResidueReported
  BY DEF LeftoverInv, FreshInv, RemovalInv, ResidueReported
<1> QED BY <1>1, <1>2, <1>3, <1>4, <1>5, <1>6, <1>7, <1>8, <1>9 DEF BuildInv

\* A step that changes nothing keeps the invariant.
LEMMA StutterKeeps ==
    ASSUME BuildInv, UNCHANGED vars PROVE BuildInv'
<1> USE DEF BuildInv, vars
<1>1. BuildTypes'
  <2>1. DiskTypes'  BY TypeParts DEF DiskTypes
  <2>2. TableTypes'  BY TypeParts DEF TableTypes
  <2>3. StoreTypes'  BY TypeParts DEF StoreTypes
  <2>4. HolderTypes'  BY TypeParts DEF HolderTypes
  <2>5. StepTypes'  BY TypeParts DEF StepTypes
  <2> QED BY <2>1, <2>2, <2>3, <2>4, <2>5, TypesFromParts
<1>2. ErrorInv' /\ HolderInv'  BY DEF ErrorInv, HolderInv
<1>3. PhaseInv'  BY DEF PhaseInv, NoStage, Registered
<1>4. ForwardInv'  BY DEF ForwardInv, LayerTables
<1>5. CandidateComplete'  BY DEF CandidateComplete, Complete
<1>6. InventoryInv' /\ WorkingInv'  BY DEF InventoryInv, WorkingInv
<1>7. LeftoverInv' /\ FreshInv'  BY DEF LeftoverInv, FreshInv, NoStage, LeafIntact
<1>8. RemovalInv' /\ ResidueReported'  BY DEF RemovalInv, ResidueReported, Remaining
<1> QED BY <1>1, <1>2, <1>3, <1>4, <1>5, <1>6, <1>7, <1>8

\* Every step of the builder and of its environment keeps the invariant.
LEMMA StepBuild == BuildInv /\ [Next]_vars => BuildInv'
<1> SUFFICES ASSUME BuildInv, [Next]_vars PROVE BuildInv'
  OBVIOUS
<1>1. CASE Build
  BY <1>1, AdmitInputsKeeps, InitializeKeeps, OpenOrderStoreKeeps, ClaimLeavesKeeps,
           OpenWriterKeeps, WriteRowsKeeps, CloseWriterKeeps, VerifyTableKeeps, ExtendSetKeeps,
           AbortLayerKeeps, IssueCustodyKeeps, TakeCustodyKeeps, JoinCandidatesKeeps,
           AdmitEvidenceKeeps, VerifyEvidenceKeeps, CloseCustodyKeeps, ClaimDatabaseKeeps,
           OpenWorkspaceKeeps, MaterializeKeeps, CheckpointKeeps, CopyDatabaseKeeps,
           ReopenDatabaseKeeps, SealDatabaseKeeps, CloseWorkspaceKeeps, WriteFinalKeeps,
           TransferStageKeeps, IssueStageCustodyKeeps, VerifyCoreKeeps, IssueSetKeeps,
           AcceptKeeps, AbortCheckKeeps, AbortWritersKeeps, AbortStoreKeeps,
           AbortWorkspaceKeeps, AbortRegistryKeeps, DiscardCheckKeeps, RemoveNextKeeps,
           ReleaseKeeps, CloseInputsKeeps DEF Build
<1>2. CASE ChangeInput  BY <1>2, ChangeInputKeeps
<1>3. CASE Finished \/ UNCHANGED vars  BY <1>3, StutterKeeps DEF Finished
<1> QED BY <1>1, <1>2, <1>3 DEF Next

\* Where the build stands, what it registered, what is on disk and who holds the
\* stage fit together at every moment of every build.
THEOREM Building == Spec => []BuildInv
  BY InitBuild, StepBuild, PTL DEF Spec

\* Every variable keeps its type.
THEOREM BuildTyped == Spec => []TypeOK
<1>1. BuildInv => TypeOK  BY DEF BuildInv, BuildTypes
<1> QED BY <1>1, Building, PTL

\* Whoever holds a finished stage holds exactly the artifact set, whatever
\* failed before (transfer_candidate_stage, issue_candidate_custody,
\* transfer_expected_accepted).
THEOREM CandidatesAreComplete == Spec => []CandidateComplete
<1>1. BuildInv => CandidateComplete  BY DEF BuildInv
<1> QED BY <1>1, Building, PTL

\* A build that is refused, with no failing call, leaves nothing behind
\* (_abort_initial_stage, _discard_exact_candidate).
THEOREM RefusalsLeaveNothing == Spec => []RefusalLeavesNothing
<1>1. BuildInv => RefusalLeavesNothing
  BY DEF BuildInv, RefusalLeavesNothing, LeftoverInv, InventoryInv, NoStage
<1> QED BY <1>1, Building, PTL

\* The build never invalidates its own database seal (_parent_mutation and
\* _refresh_owned_database_mutation).
THEOREM StampsAreFresh == Spec => []StampFresh
<1>1. BuildInv => StampFresh  BY DEF BuildInv, StampFresh, FreshInv, LeafIntact
<1> QED BY <1>1, Building, PTL

\* A build that leaves its stage on disk says so in its error, or still holds
\* the lock on it (_staging_error in _abort_initial_stage).
THEOREM ResidueIsReported == Spec => []ResidueReported
<1>1. BuildInv => ResidueReported  BY DEF BuildInv
<1> QED BY <1>1, Building, PTL

-----------------------------------------------------------------------------
(* The ambiguous stage: no step removes an artifact from it.                  *)

\* A step that removes no final name, no report and no leaf but an open writer's.
LEMMA NothingFinalGone ==
    ASSUME BuildInv, disk'.dir = disk.dir, disk'.marker = disk.marker,
           disk.names \cap FinalNames \subseteq disk'.names, disk.reports \subseteq disk'.reports,
           \A t \in disk.parquet \ disk'.parquet : writer[t] = "open"
    PROVE  KeepsAmbiguous
<1>1. disk.dir => disk.marker  BY DEF BuildInv, PhaseInv
<1> QED BY <1>1 DEF KeepsAmbiguous

\* A step that leaves the stage as it is.
LEMMA SameDiskKeeps ==
    ASSUME BuildInv, disk' = disk PROVE KeepsAmbiguous
  BY NothingFinalGone

\* The steps that only add to the stage or remove a working directory from it.
LEMMA NamesKeepAmbiguous ==
    ASSUME BuildInv,
           \/ OpenOrderStore \/ VerifyTable \/ CloseCustody \/ OpenWorkspace \/ CopyDatabase
           \/ CloseWorkspace \/ AbortStore
    PROVE  KeepsAmbiguous
<1> BuildTypes  BY DEF BuildInv
<1>1. \/ disk' = disk
      \/ \E n : disk' = [disk EXCEPT !.names = @ \cup {n}]
      \/ \E n \in WorkNames : disk' = [disk EXCEPT !.names = @ \ {n}]
  <2> USE DEF AddName, WorkNames
  <2>1. CASE OpenOrderStore  BY <2>1 DEF OpenOrderStore
  <2>2. CASE VerifyTable  BY <2>2 DEF VerifyTable
  <2>3. CASE CloseCustody \/ AbortStore
    BY <2>3 DEF CloseCustody, AbortStore, CloseStore, AmbiguousStore
  <2>4. CASE OpenWorkspace \/ CopyDatabase  BY <2>4 DEF OpenWorkspace, CopyDatabase
  <2>5. CASE CloseWorkspace  BY <2>5 DEF CloseWorkspace, DiscardWorkspace
  <2> QED BY <2>1, <2>2, <2>3, <2>4, <2>5
<1>2. FinalNames \cap WorkNames = {}  BY DEF FinalNames, WorkNames
<1>3. /\ disk'.dir = disk.dir /\ disk'.marker = disk.marker /\ disk'.parquet = disk.parquet
      /\ disk'.reports = disk.reports /\ disk.names \cap FinalNames \subseteq disk'.names
  BY <1>1, <1>2, DiskShape
<1> QED BY <1>3, NothingFinalGone

\* The steps that add a leaf, or remove the leaf of an open writer.
LEMMA LeavesKeepAmbiguous ==
    ASSUME BuildInv, OpenWriter \/ AbortLayer \/ AbortWriters PROVE KeepsAmbiguous
<1> BuildTypes  BY DEF BuildInv
<1>1. \/ disk' = disk
      \/ \E t : disk' = [disk EXCEPT !.parquet = @ \cup {t}]
      \/ \E S : (\A t \in S : writer[t] = "open") /\ disk' = [disk EXCEPT !.parquet = @ \ S]
  <2>1. CASE OpenWriter  BY <2>1 DEF OpenWriter
  <2>2. CASE AbortLayer  BY <2>2 DEF AbortLayer
  <2>3. CASE AbortWriters
    <3>1. \/ disk' = disk
          \/ \E t \in Tables : writer[t] = "open" /\ disk' = [disk EXCEPT !.parquet = @ \ {t}]
      BY <2>3 DEF AbortWriters
    <3> QED BY <3>1
  <2> QED BY <2>1, <2>2, <2>3
<1>2. /\ disk'.dir = disk.dir /\ disk'.marker = disk.marker /\ disk'.names = disk.names
      /\ disk'.reports = disk.reports /\ \A t \in disk.parquet \ disk'.parquet : writer[t] = "open"
  BY <1>1, DiskShape
<1> QED BY <1>2, NothingFinalGone

\* A final leaf is added; a failed one leaves what was there.
LEMMA FinalsKeepAmbiguous ==
    ASSUME BuildInv, WriteFinal PROVE KeepsAmbiguous
<1> BuildTypes  BY DEF BuildInv
<1>1. \/ disk' = disk
      \/ \E n : disk' = [disk EXCEPT !.names = @ \cup {n}]
      \/ \E n, S : disk' = [disk EXCEPT !.names = @ \cup {n}, !.reports = @ \cup S]
  BY DEF WriteFinal, AddName
<1>2. /\ disk'.dir = disk.dir /\ disk'.marker = disk.marker /\ disk'.parquet = disk.parquet
      /\ disk.reports \subseteq disk'.reports /\ disk.names \subseteq disk'.names
  BY <1>1, DiskShape
<1> QED BY <1>2, NothingFinalGone

\* Every step keeps an ambiguous stage.
LEMMA StepKeepsAmbiguous == BuildInv /\ [Next]_vars => [KeepsAmbiguous]_vars
<1> SUFFICES ASSUME BuildInv, Next PROVE KeepsAmbiguous
  OBVIOUS
<1>1. CASE Initialize
  \* There is no stage yet.
  BY <1>1 DEF Initialize, BuildInv, PhaseInv, Opening, NoStage, KeepsAmbiguous
<1>2. CASE RemoveNext
  \* A removal has compared the whole inventory first.
  BY <1>2 DEF RemoveNext, BuildInv, RemovalInv, KeepsAmbiguous
<1>3. CASE \/ OpenOrderStore \/ VerifyTable \/ CloseCustody \/ OpenWorkspace \/ CopyDatabase
           \/ CloseWorkspace \/ AbortStore
  BY <1>3, NamesKeepAmbiguous
<1>4. CASE OpenWriter \/ AbortLayer \/ AbortWriters  BY <1>4, LeavesKeepAmbiguous
<1>5. CASE WriteFinal  BY <1>5, FinalsKeepAmbiguous
<1>6. CASE \/ AdmitInputs \/ ClaimLeaves \/ WriteRows \/ CloseWriter \/ ExtendSet
           \/ IssueCustody \/ TakeCustody \/ JoinCandidates \/ AdmitEvidence \/ VerifyEvidence
           \/ ClaimDatabase \/ Materialize \/ Checkpoint \/ ReopenDatabase \/ SealDatabase
           \/ TransferStage \/ IssueStageCustody \/ VerifyCore \/ IssueSet \/ Accept
           \/ AbortCheck \/ AbortWorkspace \/ AbortRegistry \/ DiscardCheck \/ Release
           \/ CloseInputs \/ ChangeInput \/ Finished
  <2>1. disk' = disk
    BY <1>6 DEF AdmitInputs, ClaimLeaves, WriteRows, CloseWriter, ExtendSet, IssueCustody,
                TakeCustody, JoinCandidates, AdmitEvidence, VerifyEvidence, ClaimDatabase,
                Materialize, Checkpoint, ReopenDatabase, SealDatabase, TransferStage,
                IssueStageCustody, VerifyCore, IssueSet, Accept, AbortCheck, AbortWorkspace,
                AbortRegistry, DiscardCheck, Release, CloseInputs, ChangeInput, Finished, vars
  <2> QED BY <2>1, SameDiskKeeps
<1> QED BY <1>1, <1>2, <1>3, <1>4, <1>5, <1>6 DEF Next, Build

\* Nothing is removed from a stage that holds what the session did not register,
\* except the leaf of a writer that is still open (_require_session_generation).
THEOREM AmbiguousStagesAreKept == Spec => AmbiguousStageKept
  BY Building, StepKeepsAmbiguous, PTL DEF Spec, AmbiguousStageKept
=============================================================================
