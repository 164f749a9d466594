--------------------------- MODULE ArtifactBuild ---------------------------
(* One artifact build inside its private stage directory: ArtifactBuildSession
   and the capabilities it issues (data/artifacts/staging.py), the Parquet
   writers and their verification (parquet_io.py), the external order store,
   the database workspace, and the driver that runs them (builder.py,
   bronze.py, silver.py, links.py, database.py).

   Publication models what the same build does to the parent directory.  Here
   the parent holds the stage directory and its marker only, and what counts is
   the inventory of the stage: `disk` is what is in it, `reg` what the session
   has registered, and a build may remove only what it recognises.

   A step either succeeds, is refused (a check on data says no: ValueError or a
   typed error, no system call failed) or meets a fault (a system call or an
   engine call fails), which leaves what the code had done up to that call.   *)
EXTENDS Integers, Sequences, SequencesExt

CONSTANTS Bronze, Silver, Gold,   \* table names of a layer, in TABLE_SPECS order
          MaxFaults               \* bound: system or engine calls that fail

Layers     == <<Bronze, Silver, Gold>>
TableSpecs == Bronze \o Silver \o Gold
Tables     == Range(TableSpecs)

Reports    == {"source_audit", "quality_summary"}
FinalNames == {"parquet", "finproof.duckdb", "reports", "manifest.json"}
\* Working directories: the order store's, the database's, and the verification
\* workspace of a Parquet table, which the session never registers.
WorkNames  == {"order-store", "database-build", "parquet-verify"}

\* Three sequences of tables, no table twice; a table's leaf has a name of its own.
ASSUME BuildAssumption ==
    /\ \A i \in 1..3 : Layers[i] # <<>> /\ Layers[i] \in Seq(Range(Layers[i]))
    /\ IsInjective(TableSpecs)
    /\ Tables \cap (Reports \cup FinalNames \cup {"dir", "marker"}) = {}
    /\ MaxFaults \in Nat

\* x is the first member of s that is in S.
IsFirst(s, S, x) == \E i \in DOMAIN s : /\ s[i] = x /\ x \in S
                                        /\ \A j \in DOMAIN s : j < i => s[j] \notin S

VARIABLES
    pc,        \* the builder's next call
    layer,     \* 1, 2, 3: the layer being written
    error,     \* the error that is propagating
    disk,      \* marker and stage directory, with its names, tables, reports
    reg,       \* _registered_stage_names, _registered_parquet_names, final leaves
    leaf,      \* table -> claim_parquet_leaf and create_exclusive
    writer,    \* table -> its entry in _live_parquet_writers
    verified,  \* tables with a registered StagedParquetVerification
    staged,    \* length of the registered StagedParquetSet
    store,     \* the external order store and its candidate custody
    db,        \* the database workspace, leaf and seal
    holder,    \* who owns descriptors, lock and inputs, and its _state
    changed,   \* when an input file changed on disk: "no", "early", "late"
    temp,      \* left behind in the temporary directory by the verifiers
    faults

tables == <<leaf, writer, verified, staged>>
extern == <<changed, temp>>
vars   == <<pc, layer, error, disk, reg, tables, store, db, holder, extern, faults>>

NoStore == [state |-> "none", custody |-> "none", candidate |-> "none",
            evidence |-> "none", verifier |-> FALSE]
NoBase  == [work |-> "none", leaf |-> "none", fresh |-> FALSE, seal |-> FALSE]

Init ==
    /\ pc = "admit" /\ layer = 1 /\ error = "none"
    /\ disk = [marker |-> FALSE, dir |-> FALSE, names |-> {}, parquet |-> {}, reports |-> {}]
    /\ reg = [names |-> {}, parquet |-> {}, final |-> {}, reports |-> FALSE]
    /\ leaf = [t \in Tables |-> "none"]
    /\ writer = [t \in Tables |-> "none"]
    /\ verified = {} /\ staged = 0
    /\ store = NoStore /\ db = NoBase
    /\ holder = [owner |-> "none", state |-> "NONE", lock |-> FALSE, inputs |-> FALSE]
    /\ changed = "no" /\ temp = {} /\ faults = 0

-----------------------------------------------------------------------------
(* Errors.  Where an error raised at p goes: the except and finally blocks
   between p and the end of the build.                                       *)

LayerSteps   == {"openWriters", "writeRows", "closeWriters", "verifyTables"}
GoldSteps    == {"joinCandidates", "admitEvidence", "verifyEvidence"}
BaseSteps    == {"materialize", "checkpoint", "copy", "reopen", "seal"}
CoreSteps    == {"coreTables", "coreReports", "coreDatabase", "issueSet"}

Handler(p) ==
    CASE p \in {"admit", "initialize"}                 -> "closeInputs"
      [] p \in LayerSteps                              -> "abortLayer"
      [] p \in {"claim", "extend"}  -> IF layer = 3 THEN "closeCustody" ELSE "abortCheck"
      [] p \in GoldSteps                               -> "closeCustody"
      [] p \in BaseSteps                               -> "closeWorkspace"
      [] p = "issue"                                   -> "closeInputs"
      [] p \in CoreSteps                               -> "discardCheck"
      [] p = "accept"                                  -> "dropCheck"
      [] OTHER                                         -> "abortCheck"

\* A step that ends with an error: the first cause is the one remembered.
Raise(kind) == pc' = Handler(pc) /\ error' = IF error = "none" THEN kind ELSE error
Refuse      == Raise("refused") /\ UNCHANGED faults
Fault       == faults < MaxFaults /\ faults' = faults + 1 /\ Raise("io")
FaultTwice  == faults + 2 <= MaxFaults /\ faults' = faults + 2 /\ Raise("io")
Go(p)       == pc' = p /\ UNCHANGED <<error, faults>>

\* A fault of a cleanup, whose handler goes on with p.
CleanupFault(p) == /\ faults < MaxFaults /\ faults' = faults + 1 /\ pc' = p
                   /\ error' = "cleanup"

Same == UNCHANGED <<disk, reg>>

(* The stage directory.  Creating or removing a name in it changes its mtime,
   which the database leaf compares (_parent_mutation).                       *)
AddName(n)    == disk' = [disk EXCEPT !.names = @ \cup {n}]
Register(n)   == reg' = [reg EXCEPT !.names = @ \cup {n}]
Touched(b)    == [b EXCEPT !.fresh = FALSE]
\* _refresh_owned_database_mutation
Refreshed(b)  == [b EXCEPT !.fresh = (b.leaf = "created")]

\* _OwnedDatabaseLeaf: create_exclusive records identity and stamp;
\* open_verified and assert_unchanged compare both.
LeafCreated(b) == [b EXCEPT !.leaf = "created", !.fresh = TRUE]
LeafIntact     == db.leaf = "created" /\ db.fresh
\* SealedStageDatabase.validate_against
SealValid      == db.seal /\ LeafIntact

\* The staged verifications the session has registered cover n tables.
Registered(n) == Range(SubSeq(TableSpecs, 1, n)) \subseteq verified
\* None of the three registries of live objects has an entry.
NothingLive == /\ \A t \in Tables : writer[t] = "none"
               /\ store.state \in {"none", "CLEANED"} /\ db.work \in {"none", "CLOSED"}

\* Mutant: the names in the stage directory are not compared.
RecognisedByLeaves == disk.dir /\ disk.marker /\ disk.parquet = reg.parquet
\* _require_session_generation: the inventory is exactly what was registered.
Recognised == /\ disk.dir /\ disk.marker
              /\ disk.names = reg.names /\ disk.parquet = reg.parquet

\* Mutant: only the descriptors are looked at.
InputsOpen == holder.inputs
\* The bytes behind the held descriptors are revalidated at every use.
InputsHeld == holder.inputs /\ changed = "no"

-----------------------------------------------------------------------------
(* Opening the build: the nine held inputs, the session, the order store.     *)

\* verify_build_inputs, issue_identity_seal, BuildInputIdentity.from_verified and
\* the build configuration read through the held descriptor.
AdmitInputs ==
    /\ pc = "admit"
    /\ holder' = [holder EXCEPT !.inputs = TRUE]
    /\ IF changed = "no" THEN Go("initialize") \/ Refuse ELSE Refuse
    /\ Same /\ UNCHANGED <<layer, tables, store, db, extern>>

\* ArtifactBuildSession.initialize; what its failures leave in the parent
\* directory is modelled in Publication.
Initialize ==
    /\ pc = "initialize"
    /\ \/ /\ disk' = [disk EXCEPT !.marker = TRUE, !.dir = TRUE, !.names = {"parquet"}]
          /\ reg' = [reg EXCEPT !.names = {"parquet"}]
          /\ holder' = [holder EXCEPT !.owner = "session", !.state = "LIVE", !.lock = TRUE]
          /\ Go("openStore")
       \/ Refuse /\ Same /\ UNCHANGED holder
    /\ UNCHANGED <<layer, tables, store, db, extern>>

\* build_silver_for_session up to the emitter, _open_external_order_store.  The
\* directory is registered before the store is: a fault after mkdir leaves a
\* registered name with no live store behind it.
OpenOrderStore ==
    /\ pc = "openStore"
    /\ \/ /\ ~InputsHeld /\ Refuse /\ Same /\ UNCHANGED <<store, db>>
       \/ /\ InputsHeld
          /\ AddName("order-store") /\ Register("order-store") /\ db' = Touched(db)
          /\ \/ store' = [store EXCEPT !.state = "LIVE"] /\ Go("claim")
             \/ UNCHANGED store /\ Fault
    /\ UNCHANGED <<layer, tables, holder, extern>>

-----------------------------------------------------------------------------
(* One layer of tables: claim the leaves, open writers, write, close, verify.  *)

LayerTables == Range(Layers[layer])
\* The next table of the layer, in order, whose leaf or writer is in state s.
NextLeaf(s, t)   == IsFirst(Layers[layer], {u \in LayerTables : leaf[u] = s}, t)
NextWriter(s, t) == IsFirst(Layers[layer], {u \in LayerTables : writer[u] = s}, t)
AnyLeaf(s)       == \E t \in LayerTables : leaf[t] = s

\* Leaves that are claimed (or given back by an abort), and one that is created.
Claimed(S) == leaf' = [t \in Tables |-> IF t \in S THEN "claimed" ELSE leaf[t]]
Created(t) == /\ leaf' = [leaf EXCEPT ![t] = "created"]
              /\ reg' = [reg EXCEPT !.parquet = @ \cup {t}]

\* claim_parquet_leaf for every table of the layer; Bronze first reads six held
\* inputs and verifies the source manifest.
ClaimLeaves ==
    /\ pc = "claim"
    /\ IF layer = 1 /\ ~InputsHeld
       THEN Refuse /\ UNCHANGED leaf
       ELSE \/ Claimed(LayerTables) /\ Go("openWriters")
            \/ Refuse /\ UNCHANGED leaf
    /\ Same /\ UNCHANGED <<layer, writer, verified, staged, store, db, holder, extern>>

\* ParquetBatchWriter.__init__ and _OwnedParquetLeaf.create_exclusive.  Gold
\* writes and closes one table before it opens the next.
OpenWriter ==
    /\ pc = "openWriters"
    /\ \E t \in LayerTables :
          /\ NextLeaf("claimed", t)
          /\ disk' = [disk EXCEPT !.parquet = @ \cup {t}]
          /\ \/ /\ Created(t) /\ writer' = [writer EXCEPT ![t] = "open"]
                /\ Go(IF layer = 3 \/ t = Last(Layers[layer]) THEN "writeRows" ELSE "openWriters")
             \/ Fault /\ Created(t) /\ UNCHANGED writer           \* ParquetWriter fails
             \/ Fault /\ UNCHANGED <<reg, leaf, writer>>    \* fchmod or fstat fails
    /\ UNCHANGED <<layer, verified, staged, store, db, holder, extern>>

\* Mutant: a refused row closes the writer like a failing write does.
WriteRowsBreaking ==
    /\ pc = "writeRows"
    /\ \/ Go("closeWriters") /\ UNCHANGED writer
       \/ \E t \in LayerTables : /\ writer[t] = "open"
                                 /\ writer' = [writer EXCEPT ![t] = "broken"]
                                 /\ (Refuse \/ Fault)
    /\ Same /\ UNCHANGED <<layer, leaf, verified, staged, store, db, holder, extern>>

\* write_batch for the rows of the layer.  A row is validated before Arrow sees
\* it, so a refused row leaves the writer open; a failing write closes it and
\* leaves it among the session's live writers.
WriteRows ==
    /\ pc = "writeRows"
    /\ \/ Go("closeWriters") /\ UNCHANGED writer
       \/ Refuse /\ UNCHANGED writer
       \/ \E t \in LayerTables : /\ writer[t] = "open"
                                 /\ writer' = [writer EXCEPT ![t] = "broken"]
                                 /\ Fault
    /\ Same /\ UNCHANGED <<layer, leaf, verified, staged, store, db, holder, extern>>

\* Mutant: a closed writer stays registered.
CloseWriterKept ==
    /\ pc = "closeWriters" /\ Go("closeWriters") /\ UNCHANGED writer
    /\ Same /\ UNCHANGED <<layer, leaf, verified, staged, store, db, holder, extern>>

\* ParquetBatchWriter.close; only a close that succeeds releases the writer.
CloseWriter ==
    /\ pc = "closeWriters"
    /\ \E t \in LayerTables :
          /\ NextWriter("open", t)
          /\ \/ /\ writer' = [writer EXCEPT ![t] = "none"]
                /\ Go(IF \E u \in LayerTables \ {t} : writer[u] = "open" THEN "closeWriters"
                      ELSE IF AnyLeaf("claimed") THEN "openWriters" ELSE "verifyTables")
             \/ writer' = [writer EXCEPT ![t] = "broken"] /\ Fault
    /\ Same /\ UNCHANGED <<layer, leaf, verified, staged, store, db, holder, extern>>

\* verify_staged_parquet_table inside _final_verification_workspace: the
\* workspace is gone again afterwards, unless its setup or cleanup meets a fault.
VerifyTable ==
    /\ pc = "verifyTables"
    /\ db' = Touched(db)
    /\ LET rest == LayerTables \ verified IN
       \/ \E t \in rest : /\ verified' = verified \cup {t}
                          /\ Go(IF rest = {t} THEN "extend" ELSE "verifyTables") /\ Same
       \/ Refuse /\ UNCHANGED verified /\ Same
       \/ Fault /\ AddName("parquet-verify") /\ UNCHANGED <<verified, reg>>
    /\ UNCHANGED <<layer, leaf, writer, staged, store, holder, extern>>

\* The layers before and with this one, as _require_staged_table_order counts.
Prefix == Len(Bronze) + (IF layer > 1 THEN Len(Silver) ELSE 0)
                      + (IF layer > 2 THEN Len(Gold) ELSE 0)

\* Mutant: every layer is followed by another.
ExtendSetPast ==
    /\ pc = "extend" /\ Registered(Prefix)
    /\ staged' = Prefix /\ layer' = layer + 1
    /\ Go(CASE layer = 1 -> "claim" [] layer = 2 -> "issueCustody" [] layer = 3 -> "verifyEvidence")
    /\ Same /\ UNCHANGED <<leaf, writer, verified, store, db, holder, extern>>

\* StagedParquetSet.from_verified and extend_verified: an exact prefix of
\* TABLE_SPECS, every member registered.  After Bronze the emitter drains Silver.
ExtendSet ==
    /\ pc = "extend"
    /\ IF Registered(Prefix)
       THEN /\ staged' = Prefix
            /\ layer' = IF layer = 1 THEN 2 ELSE layer
            /\ Go(CASE layer = 1 -> "claim" [] layer = 2 -> "issueCustody"
                    [] layer = 3 -> "verifyEvidence")
       ELSE Refuse /\ UNCHANGED <<staged, layer>>
    /\ Same /\ UNCHANGED <<leaf, writer, verified, store, db, holder, extern>>

\* The except blocks of the three layer writers: abort every writer that is
\* still open; an abort that fails, and that of a broken writer, is suppressed.
AbortLayer ==
    /\ pc = "abortLayer"
    /\ LET open == {t \in LayerTables : writer[t] = "open"}
           Abort(S) == /\ disk' = [disk EXCEPT !.parquet = @ \ S]
                       /\ reg' = [reg EXCEPT !.parquet = @ \ S] /\ Claimed(S)
           next == IF layer = 3 THEN "closeCustody" ELSE "abortCheck"
       IN \/ /\ Abort(open) /\ Go(next)
             /\ writer' = [t \in Tables |-> IF t \in open THEN "none" ELSE writer[t]]
          \/ \E t \in open : /\ faults < MaxFaults /\ faults' = faults + 1
                             /\ Abort(open \ {t}) /\ pc' = next /\ UNCHANGED error
                             /\ writer' = [u \in Tables |-> IF u = t THEN "broken"
                                             ELSE IF u \in open THEN "none" ELSE writer[u]]
    /\ UNCHANGED <<layer, verified, staged, store, db, holder, extern>>

-----------------------------------------------------------------------------
(* The candidate custody of the order store and the exact links (Gold).       *)

\* SilverArtifactEmitter.finalize after the drain: the quality join, the report,
\* the counts, ExactLinkCandidateStoreCustody._issue, _issue_from_finalizer.
IssueCustody ==
    /\ pc = "issueCustody"
    /\ \/ /\ store.state = "LIVE" /\ store.custody = "none" /\ staged = Len(Bronze \o Silver)
          /\ store' = [store EXCEPT !.custody = "issued", !.candidate = "READY",
                                    !.evidence = "READY"]
          /\ Go("takeCustody")
       \/ Refuse /\ UNCHANGED store
    /\ Same /\ UNCHANGED <<layer, tables, db, holder, extern>>

\* take_exact_link_candidate_store: the custody moves out of the Silver result
\* once, after the inputs and the staged set are revalidated.
TakeCustody ==
    /\ pc = "takeCustody"
    /\ IF InputsHeld /\ store.custody = "issued"
       THEN /\ store' = [store EXCEPT !.custody = "taken"]
            /\ layer' = 3 /\ Go("joinCandidates")
       ELSE Refuse /\ UNCHANGED <<store, layer>>
    /\ Same /\ UNCHANGED <<tables, db, holder, extern>>

\* iter_candidate_join_batches, read to its end: EXHAUSTED, or FAILED when the
\* merge refuses a batch or the consumer leaves it early.
JoinCandidates ==
    /\ pc = "joinCandidates"
    /\ \/ /\ store.candidate = "READY"
          /\ store' = [store EXCEPT !.candidate = "EXHAUSTED"] /\ Go("admitEvidence")
       \/ store' = [store EXCEPT !.candidate = "FAILED"] /\ (Refuse \/ Fault)
    /\ Same /\ UNCHANGED <<layer, tables, db, holder, extern>>

\* admit_exact_evidence
AdmitEvidence ==
    /\ pc = "admitEvidence"
    /\ \/ /\ store.candidate = "EXHAUSTED" /\ store.evidence = "READY"
          /\ store' = [store EXCEPT !.evidence = "SEALED"] /\ Go("claim")
       \/ store' = [store EXCEPT !.evidence = "FAILED"] /\ (Refuse \/ Fault)
    /\ Same /\ UNCHANGED <<layer, tables, db, holder, extern>>

\* _register_verifier, verify_exact_link_evidence and the complete source audit.
VerifyEvidence ==
    /\ pc = "verifyEvidence"
    /\ \/ /\ store.candidate = "EXHAUSTED" /\ store.evidence = "SEALED" /\ ~store.verifier
          /\ store' = [store EXCEPT !.verifier = TRUE] /\ Go("closeCustody")
       \/ UNCHANGED store /\ (Refuse \/ Fault)
    /\ Same /\ UNCHANGED <<layer, tables, db, holder, extern>>

\* _close_working_state: the connection, the recognised content of the store's
\* directory, the directory, its registration.
CloseStore == /\ disk' = [disk EXCEPT !.names = @ \ {"order-store"}]
              /\ reg' = [reg EXCEPT !.names = @ \ {"order-store"}]
              /\ db' = Touched(db)
\* A fault: the directory and its registration stay, the store stays live.
AmbiguousStore == Same /\ UNCHANGED db

\* The finally block of build_complete_for_session, custody.close().
CloseCustody ==
    /\ pc = "closeCustody"
    /\ \/ /\ CloseStore /\ Go(IF error = "none" THEN "claimDatabase" ELSE "abortCheck")
          /\ store' = [store EXCEPT !.state = "CLEANED", !.candidate = "CLOSED"]
       \/ /\ AmbiguousStore /\ CleanupFault("abortCheck")
          /\ store' = [store EXCEPT !.state = "AMBIGUOUS", !.candidate = "AMBIGUOUS"]
    /\ UNCHANGED <<layer, tables, holder, extern>>

-----------------------------------------------------------------------------
(* The database: a workspace in the stage, one copy out of it, one seal.      *)

\* require_complete_artifact_build_result, require_complete, claim_database_leaf.
ClaimDatabase ==
    /\ pc = "claimDatabase"
    /\ IF /\ InputsHeld /\ store.candidate = "CLOSED"
          /\ staged = Len(TableSpecs) /\ db.leaf = "none"
       THEN db' = [db EXCEPT !.leaf = "claimed"] /\ Go("openWorkspace")
       ELSE UNCHANGED db /\ Refuse
    /\ Same /\ UNCHANGED <<layer, tables, store, holder, extern>>

\* _open_managed_stage_database_build: registered by name before it is live.
OpenWorkspace ==
    /\ pc = "openWorkspace"
    /\ AddName("database-build") /\ Register("database-build")
    /\ \/ db' = [Touched(db) EXCEPT !.work = "LIVE"] /\ Go("materialize")
       \/ db' = Touched(db) /\ Fault
    /\ UNCHANGED <<layer, tables, store, holder, extern>>

\* open_writer and _materialize_tables: every table read through its handle.
Materialize ==
    /\ pc = "materialize"
    /\ Go("checkpoint") \/ Refuse \/ Fault
    /\ Same /\ UNCHANGED <<layer, tables, store, db, holder, extern>>

\* checkpoint_close_and_seal, first part: CHECKPOINT, close, no WAL left.
Checkpoint ==
    /\ pc = "checkpoint"
    /\ \/ db' = [db EXCEPT !.work = "CHECKPOINTED"] /\ Go("copy")
       \/ db' = [db EXCEPT !.work = "AMBIGUOUS"] /\ Fault
    /\ Same /\ UNCHANGED <<layer, tables, store, holder, extern>>

\* Second part: create_exclusive of the leaf, then the bytes.  The leaf is
\* registered with the session before its content is complete.
CopyDatabase ==
    /\ pc = "copy"
    /\ LET created == LeafCreated(db)
       IN \/ /\ AddName("finproof.duckdb") /\ Register("finproof.duckdb")
             /\ \/ db' = [created EXCEPT !.work = "COPIED"] /\ Go("reopen")
                \/ db' = [created EXCEPT !.work = "AMBIGUOUS"] /\ Fault
          \/ Same /\ db' = [db EXCEPT !.work = "AMBIGUOUS"] /\ Fault
    /\ UNCHANGED <<layer, tables, store, holder, extern>>

\* Third part: digest of the leaf, read-only reopen, leaf unchanged.
ReopenDatabase ==
    /\ pc = "reopen"
    /\ \/ LeafIntact /\ db' = [db EXCEPT !.work = "VERIFIED"] /\ Go("seal")
       \/ db' = [db EXCEPT !.work = "AMBIGUOUS"] /\ ((~LeafIntact /\ Refuse) \/ Fault)
    /\ Same /\ UNCHANGED <<layer, tables, store, holder, extern>>

\* _register_sealed_database and validate_against.
SealDatabase ==
    /\ pc = "seal"
    /\ IF LeafIntact /\ ~db.seal
       THEN db' = [db EXCEPT !.work = "SEALED", !.seal = TRUE] /\ Go("closeWorkspace")
       ELSE UNCHANGED db /\ Refuse
    /\ Same /\ UNCHANGED <<layer, tables, store, holder, extern>>

Discardable == {"LIVE", "CHECKPOINTED", "COPIED", "VERIFIED", "SEALED"}

\* Mutant: the stamp is not taken again.
DiscardWorkspaceStale ==
    /\ disk' = [disk EXCEPT !.names = @ \ {"database-build"}]
    /\ reg' = [reg EXCEPT !.names = @ \ {"database-build"}]
    /\ db' = [Touched(db) EXCEPT !.work = "CLOSED"]

\* _ManagedDatabaseBuild._discard: the recognised workspace goes, and the stamp
\* of the leaf beside it is taken again.
DiscardWorkspace ==
    /\ disk' = [disk EXCEPT !.names = @ \ {"database-build"}]
    /\ reg' = [reg EXCEPT !.names = @ \ {"database-build"}]
    /\ db' = [Refreshed(Touched(db)) EXCEPT !.work = "CLOSED"]

\* __exit__: an ambiguous workspace is left where it is.
CloseWorkspace ==
    /\ pc = "closeWorkspace"
    /\ IF db.work = "AMBIGUOUS"
       THEN pc' = "abortCheck" /\ error' = "cleanup" /\ Same /\ UNCHANGED <<db, faults>>
       ELSE \/ DiscardWorkspace /\ Go(IF error = "none" THEN "writeFinal" ELSE "abortCheck")
            \/ /\ CleanupFault("abortCheck") /\ Same
               /\ db' = [db EXCEPT !.work = "AMBIGUOUS"]
    /\ UNCHANGED <<layer, tables, store, holder, extern>>

-----------------------------------------------------------------------------
(* Reports, manifest, and the hand-over of the finished stage.                *)

Finals == <<"source_audit", "quality_summary", "manifest.json">>

\* _write_final_artifact for the two reports and then the manifest.  The sealed
\* database is validated before the first, the inputs before the manifest
\* (ArtifactManifest.from_build).  The reports directory is registered when it is
\* made, a leaf only when it is complete.
WriteFinal ==
    /\ pc = "writeFinal"
    /\ \E f \in Range(Finals) :
          /\ IsFirst(Finals, Range(Finals) \ reg.final, f)
          /\ LET dir   == IF f \in Reports THEN "reports" ELSE f
                 first == f \in Reports /\ ~reg.reports
                 OnDisk == disk' = [disk EXCEPT !.names = @ \cup {dir},
                                                !.reports = @ \cup ({f} \cap Reports)]
                 Known(leaves, S) == reg' = [reg EXCEPT !.names = @ \cup S, !.final = @ \cup leaves,
                                                        !.reports = @ \/ first]
                 \* The leaf and its directory go again, the record of the leaf does not.
                 Undone(kept) == /\ UNCHANGED disk
                                 /\ reg' = [reg EXCEPT !.names = @ \cup (kept \ Reports),
                                                       !.final = @ \cup kept]
             IN IF (f = "source_audit" /\ ~SealValid) \/ (f = "manifest.json" /\ ~InputsHeld)
                THEN Refuse /\ Same /\ UNCHANGED db
                ELSE \/ /\ OnDisk /\ Known({f}, {dir}) /\ db' = Refreshed(Touched(db))
                        /\ Go(IF f = "manifest.json" THEN "transfer" ELSE "writeFinal")
                     \/ Refuse /\ Same /\ UNCHANGED db
                     \/ /\ first /\ Fault                        \* the directory, no leaf in it
                        /\ AddName(dir) /\ Known({}, {dir}) /\ db' = Touched(db)
                     \/ \E kept \in {{}, {f}} :                  \* before or after f is recorded
                           \/ Fault /\ Undone(kept) /\ db' = Refreshed(db)
                           \/ /\ FaultTwice /\ db' = Touched(db)
                              /\ \/ Undone(kept)
                                 \/ first /\ AddName(dir) /\ Known(kept, {dir})
                                 \/ OnDisk /\ Known(kept, ({dir} \ {f}) \cup (kept \ Reports))
    /\ UNCHANGED <<layer, tables, store, holder, extern>>

\* validate_against, require_complete, transfer_candidate_stage: no working
\* object and no working name is left, and the inventory is the registered one.
TransferStage ==
    /\ pc = "transfer"
    /\ IF /\ SealValid /\ staged = Len(TableSpecs) /\ NothingLive
          /\ Recognised /\ reg.names \subseteq FinalNames
       THEN holder' = [holder EXCEPT !.owner = "stage"] /\ Go("issue")
       ELSE UNCHANGED holder /\ Refuse
    /\ Same /\ UNCHANGED <<layer, tables, store, db, extern>>

\* issue_candidate_custody.  When it fails nobody closes the stage.
IssueStageCustody ==
    /\ pc = "issue"
    /\ \/ Recognised /\ holder' = [holder EXCEPT !.owner = "custody"] /\ Go("coreTables")
       \/ UNCHANGED holder /\ ((~Recognised /\ Refuse) \/ Fault)
    /\ Same /\ UNCHANGED <<layer, tables, store, db, extern>>

Complete == disk.names = FinalNames /\ disk.parquet = Tables /\ disk.reports = Reports

\* verify_candidate_core_from_root: the closed tree and its digests with every
\* table, the reports, the database against the tables.  Each works in an owned
\* directory of the system's temporary directory, which a fault may leave there.
VerifyCore ==
    /\ pc \in CoreSteps \ {"issueSet"}
    /\ \/ /\ Complete /\ UNCHANGED temp
          /\ Go(CASE pc = "coreTables" -> "coreReports" [] pc = "coreReports" -> "coreDatabase"
                  [] pc = "coreDatabase" -> "issueSet")
       \/ Refuse /\ UNCHANGED temp
       \/ Fault /\ temp' \in {temp, temp \cup {pc}}
    /\ Same /\ UNCHANGED <<layer, tables, store, db, holder, changed>>

\* _issue_candidate_artifact_set: the custody is live, the manifest still
\* describes the held inputs.
IssueSet ==
    /\ pc = "issueSet"
    /\ IF Recognised /\ InputsHeld THEN Go("accept") ELSE Refuse
    /\ Same /\ UNCHANGED <<layer, tables, store, db, holder, extern>>

\* authorize_candidate_for_publication takes the custody over when the packaged
\* contract accepts the candidate; _discard_live_candidate_to_core_outcome gives
\* it up after a core-only build.
Accept ==
    /\ pc = "accept"
    /\ \/ /\ Recognised /\ Complete
          /\ holder' = [holder EXCEPT !.owner = "transferred"] /\ Go("handed")
       \/ Go("dropCheck") /\ UNCHANGED holder
       \/ Refuse /\ UNCHANGED holder
    /\ Same /\ UNCHANGED <<layer, tables, store, db, extern>>

-----------------------------------------------------------------------------
(* Giving up: ArtifactBuildSession._abort_initial_stage, and
   _discard_exact_candidate for the custody.  Both first check that what is in
   the stage is what was registered, then remove it leaf by leaf.             *)

\* Every failure inside the abort goes to its finally block.
AbortFails(kind) == pc' = "release" /\ error' = kind /\ UNCHANGED faults

\* The first statement of the abort.
AbortCheck ==
    /\ pc = "abortCheck"
    /\ IF Recognised THEN Go("abortWriters") \/ CleanupFault("release")
                     ELSE AbortFails("cleanup")
    /\ Same /\ UNCHANGED <<layer, tables, store, db, holder, extern>>

\* writer.abort() of each live writer: one that failed before is closed already,
\* and its RuntimeError is not among the exceptions the abort catches.
AbortWriters ==
    /\ pc = "abortWriters"
    /\ LET live == {t \in Tables : writer[t] # "none"}
       IN \/ live = {} /\ Go("abortStore") /\ Same /\ UNCHANGED <<leaf, writer>>
          \/ \E t \in live :
                /\ IsFirst(TableSpecs, live, t)
                /\ \/ /\ writer[t] = "broken" /\ AbortFails("untyped")
                      /\ Same /\ UNCHANGED <<leaf, writer>>
                   \/ /\ writer[t] = "open"
                      /\ disk' = [disk EXCEPT !.parquet = @ \ {t}]
                      /\ reg' = [reg EXCEPT !.parquet = @ \ {t}]
                      /\ leaf' = [leaf EXCEPT ![t] = "claimed"]
                      /\ writer' = [writer EXCEPT ![t] = "none"] /\ Go("abortWriters")
                   \/ /\ writer[t] = "open" /\ writer' = [writer EXCEPT ![t] = "broken"]
                      /\ CleanupFault("release") /\ Same /\ UNCHANGED leaf
    /\ UNCHANGED <<layer, verified, staged, store, db, holder, extern>>

\* close_and_remove_working_state of a live store; an ambiguous one refuses.
AbortStore ==
    /\ pc = "abortStore"
    /\ \/ /\ store.state \in {"none", "CLEANED"} /\ Go("abortWorkspace")
          /\ Same /\ UNCHANGED <<store, db>>
       \/ /\ store.state = "LIVE" /\ CloseStore /\ Go("abortWorkspace")
          /\ store' = [store EXCEPT !.state = "CLEANED"]
       \/ /\ store.state = "LIVE" /\ AmbiguousStore /\ CleanupFault("release")
          /\ store' = [store EXCEPT !.state = "AMBIGUOUS"]
       \/ /\ store.state = "AMBIGUOUS" /\ AbortFails("cleanup")
          /\ Same /\ UNCHANGED <<store, db>>
    /\ UNCHANGED <<layer, tables, holder, extern>>

\* workspace._discard() for each one still registered.
AbortWorkspace ==
    /\ pc = "abortWorkspace"
    /\ \/ db.work \in {"none", "CLOSED"} /\ Go("abortRegistry") /\ Same /\ UNCHANGED db
       \/ db.work = "AMBIGUOUS" /\ AbortFails("cleanup") /\ Same /\ UNCHANGED db
    /\ UNCHANGED <<layer, tables, store, holder, extern>>

\* _validate_owned_final_artifacts
FinalsKnown ==
    LET known == reg.final \cap Reports
    IN IF known # {} THEN disk.reports = known ELSE ~reg.reports

\* CLOSING: the inventory again, no working name left, the final leaves intact.
AbortRegistry ==
    /\ pc = "abortRegistry"
    /\ IF Recognised /\ reg.names \subseteq FinalNames /\ FinalsKnown
       THEN Go("remove") \/ CleanupFault("release") ELSE AbortFails("cleanup")
    /\ holder' = [holder EXCEPT !.state = "CLOSING"]
    /\ Same /\ UNCHANGED <<layer, tables, store, db, extern>>

\* The same preflight of a custody, before it is CLOSING: a failure raises with
\* descriptors and lock still held.
DiscardCheck ==
    /\ pc \in {"discardCheck", "dropCheck"}
    /\ LET next == IF pc = "discardCheck" THEN "closeInputs" ELSE "failed"
       IN \/ /\ Recognised /\ FinalsKnown /\ Go("remove")
             /\ holder' = [holder EXCEPT !.state = "CLOSING"]
          \/ /\ CleanupFault(next) /\ UNCHANGED holder
          \/ /\ ~(Recognised /\ FinalsKnown) /\ pc' = next /\ error' = "cleanup"
             /\ UNCHANGED <<holder, faults>>
    /\ Same /\ UNCHANGED <<layer, tables, store, db, extern>>

\* The removals in order: reports and their directory, manifest, Parquet leaves,
\* database, parquet directory, stage directory, marker.
RemovalOrder == <<"quality_summary", "source_audit", "reports", "manifest.json">>
                \o TableSpecs \o <<"finproof.duckdb", "parquet", "dir", "marker">>
Present(i) == CASE i \in Reports    -> i \in disk.reports
                [] i \in FinalNames -> i \in disk.names
                [] i \in Tables     -> i \in disk.parquet
                [] i = "dir"        -> disk.dir
                [] i = "marker"     -> disk.marker
Unlinked(d, i) == [d EXCEPT !.names = @ \ {i}, !.parquet = @ \ {i}, !.reports = @ \ {i},
                            !.dir = @ /\ i # "dir", !.marker = @ /\ i # "marker"]
\* What is left to remove, and the next of it.
Left        == {i \in Range(RemovalOrder) : Present(i)}
NextLeft(i) == IsFirst(RemovalOrder, Left, i)

\* Mutant: a removal that fails keeps the error of the build.
RemoveNextSilent ==
    /\ pc = "remove"
    /\ \/ Left = {} /\ Go("release") /\ Same
       \/ \E i \in Left : /\ NextLeft(i) /\ disk' = Unlinked(disk, i)
                          /\ Go("remove") /\ UNCHANGED reg
       \/ Left # {} /\ faults < MaxFaults /\ faults' = faults + 1
          /\ pc' = "release" /\ UNCHANGED error /\ Same
    /\ UNCHANGED <<layer, tables, store, db, holder, extern>>

RemoveNext ==
    /\ pc = "remove"
    /\ \/ Left = {} /\ Go("release") /\ Same
       \/ \E i \in Left :
             /\ NextLeft(i) /\ disk' = Unlinked(disk, i) /\ Go("remove")
             /\ reg' = [reg EXCEPT !.names = @ \ {i}, !.parquet = @ \ {i},
                                   !.final = @ \ {i}, !.reports = @ /\ i # "reports"]
       \/ Left # {} /\ CleanupFault("release") /\ Same
    /\ UNCHANGED <<layer, tables, store, db, holder, extern>>

\* The finally blocks: descriptors, inputs and lock, whatever happened.
Release ==
    /\ pc = "release"
    /\ holder' = [owner |-> "none", state |-> "CLOSED", lock |-> FALSE, inputs |-> FALSE]
    /\ Go(IF error = "none" THEN "discarded" ELSE "failed")
    /\ Same /\ UNCHANGED <<layer, tables, store, db, extern>>

\* identity.close() in the outermost handler of the builder.
CloseInputs ==
    /\ pc = "closeInputs"
    /\ holder' = [holder EXCEPT !.inputs = FALSE] /\ Go("failed")
    /\ Same /\ UNCHANGED <<layer, tables, store, db, extern>>

-----------------------------------------------------------------------------
(* The environment: an input file is replaced or rewritten while the build
   runs, before or after the manifest was taken.                              *)

Ended == {"handed", "discarded", "failed"}

ChangeInput ==
    /\ pc \notin Ended /\ changed = "no"
    /\ changed' = IF "manifest.json" \in reg.final THEN "late" ELSE "early"
    /\ UNCHANGED <<pc, layer, error, disk, reg, tables, store, db, holder, temp, faults>>

Finished == pc \in Ended /\ UNCHANGED vars

Build ==
    \/ AdmitInputs \/ Initialize \/ OpenOrderStore \/ ClaimLeaves \/ OpenWriter
    \/ WriteRows \/ CloseWriter \/ VerifyTable \/ ExtendSet \/ AbortLayer
    \/ IssueCustody \/ TakeCustody \/ JoinCandidates \/ AdmitEvidence
    \/ VerifyEvidence \/ CloseCustody \/ ClaimDatabase \/ OpenWorkspace
    \/ Materialize \/ Checkpoint \/ CopyDatabase \/ ReopenDatabase
    \/ SealDatabase \/ CloseWorkspace \/ WriteFinal \/ TransferStage
    \/ IssueStageCustody \/ VerifyCore \/ IssueSet \/ Accept
    \/ AbortCheck \/ AbortWriters \/ AbortStore \/ AbortWorkspace
    \/ AbortRegistry \/ DiscardCheck \/ RemoveNext \/ Release \/ CloseInputs

Next == Build \/ ChangeInput \/ Finished

\* The builder is one synchronous program: it takes its next step.
Spec == Init /\ [][Next]_vars /\ WF_vars(Build)

-----------------------------------------------------------------------------
\* Types.
TypeOK ==
    /\ layer \in 1..3 /\ error \in {"none", "refused", "io", "cleanup", "untyped"}
    /\ disk \in [marker : BOOLEAN, dir : BOOLEAN, names : SUBSET (FinalNames \cup WorkNames),
                 parquet : SUBSET Tables, reports : SUBSET Reports]
    /\ reg \in [names : SUBSET (FinalNames \cup WorkNames), parquet : SUBSET Tables,
                final : SUBSET Range(Finals), reports : BOOLEAN]
    /\ leaf \in [Tables -> {"none", "claimed", "created"}]
    /\ writer \in [Tables -> {"none", "open", "broken"}]
    /\ verified \subseteq Tables /\ staged \in 0..Len(TableSpecs)
    /\ store.state \in {"none", "LIVE", "CLEANED", "AMBIGUOUS"}
    /\ db.work \in Discardable \cup {"none", "CLOSED", "AMBIGUOUS"}
    /\ db.leaf \in {"none", "claimed", "created"} /\ db.fresh \in BOOLEAN /\ db.seal \in BOOLEAN
    /\ holder.owner \in {"none", "session", "stage", "custody", "transferred"}
    /\ changed \in {"no", "early", "late"} /\ temp \subseteq CoreSteps /\ faults \in 0..MaxFaults

\* Whoever holds a finished stage holds exactly the artifact set: every table
\* written, verified and counted, a sealed database, both reports and the
\* manifest, no working file, the inputs unchanged up to the manifest
\* (transfer_candidate_stage, issue_candidate_custody, transfer_expected_accepted).
CandidateComplete ==
    holder.owner \in {"stage", "custody", "transferred"} /\ holder.state = "LIVE" =>
        /\ disk.dir /\ disk.marker /\ Complete
        /\ reg.names = FinalNames /\ reg.parquet = Tables /\ reg.final = Range(Finals)
        /\ verified = Tables /\ staged = Len(TableSpecs)
        /\ \A t \in Tables : writer[t] = "none"
        /\ store.state = "CLEANED" /\ store.verifier /\ db.work = "CLOSED" /\ db.seal
        /\ changed # "early"

\* A build that fails because of its data, with no failing call, leaves nothing:
\* no stage, no marker, no lock, no open input, no temporary directory
\* (_abort_initial_stage and _discard_exact_candidate after any refusal).
RefusalLeavesNothing ==
    pc \in {"failed", "discarded"} /\ faults = 0 =>
        /\ ~disk.dir /\ ~disk.marker /\ disk.names = {} /\ disk.parquet = {}
        /\ disk.reports = {} /\ temp = {} /\ ~holder.lock /\ ~holder.inputs

\* The build never invalidates its own database seal: whenever the seal or the
\* leaf is about to be compared with the directory's time stamp, the stamp is
\* that of the last change the build itself made (_parent_mutation).
StampFresh ==
    faults = 0 /\ (pc \in {"reopen", "seal", "transfer"} \/ (pc = "writeFinal" /\ db.seal))
        => db.fresh

\* A build that ends with its stage still on disk and its lock released says so:
\* the error is the typed cleanup error, or the RuntimeError of a writer that
\* had failed before (_staging_error in _abort_initial_stage).
ResidueReported ==
    pc = "failed" /\ (disk.dir \/ disk.marker) =>
        \/ error = "cleanup"
        \/ (error = "untyped" /\ \E t \in Tables : writer[t] = "broken")
        \/ (holder.lock /\ holder.owner = "stage")

\* A step that finds in the stage what the session did not register.
KeepsAmbiguous ==
    disk.dir /\ (disk.names # reg.names \/ disk.parquet # reg.parquet) =>
        /\ disk'.dir /\ disk'.marker
        /\ disk.names \cap FinalNames \subseteq disk'.names /\ disk.reports \subseteq disk'.reports
        /\ \A t \in disk.parquet \ disk'.parquet : writer[t] = "open"

\* A stage that holds a name or a Parquet file the session did not register
\* keeps all its artifacts; only the leaf of a writer that is still open goes
\* (_require_session_generation before every removal).
AmbiguousStageKept == [][KeepsAmbiguous]_vars

\* Every build ends: handed over, discarded or failed.
BuildEnds == <>(pc \in Ended)

-----------------------------------------------------------------------------
(* The inductive invariant behind the safety properties.                      *)

Stores == [state : {"none", "LIVE", "CLEANED", "AMBIGUOUS"}, custody : {"none", "issued", "taken"},
           candidate : {"none", "READY", "EXHAUSTED", "FAILED", "CLOSED", "AMBIGUOUS"},
           evidence : {"none", "READY", "SEALED", "FAILED"}, verifier : BOOLEAN]
Bases  == [work : Discardable \cup {"none", "CLOSED", "AMBIGUOUS"},
           leaf : {"none", "claimed", "created"}, fresh : BOOLEAN, seal : BOOLEAN]
Holders == [owner : {"none", "session", "stage", "custody", "transferred"},
            state : {"NONE", "LIVE", "CLOSING", "CLOSED"}, lock : BOOLEAN, inputs : BOOLEAN]

BuildTypes == TypeOK /\ store \in Stores /\ db \in Bases /\ holder \in Holders

NoStage   == /\ ~disk.dir /\ ~disk.marker /\ disk.names = {} /\ disk.parquet = {}
             /\ disk.reports = {}
Opening   == {"admit", "initialize"}
Removing  == {"remove", "release", "failed", "discarded"}
Aborting  == {"abortLayer", "abortCheck", "abortWriters", "abortStore", "abortWorkspace",
              "abortRegistry", "discardCheck", "closeInputs"}
Finishing == {"claimDatabase", "openWorkspace", "closeWorkspace", "writeFinal", "transfer"}
             \cup BaseSteps
HandedOver == {"issue", "accept", "discardCheck", "dropCheck"} \cup CoreSteps
Remaining  == disk.dir \/ disk.marker

\* Every path into an abort starts with an error.
ErrorInv == pc \in Aborting => error # "none"

\* Where the build stands says what it has: nothing yet, a custody that was
\* verified and closed, a sealed database, all final leaves.
PhaseInv ==
    /\ pc \in Opening => /\ NoStage /\ ~holder.lock
                         /\ reg = [names |-> {}, parquet |-> {}, final |-> {}, reports |-> FALSE]
    /\ pc = "closeCustody" /\ error = "none" => store.verifier
    /\ pc \in Finishing => store.state = "CLEANED" /\ store.verifier
    /\ pc = "closeWorkspace" /\ error = "none" => db.seal
    /\ pc \in {"writeFinal", "transfer"} => db.seal /\ error = "none"
    /\ pc = "transfer" => reg.final = Range(Finals)
    /\ db.seal => db.leaf = "created" /\ db.work # "none"
    /\ "manifest.json" \in reg.final => changed # "early"
    /\ disk.dir => disk.marker
    /\ Registered(staged)

\* A build without an error forgets nothing that it made: created and verified
\* leaves, the database and the final leaves are registered and on disk.
ForwardInv ==
    error = "none" /\ pc \notin Removing =>
        /\ pc \notin Opening => "parquet" \in reg.names
        /\ verified \subseteq reg.parquet
        /\ \A t \in Tables : leaf[t] = "created" => t \in reg.parquet
        /\ pc \in {"openWriters", "writeRows", "closeWriters"} =>
              \A t \in LayerTables : leaf[t] # "none"
        /\ pc = "verifyTables" => LayerTables \subseteq reg.parquet
        /\ db.leaf = "created" => "finproof.duckdb" \in reg.names
        /\ reg.final \cap Reports # {} => "reports" \in reg.names
        /\ reg.final \cap Reports \subseteq disk.reports
        /\ "manifest.json" \in reg.final => "manifest.json" \in reg.names

\* Who holds the stage, and when.
HolderInv ==
    /\ pc \notin Opening \cup Removing \cup {"closeInputs", "handed"} =>
          holder.state = "LIVE" /\ holder.lock
    /\ pc \in HandedOver => holder.owner \in {"stage", "custody"}
    /\ pc = "issue" => holder.owner = "stage"
    /\ holder.owner \in {"stage", "custody", "transferred"} /\ holder.state = "LIVE" =>
          pc \in HandedOver \cup {"handed", "closeInputs", "failed"}

\* Without a fault the registry is the disk ...
InventoryInv ==
    faults = 0 =>
        /\ disk.names = reg.names /\ disk.parquet = reg.parquet
        /\ disk.reports = reg.final \cap Reports /\ temp = {}
        /\ pc \notin Opening \cup Removing \cup {"closeInputs"} => disk.dir /\ disk.marker
        /\ pc \notin Removing /\ reg.reports => reg.final \cap Reports # {}

\* ... nothing is ambiguous and a working name has a live owner ...
WorkingInv ==
    faults = 0 =>
        /\ \A t \in Tables : writer[t] # "broken"
        /\ store.state # "AMBIGUOUS" /\ db.work # "AMBIGUOUS"
        /\ "order-store" \in reg.names => store.state = "LIVE"
        /\ "database-build" \in reg.names => db.work \in Discardable
        /\ "parquet-verify" \notin reg.names
        /\ pc \in {"abortWorkspace", "abortRegistry", "remove"} => store.state # "LIVE"
        /\ pc \in {"abortRegistry", "remove"} => db.work \notin Discardable

\* ... and a cleanup that ends has removed everything.
LeftoverInv ==
    faults = 0 =>
        /\ pc \in {"release", "closeInputs", "failed", "discarded"} => NoStage
        /\ pc \in {"closeInputs", "failed", "discarded"} => ~holder.lock
        /\ pc \in {"failed", "discarded"} => ~holder.inputs

FreshInv ==
    faults = 0 => /\ pc \in {"reopen", "seal"} => LeafIntact
                  /\ pc \in {"writeFinal", "transfer"} => db.fresh

\* A removal starts from a recognised stage and keeps it so; one that gives up
\* has said why.
RemovalInv ==
    /\ pc = "remove" /\ disk.dir => disk.names = reg.names /\ disk.parquet = reg.parquet
    /\ pc = "release" /\ Remaining =>
          error = "cleanup" \/ (error = "untyped" /\ \E t \in Tables : writer[t] = "broken")
    /\ pc = "closeInputs" /\ Remaining =>
          error = "cleanup" \/ (holder.lock /\ holder.owner = "stage")

BuildInv ==
    /\ BuildTypes /\ ErrorInv /\ PhaseInv /\ ForwardInv /\ HolderInv
    /\ CandidateComplete /\ InventoryInv /\ WorkingInv /\ LeftoverInv /\ FreshInv
    /\ RemovalInv /\ ResidueReported
=============================================================================
