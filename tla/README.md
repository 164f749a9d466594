# A verification project for FinProof

FinProof answers questions about financial products.  A batch command,
`finproof build-data`, turns the distributed spreadsheets into one artifact
directory (Parquet tables, a DuckDB database, reports, a manifest) and publishes
it; an HTTP server opens the published directory read-only and answers questions:
a provider (HCX) turns the question into a plan, the database is queried, evidence
and claims are composed, and the provider words the verified answer.

This directory holds TLA+ models of that program, from the source rows of a build to
the answer of a request and the tools around them, TLC configurations that check
them, and proofs for TLAPS.  `PROJECT.json` maps every definition to the lines it models and lists the
runs, the hazards they are about, and the theorems.

## 1. Inventory

| Part (`src/src/finproof/`) | State | Operations | What is hard |
|---|---|---|---|
| `data/artifacts/publication.py` | names in the parent directory: target, backup, tombstone and their markers | publish, roll back, clean up, recover | crash between two renames, a call that fails and whose compensation fails too, two builds on the same names |
| `data/artifacts/staging.py` | lock file, stage directory and marker, held descriptors, live writers and workspaces | initialize, transfer, commit, discard | ownership handed over in several steps; the lock released on every way out |
| `data/artifacts/builder.py` and the table modules | the tables of one generation | ingest, normalise, link, finalise | long but sequential; memory bounds of the external order store |
| `data/artifacts/manifest.py`, `hashing.py`, `input_identity.py` | the expected contract, held input files | verify, issue | inputs that change while they are read |
| `service/limits.py` | a semaphore, one absolute deadline for each request | acquire, retain, release | time-out and cancellation racing the grant; a permit that outlives its request |
| `service/orchestrator.py` | the set of detached database workers | answer, drain | every await may be timed out or cancelled |
| `service/answer_service.py` | request lock, active deadline, lazily built resolvers | prepare_plan, interrupt | a worker thread shares its connection with all others |
| `planner/service.py`, `planner/hcx_client.py`, `answer/hcx_verbalizer.py` | attempt counters | plan, repair, retry, verbalize | one retry or one repair, rate limits, the cutoff |
| `api/`, `runtime/session.py` | application state, the open session | serve, shut down | the session is closed only after the last worker |
| `query/`, `quality/`, `entity/`, `evidence/`, `answer/renderer.py` | none | validate, segment, compile, rank, aggregate, bound, state, verify | a chain of pure stages, each of which may drop or cut something the next one takes for complete |
| `data/normalization/`, `data/holdings.py`, `data/xlsx_stream.py` | none | parse, normalise, project | rows that are dropped, quarantined or merged must all be counted again by the verifier |
| `tools/admit_official_archive.py` | the source material of the repository | admit, publish a candidate, roll back | several trees replaced in turn, interrupted, killed, run again |
| `tools/*_packet.py`, `evaluation/loader.py` | packets, approvals, suite files | generate, approve, execute, promote | people edit between two tools; files replaced one by one |
| `evaluation/` (scoring, runner, load), `cli/` | report files | run, score | arithmetic and I/O |

The builder calls staging (lock, stage), then publication's recovery, then the
table modules, then publication; the server's session reads what publication put
under the target's name.  The API issues a deadline and calls the orchestrator,
which calls the planner, the answer service (in a thread) and the verbalizer, all
under that one deadline.

What makes the parts correct: the published name never shows a partial
generation and the last good copy is never given up; a failed build leaves the
target it found; permits, workers and interrupts stay with the request they belong
to; every request ends, within its deadline, with a verified or the safe answer;
no provider call is made outside the retry policy; a candidate is complete and made
from the inputs that were admitted, and a build that fails leaves nothing or says what
it left; no source row is lost between its spreadsheet and the reports; the verifier
accepts exactly the artifacts that are right; what an answer states is true of the
catalogue; nobody's files but its own are ever removed by a tool.

## 2. Modules

| Module | Models |
|---|---|
| `Publication` | builds, publications, recoveries and crashes on one parent directory |
| `ArtifactStore` | the abstract store that readers of the directory rely on |
| `RequestService` | one evaluation server: admission, stages, worker threads, shutdown |
| `ProviderCalls` | the provider calls of one request: repair, retry, backoff, counters |
| `ArtifactBuild` | one build inside its stage: session, writers, order store, database, hand-over, every way out |
| `ArtifactRows` | what the tables, links, reports and the database contain, and the verifier's recount |
| `ArtifactVerification` | the verification kernel over files that other processes change |
| `OwnedWorkspace` | the temporary workspaces of the verifiers beside another process |
| `SourceAdmission` | admission of the official archive and publication of a candidate tree |
| `Curation` | question packets, reference packets, approvals, promotion into suites |
| `Answering` | from a plan to an answer: resolve, validate, segment, execute, decide, bound, state, verify |
| `MCPublication`, `MCRequestService`, `MCArtifactBuild` | a component with the constants of its runs |
| `MCOwnedFiles` | `OwnedWorkspace`, `SourceAdmission` and `Curation`, one of them per behaviour |
| `MCDataPipeline` | `ArtifactRows`, `ArtifactVerification` and `Answering`, one of them per behaviour |
| `PublicationProofs` | the inductive invariant of `Publication`; that it implements `ArtifactStore` and keeps the last copy; what cleanup, rollback and recovery leave behind |
| `RequestServiceProofs`, `ProviderCallsProofs`, `ArtifactBuildProofs`, `ArtifactVerificationProofs`, `ArtifactRowsProofs`, `AnsweringProofs` | the inductive invariant of the component and the properties that follow |
| `OwnedFilesProofs` | the same for `OwnedWorkspace`, `SourceAdmission` and `Curation` |

### Publication

A build is one process; its operation id is the build itself.  `pc[b]` is the next
system call of the build that changes a name in the parent directory (or the next
run of checks), so other builds interleave between any two such calls, each call
may fail (`MaxFaults` in all) and the process may die at each (`MaxCrashes`).
A directory is the generation it holds and whether all of it is there; verification
accepts the whole ones.  A marker is absent, torn (created, not completely written)
or good.

| Actions | Code |
|---|---|
| `CheckTarget` ... `InitializeFails` | `_initialize_session` |
| `ScanRemnants`, `ObserveRemnants` | `recover_owned_remnants`, `remnant_state`, the first half of `recover` |
| `PrepareTombstoneMarker` ... `UnlinkBackupMarker` | the cleanup chain, shared by `publish` and `recover` |
| `RestoreBackup`, `UnlinkRestoredMarker` | `restore_backup_to_target` from `recover` and from a failing `publish` |
| `BuildCandidate`, `StartPublish` ... `FinishTransfer` | `build_complete_for_session`, authorization, `publish` and the custody's commit |
| `RollbackTargetToStage`, `Exit` | `rollback_target_to_stage` |
| `DiscardStage`, `RmdirStage`, `DiscardMarker` | `_abort_initial_stage`, `_discard_exact_candidate` |

Three groups of checks are merged with the call that follows them; the comments at
`FirstRepair`, `BackupVerifies` and `DeleteTombstone` say why no interleaving is
lost.  `prior` and `contended` are history: the target a failing build has to leave
behind, and the operations recovered while their own build still ran.

That a target needs `--clean` is checked twice, before the stage is made and, under
the lock, before the publication starts (`CheckTarget`, `StartPublish`).
`ReplacedOnRequest` is about the second: a build that found no target, and was not told
to clean, must not replace one that another build has put there since.

### RequestService

Steps of the event loop run from one await to the next.  A request is queued, handed
a permit, planned, prepared in a worker thread, worded (with at most one repair or
retry) and published; at each await it may be timed out (after its work cutoff) or
cancelled.  Its worker is a task of its own, shielded: it locks the connection, sets
the active deadline, alternates cutoff checks and queries, and completes later; its
two callbacks take it off the set of workers and return a retained permit.
`phase[r]` is the request's clock: before its work cutoff, in the serialization
reserve, beyond its outer deadline.  Time may pass at any moment.

The semaphore, the reset of an interrupt by the next query and the server's
shutdown signal belong to asyncio, DuckDB and uvicorn; they are marked external in
the map.

### ProviderCalls

Planning and wording follow the same policy; `Second` is the one further call of a
stage.  `left` is the remaining work time in abstract units, `reset` the time until
the provider's rate limit window resets.  Each call may be answered, refused by the
parser or the validator, fail in transport, be rate limited with or without a delay,
fail for good or time out, after any amount of time.

### ArtifactBuild

`Publication` has the names in the parent directory; here is what happens inside the
stage.  `disk` is what is in it, `reg` what the session registered, and the difference
between the two is what a failing build has to live with.  `pc` is the next call of the
driver (`builder.py`, then `bronze.py`, `silver.py`, `links.py`, `database.py`), and
`Handler` says which except or finally block an error at that call goes to.  A step
succeeds, is refused (a check on data says no) or meets a fault (a call fails), of
which there are `MaxFaults`; a fault leaves what the code had done before the call.
Where a call has several halves the fault may come between them: a report or the
manifest that fails to be written may or may not be recorded already, and its
compensation may fail too (`WriteFinal`).

| Actions | Code |
|---|---|
| `AdmitInputs`, `Initialize`, `ClaimLeaves`, `OpenOrderStore` | `build_verified_candidate_stage`, `ArtifactBuildSession`, `claim_parquet_leaf` |
| `OpenWriter` ... `ExtendSet` | `ParquetBatchWriter`, `verify_staged_parquet_table`, `StagedParquetSet.extend_verified` |
| `IssueCustody` ... `CloseCustody` | `SilverArtifactEmitter.finalize`, the exact link candidate store |
| `OpenWorkspace` ... `SealDatabase` | `_ManagedDatabaseBuild` and `_OwnedDatabaseLeaf` |
| `WriteFinal`, `TransferStage`, `IssueStageCustody`, `Accept` | reports, manifest, `OwnedCandidateStage`, `CandidateStageCustody` |
| `AbortCheck` ... `Release`, `DiscardCheck`, `RemoveNext` | `_abort_initial_stage`, `_discard_exact_candidate` |

### ArtifactRows

Source rows of four tables arrive one by one (`Receive`), with identifiers that parse
or not, lots of one bond that disagree, and listed products and funds that share
identifiers.  The order store keeps them in one table or in sorted runs (`spill`); the
Silver tables are drained in key order, bond parents are projected from the drained
lots, links are joined within their bounds, reports count.  Then at most one thing of
the finished set is altered (`AlterSilver`, `AlterGold`, `AlterReport`, `AlterBase`) and
the verifier counts and compares everything again.  A row's number stands for its
locator; values are the ones the rules tell apart.

### ArtifactVerification

The kernel is a fixed program (`Program`) of checks and reads in ten parts, each run once
or once for every table or report; `part`, `item` and `line` are its place.  Between any
two steps another process may rewrite a file in place, replace it, put bytes back, add a name or
move the root, `MaxChanges` times.  `used` collects the bytes judgements were based on.
One assumption is made and visible in `PutBack`: nobody restores a file between a
reading and the second digest of that same reading; the code cannot see that.

### OwnedWorkspace, SourceAdmission, Curation

`OwnedWorkspace` has the two workspaces that verifiers create in the temporary
directory: the entries with their recorded identities, their removal through tombstone
names (Parquet) or after one validation (runtime), and a second process that replaces
entries, takes tombstone names and adds files.  An entry of the runtime workspace is
made before it is recorded (`MakeRuntime`), so copy or spill directory may be there and
be nobody's; a Parquet workspace may come to its cleanup with its spill files never
listed, which then looks at none of them.  After the root is unlinked the parent is
compared and closed once more (`CloseParent`); a failure of that is a failure of the
cleanup although nothing is left, so `CleanupHonest` asks of a failed cleanup that all
is gone or the root is there, and of its retained state that it is right.  `SourceAdmission` has the two ways
`admit_official_archive.py` replaces source material, their rollbacks, control-C, a kill
and a second run.  `Curation` follows a batch of questions through two approvals to the
suites; reviewers, hand edits and kills are actions of the environment.  A reference
case is the parts that `_build_case` compares.  Only intent, types, date, grain and
scope of a plan are compared with its trace, so an edit of the plan's other fields that
keeps them well formed is stopped by the approval of the packet's checksum alone.

### Answering

A catalogue is a set of products with a number or nothing for each of six fields; the
fields stand for the registry (a metric of one type, a metric of two, one with a
currency and a recorded zero, two fields that are no metrics and the flag `saleable`).
A plan has the fields of `QueryPlan`.  One action per stage of `_answer_plan`; each may refuse with the
code's reason, and the deadline may pass between two of them.  The variables hold what
one stage hands to the next: `resolved`, `segments`, `raw`, `policy`, `evidence`,
`claims`.  `AnswerTrue` compares the claims with `Matches`, `Qualifies`, `Counts`,
`PeersOf` and, for what has to be shown, `Displayed`, which are stated over catalogue and plan alone and know nothing of segments,
partitions or bounds.

A product that only its state excludes is in the bundle when the plan asks for such
(`SourceLens`).  The renderer keeps those products out of the ordinary values that have a
source-recorded summary, and the evidence builder issues one for the metrics of the plan
that the row has.  So a compared bond without any of them is stated like any other
product (`SourceStated`); that a metric which the row's type lacks gets no summary is what
`tests/unit/evidence/test_builder.py:2571` asserts.  The reference says the same: `ValuesTrue` admits a product of another state among the
ordinary values only if the plan names metrics and its type has none of them.  The
aggregate of a source summary is taken over all rows that match and have the value, in
whatever currency, which is what it is compared with.

## 3. Runs

| Run | Bounds | Shows |
|---|---|---|
| `publication_safety` | 3 builds, 2 faults, 1 crash, symmetry | `TargetNeverTorn`, `OneStage`, `RemnantsClosed`, `FailureRestoresTarget`, `RecoveredBeforePublish`, `DurableStays`, `ReplacedOnRequest`, `RefinesStore` |
| `publication_liveness` | 2 builds, 2 faults, 1 crash | `LockReleased`, `RecoveryCompletes` |
| `publication_overlap` | 2 builds, no fault, no crash | violates `RemnantsAlwaysClosed` |
| `publication_torn_tombstone` | 2 builds, 1 crash | violates `ResumesPartialTombstone` |
| `publication_orphan` | 2 builds, 1 crash | violates `AbsentTargetRestored` |
| `request_safety` | 3 requests, 2 permits, 1 query, symmetry | `PermitsConserved`, `WorkersBounded`, `InterruptIsOwn`, `SessionOutlivesWorkers`, `NoCallAfterCutoff` |
| `request_liveness` | 2 requests, 1 permit, 2 queries | `RequestEnds`, `PermitReturns`, `DrainCompletes` |
| `provider_calls` | 8 units of time | `RepairOrRetry`, `SummaryFits`, `CallsInTime` |
| `artifact_build` | layers of 2, 1 and 2 tables, 3 faults | `CandidateComplete`, `RefusalLeavesNothing`, `StampFresh`, `ResidueReported`, `AmbiguousStageKept`, `BuildEnds` |
| `owned_files` | workspaces: 2 spill files, 2 intrusions, 2 faults; admission: 3 troubles; curation: 2 batches and the organizer's, 3 questions, 2 categories, 1 packet edited by hand, 1 stop; symmetry | `ForeignKept`, `CleanupHonest`, `OutcomeHonest`, `SuitesSound` |
| `data_pipeline` | 4 rows of 13 kinds; 4 files and 2 changes; catalogues of up to 4 of 13 products, 64 plans | `RowsAccounted`, `LinksExact`, `VerifierExact`, `VerdictSound`, `AnswerTrue` |
| `answering_names` | the same catalogues and plans | violates `NamesOfEachAnswered` |

Why the bounds are enough.  Three builds are one that left remnants, one that
recovers them and one that overlaps either; the lock keeps a fourth out.  Two faults
are a failing call and a failing compensation.  Three requests for two permits give
a holder, a detached worker and a waiter at once.  Eight units let both stages wait
for a rate limit and retry, with time equal to a delay as well as above and below
it.  The queries of a worker matter only for the gaps between them: `request_safety`
has the gap before the query, `request_liveness` also the one between two.

Three faults in a build are a failing call, a failing cleanup and a failing handler of
that; a layer of two tables beside one of a single table gives writers that are and are
not the last of their layer.  Two intrusions are a replaced entry and a taken tombstone
name.  Four rows are two conflicting lots or two rows of one key with a link between two
other sources; links, groups and batches are bounded by 2, so four rows go past each of
them.  Four products with limits of 3 candidates, 5 fields, 3 records, 9 values,
14 summaries and 7 claims go past, reach and stay below every limit, and the pool has ties, a recorded zero, missing
and untrusted values, two currencies, shared identifiers and names and all states of
holding coverage.  The plans are those whose stages differ: each intent, scope, kind of
filter and of sort, one type and several in either order, targets by type, groups by one
field and by two, holdings, and a comparison over two types whose metric only one has.

Deadlock is checked in `artifact_build`, which ends in a state that repeats.  It is not
checked elsewhere: builds, requests, rows, plans and troubles are finite in number, so
every other run ends in a state where all are done.

Fairness.  A started build keeps taking steps (it runs straight-line code on a
scheduled process) unless it dies; nothing obliges an operator to start one.  In the
server the event loop runs its timers and callbacks, threads run and queries end, and
time passes; clients, planner and provider are never assumed to do anything, so
`RequestEnds` rests on `wait_for`.  In `ArtifactBuild` the builder is one synchronous program
and takes its next step; nothing is assumed of whoever changes an input.

### Where the code differs from its documents

The first three are about
`docs/superpowers/specs/2026-08-14-phase1-task5-artifact-build-design.md`; none of
them loses the last good generation (`DurableStays` holds in all of these states).

1. `_finish_publication_transfer` releases the lock before the publisher cleans up,
   so a second build recovers the same names beside it.  The document's closed
   remnant state machine is left: a tombstone marker may remain alone, and
   `remnant_state` refuses it from then on.
2. A tombstone that a crash left half deleted is verified as a whole artifact and so
   refused, where the document has the deletion resumed.
3. The orphan check precedes recovery, so a publisher that died between its two
   renames blocks the restoration of its backup by its own stage.
4. `tests/golden/seed_cases.jsonl` (SEED-POLICY-013) lists the products of three types
   by name, three of each.  `EvidenceBuilder.build` wants a metric for every type
   without a metric partition, and a rank by name has none, so the plan is refused for
   every catalogue.

## 4. Proofs

TLAPS checks every theorem below for all values of the constants; what is assumed of
them is named at each module and evaluated by TLC on the instances of the runs.

| Module | Theorems (property) | Inductive invariant | Assumed of the constants |
|---|---|---|---|
| `PublicationProofs` | `TypeCorrect` (`TypeOK`), `Custody`, `TargetStaysWhole` (`TargetNeverTorn`), `SingleStage` (`OneStage`), `DurableCopy` (`DurableStays`), `Refinement` (`RefinesStore`) | `CustodyInv` | `ConstantsAssumption`: the sentinels are no builds, the bounds are numbers |
| | `TargetReplacedOnRequest` (`ReplacedOnRequest`) | `CustodyInv`, `RequestInv` | the same |
| | `RemnantCustody`, `RemnantsAreClosed` (`RemnantsClosed`), `FailureIsRestored` (`FailureRestoresTarget`), `PublishMeetsOwnNames` (`RecoveredBeforePublish`) | `RemnantInv` | the same |
| `RequestServiceProofs` | `Service`, `ServiceTypes` (`TypeOK`), `PermitsAreConserved` (`PermitsConserved`), `WorkersAreBounded` (`WorkersBounded`), `InterruptsAreOwn` (`InterruptIsOwn`), `SessionIsSafe` (`SessionOutlivesWorkers`), `CutoffIsKept` (`NoCallAfterCutoff`) | `ServiceInv` | `ServiceAssumption`: finitely many requests, a permit at least |
| `ProviderCallsProofs` | `Calls`, `CallTypes` (`TypeOK`), `RepairExcludesRetry` (`RepairOrRetry`), `SummaryIsAccepted` (`SummaryFits`), `CallsAreInTime` (`CallsInTime`) | `CallsInv` | `CallsAssumption`: some time |
| `ArtifactBuildProofs` | `Building`, `BuildTyped` (`TypeOK`), `CandidatesAreComplete` (`CandidateComplete`), `RefusalsLeaveNothing` (`RefusalLeavesNothing`), `StampsAreFresh` (`StampFresh`), `ResidueIsReported` (`ResidueReported`), `AmbiguousStagesAreKept` (`AmbiguousStageKept`) | `BuildInv` | `BuildAssumption`: three layers, none empty, no table twice, no table named like another name of the stage |
| `OwnedFilesProofs` | `Workspace`, `CleanupIsHonest` (`CleanupHonest`), `ForeignIsKept` (`ForeignKept`); `Admission`, `OutcomeIsHonest` (`OutcomeHonest`); `Promotions`, `SuitesAreSound` (`SuitesSound`) | `WorkspaceInv`; `AdmissionInv`; `CurationInv` | `WorkspaceAssumption`: spill names are distinct; `AdmissionAssumption`; `CurationAssumption`: the organizer's batch is none of the others, no category twice |
| `ArtifactVerificationProofs` | `Verification`, `VerdictsAreSound` (`VerdictSound`) | `KernelInv` | `VerificationAssumption`: no file declared twice or named like the manifest or the copy, two tables and a report at least |
| `ArtifactRowsProofs` | `RowsKept`, `RowsAreAccounted` (`RowsAccounted`), `LinksAreExact` (`LinksExact`), `VerifierIsExact` (`VerifierExact`) | `RowsInv` | `RowsAssumption`: rows of the four sources, bounds that are numbers, a batch of one row at least |
| `AnsweringProofs` | `AnswerKeeps`, `AnswersAreTrue` (`AnswerTrue`) | `AnswerInv` | `AnsweringAssumption`: limits are numbers, every plan passes the validators of `QueryPlan` (`Legal`), every catalogue is finite and keyed by type and identifier (`Catalogue`) |

Each module has one lemma per action and in it one step per conjunct that the action
can disturb.  Why the invariants are as large as they are:

**`CustodyInv`.**  That the target is whole depends on what is renamed to it: the stage
(`AcceptedInv`: whole from its acceptance to the rename) or a backup (`BackupInv`).  A
backup is whole because it was the target, and it is the *only* one because a build
scans for remnants first (`KnownBackupInv`) while no other build can create one
(`LockInv`: the lock is held exactly by the build whose next call needs it).
`RenameBackupToTombstone` runs without the lock in a publisher; that the target it
relies on stays committed meanwhile needs `ChainInv` with `Settled`, which no later step
undoes, and `FreshInv`: a generation nobody started to publish is nowhere.  `StageInv`,
`MarkerInv` and `CommitInv` tell a target that may still be withdrawn from a committed
one.  The refinement rests on a lemma that only five calls move a directory to or from the
target or a backup; each of them is an operation of the store.  `RequestInv` adds that
only a build with `--clean` comes to set a target aside; with the lock, which says whose
target a rollback takes back, every change of an existing target is one of these.

**`RemnantInv`** adds three parts.  `TombInv` does for tombstones what `KnownBackupInv`
does for backups.  `PriorInv` follows the target that a failing build owes: in place, or
in that build's own backup.  `ShapeInv` says which marker covers which name between any
two calls, for the operations that only one build at a time has worked on; it needs to
know that a build which recovers another's names does so after the other's end.  The
overlap that breaks this is the first finding of section 3.

**`ServiceInv`.**  A permit is in the counter, with a coroutine, or owed by the worker of
a coroutine that is gone.  A release that raises the counter and one that hands the
permit to the first waiter must come to the same sum, so the waiters have to be exactly
the queued coroutines, each of them once (`QueueInv`), and an owed permit has to belong
to a coroutine that no longer holds one (`OwedInv`).  `TaskInv` ties a worker's task, its
thread and its registration together; `WorkersBounded` and `SessionOutlivesWorkers`
follow from it by counting.  `DatabaseInv` is why an interrupt meets its own query: the
active deadline is that of the thread inside the lock.

**`CallsInv`** ties the await to the calls made so far (`FirstInv`), the failures counted
to both (`AttemptInv`; `PlannerAttemptSummary` validates their sum) and the rate limit
window to the only await that waits for it (`WindowInv`).

**`BuildInv`.**  `CandidateComplete` is about the end of a long program in which each call
may fail and each cleanup too.  Three parts describe the way forward: what the place of
the program implies (`PhaseInv`), that nothing made is forgotten while there is no error
(`ForwardInv`), and who holds the stage (`HolderInv`).  Three describe a build without
failing calls: the registry is the disk (`InventoryInv`), a working name has a live owner
(`WorkingInv`), a cleanup that ended has removed everything (`LeftoverInv`); without them
a refusal could not be shown to leave nothing.  `RemovalInv` says that a removal starts
from a stage that was recognised and keeps it so, which is `AmbiguousStageKept` from the
inside.

**`WorkspaceInv`.**  A removal is right because the entry whose turn it is has been
compared with its recorded identity under the tombstone name (`TodoInv`), which is free
of the owner's entries until then (`OwnedInv`); the root is the last of them, so it is
there until the whole workspace is gone, which stays so when the last look at the parent
fails (`RootInv`); `MarkInv` is the report of a cleanup that gave up.  **`AdmissionInv`** follows the four groups of paths through the two programs and
their rollbacks: what is active and what is saved after each call.  **`CurationInv`** has
the files on disk (`DiskInv`) and those a promotion is about to write (`JobInv`) sound and
apart at once, and, without a failure, every half-written suite accounted for by the
promotion that runs (`WholeInv`).

**`KernelInv`.**  The verdict is about everything that has run, so the invariant says what
has run at each place of the program (`PlaceInv`).  A reading of other bytes than the
declared ones stays visible in its file until a check that is still to come
(`TaintInv`; here the assumption in `PutBack` is used).  And every comparison that would
refuse an unsound file is still to come, unless a changed reading hid the fault
(`JudgeInv`).  At the end nothing is to come: an accepted artifact has neither.

**`RowsInv`.**  `StoreInv` says what each relation of the order store owes to the rows
received so far, `TablesInv` that a drained table is its relation in order, `MadeInv` what
was made of the tables.  The sort is defined by positions; that it loses and repeats
nothing needs the keys with their arrival to be a strict total order on a finite set, and
a row for every position, which the least-number principle gives (`WFMin` of the library:
no induction over data).  The issues of bond parents are staged while the lots are
drained, so `QualityStaged` counts them only from then on; that the quality table is
drained after the bonds is what `RowsAccounted` rests on.  `AlteredInv` is the verifier's
side: an alteration shows in the reports or in the database.  The hard case is a database
row: the counts agree, so some row of the tables is missing in it or there too often, that
row lies in one of the batches `k * Batch + 1 .. (k + 1) * Batch`, and the join by the unique
key between the bounds of that batch finds it there.

**`AnswerInv`** says that what every stage has handed on is still the function of plan and
catalogue that the stage computes, and which refusals are past (`ValidPlan`,
`OnePartition`, `OneScale`, the record limit).  It is preserved almost by inspection; the
work is in the step from there to `AnswerTrue`, because the reference knows no segments,
partitions or bounds:

- the rows that a segment selects are the products that match, and a product is found
  again from type and identifier alone (`Catalogue`);
- values and products that count correspond one to one within a partition, so ranks and
  ties counted over values are those counted over products; a global scope has one
  partition (`OneScale`), so both mean the same set, and within a partition there is one
  direction, that of the first sort by its metric;
- a rank within `top_k` is stated or "cut" is: a place beyond `top_k` among equal values
  is what the bounded ranks lose;
- a product that qualifies is shown if all of them fit into `top_k`: the products before
  it in the sort are fewer than all;
- an aggregate is taken over exactly the values of the products that count, and a source
  aggregate over those of the products that match;
- a record outside the products that count is one the lens added, and it is a source
  record unless its type has none of the plan's metrics.

Two things the proofs found in the models.  A rank by a metric that the plan only filters
by (a missing or present value) is refused, and of several sorts by one metric the first
decides the direction; both are now as in `PolicyEngine.apply`.

Model-checked only:

- Liveness: `LockReleased`, `RecoveryCompletes`, `RequestEnds`, `PermitReturns`,
  `DrainCompletes`, `BuildEnds`.  Fairness is out of the prover's reach.
- The four properties that the code violates: a counterexample is an instance.

## 5. Not modelled

- Encodings: JSON, Parquet columns, SQL text, canonical serialization, hashes; cell
  parsing, dates and decimals of the normalisers, the streaming XLSX reader.
- Wording: prompts, provider schemas, templates, the text of claims and limitations,
  the numeric comparison of a worded answer with its claims.
- File identity in `Publication` is one outcome (verifies or not): nobody outside the
  builds is assumed to change that directory, and a rename is durable when it returns.
  `ArtifactVerification` and `OwnedWorkspace` drop that assumption for what they read
  and remove.
- The thread pool behind `asyncio.to_thread`; a full pool is a worker that has not
  locked yet.  Log records and latency counters.
- Evaluation: scores, the runner's resume, load and soak drivers, the command line.
- Two promotions at once: the tools take no lock and the model runs one at a time.

Some refusals are modelled and no property speaks about them, because nothing in the
repository says whether the plan should be answered: a per-type rank with a second
metric it does not sort by, a global sort with a type that lacks the field (both end in
`StopIteration`), a type order in which the sort field is looked up for a type that has
none, a nameless product, more fields, direct values or summaries than the repository or
an evidence bundle admits.  The refusal of a holding record that does not show the holding
asked for is a defence: the rows were selected by it, so no loaded catalogue meets it.  Nor is it
stated what a filter means for a type without its field (the code drops it), or which
product an identifier of two products means (the first in the plan's order); the
reference of `AnswerTrue` follows the code in both.

## 6. Plan

1. `RuntimeSession`: a server that opens the artifact while a build publishes, composed
   with `Publication` through `ArtifactStore`.
2. The evaluation runner with its resumption, the load and soak drivers.
