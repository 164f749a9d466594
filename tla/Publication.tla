---------------------------- MODULE Publication ----------------------------
(* Publication of an artifact generation: data/artifacts/publication.py, the
   stage custody of data/artifacts/staging.py and the call sequence of
   data/artifacts/builder.py.

   A build is one `finproof build-data` process.  It owns one operation id, so
   every private name (.<target>.finproof-{stage,backup,cleanup}-<id> and the
   .marker beside each) is a function of the build.  One step of a build is one
   system call that changes the parent directory, or one run of checks between
   two such calls; between its steps other builds run, and at any of them the
   process may crash or the call may fail.                                   *)
EXTENDS Integers

CONSTANTS Builds,     \* build-data processes, each run at most once
          Old,        \* the generation found in the target at the start
          None,       \* no directory, no lock holder, no operation
          MaxFaults,  \* bound: system calls or verifications that fail
          MaxCrashes  \* bound: processes that die

ASSUME ConstantsAssumption ==
    /\ Old \notin Builds /\ None \notin Builds /\ Old # None
    /\ MaxFaults \in Nat /\ MaxCrashes \in Nat

VARIABLES
    target,        \* the published directory, read by every other command
    stage,         \* build -> its private stage directory
    backup,        \* build -> the old target it set aside
    tomb,          \* build -> a backup renamed for deletion
    stageMarker,   \* build -> whether the stage marker exists
    backupMarker,  \* build -> its backup marker file
    tombMarker,    \* build -> its tombstone marker file
    lock,          \* the build holding the advisory flock
    pc,            \* build -> the next call it makes
    op,            \* build -> the operation whose names it works on
    clean,         \* build -> its --clean option
    result,        \* build -> how it ended, decided at the first error
    prior,         \* build -> the target it must restore when it fails
    contended,     \* operations recovered while their own build still ran
    faults, crashes

dirs    == <<target, stage, backup, tomb>>
markers == <<stageMarker, backupMarker, tombMarker>>
fixed   == <<clean, crashes>>
vars    == <<dirs, markers, lock, pc, op, result, prior, contended, faults, fixed>>

-----------------------------------------------------------------------------
(* Directories.  A directory is known by the generation whose bytes it holds
   and by whether all of them are there: _verify_named_artifact accepts exactly
   the whole ones.  (Every whole generation equals the packaged contract, so
   the comparison with `_expected` tells no two of them apart.)              *)

Gens       == Builds \cup {Old}
Dir        == [gen : Gens \cup {None}, whole : BOOLEAN]
Absent     == [gen |-> None, whole |-> FALSE]
Whole(g)   == [gen |-> g, whole |-> TRUE]
Partial(g) == [gen |-> g, whole |-> FALSE]
Exists(d)  == d.gen # None

\* A marker file: not there, created but not completely written, complete.
Marker == {"none", "torn", "good"}

(* The four names of operation o that may outlive its build. *)
HasRemnant(o) == \/ Exists(backup[o]) \/ Exists(tomb[o])
                 \/ backupMarker[o] # "none" \/ tombMarker[o] # "none"

Remnants == {o \in Builds : HasRemnant(o)}

\* _reject_ambiguous_orphan_stage: any name with the stage prefix.
HasStage(o) == Exists(stage[o]) \/ stageMarker[o]

\* The names of operation o that remnant_state finds.
Shape(o) == {n \in {"backup", "tombstone", "backup_marker", "tombstone_marker"} :
                CASE n = "backup"           -> Exists(backup[o])
                  [] n = "tombstone"        -> Exists(tomb[o])
                  [] n = "backup_marker"    -> backupMarker[o] # "none"
                  [] n = "tombstone_marker" -> tombMarker[o] # "none"}

BackupWithMarker   == {"backup", "backup_marker"}
BackupWithPrepared == {"backup", "backup_marker", "tombstone_marker"}
TombstoneWithBoth  == {"tombstone", "backup_marker", "tombstone_marker"}
BothMarkersOnly    == {"backup_marker", "tombstone_marker"}
BackupMarkerOnly   == {"backup_marker"}
NoRemnant          == {}

ClosedShapes == {BackupWithMarker, BackupWithPrepared, TombstoneWithBoth,
                 BothMarkersOnly, BackupMarkerOnly}

\* remnant_state: a recognized shape whose directories and markers all verify.
RemnantVerifies(o) ==
    /\ Shape(o) \in ClosedShapes
    /\ backupMarker[o] # "torn" /\ tombMarker[o] # "torn"
    /\ Exists(backup[o]) => backup[o].whole
    /\ Exists(tomb[o])   => tomb[o].whole

\* A build works on another operation's names only while it recovers them.
Recovering(b) == op[b] # b

Running(b) == pc[b] \notin {"start", "done", "dead"}

Goto(b, l)     == pc' = [pc EXCEPT ![b] = l]
Set(f, b, v)   == [f EXCEPT ![b] = v]
NoFault        == UNCHANGED faults
Fault          == faults < MaxFaults /\ faults' = faults + 1
\* A check raises because it does not hold, or because the call itself fails.
Raises(check)  == Fault \/ (~check /\ NoFault)

\* The first error decides what the build reports.
Report(b, r)   == result' = Set(result, b, r)

Init ==
    /\ target \in {Absent, Whole(Old), Partial(Old)}
    /\ stage  = [b \in Builds |-> Absent]
    /\ backup = [b \in Builds |-> Absent]
    /\ tomb   = [b \in Builds |-> Absent]
    /\ stageMarker  = [b \in Builds |-> FALSE]
    /\ backupMarker = [b \in Builds |-> "none"]
    /\ tombMarker   = [b \in Builds |-> "none"]
    /\ lock = None
    /\ pc = [b \in Builds |-> "start"]
    /\ op = [b \in Builds |-> None]
    /\ clean \in [Builds -> BOOLEAN]
    /\ result = [b \in Builds |-> "none"]
    /\ prior = [b \in Builds |-> Absent]
    /\ contended = {}
    /\ faults = 0 /\ crashes = 0

-----------------------------------------------------------------------------
(* _initialize_session *)

\* Before the lock: an existing target needs --clean.
CheckTarget(b) ==
    /\ pc[b] = "start"
    /\ IF Exists(target) /\ ~clean[b]
       THEN Goto(b, "done") /\ Report(b, "failed")
       ELSE Goto(b, "flock") /\ UNCHANGED result
    /\ UNCHANGED <<dirs, markers, lock, op, prior, contended, faults, fixed>>

\* Mutant: the lock is taken without _reject_ambiguous_orphan_stage.
AcquireLockBesideOrphan(b) ==
    /\ pc[b] = "flock" /\ lock = None
    /\ Goto(b, "mkdir_stage") /\ lock' = b /\ prior' = Set(prior, b, target)
    /\ UNCHANGED <<dirs, markers, op, result, contended, faults, fixed>>

\* flock(LOCK_EX | LOCK_NB), then the orphan check: LOCK_HELD and
\* UNRECOGNIZED_ORPHAN_STAGE both end the build without touching a name.
AcquireLock(b) ==
    /\ pc[b] = "flock"
    /\ IF lock # None \/ (\E o \in Builds : HasStage(o))
       THEN /\ Goto(b, "done") /\ Report(b, "failed")
            /\ UNCHANGED <<lock, prior>>
       ELSE /\ Goto(b, "mkdir_stage") /\ UNCHANGED result
            /\ lock' = b
            /\ prior' = Set(prior, b, target)
    /\ UNCHANGED <<dirs, markers, op, contended, faults, fixed>>

\* mkdir stage, mkdir stage/parquet.  Whatever fails from here to the end of
\* _initialize_session removes both names (best effort) and unlocks.
MakeStage(b) ==
    /\ pc[b] = "mkdir_stage"
    /\ stage' = Set(stage, b, Partial(b))
    /\ Goto(b, "stage_marker")
    /\ NoFault
    /\ UNCHANGED <<target, backup, tomb, markers, lock, op, result, prior, contended, fixed>>

MakeStageMarker(b) ==
    /\ pc[b] = "stage_marker"
    /\ stageMarker' = Set(stageMarker, b, TRUE)
    /\ Goto(b, "scan")
    /\ NoFault
    /\ UNCHANGED <<dirs, backupMarker, tombMarker, lock, op, result, prior, contended, fixed>>

InitializeFails(b) ==
    /\ pc[b] \in {"mkdir_stage", "stage_marker"}
    /\ Fault
    /\ \E d \in {stage[b], Absent} : stage' = Set(stage, b, d)
    /\ \E left \in BOOLEAN : /\ left => pc[b] = "stage_marker"
                             /\ stageMarker' = Set(stageMarker, b, left)
    /\ lock' = None
    /\ Goto(b, "done") /\ Report(b, "failed")
    /\ UNCHANGED <<target, backup, tomb, backupMarker, tombMarker, op, prior, contended, fixed>>

-----------------------------------------------------------------------------
(* Leaving with an error.  Under the lock every error ends in the removal of
   the build's own stage (_abort_initial_stage, _discard_exact_candidate); a
   publisher past its commit has no stage and no lock left.                  *)

Abandon(b, r) == Goto(b, "discard_stage") /\ Report(b, r)

CleanupFailed(b) == Goto(b, "done") /\ Report(b, "cleanup_failed")

ChainRaises(b, check) ==
    /\ Raises(check)
    /\ IF Recovering(b) THEN Abandon(b, "failed") ELSE CleanupFailed(b)

-----------------------------------------------------------------------------
(* recover_owned_remnants *)

\* Mutant: remnants are looked for only when the target is absent.
ScanOnlyWithoutTarget(b) ==
    /\ pc[b] = "scan"
    /\ Goto(b, "build") /\ NoFault
    /\ UNCHANGED <<dirs, markers, lock, op, result, prior, contended, fixed>>

\* _remnant_operation_id: at most one operation may have left names behind.
ScanRemnants(b) ==
    /\ pc[b] = "scan"
    /\ \/ /\ Remnants = {}
          /\ Goto(b, "build") /\ NoFault
          /\ UNCHANGED <<op, result, contended>>
       \/ \E o \in Remnants :
            /\ Remnants = {o}
            /\ Goto(b, "observe") /\ NoFault
            /\ op' = Set(op, b, o)
            /\ contended' = IF Running(o) THEN contended \cup {o} ELSE contended
            /\ UNCHANGED result
       \/ /\ Raises(\A o, q \in Remnants : o = q)
          /\ Abandon(b, "failed")
          /\ UNCHANGED <<op, contended>>
    /\ UNCHANGED <<dirs, markers, lock, prior, fixed>>

\* Mutant: the state's name is taken for the operation to run.
FirstRepairByState(o) == "tombstone_with_both_markers"

\* recover up to its first change of a name: remnant_state, target_exists and
\* verify_target.  (The four stats are one step: a mixture of old and new names
\* is no closed shape or fails the check that precedes the next change.)
FirstRepair(o) ==
    CASE Shape(o) = BackupWithMarker   -> "prepare_tombstone_marker"
      [] Shape(o) = BackupWithPrepared -> "rename_backup_to_tombstone"
      [] Shape(o) = TombstoneWithBoth  -> "delete_tombstone"
      [] Shape(o) = BothMarkersOnly    -> "unlink_tombstone_marker"
      [] Shape(o) = BackupMarkerOnly   -> "unlink_backup_marker"

FirstRestore(o) == IF Shape(o) = BackupWithPrepared
                   THEN "unprepare_tombstone" ELSE "restore_backup"

CanRecover(o) ==
    /\ RemnantVerifies(o)
    /\ IF Exists(target) THEN target.whole ELSE Exists(backup[o])

\* Mutant: recover continues the cleanup chain without looking at the target.
ObserveIgnoringTarget(b) ==
    /\ pc[b] = "observe" /\ RemnantVerifies(op[b])
    /\ Goto(b, FirstRepair(op[b])) /\ NoFault
    /\ UNCHANGED <<dirs, markers, lock, op, result, prior, contended, fixed>>

ObserveRemnants(b) ==
    /\ pc[b] = "observe"
    /\ \/ /\ CanRecover(op[b])
          /\ Goto(b, IF Exists(target) THEN FirstRepair(op[b]) ELSE FirstRestore(op[b]))
          /\ NoFault
          /\ UNCHANGED result
       \/ Raises(CanRecover(op[b])) /\ Abandon(b, "failed")
    /\ UNCHANGED <<dirs, markers, lock, op, prior, contended, fixed>>

-----------------------------------------------------------------------------
(* The cleanup chain, run by a publisher after its commit (op[b] = b, the lock
   already released) and by a recovering build (op[b] = o, the lock held).   *)

\* _create_marker: O_EXCL create, then write and fsync; an error after the
\* create unlinks the file, and that unlink may fail too.
PrepareTombstoneMarker(b) ==
    /\ pc[b] = "prepare_tombstone_marker"
    /\ LET o == op[b] IN
       \/ /\ tombMarker[o] = "none"
          /\ tombMarker' = Set(tombMarker, o, "torn")
          /\ Goto(b, "write_tombstone_marker") /\ NoFault /\ UNCHANGED result
       \/ ChainRaises(b, tombMarker[o] = "none") /\ UNCHANGED tombMarker
    /\ UNCHANGED <<dirs, stageMarker, backupMarker, lock, op, prior, contended, fixed>>

WriteTombstoneMarker(b) ==
    /\ pc[b] = "write_tombstone_marker"
    /\ LET o == op[b] IN
       \/ /\ tombMarker' = IF tombMarker[o] = "torn" THEN Set(tombMarker, o, "good")
                          ELSE tombMarker
          /\ Goto(b, "rename_backup_to_tombstone") /\ NoFault /\ UNCHANGED result
       \/ /\ ChainRaises(b, TRUE)
          /\ \E m \in {"none", tombMarker[o]} : tombMarker' = Set(tombMarker, o, m)
    /\ UNCHANGED <<dirs, stageMarker, backupMarker, lock, op, prior, contended, fixed>>

\* verify_backup, the tombstone marker, and the rename.  The three are one step:
\* a backup still there at the rename has not been touched since it verified.
BackupVerifies(o) ==
    backupMarker[o] = "good" /\ Exists(backup[o]) /\ backup[o].whole

RenameBackupToTombstone(b) ==
    /\ pc[b] = "rename_backup_to_tombstone"
    /\ LET o  == op[b]
           ok == BackupVerifies(o) /\ tombMarker[o] = "good" /\ ~Exists(tomb[o]) IN
       \/ /\ ok
          /\ tomb' = Set(tomb, o, backup[o])
          /\ backup' = Set(backup, o, Absent)
          /\ Goto(b, "delete_tombstone") /\ NoFault /\ UNCHANGED result
       \/ ChainRaises(b, ok) /\ UNCHANGED <<backup, tomb>>
    /\ UNCHANGED <<target, stage, markers, lock, op, prior, contended, fixed>>

\* delete_tombstone: the checks, then one unlink after another, then the rmdir.
\* Of two builds that passed the checks, the one that comes second to the first
\* leaf fails there, so a whole directory has at most one deleter.
DeleteTombstone(b) ==
    /\ pc[b] = "delete_tombstone"
    /\ LET o  == op[b]
           ok == /\ Exists(tomb[o]) /\ tomb[o].whole
                 /\ backupMarker[o] = "good" /\ tombMarker[o] = "good" IN
       \/ ok /\ Goto(b, "unlink_leaves") /\ NoFault /\ UNCHANGED result
       \/ ChainRaises(b, ok)
    /\ UNCHANGED <<dirs, markers, lock, op, prior, contended, fixed>>

UnlinkLeaves(b) ==
    /\ pc[b] = "unlink_leaves"
    /\ LET o  == op[b]
           ok == Exists(tomb[o]) /\ tomb[o].whole IN
       \/ /\ ok
          /\ tomb' = Set(tomb, o, Partial(tomb[o].gen))
          /\ Goto(b, "rmdir_tombstone") /\ NoFault /\ UNCHANGED result
       \/ ChainRaises(b, ok) /\ UNCHANGED tomb
    /\ UNCHANGED <<target, stage, backup, markers, lock, op, prior, contended, fixed>>

\* Mutant: the deletion of the directory is taken for the end of its marker too.
RmdirForgetsMarker(b) ==
    /\ pc[b] = "rmdir_tombstone"
    /\ tomb' = Set(tomb, op[b], Absent)
    /\ Goto(b, "unlink_backup_marker") /\ NoFault
    /\ UNCHANGED <<target, stage, backup, markers, lock, op, result, prior, contended, fixed>>

RmdirTombstone(b) ==
    /\ pc[b] = "rmdir_tombstone"
    /\ \/ /\ tomb' = Set(tomb, op[b], Absent)
          /\ Goto(b, "unlink_tombstone_marker") /\ NoFault /\ UNCHANGED result
       \/ ChainRaises(b, TRUE) /\ UNCHANGED tomb
    /\ UNCHANGED <<target, stage, backup, markers, lock, op, prior, contended, fixed>>

\* Mutant: the two markers are unlinked in the opposite order.
UnlinkMarkersSwapped(b) ==
    /\ pc[b] = "unlink_tombstone_marker"
    /\ backupMarker' = Set(backupMarker, op[b], "none")
    /\ Goto(b, "unlink_backup_marker") /\ NoFault
    /\ UNCHANGED <<dirs, stageMarker, tombMarker, lock, op, result, prior, contended, fixed>>

\* The marker of a deleted tombstone, or, before the backup goes back to an absent
\* target, one that was only prepared.  (The second does not happen while only
\* builds change the directory: markers are prepared beside a committed target.)
UnlinkTombstoneMarker(b) ==
    /\ pc[b] \in {"unlink_tombstone_marker", "unprepare_tombstone"}
    /\ LET o == op[b] IN
       \/ /\ tombMarker[o] = "good"
          /\ tombMarker' = Set(tombMarker, o, "none")
          /\ Goto(b, IF pc[b] = "unprepare_tombstone" THEN "restore_backup"
                     ELSE "unlink_backup_marker")
          /\ NoFault /\ UNCHANGED result
       \/ ChainRaises(b, tombMarker[o] = "good") /\ UNCHANGED tombMarker
    /\ UNCHANGED <<dirs, stageMarker, backupMarker, lock, op, prior, contended, fixed>>

\* The last step of the chain: a publisher is done, a recovering build goes on.
UnlinkBackupMarker(b) ==
    /\ pc[b] = "unlink_backup_marker"
    /\ LET o == op[b] IN
       \/ /\ backupMarker[o] = "good"
          /\ backupMarker' = Set(backupMarker, o, "none")
          /\ IF Recovering(b) THEN Goto(b, "build") /\ UNCHANGED result
             ELSE Goto(b, "done") /\ Report(b, "published")
          /\ NoFault
       \/ ChainRaises(b, backupMarker[o] = "good") /\ UNCHANGED backupMarker
    /\ UNCHANGED <<dirs, stageMarker, tombMarker, lock, op, prior, contended, fixed>>

-----------------------------------------------------------------------------
(* restore_backup_to_target, called by recover and by a failing publish *)

RestoreRaises(b, check) ==
    /\ Raises(check)
    /\ Abandon(b, IF Recovering(b) THEN "failed" ELSE "rollback_failed")

RestoreBackup(b) ==
    /\ pc[b] = "restore_backup"
    /\ LET o  == op[b]
           ok == BackupVerifies(o) /\ ~Exists(target) IN
       \/ /\ ok
          /\ target' = backup[o]
          /\ backup' = Set(backup, o, Absent)
          /\ prior' = IF Recovering(b) THEN Set(prior, b, backup[o]) ELSE prior
          /\ Goto(b, "unlink_restored_marker") /\ NoFault /\ UNCHANGED result
       \/ RestoreRaises(b, ok) /\ UNCHANGED <<target, backup, prior>>
    /\ UNCHANGED <<stage, tomb, markers, lock, op, contended, fixed>>

\* verify_target, the marker, and its unlink; a failing publish then closes
\* its custody, a recovery goes on to build.
UnlinkRestoredMarker(b) ==
    /\ pc[b] = "unlink_restored_marker"
    /\ LET o  == op[b]
           ok == target.whole /\ backupMarker[o] = "good" IN
       \/ /\ ok
          /\ backupMarker' = Set(backupMarker, o, "none")
          /\ IF Recovering(b) THEN Goto(b, "build") /\ UNCHANGED result
             ELSE Abandon(b, "failed")
          /\ NoFault
       \/ RestoreRaises(b, ok) /\ UNCHANGED backupMarker
    /\ UNCHANGED <<dirs, stageMarker, tombMarker, lock, op, prior, contended, fixed>>

-----------------------------------------------------------------------------
(* The build itself and _PublicationStateMachine.publish *)

\* Mutant: the stage is handed over before its verification.
BuildUnverified(b) ==
    /\ pc[b] = "build" /\ Goto(b, "publish")
    /\ UNCHANGED <<dirs, markers, lock, op, result, prior, contended, faults, fixed>>

\* build_complete_for_session, _finalize_complete_candidate and the expected
\* verification of authorize_candidate_for_publication: a whole, accepted stage,
\* or an error that discards it.
BuildCandidate(b) ==
    /\ pc[b] = "build"
    /\ \/ /\ stage' = Set(stage, b, Whole(b))
          /\ Goto(b, "publish") /\ UNCHANGED result
       \/ Abandon(b, "failed") /\ UNCHANGED stage
    /\ UNCHANGED <<target, backup, tomb, markers, lock, op, prior, contended, faults, fixed>>

\* Mutant: --clean is asked for before the lock only.
StartPublishUnasked(b) ==
    /\ pc[b] = "publish" /\ (Exists(target) => target.whole)
    /\ op' = Set(op, b, b)
    /\ Goto(b, IF Exists(target) THEN "backup_marker" ELSE "rename_stage_to_target")
    /\ UNCHANGED <<dirs, markers, lock, result, prior, contended, faults, fixed>>

\* assert_live, target_exists, EXISTING_TARGET, recognize_target.
StartPublish(b) ==
    /\ pc[b] = "publish"
    /\ op' = Set(op, b, b)
    /\ LET ok == Exists(target) => clean[b] /\ target.whole IN
       \/ /\ ok
          /\ Goto(b, IF Exists(target) THEN "backup_marker" ELSE "rename_stage_to_target")
          /\ NoFault /\ UNCHANGED result
       \/ Raises(ok) /\ Abandon(b, "failed")
    /\ UNCHANGED <<dirs, markers, lock, prior, contended, fixed>>

\* rename_target_to_backup: recognize again, _require_operation_id, the marker.
\* The operation id is read back from the directory: the one stage with a marker.
ActiveOperation(b) == {o \in Builds : stageMarker[o]} = {b} /\ Exists(stage[b])

CreateBackupMarker(b) ==
    /\ pc[b] = "backup_marker"
    /\ LET ok == ActiveOperation(b) /\ target.whole /\ backupMarker[b] = "none" IN
       \/ /\ ok
          /\ backupMarker' = Set(backupMarker, b, "torn")
          /\ Goto(b, "write_backup_marker") /\ NoFault /\ UNCHANGED result
       \/ Raises(ok) /\ Abandon(b, "failed") /\ UNCHANGED backupMarker
    /\ UNCHANGED <<dirs, stageMarker, tombMarker, lock, op, prior, contended, fixed>>

WriteBackupMarker(b) ==
    /\ pc[b] = "write_backup_marker"
    /\ \/ /\ backupMarker' = Set(backupMarker, b, "good")
          /\ Goto(b, "rename_target_to_backup") /\ NoFault /\ UNCHANGED result
       \/ /\ Fault /\ Abandon(b, "failed")
          /\ \E m \in {"none", "torn"} : backupMarker' = Set(backupMarker, b, m)
    /\ UNCHANGED <<dirs, stageMarker, tombMarker, lock, op, prior, contended, fixed>>

\* A failed rename unlinks the marker again, which may fail as well.
RenameTargetToBackup(b) ==
    /\ pc[b] = "rename_target_to_backup"
    /\ \/ /\ backup' = Set(backup, b, target)
          /\ target' = Absent
          /\ Goto(b, "verify_backup") /\ NoFault
          /\ UNCHANGED <<backupMarker, result>>
       \/ /\ Fault /\ Abandon(b, "failed")
          /\ \E m \in {"none", "good"} : backupMarker' = Set(backupMarker, b, m)
          /\ UNCHANGED <<target, backup>>
    /\ UNCHANGED <<stage, tomb, stageMarker, tombMarker, lock, op, prior, contended, fixed>>

VerifyBackup(b) ==
    /\ pc[b] = "verify_backup"
    /\ \/ BackupVerifies(b) /\ Goto(b, "rename_stage_to_target") /\ NoFault
       \/ Raises(BackupVerifies(b)) /\ Goto(b, "restore_backup")
    /\ UNCHANGED <<dirs, markers, lock, op, result, prior, contended, fixed>>

\* had_target, after the target has been set aside.
HadTarget(b) == Exists(backup[b])

\* Mutant: a failed rename discards the stage and forgets the backup.
RenameStageNoRestore(b) ==
    /\ pc[b] = "rename_stage_to_target"
    /\ \/ /\ target' = stage[b] /\ stage' = Set(stage, b, Absent)
          /\ Goto(b, "verify_target") /\ NoFault /\ UNCHANGED result
       \/ Fault /\ Abandon(b, "failed") /\ UNCHANGED <<target, stage>>
    /\ UNCHANGED <<backup, tomb, markers, lock, op, prior, contended, fixed>>

RenameStageToTarget(b) ==
    /\ pc[b] = "rename_stage_to_target"
    /\ \/ /\ ~Exists(target)
          /\ target' = stage[b]
          /\ stage' = Set(stage, b, Absent)
          /\ Goto(b, "verify_target") /\ NoFault /\ UNCHANGED result
       \/ /\ Raises(~Exists(target))
          /\ IF HadTarget(b) THEN Goto(b, "restore_backup") /\ UNCHANGED result
             ELSE Abandon(b, "failed")
          /\ UNCHANGED <<target, stage>>
    /\ UNCHANGED <<backup, tomb, markers, lock, op, prior, contended, fixed>>

\* Mutant: the transfer is finished with the stage marker still in place.
VerifyTargetThenFinish(b) ==
    /\ pc[b] = "verify_target" /\ Goto(b, "finish_transfer") /\ NoFault
    /\ UNCHANGED <<dirs, markers, lock, op, result, prior, contended, fixed>>

VerifyTarget(b) ==
    /\ pc[b] = "verify_target"
    /\ \/ target.whole /\ Goto(b, "unlink_stage_marker") /\ NoFault
       \/ Raises(target.whole) /\ Goto(b, "rollback_target_to_stage")
    /\ UNCHANGED <<dirs, markers, lock, op, result, prior, contended, fixed>>

\* commit_after_stage_marker_removal up to the unlink.
UnlinkStageMarker(b) ==
    /\ pc[b] = "unlink_stage_marker"
    /\ LET ok == target.gen = b /\ stageMarker[b] IN
       \/ /\ ok
          /\ stageMarker' = Set(stageMarker, b, FALSE)
          /\ Goto(b, "finish_transfer") /\ NoFault
       \/ /\ Raises(ok)
          /\ Goto(b, "rollback_target_to_stage") /\ UNCHANGED stageMarker
    /\ UNCHANGED <<dirs, backupMarker, tombMarker, lock, op, result, prior, contended, fixed>>

\* _finish_publication_transfer closes the held inputs and releases the lock;
\* only then does the cleanup of the backup begin.
FinishTransfer(b) ==
    /\ pc[b] = "finish_transfer"
    /\ \/ /\ lock' = None /\ NoFault
          /\ IF HadTarget(b)
             THEN Goto(b, "prepare_tombstone_marker") /\ UNCHANGED result
             ELSE Goto(b, "done") /\ Report(b, "published")
       \/ /\ Fault /\ Goto(b, "rollback_target_to_stage")
          /\ UNCHANGED <<lock, result>>
    /\ UNCHANGED <<dirs, markers, op, prior, contended, fixed>>

\* rollback_target_to_stage.  When the rename fails the custody stays
\* TARGET_RENAMED, and its close only unlocks.  After the rename assert_live
\* wants the stage marker back: if it is gone the rollback fails, close raises
\* in turn, and the lock goes with the process.
RollbackTargetToStage(b) ==
    /\ pc[b] = "rollback_target_to_stage"
    /\ \/ /\ target.gen = b /\ NoFault
          /\ stage' = Set(stage, b, target)
          /\ target' = Absent
          /\ UNCHANGED lock
          /\ IF ~stageMarker[b]
             THEN Goto(b, "exit") /\ Report(b, "rollback_failed")
             ELSE IF HadTarget(b)
                  THEN Goto(b, "restore_backup") /\ UNCHANGED result
                  ELSE Abandon(b, "failed")
       \/ /\ Raises(target.gen = b)
          /\ lock' = None
          /\ Goto(b, "done") /\ Report(b, "rollback_failed")
          /\ UNCHANGED <<target, stage>>
    /\ UNCHANGED <<backup, tomb, markers, op, prior, contended, fixed>>

Exit(b) ==
    /\ pc[b] = "exit"
    /\ lock' = None
    /\ Goto(b, "done")
    /\ UNCHANGED <<dirs, markers, op, result, prior, contended, faults, fixed>>

-----------------------------------------------------------------------------
(* _abort_initial_stage, _discard_exact_candidate: leaves, rmdir, marker, unlock *)

DiscardStage(b) ==
    /\ pc[b] = "discard_stage"
    /\ \/ /\ stage' = Set(stage, b, Partial(b))
          /\ Goto(b, "rmdir_stage") /\ NoFault /\ UNCHANGED lock
       \/ /\ Fault /\ lock' = None /\ Goto(b, "done")
          /\ UNCHANGED stage
    /\ UNCHANGED <<target, backup, tomb, markers, op, result, prior, contended, fixed>>

RmdirStage(b) ==
    /\ pc[b] = "rmdir_stage"
    /\ \/ /\ stage' = Set(stage, b, Absent)
          /\ Goto(b, "discard_marker") /\ NoFault /\ UNCHANGED lock
       \/ /\ Fault /\ lock' = None /\ Goto(b, "done")
          /\ UNCHANGED stage
    /\ UNCHANGED <<target, backup, tomb, markers, op, result, prior, contended, fixed>>

\* Mutant: the discard returns without the unlock.
DiscardKeepsLock(b) ==
    /\ pc[b] = "discard_marker"
    /\ stageMarker' = Set(stageMarker, b, FALSE) /\ Goto(b, "done") /\ NoFault
    /\ UNCHANGED <<dirs, backupMarker, tombMarker, lock, op, result, prior, contended, fixed>>

DiscardMarker(b) ==
    /\ pc[b] = "discard_marker"
    /\ \/ stageMarker' = Set(stageMarker, b, FALSE) /\ NoFault
       \/ Fault /\ UNCHANGED stageMarker
    /\ lock' = None
    /\ Goto(b, "done")
    /\ UNCHANGED <<dirs, backupMarker, tombMarker, op, result, prior, contended, fixed>>

-----------------------------------------------------------------------------
\* The process dies; the kernel drops its lock, its files stay as they are.
Crash(b) ==
    /\ Running(b)
    /\ crashes < MaxCrashes
    /\ crashes' = crashes + 1
    /\ lock' = IF lock = b THEN None ELSE lock
    /\ Goto(b, "dead")
    /\ UNCHANGED <<dirs, markers, op, result, prior, contended, faults, clean>>

Initialize(b) == CheckTarget(b) \/ AcquireLock(b) \/ MakeStage(b)
                 \/ MakeStageMarker(b) \/ InitializeFails(b)

Recover(b) == ScanRemnants(b) \/ ObserveRemnants(b)

Cleanup(b) == \/ PrepareTombstoneMarker(b) \/ WriteTombstoneMarker(b)
              \/ RenameBackupToTombstone(b) \/ DeleteTombstone(b)
              \/ UnlinkLeaves(b) \/ RmdirTombstone(b)
              \/ UnlinkTombstoneMarker(b) \/ UnlinkBackupMarker(b)

Publish(b) == \/ BuildCandidate(b) \/ StartPublish(b) \/ CreateBackupMarker(b)
              \/ WriteBackupMarker(b) \/ RenameTargetToBackup(b) \/ VerifyBackup(b)
              \/ RenameStageToTarget(b) \/ VerifyTarget(b) \/ UnlinkStageMarker(b)
              \/ FinishTransfer(b)

Rollback(b) == \/ RollbackTargetToStage(b) \/ RestoreBackup(b)
               \/ UnlinkRestoredMarker(b) \/ Exit(b)
               \/ DiscardStage(b) \/ RmdirStage(b) \/ DiscardMarker(b)

Step(b) == Initialize(b) \/ Recover(b) \/ Cleanup(b) \/ Publish(b) \/ Rollback(b)

Next == \E b \in Builds : Step(b) \/ Crash(b)

\* A started process keeps running until it ends or dies; whether an invocation
\* is ever made is up to the operator.
Fairness == \A b \in Builds : WF_vars(Running(b) /\ Step(b))

Spec == Init /\ [][Next]_vars /\ Fairness

-----------------------------------------------------------------------------
(* Properties *)

Labels ==
    {"start", "flock", "mkdir_stage", "stage_marker", "scan", "observe",
     "prepare_tombstone_marker", "write_tombstone_marker",
     "rename_backup_to_tombstone", "delete_tombstone", "unlink_leaves",
     "rmdir_tombstone", "unlink_tombstone_marker", "unlink_backup_marker",
     "unprepare_tombstone", "restore_backup", "unlink_restored_marker",
     "build", "publish", "backup_marker", "write_backup_marker",
     "rename_target_to_backup", "verify_backup", "rename_stage_to_target",
     "verify_target", "unlink_stage_marker", "finish_transfer",
     "rollback_target_to_stage", "exit", "discard_stage", "rmdir_stage",
     "discard_marker", "done", "dead"}

DirsType    == /\ target \in Dir /\ stage \in [Builds -> Dir] /\ backup \in [Builds -> Dir]
               /\ tomb \in [Builds -> Dir] /\ prior \in [Builds -> Dir]
MarkersType == /\ stageMarker \in [Builds -> BOOLEAN]
               /\ backupMarker \in [Builds -> Marker] /\ tombMarker \in [Builds -> Marker]
ControlType == /\ lock \in Builds \cup {None}
               /\ op \in [Builds -> Builds \cup {None}]
               /\ clean \in [Builds -> BOOLEAN]
               /\ contended \subseteq Builds
PcType      == pc \in [Builds -> Labels]
ResultType  == result \in [Builds -> {"none", "failed", "rollback_failed",
                                      "cleanup_failed", "published"}]
BoundsType  == faults \in 0..MaxFaults /\ crashes \in 0..MaxCrashes

\* The types of the names in the parent directory and of each build's state.
TypeOK == DirsType /\ MarkersType /\ ControlType /\ PcType /\ ResultType /\ BoundsType

\* Whatever fails or crashes, the published name is absent, or holds a whole
\* generation, or is the unrecognized directory that was there from the start:
\* stage and tombstone bytes never show through publish, rollback or recover.
TargetNeverTorn == Exists(target) => target.whole \/ target = Partial(Old)

\* A generation a build put in place and has not committed yet: its stage marker
\* is still there, or its build is between the unlink and the end of the commit.
Pending == /\ target.gen \in Builds
           /\ \/ stageMarker[target.gen]
              \/ pc[target.gen] \in {"finish_transfer", "rollback_target_to_stage"}

\* A whole generation that publication or recovery can still serve.
Durable == \/ target.whole /\ ~Pending
           \/ \E o \in Builds : backup[o].whole

\* Once a whole generation is served, some step of some build never takes the
\* last one away: the backup is kept until the new target is committed, and a
\* tombstone is deleted only beside a verified target.
DurableStays == [][Durable => Durable']_vars

\* A directory under the published name gives the name up only to a build that was
\* called with --clean, or to the rollback of the build that put it there.  A build
\* without --clean that saw no target before it had the lock keeps to this also
\* when another build published, or its own recovery restored a backup, since then
\* (the second check for EXISTING_TARGET, in publish).
ReplacedOnRequest ==
    [][Exists(target) /\ target' # target =>
          \E b \in Builds : pc'[b] # pc[b] /\ (clean[b] \/ target.gen = b)]_vars

\* The readers' view: the whole generation under the target's name, and the one
\* in a backup.
Visible == IF target.whole THEN target.gen ELSE None
Saved   == {g \in Gens : \E o \in Builds : Exists(backup[o]) /\ backup[o].gen = g}

Store == INSTANCE ArtifactStore WITH
    visible <- Visible, pending <- Pending, saved <- Saved

\* Publication, rollback, cleanup and recovery together implement the store its
\* readers rely on: one generation visible, one aside, none given up before the
\* other is committed.
RefinesStore == Store!StoreSpec

\* The orphan check under the lock keeps stage names to one operation, which is
\* what _active_operation_id relies on to read its own operation id back.
OneStage == \A o, q \in Builds : HasStage(o) /\ HasStage(q) => o = q

\* An operation that no other build recovered while its own was still running
\* leaves only the remnants recover knows: no interleaving, fault or crash of
\* one build yields a shape that remnant_state rejects as ambiguous.
RemnantsClosed ==
    \A o \in Builds \ contended : Shape(o) \in ClosedShapes \cup {NoRemnant}

\* A build that ends in an ordinary error leaves the target it found when it took
\* the lock (or the one its recovery put back), whichever call failed.
FailureRestoresTarget ==
    \A b \in Builds : (lock = b /\ result[b] = "failed") => target = prior[b]

\* A build that starts to publish has no other operation's backup or tombstone
\* beside it, so restore and cleanup can only meet the build's own old target.
RecoveredBeforePublish ==
    \A b, o \in Builds :
        pc[b] \in {"backup_marker", "rename_target_to_backup", "rename_stage_to_target"}
            => o = b \/ (~Exists(backup[o]) /\ ~Exists(tomb[o]))

\* No build keeps the lock: every path through publish, rollback and discard
\* reaches an unlock, whatever failed on it.
LockReleased == \A b \in Builds : lock = b ~> lock # b

\* A build that meets the verified remnants of one ended operation, with a
\* verified target or a backup to restore, removes them all, unless another call
\* fails or a process dies before it is through.
Recoverable(b, o) ==
    pc[b] = "scan" /\ Remnants = {o} /\ CanRecover(o) /\ ~Running(o)

RecoveryCompletes ==
    \A b, o \in Builds, f \in 0..MaxFaults, c \in 0..MaxCrashes :
        (Recoverable(b, o) /\ faults = f /\ crashes = c)
            ~> (~HasRemnant(o) /\ target.whole) \/ faults > f \/ crashes > c

-----------------------------------------------------------------------------
(* The inductive invariant behind the safety properties *)

\* The cleanup chain, before and after the backup has become a tombstone.
BeforeTombstone == {"prepare_tombstone_marker", "write_tombstone_marker",
                    "rename_backup_to_tombstone"}
AfterTombstone  == {"delete_tombstone", "unlink_leaves", "rmdir_tombstone",
                    "unlink_tombstone_marker", "unlink_backup_marker"}
ChainLabels == BeforeTombstone \cup AfterTombstone

\* What a build does under the lock besides that chain.
InitLabels    == {"mkdir_stage", "stage_marker", "scan"}
RestoreLabels == {"restore_backup", "unlink_restored_marker"}
BackupLabels  == {"backup_marker", "write_backup_marker", "rename_target_to_backup"}
SwapLabels    == {"verify_backup", "rename_stage_to_target"}
NewLabels     == {"verify_target", "unlink_stage_marker", "finish_transfer",
                  "rollback_target_to_stage"}
LeaveLabels   == {"discard_stage", "rmdir_stage", "discard_marker"}

LockLabels == InitLabels \cup RestoreLabels \cup BackupLabels \cup SwapLabels
              \cup NewLabels \cup LeaveLabels
              \cup {"observe", "unprepare_tombstone", "build", "publish", "exit"}

Holds(b) == pc[b] \in LockLabels \/ (pc[b] \in ChainLabels /\ Recovering(b))

\* The lock is held by exactly the build whose next call needs it.
LockInv == \A b \in Builds : lock = b <=> Holds(b)

\* No stage name beside the lock holder's.
StageInv == /\ OneStage
            /\ \A b, o \in Builds : (Holds(b) /\ HasStage(o)) => o = b

\* The holder's own marker is there from its creation to the commit.
MarkerInv ==
    \A b \in Builds :
        (Holds(b) /\ pc[b] \notin {"mkdir_stage", "stage_marker", "finish_transfer",
                                  "rollback_target_to_stage", "exit"})
            => stageMarker[b]

\* ... and gone after it.
CommitInv == \A b \in Builds : pc[b] = "finish_transfer" => ~stageMarker[b]

\* From its acceptance to the rename the stage is whole.
AcceptedInv ==
    \A b \in Builds :
        pc[b] \in BackupLabels \cup SwapLabels \cup {"publish"} => stage[b] = Whole(b)

\* Whose names a build works on.
OpInv ==
    \A b \in Builds :
        /\ pc[b] \in {"start", "flock", "build", "publish"} \cup InitLabels => op[b] # b
        /\ pc[b] \in BackupLabels \cup SwapLabels \cup NewLabels \cup {"exit"} => op[b] = b
        /\ pc[b] \in {"observe", "unprepare_tombstone"} => Recovering(b)
        /\ pc[b] \in ChainLabels \cup RestoreLabels \cup {"observe", "unprepare_tombstone"}
              => op[b] \in Builds

\* An operation that has not started to publish has left nothing anywhere.
FreshInv ==
    \A b \in Builds :
        op[b] # b => /\ ~HasRemnant(b)
                     /\ target.gen # b
                     /\ \A o \in Builds : backup[o].gen # b /\ op[o] # b

\* A generation whose build has passed its commit, for good.
Settled(g) ==
    g \in Builds => /\ ~stageMarker[g]
                    /\ op[g] = g
                    /\ pc[g] \in ChainLabels \cup {"done", "dead"}

\* A generation in the target whose build has not.
Unsettled(g) ==
    /\ g \in Builds
    /\ op[g] = g
    /\ \/ pc[g] \in NewLabels
       \/ pc[g] \in {"done", "dead"} /\ stageMarker[g]
    /\ pc[g] \in {"verify_target", "unlink_stage_marker"} => stageMarker[g]

\* The target is whole unless nobody recognized it, and it is either settled or
\* the new generation of the one build between its rename and its commit.
TargetInv ==
    /\ TargetNeverTorn /\ (target.whole => Exists(target))
    /\ Exists(target) => Settled(target.gen) \/ Unsettled(target.gen)
    /\ \A b \in Builds :
          /\ pc[b] \in BackupLabels => Exists(target) /\ target.whole
          /\ pc[b] \in SwapLabels \cup {"unprepare_tombstone", "restore_backup", "exit"}
                => ~Exists(target)
          /\ pc[b] \in NewLabels => target = Whole(b)

\* Backups are whole and settled, and at most one exists.
BackupInv ==
    /\ \A o \in Builds :
          /\ Exists(backup[o]) => backup[o].whole /\ Settled(backup[o].gen)
          /\ backup[o].whole => Exists(backup[o])
    /\ \A o, q \in Builds : (Exists(backup[o]) /\ Exists(backup[q])) => o = q

\* A build past its scan knows of no other operation's backup, and none is left
\* when it builds.
KnownBackupInv ==
    \A b, o \in Builds :
        /\ (Holds(b) /\ pc[b] \notin InitLabels \cup LeaveLabels /\ Exists(backup[o]))
              => o = op[b]
        /\ pc[b] \in BackupLabels \cup {"build", "publish", "unlink_restored_marker"}
              => ~Exists(backup[o])
        /\ (pc[b] \in AfterTombstone /\ o = op[b]) => ~Exists(backup[o])

\* A backup is turned into a tombstone only beside a committed target.
ChainInv ==
    \A b \in Builds :
        (pc[b] \in BeforeTombstone /\ Exists(backup[op[b]]))
            => target.whole /\ Settled(target.gen)

\* All of the above: preserved by every step, and strong enough for each of the
\* properties about the target, the stage names and the surviving copies.
CustodyInv == /\ TypeOK /\ LockInv /\ StageInv /\ MarkerInv /\ CommitInv
              /\ AcceptedInv /\ OpInv /\ FreshInv /\ TargetInv /\ BackupInv
              /\ KnownBackupInv /\ ChainInv

\* Tombstones, as KnownBackupInv says of backups: a build past its scan knows of
\* no other operation's, none is left when it builds or when the markers go, and
\* no operation has a backup and a tombstone.
TombInv ==
    /\ \A o \in Builds : ~(Exists(backup[o]) /\ Exists(tomb[o]))
    /\ \A b, o \in Builds :
          /\ (Holds(b) /\ pc[b] \notin InitLabels \cup LeaveLabels /\ Exists(tomb[o]))
                => o = op[b]
          /\ pc[b] \in BackupLabels \cup {"build", "publish", "unlink_restored_marker"}
                => ~Exists(tomb[o])
          /\ (pc[b] \in {"unlink_tombstone_marker", "unlink_backup_marker"} /\ o = op[b])
                => ~Exists(tomb[o])

\* The target a failing build owes: still in place, or in its own backup, or
\* there was none.
PriorInv ==
    \A b \in Builds :
        /\ pc[b] \in {"start", "flock"} => result[b] # "failed"
        /\ (Holds(b) /\ result[b] = "failed") => pc[b] \in LeaveLabels /\ target = prior[b]
        /\ (Holds(b) /\ op[b] # b /\ pc[b] \notin LeaveLabels) => target = prior[b]
        /\ pc[b] \in BackupLabels \cup {"unlink_restored_marker"} => target = prior[b]
        /\ (op[b] = b /\ pc[b] \in SwapLabels \cup NewLabels \cup {"restore_backup"})
              => prior[b] = backup[b]

\* The calls a recovering build makes on the names of another operation.
RemnantLabels == ChainLabels \cup RestoreLabels \cup {"observe", "unprepare_tombstone"}

\* The names of an operation its own build alone, or after its end one recovering
\* build alone, has worked on: every other name is covered by the backup marker
\* and a tombstone also by its own, at the labels between two calls too.
ShapeInv ==
    \A o \in Builds \ contended :
        /\ (Exists(backup[o]) \/ Exists(tomb[o]) \/ tombMarker[o] # "none")
              => backupMarker[o] # "none"
        /\ Exists(tomb[o]) => tombMarker[o] # "none"
        /\ \A b \in Builds : op[b] = o =>
              /\ pc[b] \in ChainLabels \cup {"rename_target_to_backup"}
                    => backupMarker[o] # "none"
              /\ pc[b] \in BackupLabels \cup SwapLabels \cup NewLabels \cup RestoreLabels
                           \cup {"unlink_backup_marker"}
                    => tombMarker[o] = "none"
              /\ pc[b] \in BeforeTombstone \cup {"unprepare_tombstone"} => ~Exists(tomb[o])
              /\ (b # o /\ pc[b] \in RemnantLabels) => pc[o] \in {"done", "dead"}

\* A build gets as far as setting the target aside with --clean only.
RequestInv == \A b \in Builds : pc[b] \in BackupLabels => clean[b]

\* What is preserved on top of CustodyInv, for the properties about remnants and
\* about the target a failure leaves.
RemnantInv == CustodyInv /\ TombInv /\ PriorInv /\ ShapeInv

-----------------------------------------------------------------------------
(* What the design document says of remnants, and the code does not do *)

\* "Post-commit cleanup has this closed remnant state machine for one operation
\* ID": every operation's names always form one of its six states, also when
\* recover of a later build runs beside the cleanup of a publisher, which has
\* released the lock in _finish_publication_transfer.
RemnantsAlwaysClosed ==
    \A o \in Builds : Shape(o) \in ClosedShapes \cup {NoRemnant}

\* A later invocation may "resume deletion of only an exact marker/path-matched
\* cleanup tombstone, even when that tombstone is already partial": recover does
\* not give up on one when the target verifies.
ResumesPartialTombstone ==
    [][\A b \in Builds :
          (/\ pc[b] = "observe" /\ Shape(op[b]) = TombstoneWithBoth
           /\ backupMarker[op[b]] = "good" /\ tombMarker[op[b]] = "good"
           /\ ~Running(op[b]) /\ target.whole /\ NoFault)
              => pc'[b] # "discard_stage"]_vars

\* "If the target is absent, it restores the verified backup": a build that runs
\* alone, with no call failing, on an absent target and a verified marked backup
\* brings the target back.
AbsentTargetRestored ==
    \A b \in Builds :
        (/\ pc[b] = "flock" /\ lock = None /\ ~Exists(target)
         /\ \E o \in Builds : Remnants = {o} /\ BackupVerifies(o)
         /\ \A c \in Builds \ {b} : pc[c] \in {"done", "dead"}
         /\ faults = MaxFaults /\ crashes = MaxCrashes)
            ~> Exists(target)
=============================================================================
