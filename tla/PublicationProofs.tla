------------------------- MODULE PublicationProofs -------------------------
(* The safety of Publication, for every set of builds and any number of faults
   and crashes, in three parts.

   CustodyInv is preserved by every call of a build, so it holds in every
   reachable state, and with it TypeOK, TargetNeverTorn and OneStage.  There is
   one lemma per action, and under it one step per conjunct of the invariant.

   From CustodyInv, Publication implements the store of ArtifactStore.

   What cleanup, rollback and recover leave behind is closed: RemnantInv adds to
   CustodyInv where tombstones may be, where the target owed by a failing build
   is, and which markers cover the other names of an operation.              *)
EXTENDS Publication, TLAPS

USE ConstantsAssumption
USE DEF Goto, Set, NoFault, Fault, Raises, Report, Abandon, CleanupFailed,
        Recovering, Holds, Exists, HasStage, OneStage, HasRemnant, Settled, Unsettled,
        dirs, markers, fixed,
        BeforeTombstone, AfterTombstone, ChainLabels, InitLabels, RestoreLabels,
        BackupLabels, SwapLabels, NewLabels, LeaveLabels, LockLabels

\* Directory values have the fields their type says.
LEMMA DirTypes ==
    /\ Absent \in Dir
    /\ \A g \in Gens : Whole(g) \in Dir /\ Partial(g) \in Dir
    /\ \A d \in Dir : d.gen \in Gens \cup {None} /\ d.whole \in BOOLEAN
  BY DEF Absent, Whole, Partial, Dir

\* recover starts the cleanup chain where the remnants' shape says: before the
\* rename to a tombstone when a backup is there.
LEMMA RepairLabels ==
    ASSUME NEW o \in Builds, RemnantVerifies(o)
    PROVE  /\ FirstRepair(o) \in ChainLabels
           /\ Exists(backup[o]) => FirstRepair(o) \in BeforeTombstone
           /\ FirstRepair(o) # "write_tombstone_marker"
           /\ FirstRestore(o) \in {"unprepare_tombstone", "restore_backup"}
<1>1. Exists(backup[o]) <=> "backup" \in Shape(o)  BY DEF Shape
<1>2. Shape(o) \in ClosedShapes  BY DEF RemnantVerifies
<1> HIDE DEF Exists
<1> QED BY <1>1, <1>2 DEF FirstRepair, FirstRestore, ClosedShapes, BackupWithMarker,
             BackupWithPrepared, TombstoneWithBoth, BothMarkersOnly, BackupMarkerOnly

\* The existing-target check reads and ends or goes on: nothing moves.
LEMMA CheckTargetStep ==
    ASSUME CustodyInv, NEW b \in Builds, CheckTarget(b) PROVE CustodyInv'
<1> USE DEF CheckTarget, CustodyInv
<1>1. DirsType'
  BY DirTypes DEF TypeOK, OpInv, DirsType, ControlType, Gens
<1>2. MarkersType'
  BY DEF TypeOK, OpInv, MarkersType, Marker
<1>3. ControlType'
  BY DEF TypeOK, OpInv, ControlType
<1>4. PcType'
  BY DEF TypeOK, PcType, Labels
<1>5. ResultType'
  BY DEF TypeOK, ResultType, PcType, Labels
<1>6. BoundsType'
  BY DEF TypeOK, BoundsType
<1>7. LockInv'
  BY DEF TypeOK, DirsType, MarkersType, ControlType, PcType, LockInv, OpInv, Absent, Whole, Partial
<1>8. StageInv'
  BY DEF TypeOK, DirsType, MarkersType, ControlType, PcType, LockInv, StageInv, OpInv, Absent, Whole, Partial
<1>9. MarkerInv'
  BY DEF TypeOK, DirsType, MarkersType, ControlType, PcType, MarkerInv, OpInv, Absent, Whole, Partial
<1>10. CommitInv'
  BY DEF TypeOK, DirsType, MarkersType, ControlType, PcType, CommitInv, OpInv, Absent, Whole, Partial
<1>11. AcceptedInv'
  BY DEF TypeOK, DirsType, MarkersType, ControlType, PcType, AcceptedInv, Absent, Whole, Partial
<1>12. OpInv'
  BY DEF TypeOK, DirsType, MarkersType, ControlType, PcType, OpInv, FreshInv, Absent, Whole, Partial
<1>13. FreshInv'
  BY DEF TypeOK, DirsType, MarkersType, ControlType, PcType, OpInv, FreshInv, AcceptedInv, TargetInv, Absent, Whole, Partial
<1>14. TargetInv'
  BY DEF TypeOK, DirsType, MarkersType, ControlType, PcType, LockInv, StageInv, MarkerInv, CommitInv, AcceptedInv, OpInv, TargetInv, BackupInv, KnownBackupInv, Absent, Whole, Partial, TargetNeverTorn
<1>15. BackupInv'
  BY DEF TypeOK, DirsType, MarkersType, ControlType, PcType, LockInv, StageInv, OpInv, FreshInv, TargetInv, BackupInv, KnownBackupInv, Absent, Whole, Partial
<1>16. KnownBackupInv'
  BY DEF TypeOK, DirsType, MarkersType, ControlType, PcType, LockInv, OpInv, BackupInv, KnownBackupInv, Absent, Whole, Partial
<1>17. ChainInv'
  BY DEF TypeOK, DirsType, MarkersType, ControlType, PcType, LockInv, StageInv, MarkerInv, CommitInv, OpInv, TargetInv, BackupInv, KnownBackupInv, ChainInv, Absent, Whole, Partial
<1> QED BY <1>1, <1>2, <1>3, <1>4, <1>5, <1>6, <1>7, <1>8, <1>9, <1>10, <1>11, <1>12, <1>13, <1>14, <1>15, <1>16, <1>17 DEF TypeOK

\* flock with the orphan check: the new holder meets no stage name at all.
LEMMA AcquireLockStep ==
    ASSUME CustodyInv, NEW b \in Builds, AcquireLock(b) PROVE CustodyInv'
<1> USE DEF AcquireLock, CustodyInv
<1>1. DirsType'
  BY DirTypes DEF TypeOK, OpInv, DirsType, ControlType, Gens
<1>2. MarkersType'
  BY DEF TypeOK, OpInv, MarkersType, Marker
<1>3. ControlType'
  BY DEF TypeOK, OpInv, ControlType
<1>4. PcType'
  BY DEF TypeOK, PcType, Labels
<1>5. ResultType'
  BY DEF TypeOK, ResultType, PcType, Labels
<1>6. BoundsType'
  BY DEF TypeOK, BoundsType
<1>7. LockInv'
  BY DEF TypeOK, DirsType, MarkersType, ControlType, PcType, LockInv, OpInv, Absent, Whole, Partial
<1>8. StageInv'
  BY DEF TypeOK, DirsType, MarkersType, ControlType, PcType, LockInv, StageInv, OpInv, Absent, Whole, Partial
<1>9. MarkerInv'
  BY DEF TypeOK, DirsType, MarkersType, ControlType, PcType, MarkerInv, OpInv, Absent, Whole, Partial
<1>10. CommitInv'
  BY DEF TypeOK, DirsType, MarkersType, ControlType, PcType, CommitInv, OpInv, Absent, Whole, Partial
<1>11. AcceptedInv'
  BY DEF TypeOK, DirsType, MarkersType, ControlType, PcType, AcceptedInv, Absent, Whole, Partial
<1>12. OpInv'
  BY DEF TypeOK, DirsType, MarkersType, ControlType, PcType, OpInv, FreshInv, Absent, Whole, Partial
<1>13. FreshInv'
  BY DEF TypeOK, DirsType, MarkersType, ControlType, PcType, OpInv, FreshInv, AcceptedInv, TargetInv, Absent, Whole, Partial
<1>14. TargetInv'
  BY DEF TypeOK, DirsType, MarkersType, ControlType, PcType, LockInv, StageInv, MarkerInv, CommitInv, AcceptedInv, OpInv, TargetInv, BackupInv, KnownBackupInv, Absent, Whole, Partial, TargetNeverTorn
<1>15. BackupInv'
  BY DEF TypeOK, DirsType, MarkersType, ControlType, PcType, LockInv, StageInv, OpInv, FreshInv, TargetInv, BackupInv, KnownBackupInv, Absent, Whole, Partial
<1>16. KnownBackupInv'
  BY DEF TypeOK, DirsType, MarkersType, ControlType, PcType, LockInv, OpInv, BackupInv, KnownBackupInv, Absent, Whole, Partial
<1>17. ChainInv'
  BY DEF TypeOK, DirsType, MarkersType, ControlType, PcType, LockInv, StageInv, MarkerInv, CommitInv, OpInv, TargetInv, BackupInv, KnownBackupInv, ChainInv, Absent, Whole, Partial
<1> QED BY <1>1, <1>2, <1>3, <1>4, <1>5, <1>6, <1>7, <1>8, <1>9, <1>10, <1>11, <1>12, <1>13, <1>14, <1>15, <1>16, <1>17 DEF TypeOK

\* mkdir of the stage, by the holder of the lock.
LEMMA MakeStageStep ==
    ASSUME CustodyInv, NEW b \in Builds, MakeStage(b) PROVE CustodyInv'
<1> USE DEF MakeStage, CustodyInv
<1>1. DirsType'
  BY DirTypes DEF TypeOK, OpInv, DirsType, ControlType, Gens
<1>2. MarkersType'
  BY DEF TypeOK, OpInv, MarkersType, Marker
<1>3. ControlType'
  BY DEF TypeOK, OpInv, ControlType
<1>4. PcType'
  BY DEF TypeOK, PcType, Labels
<1>5. ResultType'
  BY DEF TypeOK, ResultType, PcType, Labels
<1>6. BoundsType'
  BY DEF TypeOK, BoundsType
<1>7. LockInv'
  BY DEF TypeOK, DirsType, MarkersType, ControlType, PcType, LockInv, OpInv, Absent, Whole, Partial
<1>8. StageInv'
  BY DEF TypeOK, DirsType, MarkersType, ControlType, PcType, LockInv, StageInv, OpInv, Absent, Whole, Partial
<1>9. MarkerInv'
  BY DEF TypeOK, DirsType, MarkersType, ControlType, PcType, MarkerInv, OpInv, Absent, Whole, Partial
<1>10. CommitInv'
  BY DEF TypeOK, DirsType, MarkersType, ControlType, PcType, CommitInv, OpInv, Absent, Whole, Partial
<1>11. AcceptedInv'
  BY DEF TypeOK, DirsType, MarkersType, ControlType, PcType, AcceptedInv, Absent, Whole, Partial
<1>12. OpInv'
  BY DEF TypeOK, DirsType, MarkersType, ControlType, PcType, OpInv, FreshInv, Absent, Whole, Partial
<1>13. FreshInv'
  BY DEF TypeOK, DirsType, MarkersType, ControlType, PcType, OpInv, FreshInv, AcceptedInv, TargetInv, Absent, Whole, Partial
<1>14. TargetInv'
  BY DEF TypeOK, DirsType, MarkersType, ControlType, PcType, LockInv, StageInv, MarkerInv, CommitInv, AcceptedInv, OpInv, TargetInv, BackupInv, KnownBackupInv, Absent, Whole, Partial, TargetNeverTorn
<1>15. BackupInv'
  BY DEF TypeOK, DirsType, MarkersType, ControlType, PcType, LockInv, StageInv, OpInv, FreshInv, TargetInv, BackupInv, KnownBackupInv, Absent, Whole, Partial
<1>16. KnownBackupInv'
  BY DEF TypeOK, DirsType, MarkersType, ControlType, PcType, LockInv, OpInv, BackupInv, KnownBackupInv, Absent, Whole, Partial
<1>17. ChainInv'
  BY DEF TypeOK, DirsType, MarkersType, ControlType, PcType, LockInv, StageInv, MarkerInv, CommitInv, OpInv, TargetInv, BackupInv, KnownBackupInv, ChainInv, Absent, Whole, Partial
<1> QED BY <1>1, <1>2, <1>3, <1>4, <1>5, <1>6, <1>7, <1>8, <1>9, <1>10, <1>11, <1>12, <1>13, <1>14, <1>15, <1>16, <1>17 DEF TypeOK

\* Creation of the stage marker.
LEMMA MakeStageMarkerStep ==
    ASSUME CustodyInv, NEW b \in Builds, MakeStageMarker(b) PROVE CustodyInv'
<1> USE DEF MakeStageMarker, CustodyInv
<1>1. DirsType'
  BY DirTypes DEF TypeOK, OpInv, DirsType, ControlType, Gens
<1>2. MarkersType'
  BY DEF TypeOK, OpInv, MarkersType, Marker
<1>3. ControlType'
  BY DEF TypeOK, OpInv, ControlType
<1>4. PcType'
  BY DEF TypeOK, PcType, Labels
<1>5. ResultType'
  BY DEF TypeOK, ResultType, PcType, Labels
<1>6. BoundsType'
  BY DEF TypeOK, BoundsType
<1>7. LockInv'
  BY DEF TypeOK, DirsType, MarkersType, ControlType, PcType, LockInv, OpInv, Absent, Whole, Partial
<1>8. StageInv'
  BY DEF TypeOK, DirsType, MarkersType, ControlType, PcType, LockInv, StageInv, OpInv, Absent, Whole, Partial
<1>9. MarkerInv'
  BY DEF TypeOK, DirsType, MarkersType, ControlType, PcType, MarkerInv, OpInv, Absent, Whole, Partial
<1>10. CommitInv'
  BY DEF TypeOK, DirsType, MarkersType, ControlType, PcType, CommitInv, OpInv, Absent, Whole, Partial
<1>11. AcceptedInv'
  BY DEF TypeOK, DirsType, MarkersType, ControlType, PcType, AcceptedInv, Absent, Whole, Partial
<1>12. OpInv'
  BY DEF TypeOK, DirsType, MarkersType, ControlType, PcType, OpInv, FreshInv, Absent, Whole, Partial
<1>13. FreshInv'
  BY DEF TypeOK, DirsType, MarkersType, ControlType, PcType, OpInv, FreshInv, AcceptedInv, TargetInv, Absent, Whole, Partial
<1>14. TargetInv'
  BY DEF TypeOK, DirsType, MarkersType, ControlType, PcType, LockInv, StageInv, MarkerInv, CommitInv, AcceptedInv, OpInv, TargetInv, BackupInv, KnownBackupInv, Absent, Whole, Partial, TargetNeverTorn
<1>15. BackupInv'
  BY DEF TypeOK, DirsType, MarkersType, ControlType, PcType, LockInv, StageInv, OpInv, FreshInv, TargetInv, BackupInv, KnownBackupInv, Absent, Whole, Partial
<1>16. KnownBackupInv'
  BY DEF TypeOK, DirsType, MarkersType, ControlType, PcType, LockInv, OpInv, BackupInv, KnownBackupInv, Absent, Whole, Partial
<1>17. ChainInv'
  BY DEF TypeOK, DirsType, MarkersType, ControlType, PcType, LockInv, StageInv, MarkerInv, CommitInv, OpInv, TargetInv, BackupInv, KnownBackupInv, ChainInv, Absent, Whole, Partial
<1> QED BY <1>1, <1>2, <1>3, <1>4, <1>5, <1>6, <1>7, <1>8, <1>9, <1>10, <1>11, <1>12, <1>13, <1>14, <1>15, <1>16, <1>17 DEF TypeOK

\* A failing initialization leaves at most its own stage names and unlocks.
LEMMA InitializeFailsStep ==
    ASSUME CustodyInv, NEW b \in Builds, InitializeFails(b) PROVE CustodyInv'
<1> USE DEF InitializeFails, CustodyInv
<1>1. DirsType'
  BY DirTypes DEF TypeOK, OpInv, DirsType, ControlType, Gens
<1>2. MarkersType'
  BY DEF TypeOK, OpInv, MarkersType, Marker
<1>3. ControlType'
  BY DEF TypeOK, OpInv, ControlType
<1>4. PcType'
  BY DEF TypeOK, PcType, Labels
<1>5. ResultType'
  BY DEF TypeOK, ResultType, PcType, Labels
<1>6. BoundsType'
  BY DEF TypeOK, BoundsType
<1>7. LockInv'
  BY DEF TypeOK, DirsType, MarkersType, ControlType, PcType, LockInv, OpInv, Absent, Whole, Partial
<1>8. StageInv'
  BY DEF TypeOK, DirsType, MarkersType, ControlType, PcType, LockInv, StageInv, OpInv, Absent, Whole, Partial
<1>9. MarkerInv'
  BY DEF TypeOK, DirsType, MarkersType, ControlType, PcType, MarkerInv, OpInv, Absent, Whole, Partial
<1>10. CommitInv'
  BY DEF TypeOK, DirsType, MarkersType, ControlType, PcType, CommitInv, OpInv, Absent, Whole, Partial
<1>11. AcceptedInv'
  BY DEF TypeOK, DirsType, MarkersType, ControlType, PcType, AcceptedInv, Absent, Whole, Partial
<1>12. OpInv'
  BY DEF TypeOK, DirsType, MarkersType, ControlType, PcType, OpInv, FreshInv, Absent, Whole, Partial
<1>13. FreshInv'
  BY DEF TypeOK, DirsType, MarkersType, ControlType, PcType, OpInv, FreshInv, AcceptedInv, TargetInv, Absent, Whole, Partial
<1>14. TargetInv'
  BY DEF TypeOK, DirsType, MarkersType, ControlType, PcType, LockInv, StageInv, MarkerInv, CommitInv, AcceptedInv, OpInv, TargetInv, BackupInv, KnownBackupInv, Absent, Whole, Partial, TargetNeverTorn
<1>15. BackupInv'
  BY DEF TypeOK, DirsType, MarkersType, ControlType, PcType, LockInv, StageInv, OpInv, FreshInv, TargetInv, BackupInv, KnownBackupInv, Absent, Whole, Partial
<1>16. KnownBackupInv'
  BY DEF TypeOK, DirsType, MarkersType, ControlType, PcType, LockInv, OpInv, BackupInv, KnownBackupInv, Absent, Whole, Partial
<1>17. ChainInv'
  BY DEF TypeOK, DirsType, MarkersType, ControlType, PcType, LockInv, StageInv, MarkerInv, CommitInv, OpInv, TargetInv, BackupInv, KnownBackupInv, ChainInv, Absent, Whole, Partial
<1> QED BY <1>1, <1>2, <1>3, <1>4, <1>5, <1>6, <1>7, <1>8, <1>9, <1>10, <1>11, <1>12, <1>13, <1>14, <1>15, <1>16, <1>17 DEF TypeOK

\* _remnant_operation_id: past it the one operation with names is known.
LEMMA ScanRemnantsStep ==
    ASSUME CustodyInv, NEW b \in Builds, ScanRemnants(b) PROVE CustodyInv'
<1> USE DEF ScanRemnants, Remnants, Running, CustodyInv
<1>1. DirsType'
  BY DirTypes DEF TypeOK, OpInv, DirsType, ControlType, Gens
<1>2. MarkersType'
  BY DEF TypeOK, OpInv, MarkersType, Marker
<1>3. ControlType'
  BY DEF TypeOK, OpInv, ControlType
<1>4. PcType'
  BY DEF TypeOK, PcType, Labels
<1>5. ResultType'
  BY DEF TypeOK, ResultType, PcType, Labels
<1>6. BoundsType'
  BY DEF TypeOK, BoundsType
<1>7. LockInv'
  BY DEF TypeOK, DirsType, MarkersType, ControlType, PcType, LockInv, OpInv, Absent, Whole, Partial
<1>8. StageInv'
  BY DEF TypeOK, DirsType, MarkersType, ControlType, PcType, LockInv, StageInv, OpInv, Absent, Whole, Partial
<1>9. MarkerInv'
  BY DEF TypeOK, DirsType, MarkersType, ControlType, PcType, MarkerInv, OpInv, Absent, Whole, Partial
<1>10. CommitInv'
  BY DEF TypeOK, DirsType, MarkersType, ControlType, PcType, CommitInv, OpInv, Absent, Whole, Partial
<1>11. AcceptedInv'
  BY DEF TypeOK, DirsType, MarkersType, ControlType, PcType, AcceptedInv, Absent, Whole, Partial
<1>12. OpInv'
  BY DEF TypeOK, DirsType, MarkersType, ControlType, PcType, OpInv, FreshInv, Absent, Whole, Partial
<1>13. FreshInv'
  BY DEF TypeOK, DirsType, MarkersType, ControlType, PcType, OpInv, FreshInv, AcceptedInv, TargetInv, Absent, Whole, Partial
<1>14. TargetInv'
  BY DEF TypeOK, DirsType, MarkersType, ControlType, PcType, LockInv, StageInv, MarkerInv, CommitInv, AcceptedInv, OpInv, TargetInv, BackupInv, KnownBackupInv, Absent, Whole, Partial, TargetNeverTorn
<1>15. BackupInv'
  BY DEF TypeOK, DirsType, MarkersType, ControlType, PcType, LockInv, StageInv, OpInv, FreshInv, TargetInv, BackupInv, KnownBackupInv, Absent, Whole, Partial
<1>16. KnownBackupInv'
  BY DEF TypeOK, DirsType, MarkersType, ControlType, PcType, LockInv, OpInv, BackupInv, KnownBackupInv, Absent, Whole, Partial
<1>17. ChainInv'
  BY DEF TypeOK, DirsType, MarkersType, ControlType, PcType, LockInv, StageInv, MarkerInv, CommitInv, OpInv, TargetInv, BackupInv, KnownBackupInv, ChainInv, Absent, Whole, Partial
<1> QED BY <1>1, <1>2, <1>3, <1>4, <1>5, <1>6, <1>7, <1>8, <1>9, <1>10, <1>11, <1>12, <1>13, <1>14, <1>15, <1>16, <1>17 DEF TypeOK

\* remnant_state and the target decide the first repair; RepairLabels ties its
\* label to the shape.
LEMMA ObserveRemnantsStep ==
    ASSUME CustodyInv, NEW b \in Builds, ObserveRemnants(b) PROVE CustodyInv'
<1> USE DEF ObserveRemnants, CanRecover, CustodyInv
<1>0. /\ op[b] \in Builds /\ pc[b] = "observe"
      /\ pc'[b] \in ChainLabels \cup {"unprepare_tombstone", "restore_backup", "discard_stage"}
      /\ pc'[b] # "write_tombstone_marker"
      /\ pc'[b] \in ChainLabels => Exists(target) /\ target.whole
      /\ (pc'[b] \in ChainLabels /\ Exists(backup[op[b]])) => pc'[b] \in BeforeTombstone
      /\ pc'[b] \in {"unprepare_tombstone", "restore_backup"} => ~Exists(target)
      /\ pc' = [pc EXCEPT ![b] = pc'[b]]
      /\ UNCHANGED <<dirs, markers, lock, op, prior, contended, fixed>>
  BY RepairLabels DEF OpInv, TypeOK, PcType
<1>1. DirsType'
  BY DirTypes DEF TypeOK, OpInv, DirsType, ControlType, Gens
<1>2. MarkersType'
  BY DEF TypeOK, OpInv, MarkersType, Marker
<1>3. ControlType'
  BY DEF TypeOK, OpInv, ControlType
<1>5. ResultType'
  BY DEF TypeOK, ResultType, PcType, Labels
<1>6. BoundsType'
  BY DEF TypeOK, BoundsType
<1> HIDE DEF ObserveRemnants, CanRecover
<1>4. PcType'
  BY <1>0 DEF TypeOK, PcType, Labels
<1>7. LockInv'
  BY <1>0 DEF TypeOK, DirsType, MarkersType, ControlType, PcType, LockInv, OpInv, Absent, Whole, Partial
<1>8. StageInv'
  BY <1>0 DEF TypeOK, DirsType, MarkersType, ControlType, PcType, LockInv, StageInv, OpInv, Absent, Whole, Partial
<1>9. MarkerInv'
  BY <1>0 DEF TypeOK, DirsType, MarkersType, ControlType, PcType, MarkerInv, OpInv, Absent, Whole, Partial
<1>10. CommitInv'
  BY <1>0 DEF TypeOK, DirsType, MarkersType, ControlType, PcType, CommitInv, OpInv, Absent, Whole, Partial
<1>11. AcceptedInv'
  BY <1>0 DEF TypeOK, DirsType, MarkersType, ControlType, PcType, AcceptedInv, Absent, Whole, Partial
<1>12. OpInv'
  BY <1>0 DEF TypeOK, DirsType, MarkersType, ControlType, PcType, OpInv, FreshInv, Absent, Whole, Partial
<1>13. FreshInv'
  BY <1>0 DEF TypeOK, DirsType, MarkersType, ControlType, PcType, OpInv, FreshInv, AcceptedInv, TargetInv, Absent, Whole, Partial
<1>14. TargetInv'
  BY <1>0 DEF TypeOK, DirsType, MarkersType, ControlType, PcType, LockInv, StageInv, MarkerInv, CommitInv, AcceptedInv, OpInv, TargetInv, BackupInv, KnownBackupInv, Absent, Whole, Partial, TargetNeverTorn
<1>15. BackupInv'
  BY <1>0 DEF TypeOK, DirsType, MarkersType, ControlType, PcType, LockInv, StageInv, OpInv, FreshInv, TargetInv, BackupInv, KnownBackupInv, Absent, Whole, Partial
<1>16. KnownBackupInv'
  <2> SUFFICES ASSUME NEW c \in Builds, NEW o \in Builds PROVE KnownBackupInv!(c, o)'
    BY DEF KnownBackupInv
  <2>1. CASE c = b
    <3>1. Exists(backup[o]) => o = op[b]
      BY <1>0 DEF KnownBackupInv
    <3>2. pc'[b] \in AfterTombstone => ~Exists(backup[op[b]])
      BY <1>0
    <3>3. pc'[b] \notin BackupLabels \cup {"build", "publish", "unlink_restored_marker"}
      BY <1>0
    <3> QED BY <1>0, <2>1, <3>1, <3>2, <3>3
  <2>2. CASE c # b
    BY <1>0, <2>2 DEF TypeOK, PcType, KnownBackupInv
  <2> QED BY <2>1, <2>2
<1>17. ChainInv'
  <2>0. ~Unsettled(target.gen)
    <3> SUFFICES ASSUME Unsettled(target.gen) PROVE FALSE
      OBVIOUS
    <3>1. Holds(b) /\ lock = b  BY <1>0 DEF LockInv
    <3>2. pc[target.gen] \notin NewLabels  BY <1>0, <3>1 DEF LockInv
    <3>3. HasStage(target.gen)  BY <3>2
    <3> QED BY <1>0, <3>1, <3>2, <3>3 DEF StageInv
  <2>1. pc'[b] \in BeforeTombstone => target.whole /\ Settled(target.gen)
    BY <1>0, <2>0 DEF TargetInv
  <2>2. pc'[b] \in BeforeTombstone => Settled(target.gen)'
    BY <1>0, <2>1 DEF TypeOK, PcType
  <2>3. ASSUME NEW c \in Builds, c # b, pc[c] \in BeforeTombstone, Exists(backup[op[c]])
        PROVE  target.whole /\ Settled(target.gen)'
    BY <1>0, <2>3 DEF TypeOK, PcType, ChainInv
  <2> QED BY <1>0, <2>1, <2>2, <2>3 DEF TypeOK, PcType, ChainInv
<1> QED BY <1>1, <1>2, <1>3, <1>4, <1>5, <1>6, <1>7, <1>8, <1>9, <1>10, <1>11, <1>12, <1>13, <1>14, <1>15, <1>16, <1>17 DEF TypeOK

\* Creation of the tombstone marker.
LEMMA PrepareTombstoneMarkerStep ==
    ASSUME CustodyInv, NEW b \in Builds, PrepareTombstoneMarker(b) PROVE CustodyInv'
<1> USE DEF PrepareTombstoneMarker, ChainRaises, CustodyInv
<1>1. DirsType'
  BY DirTypes DEF TypeOK, OpInv, DirsType, ControlType, Gens
<1>2. MarkersType'
  BY DEF TypeOK, OpInv, MarkersType, Marker
<1>3. ControlType'
  BY DEF TypeOK, OpInv, ControlType
<1>4. PcType'
  BY DEF TypeOK, PcType, Labels
<1>5. ResultType'
  BY DEF TypeOK, ResultType, PcType, Labels
<1>6. BoundsType'
  BY DEF TypeOK, BoundsType
<1>7. LockInv'
  BY DEF TypeOK, DirsType, MarkersType, ControlType, PcType, LockInv, OpInv, Absent, Whole, Partial
<1>8. StageInv'
  BY DEF TypeOK, DirsType, MarkersType, ControlType, PcType, LockInv, StageInv, OpInv, Absent, Whole, Partial
<1>9. MarkerInv'
  BY DEF TypeOK, DirsType, MarkersType, ControlType, PcType, MarkerInv, OpInv, Absent, Whole, Partial
<1>10. CommitInv'
  BY DEF TypeOK, DirsType, MarkersType, ControlType, PcType, CommitInv, OpInv, Absent, Whole, Partial
<1>11. AcceptedInv'
  BY DEF TypeOK, DirsType, MarkersType, ControlType, PcType, AcceptedInv, Absent, Whole, Partial
<1>12. OpInv'
  BY DEF TypeOK, DirsType, MarkersType, ControlType, PcType, OpInv, FreshInv, Absent, Whole, Partial
<1>13. FreshInv'
  BY DEF TypeOK, DirsType, MarkersType, ControlType, PcType, OpInv, FreshInv, AcceptedInv, TargetInv, Absent, Whole, Partial
<1>14. TargetInv'
  BY DEF TypeOK, DirsType, MarkersType, ControlType, PcType, LockInv, StageInv, MarkerInv, CommitInv, AcceptedInv, OpInv, TargetInv, BackupInv, KnownBackupInv, Absent, Whole, Partial, TargetNeverTorn
<1>15. BackupInv'
  BY DEF TypeOK, DirsType, MarkersType, ControlType, PcType, LockInv, StageInv, OpInv, FreshInv, TargetInv, BackupInv, KnownBackupInv, Absent, Whole, Partial
<1>16. KnownBackupInv'
  BY DEF TypeOK, DirsType, MarkersType, ControlType, PcType, LockInv, OpInv, BackupInv, KnownBackupInv, Absent, Whole, Partial
<1>17. ChainInv'
  BY DEF TypeOK, DirsType, MarkersType, ControlType, PcType, LockInv, StageInv, MarkerInv, CommitInv, OpInv, TargetInv, BackupInv, KnownBackupInv, ChainInv, Absent, Whole, Partial
<1> QED BY <1>1, <1>2, <1>3, <1>4, <1>5, <1>6, <1>7, <1>8, <1>9, <1>10, <1>11, <1>12, <1>13, <1>14, <1>15, <1>16, <1>17 DEF TypeOK

\* Its write.
LEMMA WriteTombstoneMarkerStep ==
    ASSUME CustodyInv, NEW b \in Builds, WriteTombstoneMarker(b) PROVE CustodyInv'
<1> USE DEF WriteTombstoneMarker, ChainRaises, CustodyInv
<1>1. DirsType'
  BY DirTypes DEF TypeOK, OpInv, DirsType, ControlType, Gens
<1>2. MarkersType'
  BY DEF TypeOK, OpInv, MarkersType, Marker
<1>3. ControlType'
  BY DEF TypeOK, OpInv, ControlType
<1>4. PcType'
  BY DEF TypeOK, PcType, Labels
<1>5. ResultType'
  BY DEF TypeOK, ResultType, PcType, Labels
<1>6. BoundsType'
  BY DEF TypeOK, BoundsType
<1>7. LockInv'
  BY DEF TypeOK, DirsType, MarkersType, ControlType, PcType, LockInv, OpInv, Absent, Whole, Partial
<1>8. StageInv'
  BY DEF TypeOK, DirsType, MarkersType, ControlType, PcType, LockInv, StageInv, OpInv, Absent, Whole, Partial
<1>9. MarkerInv'
  BY DEF TypeOK, DirsType, MarkersType, ControlType, PcType, MarkerInv, OpInv, Absent, Whole, Partial
<1>10. CommitInv'
  BY DEF TypeOK, DirsType, MarkersType, ControlType, PcType, CommitInv, OpInv, Absent, Whole, Partial
<1>11. AcceptedInv'
  BY DEF TypeOK, DirsType, MarkersType, ControlType, PcType, AcceptedInv, Absent, Whole, Partial
<1>12. OpInv'
  BY DEF TypeOK, DirsType, MarkersType, ControlType, PcType, OpInv, FreshInv, Absent, Whole, Partial
<1>13. FreshInv'
  BY DEF TypeOK, DirsType, MarkersType, ControlType, PcType, OpInv, FreshInv, AcceptedInv, TargetInv, Absent, Whole, Partial
<1>14. TargetInv'
  BY DEF TypeOK, DirsType, MarkersType, ControlType, PcType, LockInv, StageInv, MarkerInv, CommitInv, AcceptedInv, OpInv, TargetInv, BackupInv, KnownBackupInv, Absent, Whole, Partial, TargetNeverTorn
<1>15. BackupInv'
  BY DEF TypeOK, DirsType, MarkersType, ControlType, PcType, LockInv, StageInv, OpInv, FreshInv, TargetInv, BackupInv, KnownBackupInv, Absent, Whole, Partial
<1>16. KnownBackupInv'
  BY DEF TypeOK, DirsType, MarkersType, ControlType, PcType, LockInv, OpInv, BackupInv, KnownBackupInv, Absent, Whole, Partial
<1>17. ChainInv'
  BY DEF TypeOK, DirsType, MarkersType, ControlType, PcType, LockInv, StageInv, MarkerInv, CommitInv, OpInv, TargetInv, BackupInv, KnownBackupInv, ChainInv, Absent, Whole, Partial
<1> QED BY <1>1, <1>2, <1>3, <1>4, <1>5, <1>6, <1>7, <1>8, <1>9, <1>10, <1>11, <1>12, <1>13, <1>14, <1>15, <1>16, <1>17 DEF TypeOK

\* The rename to a tombstone: the one backup is gone for the rest of the chain.
LEMMA RenameBackupToTombstoneStep ==
    ASSUME CustodyInv, NEW b \in Builds, RenameBackupToTombstone(b) PROVE CustodyInv'
<1> USE DEF RenameBackupToTombstone, ChainRaises, BackupVerifies, CustodyInv
<1>0. op[b] \in Builds  BY DEF OpInv
<1>1. DirsType'
  BY <1>0, DirTypes DEF TypeOK, DirsType
<1>2. MarkersType'
  BY DEF TypeOK, OpInv, MarkersType, Marker
<1>3. ControlType'
  BY DEF TypeOK, OpInv, ControlType
<1>4. PcType'
  BY DEF TypeOK, PcType, Labels
<1>5. ResultType'
  BY DEF TypeOK, ResultType, PcType, Labels
<1>6. BoundsType'
  BY DEF TypeOK, BoundsType
<1>7. LockInv'
  BY DEF TypeOK, DirsType, MarkersType, ControlType, PcType, LockInv, OpInv, Absent, Whole, Partial
<1>8. StageInv'
  BY DEF TypeOK, DirsType, MarkersType, ControlType, PcType, LockInv, StageInv, OpInv, Absent, Whole, Partial
<1>9. MarkerInv'
  BY DEF TypeOK, DirsType, MarkersType, ControlType, PcType, MarkerInv, OpInv, Absent, Whole, Partial
<1>10. CommitInv'
  BY DEF TypeOK, DirsType, MarkersType, ControlType, PcType, CommitInv, OpInv, Absent, Whole, Partial
<1>11. AcceptedInv'
  BY DEF TypeOK, DirsType, MarkersType, ControlType, PcType, AcceptedInv, Absent, Whole, Partial
<1>12. OpInv'
  BY DEF TypeOK, DirsType, MarkersType, ControlType, PcType, OpInv, FreshInv, Absent, Whole, Partial
<1>13. FreshInv'
  BY DEF TypeOK, DirsType, MarkersType, ControlType, PcType, OpInv, FreshInv, AcceptedInv, TargetInv, Absent, Whole, Partial
<1>14. TargetInv'
  BY DEF TypeOK, DirsType, MarkersType, ControlType, PcType, LockInv, StageInv, MarkerInv, CommitInv, AcceptedInv, OpInv, TargetInv, BackupInv, KnownBackupInv, Absent, Whole, Partial, TargetNeverTorn
<1>15. BackupInv'
  <2>1. CASE \A q \in Builds : ~Exists(backup'[q]) /\ ~backup'[q].whole
    BY <2>1 DEF BackupInv
  <2>2. CASE UNCHANGED backup
    BY <1>0, <2>2 DEF TypeOK, PcType, BackupInv
  <2>3. CASE Exists(backup[op[b]]) /\ backup' = Set(backup, op[b], Absent)
    <3>1. \A q \in Builds : q # op[b] => ~Exists(backup[q]) /\ ~backup[q].whole
      BY <1>0, <2>3 DEF BackupInv
    <3>2. \A q \in Builds : backup'[q] = IF q = op[b] THEN Absent ELSE backup[q]
      BY <1>0, <2>3 DEF TypeOK, DirsType
    <3> QED BY <2>1, <3>1, <3>2 DEF Absent
  <2> QED BY <2>2, <2>3
<1>16. KnownBackupInv'
  BY DEF TypeOK, DirsType, MarkersType, ControlType, PcType, LockInv, OpInv, BackupInv, KnownBackupInv, Absent, Whole, Partial
<1>17. ChainInv'
  BY DEF TypeOK, DirsType, MarkersType, ControlType, PcType, LockInv, StageInv, MarkerInv, CommitInv, OpInv, TargetInv, BackupInv, KnownBackupInv, ChainInv, Absent, Whole, Partial
<1> QED BY <1>1, <1>2, <1>3, <1>4, <1>5, <1>6, <1>7, <1>8, <1>9, <1>10, <1>11, <1>12, <1>13, <1>14, <1>15, <1>16, <1>17 DEF TypeOK

\* The checks before the deletion change nothing.
LEMMA DeleteTombstoneStep ==
    ASSUME CustodyInv, NEW b \in Builds, DeleteTombstone(b) PROVE CustodyInv'
<1> USE DEF DeleteTombstone, ChainRaises, CustodyInv
<1>1. DirsType'
  BY DirTypes DEF TypeOK, OpInv, DirsType, ControlType, Gens
<1>2. MarkersType'
  BY DEF TypeOK, OpInv, MarkersType, Marker
<1>3. ControlType'
  BY DEF TypeOK, OpInv, ControlType
<1>4. PcType'
  BY DEF TypeOK, PcType, Labels
<1>5. ResultType'
  BY DEF TypeOK, ResultType, PcType, Labels
<1>6. BoundsType'
  BY DEF TypeOK, BoundsType
<1>7. LockInv'
  BY DEF TypeOK, DirsType, MarkersType, ControlType, PcType, LockInv, OpInv, Absent, Whole, Partial
<1>8. StageInv'
  BY DEF TypeOK, DirsType, MarkersType, ControlType, PcType, LockInv, StageInv, OpInv, Absent, Whole, Partial
<1>9. MarkerInv'
  BY DEF TypeOK, DirsType, MarkersType, ControlType, PcType, MarkerInv, OpInv, Absent, Whole, Partial
<1>10. CommitInv'
  BY DEF TypeOK, DirsType, MarkersType, ControlType, PcType, CommitInv, OpInv, Absent, Whole, Partial
<1>11. AcceptedInv'
  BY DEF TypeOK, DirsType, MarkersType, ControlType, PcType, AcceptedInv, Absent, Whole, Partial
<1>12. OpInv'
  BY DEF TypeOK, DirsType, MarkersType, ControlType, PcType, OpInv, FreshInv, Absent, Whole, Partial
<1>13. FreshInv'
  BY DEF TypeOK, DirsType, MarkersType, ControlType, PcType, OpInv, FreshInv, AcceptedInv, TargetInv, Absent, Whole, Partial
<1>14. TargetInv'
  BY DEF TypeOK, DirsType, MarkersType, ControlType, PcType, LockInv, StageInv, MarkerInv, CommitInv, AcceptedInv, OpInv, TargetInv, BackupInv, KnownBackupInv, Absent, Whole, Partial, TargetNeverTorn
<1>15. BackupInv'
  BY DEF TypeOK, DirsType, MarkersType, ControlType, PcType, LockInv, StageInv, OpInv, FreshInv, TargetInv, BackupInv, KnownBackupInv, Absent, Whole, Partial
<1>16. KnownBackupInv'
  BY DEF TypeOK, DirsType, MarkersType, ControlType, PcType, LockInv, OpInv, BackupInv, KnownBackupInv, Absent, Whole, Partial
<1>17. ChainInv'
  BY DEF TypeOK, DirsType, MarkersType, ControlType, PcType, LockInv, StageInv, MarkerInv, CommitInv, OpInv, TargetInv, BackupInv, KnownBackupInv, ChainInv, Absent, Whole, Partial
<1> QED BY <1>1, <1>2, <1>3, <1>4, <1>5, <1>6, <1>7, <1>8, <1>9, <1>10, <1>11, <1>12, <1>13, <1>14, <1>15, <1>16, <1>17 DEF TypeOK

\* The deletion of leaves touches the tombstone only.
LEMMA UnlinkLeavesStep ==
    ASSUME CustodyInv, NEW b \in Builds, UnlinkLeaves(b) PROVE CustodyInv'
<1> USE DEF UnlinkLeaves, ChainRaises, CustodyInv
<1>1. DirsType'
  BY DirTypes DEF TypeOK, OpInv, DirsType, ControlType, Gens
<1>2. MarkersType'
  BY DEF TypeOK, OpInv, MarkersType, Marker
<1>3. ControlType'
  BY DEF TypeOK, OpInv, ControlType
<1>4. PcType'
  BY DEF TypeOK, PcType, Labels
<1>5. ResultType'
  BY DEF TypeOK, ResultType, PcType, Labels
<1>6. BoundsType'
  BY DEF TypeOK, BoundsType
<1>7. LockInv'
  BY DEF TypeOK, DirsType, MarkersType, ControlType, PcType, LockInv, OpInv, Absent, Whole, Partial
<1>8. StageInv'
  BY DEF TypeOK, DirsType, MarkersType, ControlType, PcType, LockInv, StageInv, OpInv, Absent, Whole, Partial
<1>9. MarkerInv'
  BY DEF TypeOK, DirsType, MarkersType, ControlType, PcType, MarkerInv, OpInv, Absent, Whole, Partial
<1>10. CommitInv'
  BY DEF TypeOK, DirsType, MarkersType, ControlType, PcType, CommitInv, OpInv, Absent, Whole, Partial
<1>11. AcceptedInv'
  BY DEF TypeOK, DirsType, MarkersType, ControlType, PcType, AcceptedInv, Absent, Whole, Partial
<1>12. OpInv'
  BY DEF TypeOK, DirsType, MarkersType, ControlType, PcType, OpInv, FreshInv, Absent, Whole, Partial
<1>13. FreshInv'
  BY DEF TypeOK, DirsType, MarkersType, ControlType, PcType, OpInv, FreshInv, AcceptedInv, TargetInv, Absent, Whole, Partial
<1>14. TargetInv'
  BY DEF TypeOK, DirsType, MarkersType, ControlType, PcType, LockInv, StageInv, MarkerInv, CommitInv, AcceptedInv, OpInv, TargetInv, BackupInv, KnownBackupInv, Absent, Whole, Partial, TargetNeverTorn
<1>15. BackupInv'
  BY DEF TypeOK, DirsType, MarkersType, ControlType, PcType, LockInv, StageInv, OpInv, FreshInv, TargetInv, BackupInv, KnownBackupInv, Absent, Whole, Partial
<1>16. KnownBackupInv'
  BY DEF TypeOK, DirsType, MarkersType, ControlType, PcType, LockInv, OpInv, BackupInv, KnownBackupInv, Absent, Whole, Partial
<1>17. ChainInv'
  BY DEF TypeOK, DirsType, MarkersType, ControlType, PcType, LockInv, StageInv, MarkerInv, CommitInv, OpInv, TargetInv, BackupInv, KnownBackupInv, ChainInv, Absent, Whole, Partial
<1> QED BY <1>1, <1>2, <1>3, <1>4, <1>5, <1>6, <1>7, <1>8, <1>9, <1>10, <1>11, <1>12, <1>13, <1>14, <1>15, <1>16, <1>17 DEF TypeOK

\* So does the rmdir.
LEMMA RmdirTombstoneStep ==
    ASSUME CustodyInv, NEW b \in Builds, RmdirTombstone(b) PROVE CustodyInv'
<1> USE DEF RmdirTombstone, ChainRaises, CustodyInv
<1>1. DirsType'
  BY DirTypes DEF TypeOK, OpInv, DirsType, ControlType, Gens
<1>2. MarkersType'
  BY DEF TypeOK, OpInv, MarkersType, Marker
<1>3. ControlType'
  BY DEF TypeOK, OpInv, ControlType
<1>4. PcType'
  BY DEF TypeOK, PcType, Labels
<1>5. ResultType'
  BY DEF TypeOK, ResultType, PcType, Labels
<1>6. BoundsType'
  BY DEF TypeOK, BoundsType
<1>7. LockInv'
  BY DEF TypeOK, DirsType, MarkersType, ControlType, PcType, LockInv, OpInv, Absent, Whole, Partial
<1>8. StageInv'
  BY DEF TypeOK, DirsType, MarkersType, ControlType, PcType, LockInv, StageInv, OpInv, Absent, Whole, Partial
<1>9. MarkerInv'
  BY DEF TypeOK, DirsType, MarkersType, ControlType, PcType, MarkerInv, OpInv, Absent, Whole, Partial
<1>10. CommitInv'
  BY DEF TypeOK, DirsType, MarkersType, ControlType, PcType, CommitInv, OpInv, Absent, Whole, Partial
<1>11. AcceptedInv'
  BY DEF TypeOK, DirsType, MarkersType, ControlType, PcType, AcceptedInv, Absent, Whole, Partial
<1>12. OpInv'
  BY DEF TypeOK, DirsType, MarkersType, ControlType, PcType, OpInv, FreshInv, Absent, Whole, Partial
<1>13. FreshInv'
  BY DEF TypeOK, DirsType, MarkersType, ControlType, PcType, OpInv, FreshInv, AcceptedInv, TargetInv, Absent, Whole, Partial
<1>14. TargetInv'
  BY DEF TypeOK, DirsType, MarkersType, ControlType, PcType, LockInv, StageInv, MarkerInv, CommitInv, AcceptedInv, OpInv, TargetInv, BackupInv, KnownBackupInv, Absent, Whole, Partial, TargetNeverTorn
<1>15. BackupInv'
  BY DEF TypeOK, DirsType, MarkersType, ControlType, PcType, LockInv, StageInv, OpInv, FreshInv, TargetInv, BackupInv, KnownBackupInv, Absent, Whole, Partial
<1>16. KnownBackupInv'
  BY DEF TypeOK, DirsType, MarkersType, ControlType, PcType, LockInv, OpInv, BackupInv, KnownBackupInv, Absent, Whole, Partial
<1>17. ChainInv'
  BY DEF TypeOK, DirsType, MarkersType, ControlType, PcType, LockInv, StageInv, MarkerInv, CommitInv, OpInv, TargetInv, BackupInv, KnownBackupInv, ChainInv, Absent, Whole, Partial
<1> QED BY <1>1, <1>2, <1>3, <1>4, <1>5, <1>6, <1>7, <1>8, <1>9, <1>10, <1>11, <1>12, <1>13, <1>14, <1>15, <1>16, <1>17 DEF TypeOK

\* Unlink of a tombstone marker, in the chain or before a restore.
LEMMA UnlinkTombstoneMarkerStep ==
    ASSUME CustodyInv, NEW b \in Builds, UnlinkTombstoneMarker(b) PROVE CustodyInv'
<1> USE DEF UnlinkTombstoneMarker, ChainRaises, CustodyInv
<1>1. DirsType'
  BY DirTypes DEF TypeOK, OpInv, DirsType, ControlType, Gens
<1>2. MarkersType'
  BY DEF TypeOK, OpInv, MarkersType, Marker
<1>3. ControlType'
  BY DEF TypeOK, OpInv, ControlType
<1>4. PcType'
  BY DEF TypeOK, PcType, Labels
<1>5. ResultType'
  BY DEF TypeOK, ResultType, PcType, Labels
<1>6. BoundsType'
  BY DEF TypeOK, BoundsType
<1>7. LockInv'
  BY DEF TypeOK, DirsType, MarkersType, ControlType, PcType, LockInv, OpInv, Absent, Whole, Partial
<1>8. StageInv'
  BY DEF TypeOK, DirsType, MarkersType, ControlType, PcType, LockInv, StageInv, OpInv, Absent, Whole, Partial
<1>9. MarkerInv'
  BY DEF TypeOK, DirsType, MarkersType, ControlType, PcType, MarkerInv, OpInv, Absent, Whole, Partial
<1>10. CommitInv'
  BY DEF TypeOK, DirsType, MarkersType, ControlType, PcType, CommitInv, OpInv, Absent, Whole, Partial
<1>11. AcceptedInv'
  BY DEF TypeOK, DirsType, MarkersType, ControlType, PcType, AcceptedInv, Absent, Whole, Partial
<1>12. OpInv'
  BY DEF TypeOK, DirsType, MarkersType, ControlType, PcType, OpInv, FreshInv, Absent, Whole, Partial
<1>13. FreshInv'
  BY DEF TypeOK, DirsType, MarkersType, ControlType, PcType, OpInv, FreshInv, AcceptedInv, TargetInv, Absent, Whole, Partial
<1>14. TargetInv'
  BY DEF TypeOK, DirsType, MarkersType, ControlType, PcType, LockInv, StageInv, MarkerInv, CommitInv, AcceptedInv, OpInv, TargetInv, BackupInv, KnownBackupInv, Absent, Whole, Partial, TargetNeverTorn
<1>15. BackupInv'
  BY DEF TypeOK, DirsType, MarkersType, ControlType, PcType, LockInv, StageInv, OpInv, FreshInv, TargetInv, BackupInv, KnownBackupInv, Absent, Whole, Partial
<1>16. KnownBackupInv'
  BY DEF TypeOK, DirsType, MarkersType, ControlType, PcType, LockInv, OpInv, BackupInv, KnownBackupInv, Absent, Whole, Partial
<1>17. ChainInv'
  BY DEF TypeOK, DirsType, MarkersType, ControlType, PcType, LockInv, StageInv, MarkerInv, CommitInv, OpInv, TargetInv, BackupInv, KnownBackupInv, ChainInv, Absent, Whole, Partial
<1> QED BY <1>1, <1>2, <1>3, <1>4, <1>5, <1>6, <1>7, <1>8, <1>9, <1>10, <1>11, <1>12, <1>13, <1>14, <1>15, <1>16, <1>17 DEF TypeOK

\* Unlink of the backup marker: a publisher ends, a recovery starts to build.
LEMMA UnlinkBackupMarkerStep ==
    ASSUME CustodyInv, NEW b \in Builds, UnlinkBackupMarker(b) PROVE CustodyInv'
<1> USE DEF UnlinkBackupMarker, ChainRaises, CustodyInv
<1>1. DirsType'
  BY DirTypes DEF TypeOK, OpInv, DirsType, ControlType, Gens
<1>2. MarkersType'
  BY DEF TypeOK, OpInv, MarkersType, Marker
<1>3. ControlType'
  BY DEF TypeOK, OpInv, ControlType
<1>4. PcType'
  BY DEF TypeOK, PcType, Labels
<1>5. ResultType'
  BY DEF TypeOK, ResultType, PcType, Labels
<1>6. BoundsType'
  BY DEF TypeOK, BoundsType
<1>7. LockInv'
  BY DEF TypeOK, DirsType, MarkersType, ControlType, PcType, LockInv, OpInv, Absent, Whole, Partial
<1>8. StageInv'
  BY DEF TypeOK, DirsType, MarkersType, ControlType, PcType, LockInv, StageInv, OpInv, Absent, Whole, Partial
<1>9. MarkerInv'
  BY DEF TypeOK, DirsType, MarkersType, ControlType, PcType, MarkerInv, OpInv, Absent, Whole, Partial
<1>10. CommitInv'
  BY DEF TypeOK, DirsType, MarkersType, ControlType, PcType, CommitInv, OpInv, Absent, Whole, Partial
<1>11. AcceptedInv'
  BY DEF TypeOK, DirsType, MarkersType, ControlType, PcType, AcceptedInv, Absent, Whole, Partial
<1>12. OpInv'
  BY DEF TypeOK, DirsType, MarkersType, ControlType, PcType, OpInv, FreshInv, Absent, Whole, Partial
<1>13. FreshInv'
  BY DEF TypeOK, DirsType, MarkersType, ControlType, PcType, OpInv, FreshInv, AcceptedInv, TargetInv, Absent, Whole, Partial
<1>14. TargetInv'
  BY DEF TypeOK, DirsType, MarkersType, ControlType, PcType, LockInv, StageInv, MarkerInv, CommitInv, AcceptedInv, OpInv, TargetInv, BackupInv, KnownBackupInv, Absent, Whole, Partial, TargetNeverTorn
<1>15. BackupInv'
  BY DEF TypeOK, DirsType, MarkersType, ControlType, PcType, LockInv, StageInv, OpInv, FreshInv, TargetInv, BackupInv, KnownBackupInv, Absent, Whole, Partial
<1>16. KnownBackupInv'
  BY DEF TypeOK, DirsType, MarkersType, ControlType, PcType, LockInv, OpInv, BackupInv, KnownBackupInv, Absent, Whole, Partial
<1>17. ChainInv'
  BY DEF TypeOK, DirsType, MarkersType, ControlType, PcType, LockInv, StageInv, MarkerInv, CommitInv, OpInv, TargetInv, BackupInv, KnownBackupInv, ChainInv, Absent, Whole, Partial
<1> QED BY <1>1, <1>2, <1>3, <1>4, <1>5, <1>6, <1>7, <1>8, <1>9, <1>10, <1>11, <1>12, <1>13, <1>14, <1>15, <1>16, <1>17 DEF TypeOK

\* A candidate is whole when it is handed to publish, or its build leaves.
LEMMA BuildCandidateStep ==
    ASSUME CustodyInv, NEW b \in Builds, BuildCandidate(b) PROVE CustodyInv'
<1> USE DEF BuildCandidate, CustodyInv
<1>1. DirsType'
  <2>1. Whole(b) \in Dir  BY DirTypes DEF Gens
  <2> QED BY <2>1 DEF TypeOK, DirsType
<1>2. MarkersType'
  BY DEF TypeOK, OpInv, MarkersType, Marker
<1>3. ControlType'
  BY DEF TypeOK, OpInv, ControlType
<1>4. PcType'
  BY DEF TypeOK, PcType, Labels
<1>5. ResultType'
  BY DEF TypeOK, ResultType, PcType, Labels
<1>6. BoundsType'
  BY DEF TypeOK, BoundsType
<1>7. LockInv'
  BY DEF TypeOK, DirsType, MarkersType, ControlType, PcType, LockInv, OpInv, Absent, Whole, Partial
<1>8. StageInv'
  BY DEF TypeOK, DirsType, MarkersType, ControlType, PcType, LockInv, StageInv, OpInv, Absent, Whole, Partial
<1>9. MarkerInv'
  BY DEF TypeOK, DirsType, MarkersType, ControlType, PcType, MarkerInv, OpInv, Absent, Whole, Partial
<1>10. CommitInv'
  BY DEF TypeOK, DirsType, MarkersType, ControlType, PcType, CommitInv, OpInv, Absent, Whole, Partial
<1>11. AcceptedInv'
  <2>1. ASSUME NEW c \in Builds, c # b  PROVE pc'[c] = pc[c] /\ stage'[c] = stage[c]
    BY <2>1 DEF TypeOK, DirsType, PcType
  <2>2. stage'[b] = Whole(b) \/ pc'[b] = "discard_stage"
    BY DEF TypeOK, DirsType, PcType
  <2> QED BY <2>1, <2>2 DEF AcceptedInv, Whole
<1>12. OpInv'
  BY DEF TypeOK, DirsType, MarkersType, ControlType, PcType, OpInv, FreshInv, Absent, Whole, Partial
<1>13. FreshInv'
  BY DEF TypeOK, DirsType, MarkersType, ControlType, PcType, OpInv, FreshInv, AcceptedInv, TargetInv, Absent, Whole, Partial
<1>14. TargetInv'
  BY DEF TypeOK, DirsType, MarkersType, ControlType, PcType, LockInv, StageInv, MarkerInv, CommitInv, AcceptedInv, OpInv, TargetInv, BackupInv, KnownBackupInv, Absent, Whole, Partial, TargetNeverTorn
<1>15. BackupInv'
  BY DEF TypeOK, DirsType, MarkersType, ControlType, PcType, LockInv, StageInv, OpInv, FreshInv, TargetInv, BackupInv, KnownBackupInv, Absent, Whole, Partial
<1>16. KnownBackupInv'
  BY DEF TypeOK, DirsType, MarkersType, ControlType, PcType, LockInv, OpInv, BackupInv, KnownBackupInv, Absent, Whole, Partial
<1>17. ChainInv'
  BY DEF TypeOK, DirsType, MarkersType, ControlType, PcType, LockInv, StageInv, MarkerInv, CommitInv, OpInv, TargetInv, BackupInv, KnownBackupInv, ChainInv, Absent, Whole, Partial
<1> QED BY <1>1, <1>2, <1>3, <1>4, <1>5, <1>6, <1>7, <1>8, <1>9, <1>10, <1>11, <1>12, <1>13, <1>14, <1>15, <1>16, <1>17 DEF TypeOK

\* publish takes its own operation id, unused until then (FreshInv).
LEMMA StartPublishStep ==
    ASSUME CustodyInv, NEW b \in Builds, StartPublish(b) PROVE CustodyInv'
<1> USE DEF StartPublish, CustodyInv
<1>1. DirsType'
  BY DirTypes DEF TypeOK, OpInv, DirsType, ControlType, Gens
<1>2. MarkersType'
  BY DEF TypeOK, OpInv, MarkersType, Marker
<1>3. ControlType'
  BY DEF TypeOK, OpInv, ControlType
<1>4. PcType'
  BY DEF TypeOK, PcType, Labels
<1>5. ResultType'
  BY DEF TypeOK, ResultType, PcType, Labels
<1>6. BoundsType'
  BY DEF TypeOK, BoundsType
<1>7. LockInv'
  BY DEF TypeOK, DirsType, MarkersType, ControlType, PcType, LockInv, OpInv, Absent, Whole, Partial
<1>8. StageInv'
  BY DEF TypeOK, DirsType, MarkersType, ControlType, PcType, LockInv, StageInv, OpInv, Absent, Whole, Partial
<1>9. MarkerInv'
  BY DEF TypeOK, DirsType, MarkersType, ControlType, PcType, MarkerInv, OpInv, Absent, Whole, Partial
<1>10. CommitInv'
  BY DEF TypeOK, DirsType, MarkersType, ControlType, PcType, CommitInv, OpInv, Absent, Whole, Partial
<1>11. AcceptedInv'
  BY DEF TypeOK, DirsType, MarkersType, ControlType, PcType, AcceptedInv, Absent, Whole, Partial
<1>12. OpInv'
  BY DEF TypeOK, DirsType, MarkersType, ControlType, PcType, OpInv, FreshInv, Absent, Whole, Partial
<1>13. FreshInv'
  BY DEF TypeOK, DirsType, MarkersType, ControlType, PcType, OpInv, FreshInv, AcceptedInv, TargetInv, Absent, Whole, Partial
<1>14. TargetInv'
  BY DEF TypeOK, DirsType, MarkersType, ControlType, PcType, LockInv, StageInv, MarkerInv, CommitInv, AcceptedInv, OpInv, TargetInv, BackupInv, KnownBackupInv, Absent, Whole, Partial, TargetNeverTorn
<1>15. BackupInv'
  BY DEF TypeOK, DirsType, MarkersType, ControlType, PcType, LockInv, StageInv, OpInv, FreshInv, TargetInv, BackupInv, KnownBackupInv, Absent, Whole, Partial
<1>16. KnownBackupInv'
  BY DEF TypeOK, DirsType, MarkersType, ControlType, PcType, LockInv, OpInv, BackupInv, KnownBackupInv, Absent, Whole, Partial
<1>17. ChainInv'
  BY DEF TypeOK, DirsType, MarkersType, ControlType, PcType, LockInv, StageInv, MarkerInv, CommitInv, OpInv, TargetInv, BackupInv, KnownBackupInv, ChainInv, Absent, Whole, Partial
<1> QED BY <1>1, <1>2, <1>3, <1>4, <1>5, <1>6, <1>7, <1>8, <1>9, <1>10, <1>11, <1>12, <1>13, <1>14, <1>15, <1>16, <1>17 DEF TypeOK

\* Creation of the backup marker.
LEMMA CreateBackupMarkerStep ==
    ASSUME CustodyInv, NEW b \in Builds, CreateBackupMarker(b) PROVE CustodyInv'
<1> USE DEF CreateBackupMarker, CustodyInv
<1>1. DirsType'
  BY DirTypes DEF TypeOK, OpInv, DirsType, ControlType, Gens
<1>2. MarkersType'
  BY DEF TypeOK, OpInv, MarkersType, Marker
<1>3. ControlType'
  BY DEF TypeOK, OpInv, ControlType
<1>4. PcType'
  BY DEF TypeOK, PcType, Labels
<1>5. ResultType'
  BY DEF TypeOK, ResultType, PcType, Labels
<1>6. BoundsType'
  BY DEF TypeOK, BoundsType
<1>7. LockInv'
  BY DEF TypeOK, DirsType, MarkersType, ControlType, PcType, LockInv, OpInv, Absent, Whole, Partial
<1>8. StageInv'
  BY DEF TypeOK, DirsType, MarkersType, ControlType, PcType, LockInv, StageInv, OpInv, Absent, Whole, Partial
<1>9. MarkerInv'
  BY DEF TypeOK, DirsType, MarkersType, ControlType, PcType, MarkerInv, OpInv, Absent, Whole, Partial
<1>10. CommitInv'
  BY DEF TypeOK, DirsType, MarkersType, ControlType, PcType, CommitInv, OpInv, Absent, Whole, Partial
<1>11. AcceptedInv'
  BY DEF TypeOK, DirsType, MarkersType, ControlType, PcType, AcceptedInv, Absent, Whole, Partial
<1>12. OpInv'
  BY DEF TypeOK, DirsType, MarkersType, ControlType, PcType, OpInv, FreshInv, Absent, Whole, Partial
<1>13. FreshInv'
  BY DEF TypeOK, DirsType, MarkersType, ControlType, PcType, OpInv, FreshInv, AcceptedInv, TargetInv, Absent, Whole, Partial
<1>14. TargetInv'
  BY DEF TypeOK, DirsType, MarkersType, ControlType, PcType, LockInv, StageInv, MarkerInv, CommitInv, AcceptedInv, OpInv, TargetInv, BackupInv, KnownBackupInv, Absent, Whole, Partial, TargetNeverTorn
<1>15. BackupInv'
  BY DEF TypeOK, DirsType, MarkersType, ControlType, PcType, LockInv, StageInv, OpInv, FreshInv, TargetInv, BackupInv, KnownBackupInv, Absent, Whole, Partial
<1>16. KnownBackupInv'
  BY DEF TypeOK, DirsType, MarkersType, ControlType, PcType, LockInv, OpInv, BackupInv, KnownBackupInv, Absent, Whole, Partial
<1>17. ChainInv'
  BY DEF TypeOK, DirsType, MarkersType, ControlType, PcType, LockInv, StageInv, MarkerInv, CommitInv, OpInv, TargetInv, BackupInv, KnownBackupInv, ChainInv, Absent, Whole, Partial
<1> QED BY <1>1, <1>2, <1>3, <1>4, <1>5, <1>6, <1>7, <1>8, <1>9, <1>10, <1>11, <1>12, <1>13, <1>14, <1>15, <1>16, <1>17 DEF TypeOK

\* Its write.
LEMMA WriteBackupMarkerStep ==
    ASSUME CustodyInv, NEW b \in Builds, WriteBackupMarker(b) PROVE CustodyInv'
<1> USE DEF WriteBackupMarker, CustodyInv
<1>1. DirsType'
  BY DirTypes DEF TypeOK, OpInv, DirsType, ControlType, Gens
<1>2. MarkersType'
  BY DEF TypeOK, OpInv, MarkersType, Marker
<1>3. ControlType'
  BY DEF TypeOK, OpInv, ControlType
<1>4. PcType'
  BY DEF TypeOK, PcType, Labels
<1>5. ResultType'
  BY DEF TypeOK, ResultType, PcType, Labels
<1>6. BoundsType'
  BY DEF TypeOK, BoundsType
<1>7. LockInv'
  BY DEF TypeOK, DirsType, MarkersType, ControlType, PcType, LockInv, OpInv, Absent, Whole, Partial
<1>8. StageInv'
  BY DEF TypeOK, DirsType, MarkersType, ControlType, PcType, LockInv, StageInv, OpInv, Absent, Whole, Partial
<1>9. MarkerInv'
  BY DEF TypeOK, DirsType, MarkersType, ControlType, PcType, MarkerInv, OpInv, Absent, Whole, Partial
<1>10. CommitInv'
  BY DEF TypeOK, DirsType, MarkersType, ControlType, PcType, CommitInv, OpInv, Absent, Whole, Partial
<1>11. AcceptedInv'
  BY DEF TypeOK, DirsType, MarkersType, ControlType, PcType, AcceptedInv, Absent, Whole, Partial
<1>12. OpInv'
  BY DEF TypeOK, DirsType, MarkersType, ControlType, PcType, OpInv, FreshInv, Absent, Whole, Partial
<1>13. FreshInv'
  BY DEF TypeOK, DirsType, MarkersType, ControlType, PcType, OpInv, FreshInv, AcceptedInv, TargetInv, Absent, Whole, Partial
<1>14. TargetInv'
  BY DEF TypeOK, DirsType, MarkersType, ControlType, PcType, LockInv, StageInv, MarkerInv, CommitInv, AcceptedInv, OpInv, TargetInv, BackupInv, KnownBackupInv, Absent, Whole, Partial, TargetNeverTorn
<1>15. BackupInv'
  BY DEF TypeOK, DirsType, MarkersType, ControlType, PcType, LockInv, StageInv, OpInv, FreshInv, TargetInv, BackupInv, KnownBackupInv, Absent, Whole, Partial
<1>16. KnownBackupInv'
  BY DEF TypeOK, DirsType, MarkersType, ControlType, PcType, LockInv, OpInv, BackupInv, KnownBackupInv, Absent, Whole, Partial
<1>17. ChainInv'
  BY DEF TypeOK, DirsType, MarkersType, ControlType, PcType, LockInv, StageInv, MarkerInv, CommitInv, OpInv, TargetInv, BackupInv, KnownBackupInv, ChainInv, Absent, Whole, Partial
<1> QED BY <1>1, <1>2, <1>3, <1>4, <1>5, <1>6, <1>7, <1>8, <1>9, <1>10, <1>11, <1>12, <1>13, <1>14, <1>15, <1>16, <1>17 DEF TypeOK

\* The target is set aside: whole, and settled because no other build that has
\* not committed can share the lock (LockInv) or a stage name (StageInv).
LEMMA RenameTargetToBackupStep ==
    ASSUME CustodyInv, NEW b \in Builds, RenameTargetToBackup(b) PROVE CustodyInv'
<1> USE DEF RenameTargetToBackup, CustodyInv
<1>1. DirsType'
  BY DirTypes DEF TypeOK, OpInv, DirsType, ControlType, Gens
<1>2. MarkersType'
  BY DEF TypeOK, OpInv, MarkersType, Marker
<1>3. ControlType'
  BY DEF TypeOK, OpInv, ControlType
<1>4. PcType'
  BY DEF TypeOK, PcType, Labels
<1>5. ResultType'
  BY DEF TypeOK, ResultType, PcType, Labels
<1>6. BoundsType'
  BY DEF TypeOK, BoundsType
<1>7. LockInv'
  BY DEF TypeOK, DirsType, MarkersType, ControlType, PcType, LockInv, OpInv, Absent, Whole, Partial
<1>8. StageInv'
  BY DEF TypeOK, DirsType, MarkersType, ControlType, PcType, LockInv, StageInv, OpInv, Absent, Whole, Partial
<1>9. MarkerInv'
  BY DEF TypeOK, DirsType, MarkersType, ControlType, PcType, MarkerInv, OpInv, Absent, Whole, Partial
<1>10. CommitInv'
  BY DEF TypeOK, DirsType, MarkersType, ControlType, PcType, CommitInv, OpInv, Absent, Whole, Partial
<1>11. AcceptedInv'
  BY DEF TypeOK, DirsType, MarkersType, ControlType, PcType, AcceptedInv, Absent, Whole, Partial
<1>12. OpInv'
  BY DEF TypeOK, DirsType, MarkersType, ControlType, PcType, OpInv, FreshInv, Absent, Whole, Partial
<1>13. FreshInv'
  <2> SUFFICES ASSUME NEW c \in Builds, op[c] # c
               PROVE  /\ ~HasRemnant(c)' /\ target'.gen # c
                      /\ \A o \in Builds : backup'[o].gen # c /\ op[o] # c
    BY DEF FreshInv
  <2>1. c # b /\ op[b] = b  BY DEF OpInv
  <2>2. ~HasRemnant(c) /\ target.gen # c
    BY DEF FreshInv
  <2>3. \A o \in Builds : backup[o].gen # c /\ op[o] # c
    BY DEF FreshInv
  <2>4. target'.gen # c  BY <2>2 DEF Absent
  <2>5. ~HasRemnant(c)'  BY <2>1, <2>2 DEF TypeOK, DirsType, MarkersType
  <2>6. \A o \in Builds : backup'[o].gen # c
    BY <2>2, <2>3 DEF TypeOK, DirsType
  <2> QED BY <2>3, <2>4, <2>5, <2>6
<1>14. TargetInv'
  BY DEF TypeOK, DirsType, MarkersType, ControlType, PcType, LockInv, StageInv, MarkerInv, CommitInv, AcceptedInv, OpInv, TargetInv, BackupInv, KnownBackupInv, Absent, Whole, Partial, TargetNeverTorn
<1>15. BackupInv'
  <2>1. /\ Exists(target) /\ target.whole /\ Settled(target.gen)
        /\ \A o \in Builds : ~Exists(backup[o])
    <3>1. Exists(target) /\ target.whole /\ \A o \in Builds : ~Exists(backup[o])
      BY DEF TargetInv, KnownBackupInv
    <3>2. ~Unsettled(target.gen)
      <4>1. ASSUME Unsettled(target.gen)  PROVE FALSE
        BY <4>1 DEF TypeOK, DirsType, ControlType, PcType, LockInv, StageInv, MarkerInv, TargetInv
      <4> QED BY <4>1
    <3> QED BY <3>1, <3>2 DEF TargetInv
  <2>2. ASSUME NEW g, Settled(g)  PROVE Settled(g)'
    BY <2>2 DEF TypeOK, PcType, OpInv
  <2>3. ASSUME NEW o \in Builds, o # b  PROVE backup'[o] = backup[o]
    BY <2>3 DEF TypeOK, DirsType
  <2>4. backup'[b] = backup[b] \/ backup'[b] = target
    BY DEF TypeOK, DirsType
  <2>5. \A o \in Builds : backup[o].whole => Exists(backup[o])  BY DEF BackupInv
  <2> QED BY <2>1, <2>2, <2>3, <2>4, <2>5 DEF BackupInv
<1>16. KnownBackupInv'
  BY DEF TypeOK, DirsType, MarkersType, ControlType, PcType, LockInv, OpInv, BackupInv, KnownBackupInv, Absent, Whole, Partial
<1>17. ChainInv'
  BY DEF TypeOK, DirsType, MarkersType, ControlType, PcType, LockInv, StageInv, MarkerInv, CommitInv, OpInv, TargetInv, BackupInv, KnownBackupInv, ChainInv, Absent, Whole, Partial
<1> QED BY <1>1, <1>2, <1>3, <1>4, <1>5, <1>6, <1>7, <1>8, <1>9, <1>10, <1>11, <1>12, <1>13, <1>14, <1>15, <1>16, <1>17 DEF TypeOK

\* Verification of the backup decides between the swap and the restore.
LEMMA VerifyBackupStep ==
    ASSUME CustodyInv, NEW b \in Builds, VerifyBackup(b) PROVE CustodyInv'
<1> USE DEF VerifyBackup, BackupVerifies, CustodyInv
<1>1. DirsType'
  BY DirTypes DEF TypeOK, OpInv, DirsType, ControlType, Gens
<1>2. MarkersType'
  BY DEF TypeOK, OpInv, MarkersType, Marker
<1>3. ControlType'
  BY DEF TypeOK, OpInv, ControlType
<1>4. PcType'
  BY DEF TypeOK, PcType, Labels
<1>5. ResultType'
  BY DEF TypeOK, ResultType, PcType, Labels
<1>6. BoundsType'
  BY DEF TypeOK, BoundsType
<1>7. LockInv'
  BY DEF TypeOK, DirsType, MarkersType, ControlType, PcType, LockInv, OpInv, Absent, Whole, Partial
<1>8. StageInv'
  BY DEF TypeOK, DirsType, MarkersType, ControlType, PcType, LockInv, StageInv, OpInv, Absent, Whole, Partial
<1>9. MarkerInv'
  BY DEF TypeOK, DirsType, MarkersType, ControlType, PcType, MarkerInv, OpInv, Absent, Whole, Partial
<1>10. CommitInv'
  BY DEF TypeOK, DirsType, MarkersType, ControlType, PcType, CommitInv, OpInv, Absent, Whole, Partial
<1>11. AcceptedInv'
  BY DEF TypeOK, DirsType, MarkersType, ControlType, PcType, AcceptedInv, Absent, Whole, Partial
<1>12. OpInv'
  BY DEF TypeOK, DirsType, MarkersType, ControlType, PcType, OpInv, FreshInv, Absent, Whole, Partial
<1>13. FreshInv'
  BY DEF TypeOK, DirsType, MarkersType, ControlType, PcType, OpInv, FreshInv, AcceptedInv, TargetInv, Absent, Whole, Partial
<1>14. TargetInv'
  BY DEF TypeOK, DirsType, MarkersType, ControlType, PcType, LockInv, StageInv, MarkerInv, CommitInv, AcceptedInv, OpInv, TargetInv, BackupInv, KnownBackupInv, Absent, Whole, Partial, TargetNeverTorn
<1>15. BackupInv'
  BY DEF TypeOK, DirsType, MarkersType, ControlType, PcType, LockInv, StageInv, OpInv, FreshInv, TargetInv, BackupInv, KnownBackupInv, Absent, Whole, Partial
<1>16. KnownBackupInv'
  BY DEF TypeOK, DirsType, MarkersType, ControlType, PcType, LockInv, OpInv, BackupInv, KnownBackupInv, Absent, Whole, Partial
<1>17. ChainInv'
  BY DEF TypeOK, DirsType, MarkersType, ControlType, PcType, LockInv, StageInv, MarkerInv, CommitInv, OpInv, TargetInv, BackupInv, KnownBackupInv, ChainInv, Absent, Whole, Partial
<1> QED BY <1>1, <1>2, <1>3, <1>4, <1>5, <1>6, <1>7, <1>8, <1>9, <1>10, <1>11, <1>12, <1>13, <1>14, <1>15, <1>16, <1>17 DEF TypeOK

\* The accepted stage becomes the target, unsettled under the lock.
LEMMA RenameStageToTargetStep ==
    ASSUME CustodyInv, NEW b \in Builds, RenameStageToTarget(b) PROVE CustodyInv'
<1> USE DEF RenameStageToTarget, HadTarget, CustodyInv
<1>1. DirsType'
  BY DirTypes DEF TypeOK, OpInv, DirsType, ControlType, Gens
<1>2. MarkersType'
  BY DEF TypeOK, OpInv, MarkersType, Marker
<1>3. ControlType'
  BY DEF TypeOK, OpInv, ControlType
<1>4. PcType'
  BY DEF TypeOK, PcType, Labels
<1>5. ResultType'
  BY DEF TypeOK, ResultType, PcType, Labels
<1>6. BoundsType'
  BY DEF TypeOK, BoundsType
<1>7. LockInv'
  BY DEF TypeOK, DirsType, MarkersType, ControlType, PcType, LockInv, OpInv, Absent, Whole, Partial
<1>8. StageInv'
  BY DEF TypeOK, DirsType, MarkersType, ControlType, PcType, LockInv, StageInv, OpInv, Absent, Whole, Partial
<1>9. MarkerInv'
  BY DEF TypeOK, DirsType, MarkersType, ControlType, PcType, MarkerInv, OpInv, Absent, Whole, Partial
<1>10. CommitInv'
  BY DEF TypeOK, DirsType, MarkersType, ControlType, PcType, CommitInv, OpInv, Absent, Whole, Partial
<1>11. AcceptedInv'
  BY DEF TypeOK, DirsType, MarkersType, ControlType, PcType, AcceptedInv, Absent, Whole, Partial
<1>12. OpInv'
  BY DEF TypeOK, DirsType, MarkersType, ControlType, PcType, OpInv, FreshInv, Absent, Whole, Partial
<1>13. FreshInv'
  BY DEF TypeOK, DirsType, MarkersType, ControlType, PcType, OpInv, FreshInv, AcceptedInv, TargetInv, Absent, Whole, Partial
<1>14. TargetInv'
  BY DEF TypeOK, DirsType, MarkersType, ControlType, PcType, LockInv, StageInv, MarkerInv, CommitInv, AcceptedInv, OpInv, TargetInv, BackupInv, KnownBackupInv, Absent, Whole, Partial, TargetNeverTorn
<1>15. BackupInv'
  BY DEF TypeOK, DirsType, MarkersType, ControlType, PcType, LockInv, StageInv, OpInv, FreshInv, TargetInv, BackupInv, KnownBackupInv, Absent, Whole, Partial
<1>16. KnownBackupInv'
  BY DEF TypeOK, DirsType, MarkersType, ControlType, PcType, LockInv, OpInv, BackupInv, KnownBackupInv, Absent, Whole, Partial
<1>17. ChainInv'
  BY DEF TypeOK, DirsType, MarkersType, ControlType, PcType, LockInv, StageInv, MarkerInv, CommitInv, OpInv, TargetInv, BackupInv, KnownBackupInv, ChainInv, Absent, Whole, Partial
<1> QED BY <1>1, <1>2, <1>3, <1>4, <1>5, <1>6, <1>7, <1>8, <1>9, <1>10, <1>11, <1>12, <1>13, <1>14, <1>15, <1>16, <1>17 DEF TypeOK

\* Verification of the new target decides between commit and rollback.
LEMMA VerifyTargetStep ==
    ASSUME CustodyInv, NEW b \in Builds, VerifyTarget(b) PROVE CustodyInv'
<1> USE DEF VerifyTarget, CustodyInv
<1>1. DirsType'
  BY DirTypes DEF TypeOK, OpInv, DirsType, ControlType, Gens
<1>2. MarkersType'
  BY DEF TypeOK, OpInv, MarkersType, Marker
<1>3. ControlType'
  BY DEF TypeOK, OpInv, ControlType
<1>4. PcType'
  BY DEF TypeOK, PcType, Labels
<1>5. ResultType'
  BY DEF TypeOK, ResultType, PcType, Labels
<1>6. BoundsType'
  BY DEF TypeOK, BoundsType
<1>7. LockInv'
  BY DEF TypeOK, DirsType, MarkersType, ControlType, PcType, LockInv, OpInv, Absent, Whole, Partial
<1>8. StageInv'
  BY DEF TypeOK, DirsType, MarkersType, ControlType, PcType, LockInv, StageInv, OpInv, Absent, Whole, Partial
<1>9. MarkerInv'
  BY DEF TypeOK, DirsType, MarkersType, ControlType, PcType, MarkerInv, OpInv, Absent, Whole, Partial
<1>10. CommitInv'
  BY DEF TypeOK, DirsType, MarkersType, ControlType, PcType, CommitInv, OpInv, Absent, Whole, Partial
<1>11. AcceptedInv'
  BY DEF TypeOK, DirsType, MarkersType, ControlType, PcType, AcceptedInv, Absent, Whole, Partial
<1>12. OpInv'
  BY DEF TypeOK, DirsType, MarkersType, ControlType, PcType, OpInv, FreshInv, Absent, Whole, Partial
<1>13. FreshInv'
  BY DEF TypeOK, DirsType, MarkersType, ControlType, PcType, OpInv, FreshInv, AcceptedInv, TargetInv, Absent, Whole, Partial
<1>14. TargetInv'
  BY DEF TypeOK, DirsType, MarkersType, ControlType, PcType, LockInv, StageInv, MarkerInv, CommitInv, AcceptedInv, OpInv, TargetInv, BackupInv, KnownBackupInv, Absent, Whole, Partial, TargetNeverTorn
<1>15. BackupInv'
  BY DEF TypeOK, DirsType, MarkersType, ControlType, PcType, LockInv, StageInv, OpInv, FreshInv, TargetInv, BackupInv, KnownBackupInv, Absent, Whole, Partial
<1>16. KnownBackupInv'
  BY DEF TypeOK, DirsType, MarkersType, ControlType, PcType, LockInv, OpInv, BackupInv, KnownBackupInv, Absent, Whole, Partial
<1>17. ChainInv'
  BY DEF TypeOK, DirsType, MarkersType, ControlType, PcType, LockInv, StageInv, MarkerInv, CommitInv, OpInv, TargetInv, BackupInv, KnownBackupInv, ChainInv, Absent, Whole, Partial
<1> QED BY <1>1, <1>2, <1>3, <1>4, <1>5, <1>6, <1>7, <1>8, <1>9, <1>10, <1>11, <1>12, <1>13, <1>14, <1>15, <1>16, <1>17 DEF TypeOK

\* Unlink of the stage marker, the first half of the commit.
LEMMA UnlinkStageMarkerStep ==
    ASSUME CustodyInv, NEW b \in Builds, UnlinkStageMarker(b) PROVE CustodyInv'
<1> USE DEF UnlinkStageMarker, CustodyInv
<1>1. DirsType'
  BY DirTypes DEF TypeOK, OpInv, DirsType, ControlType, Gens
<1>2. MarkersType'
  BY DEF TypeOK, OpInv, MarkersType, Marker
<1>3. ControlType'
  BY DEF TypeOK, OpInv, ControlType
<1>4. PcType'
  BY DEF TypeOK, PcType, Labels
<1>5. ResultType'
  BY DEF TypeOK, ResultType, PcType, Labels
<1>6. BoundsType'
  BY DEF TypeOK, BoundsType
<1>7. LockInv'
  BY DEF TypeOK, DirsType, MarkersType, ControlType, PcType, LockInv, OpInv, Absent, Whole, Partial
<1>8. StageInv'
  BY DEF TypeOK, DirsType, MarkersType, ControlType, PcType, LockInv, StageInv, OpInv, Absent, Whole, Partial
<1>9. MarkerInv'
  BY DEF TypeOK, DirsType, MarkersType, ControlType, PcType, MarkerInv, OpInv, Absent, Whole, Partial
<1>10. CommitInv'
  BY DEF TypeOK, DirsType, MarkersType, ControlType, PcType, CommitInv, OpInv, Absent, Whole, Partial
<1>11. AcceptedInv'
  BY DEF TypeOK, DirsType, MarkersType, ControlType, PcType, AcceptedInv, Absent, Whole, Partial
<1>12. OpInv'
  BY DEF TypeOK, DirsType, MarkersType, ControlType, PcType, OpInv, FreshInv, Absent, Whole, Partial
<1>13. FreshInv'
  BY DEF TypeOK, DirsType, MarkersType, ControlType, PcType, OpInv, FreshInv, AcceptedInv, TargetInv, Absent, Whole, Partial
<1>14. TargetInv'
  BY DEF TypeOK, DirsType, MarkersType, ControlType, PcType, LockInv, StageInv, MarkerInv, CommitInv, AcceptedInv, OpInv, TargetInv, BackupInv, KnownBackupInv, Absent, Whole, Partial, TargetNeverTorn
<1>15. BackupInv'
  BY DEF TypeOK, DirsType, MarkersType, ControlType, PcType, LockInv, StageInv, OpInv, FreshInv, TargetInv, BackupInv, KnownBackupInv, Absent, Whole, Partial
<1>16. KnownBackupInv'
  BY DEF TypeOK, DirsType, MarkersType, ControlType, PcType, LockInv, OpInv, BackupInv, KnownBackupInv, Absent, Whole, Partial
<1>17. ChainInv'
  BY DEF TypeOK, DirsType, MarkersType, ControlType, PcType, LockInv, StageInv, MarkerInv, CommitInv, OpInv, TargetInv, BackupInv, KnownBackupInv, ChainInv, Absent, Whole, Partial
<1> QED BY <1>1, <1>2, <1>3, <1>4, <1>5, <1>6, <1>7, <1>8, <1>9, <1>10, <1>11, <1>12, <1>13, <1>14, <1>15, <1>16, <1>17 DEF TypeOK

\* The unlock: the new target is settled, with the backup before its tombstone.
LEMMA FinishTransferStep ==
    ASSUME CustodyInv, NEW b \in Builds, FinishTransfer(b) PROVE CustodyInv'
<1> USE DEF FinishTransfer, HadTarget, CustodyInv
<1>1. DirsType'
  BY DirTypes DEF TypeOK, OpInv, DirsType, ControlType, Gens
<1>2. MarkersType'
  BY DEF TypeOK, OpInv, MarkersType, Marker
<1>3. ControlType'
  BY DEF TypeOK, OpInv, ControlType
<1>4. PcType'
  BY DEF TypeOK, PcType, Labels
<1>5. ResultType'
  BY DEF TypeOK, ResultType, PcType, Labels
<1>6. BoundsType'
  BY DEF TypeOK, BoundsType
<1>7. LockInv'
  BY DEF TypeOK, DirsType, MarkersType, ControlType, PcType, LockInv, OpInv, Absent, Whole, Partial
<1>8. StageInv'
  BY DEF TypeOK, DirsType, MarkersType, ControlType, PcType, LockInv, StageInv, OpInv, Absent, Whole, Partial
<1>9. MarkerInv'
  BY DEF TypeOK, DirsType, MarkersType, ControlType, PcType, MarkerInv, OpInv, Absent, Whole, Partial
<1>10. CommitInv'
  BY DEF TypeOK, DirsType, MarkersType, ControlType, PcType, CommitInv, OpInv, Absent, Whole, Partial
<1>11. AcceptedInv'
  BY DEF TypeOK, DirsType, MarkersType, ControlType, PcType, AcceptedInv, Absent, Whole, Partial
<1>12. OpInv'
  BY DEF TypeOK, DirsType, MarkersType, ControlType, PcType, OpInv, FreshInv, Absent, Whole, Partial
<1>13. FreshInv'
  BY DEF TypeOK, DirsType, MarkersType, ControlType, PcType, OpInv, FreshInv, AcceptedInv, TargetInv, Absent, Whole, Partial
<1>14. TargetInv'
  BY DEF TypeOK, DirsType, MarkersType, ControlType, PcType, LockInv, StageInv, MarkerInv, CommitInv, AcceptedInv, OpInv, TargetInv, BackupInv, KnownBackupInv, Absent, Whole, Partial, TargetNeverTorn
<1>15. BackupInv'
  BY DEF TypeOK, DirsType, MarkersType, ControlType, PcType, LockInv, StageInv, OpInv, FreshInv, TargetInv, BackupInv, KnownBackupInv, Absent, Whole, Partial
<1>16. KnownBackupInv'
  BY DEF TypeOK, DirsType, MarkersType, ControlType, PcType, LockInv, OpInv, BackupInv, KnownBackupInv, Absent, Whole, Partial
<1>17. ChainInv'
  BY DEF TypeOK, DirsType, MarkersType, ControlType, PcType, LockInv, StageInv, MarkerInv, CommitInv, OpInv, TargetInv, BackupInv, KnownBackupInv, ChainInv, Absent, Whole, Partial
<1> QED BY <1>1, <1>2, <1>3, <1>4, <1>5, <1>6, <1>7, <1>8, <1>9, <1>10, <1>11, <1>12, <1>13, <1>14, <1>15, <1>16, <1>17 DEF TypeOK

\* The new target goes back to the stage; without its marker the build exits.
LEMMA RollbackTargetToStageStep ==
    ASSUME CustodyInv, NEW b \in Builds, RollbackTargetToStage(b) PROVE CustodyInv'
<1> USE DEF RollbackTargetToStage, HadTarget, CustodyInv
<1>1. DirsType'
  BY DirTypes DEF TypeOK, OpInv, DirsType, ControlType, Gens
<1>2. MarkersType'
  BY DEF TypeOK, OpInv, MarkersType, Marker
<1>3. ControlType'
  BY DEF TypeOK, OpInv, ControlType
<1>4. PcType'
  BY DEF TypeOK, PcType, Labels
<1>5. ResultType'
  BY DEF TypeOK, ResultType, PcType, Labels
<1>6. BoundsType'
  BY DEF TypeOK, BoundsType
<1>7. LockInv'
  BY DEF TypeOK, DirsType, MarkersType, ControlType, PcType, LockInv, OpInv, Absent, Whole, Partial
<1>8. StageInv'
  BY DEF TypeOK, DirsType, MarkersType, ControlType, PcType, LockInv, StageInv, OpInv, Absent, Whole, Partial
<1>9. MarkerInv'
  BY DEF TypeOK, DirsType, MarkersType, ControlType, PcType, MarkerInv, OpInv, Absent, Whole, Partial
<1>10. CommitInv'
  BY DEF TypeOK, DirsType, MarkersType, ControlType, PcType, CommitInv, OpInv, Absent, Whole, Partial
<1>11. AcceptedInv'
  BY DEF TypeOK, DirsType, PcType, AcceptedInv
<1>12. OpInv'
  BY DEF TypeOK, DirsType, MarkersType, ControlType, PcType, OpInv, FreshInv, Absent, Whole, Partial
<1>13. FreshInv'
  BY DEF TypeOK, DirsType, MarkersType, ControlType, PcType, OpInv, FreshInv, AcceptedInv, TargetInv, Absent, Whole, Partial
<1>14. TargetInv'
  BY DEF TypeOK, DirsType, MarkersType, ControlType, PcType, LockInv, StageInv, MarkerInv, CommitInv, AcceptedInv, OpInv, TargetInv, BackupInv, KnownBackupInv, Absent, Whole, Partial, TargetNeverTorn
<1>15. BackupInv'
  BY DEF TypeOK, DirsType, MarkersType, ControlType, PcType, LockInv, StageInv, OpInv, FreshInv, TargetInv, BackupInv, KnownBackupInv, Absent, Whole, Partial
<1>16. KnownBackupInv'
  BY DEF TypeOK, DirsType, MarkersType, ControlType, PcType, LockInv, OpInv, BackupInv, KnownBackupInv, Absent, Whole, Partial
<1>17. ChainInv'
  BY DEF TypeOK, DirsType, MarkersType, ControlType, PcType, LockInv, StageInv, MarkerInv, CommitInv, OpInv, TargetInv, BackupInv, KnownBackupInv, ChainInv, Absent, Whole, Partial
<1> QED BY <1>1, <1>2, <1>3, <1>4, <1>5, <1>6, <1>7, <1>8, <1>9, <1>10, <1>11, <1>12, <1>13, <1>14, <1>15, <1>16, <1>17 DEF TypeOK

\* The backup becomes the target again, settled as it was.
LEMMA RestoreBackupStep ==
    ASSUME CustodyInv, NEW b \in Builds, RestoreBackup(b) PROVE CustodyInv'
<1> USE DEF RestoreBackup, RestoreRaises, BackupVerifies, CustodyInv
<1>0. op[b] \in Builds  BY DEF OpInv
<1>1. DirsType'
  <2>1. backup[op[b]] \in Dir  BY <1>0 DEF TypeOK, DirsType
  <2>2. target' \in Dir /\ prior' \in [Builds -> Dir]  BY <2>1 DEF TypeOK, DirsType
  <2>3. backup' \in [Builds -> Dir]  BY DirTypes DEF TypeOK, DirsType
  <2> QED BY <2>2, <2>3 DEF TypeOK, DirsType
<1>2. MarkersType'
  BY DEF TypeOK, OpInv, MarkersType, Marker
<1>3. ControlType'
  BY DEF TypeOK, OpInv, ControlType
<1>4. PcType'
  BY DEF TypeOK, PcType, Labels
<1>5. ResultType'
  BY DEF TypeOK, ResultType, PcType, Labels
<1>6. BoundsType'
  BY DEF TypeOK, BoundsType
<1>7. LockInv'
  BY DEF TypeOK, DirsType, MarkersType, ControlType, PcType, LockInv, OpInv, Absent, Whole, Partial
<1>8. StageInv'
  BY DEF TypeOK, DirsType, MarkersType, ControlType, PcType, LockInv, StageInv, OpInv, Absent, Whole, Partial
<1>9. MarkerInv'
  BY DEF TypeOK, DirsType, MarkersType, ControlType, PcType, MarkerInv, OpInv, Absent, Whole, Partial
<1>10. CommitInv'
  BY DEF TypeOK, DirsType, MarkersType, ControlType, PcType, CommitInv, OpInv, Absent, Whole, Partial
<1>11. AcceptedInv'
  BY DEF TypeOK, DirsType, MarkersType, ControlType, PcType, AcceptedInv, Absent, Whole, Partial
<1>12. OpInv'
  BY DEF TypeOK, DirsType, MarkersType, ControlType, PcType, OpInv, FreshInv, Absent, Whole, Partial
<1>13. FreshInv'
  BY DEF TypeOK, DirsType, MarkersType, ControlType, PcType, OpInv, FreshInv, AcceptedInv, TargetInv, Absent, Whole, Partial
<1>14. TargetInv'
  BY DEF TypeOK, DirsType, MarkersType, ControlType, PcType, LockInv, StageInv, MarkerInv, CommitInv, AcceptedInv, OpInv, TargetInv, BackupInv, KnownBackupInv, Absent, Whole, Partial, TargetNeverTorn
<1>15. BackupInv'
  <2>1. CASE \A q \in Builds : ~Exists(backup'[q]) /\ ~backup'[q].whole
    BY <2>1 DEF BackupInv
  <2>2. CASE UNCHANGED backup
    BY <1>0, <2>2 DEF TypeOK, PcType, BackupInv
  <2> QED BY <1>0, <2>1, <2>2 DEF TypeOK, DirsType, BackupInv, Absent
<1>16. KnownBackupInv'
  BY DEF TypeOK, DirsType, MarkersType, ControlType, PcType, LockInv, OpInv, BackupInv, KnownBackupInv, Absent, Whole, Partial
<1>17. ChainInv'
  BY DEF TypeOK, DirsType, MarkersType, ControlType, PcType, LockInv, StageInv, MarkerInv, CommitInv, OpInv, TargetInv, BackupInv, KnownBackupInv, ChainInv, Absent, Whole, Partial
<1> QED BY <1>1, <1>2, <1>3, <1>4, <1>5, <1>6, <1>7, <1>8, <1>9, <1>10, <1>11, <1>12, <1>13, <1>14, <1>15, <1>16, <1>17 DEF TypeOK

\* Unlink of the restored backup's marker.
LEMMA UnlinkRestoredMarkerStep ==
    ASSUME CustodyInv, NEW b \in Builds, UnlinkRestoredMarker(b) PROVE CustodyInv'
<1> USE DEF UnlinkRestoredMarker, RestoreRaises, CustodyInv
<1>1. DirsType'
  BY DirTypes DEF TypeOK, OpInv, DirsType, ControlType, Gens
<1>2. MarkersType'
  BY DEF TypeOK, OpInv, MarkersType, Marker
<1>3. ControlType'
  BY DEF TypeOK, OpInv, ControlType
<1>4. PcType'
  BY DEF TypeOK, PcType, Labels
<1>5. ResultType'
  BY DEF TypeOK, ResultType, PcType, Labels
<1>6. BoundsType'
  BY DEF TypeOK, BoundsType
<1>7. LockInv'
  BY DEF TypeOK, DirsType, MarkersType, ControlType, PcType, LockInv, OpInv, Absent, Whole, Partial
<1>8. StageInv'
  BY DEF TypeOK, DirsType, MarkersType, ControlType, PcType, LockInv, StageInv, OpInv, Absent, Whole, Partial
<1>9. MarkerInv'
  BY DEF TypeOK, DirsType, MarkersType, ControlType, PcType, MarkerInv, OpInv, Absent, Whole, Partial
<1>10. CommitInv'
  BY DEF TypeOK, DirsType, MarkersType, ControlType, PcType, CommitInv, OpInv, Absent, Whole, Partial
<1>11. AcceptedInv'
  BY DEF TypeOK, DirsType, MarkersType, ControlType, PcType, AcceptedInv, Absent, Whole, Partial
<1>12. OpInv'
  BY DEF TypeOK, DirsType, MarkersType, ControlType, PcType, OpInv, FreshInv, Absent, Whole, Partial
<1>13. FreshInv'
  BY DEF TypeOK, DirsType, MarkersType, ControlType, PcType, OpInv, FreshInv, AcceptedInv, TargetInv, Absent, Whole, Partial
<1>14. TargetInv'
  BY DEF TypeOK, DirsType, MarkersType, ControlType, PcType, LockInv, StageInv, MarkerInv, CommitInv, AcceptedInv, OpInv, TargetInv, BackupInv, KnownBackupInv, Absent, Whole, Partial, TargetNeverTorn
<1>15. BackupInv'
  BY DEF TypeOK, DirsType, MarkersType, ControlType, PcType, LockInv, StageInv, OpInv, FreshInv, TargetInv, BackupInv, KnownBackupInv, Absent, Whole, Partial
<1>16. KnownBackupInv'
  BY DEF TypeOK, DirsType, MarkersType, ControlType, PcType, LockInv, OpInv, BackupInv, KnownBackupInv, Absent, Whole, Partial
<1>17. ChainInv'
  BY DEF TypeOK, DirsType, MarkersType, ControlType, PcType, LockInv, StageInv, MarkerInv, CommitInv, OpInv, TargetInv, BackupInv, KnownBackupInv, ChainInv, Absent, Whole, Partial
<1> QED BY <1>1, <1>2, <1>3, <1>4, <1>5, <1>6, <1>7, <1>8, <1>9, <1>10, <1>11, <1>12, <1>13, <1>14, <1>15, <1>16, <1>17 DEF TypeOK

\* The process ends and the kernel drops its lock.
LEMMA ExitStep ==
    ASSUME CustodyInv, NEW b \in Builds, Exit(b) PROVE CustodyInv'
<1> USE DEF Exit, CustodyInv
<1>1. DirsType'
  BY DirTypes DEF TypeOK, OpInv, DirsType, ControlType, Gens
<1>2. MarkersType'
  BY DEF TypeOK, OpInv, MarkersType, Marker
<1>3. ControlType'
  BY DEF TypeOK, OpInv, ControlType
<1>4. PcType'
  BY DEF TypeOK, PcType, Labels
<1>5. ResultType'
  BY DEF TypeOK, ResultType, PcType, Labels
<1>6. BoundsType'
  BY DEF TypeOK, BoundsType
<1>7. LockInv'
  BY DEF TypeOK, DirsType, MarkersType, ControlType, PcType, LockInv, OpInv, Absent, Whole, Partial
<1>8. StageInv'
  BY DEF TypeOK, DirsType, MarkersType, ControlType, PcType, LockInv, StageInv, OpInv, Absent, Whole, Partial
<1>9. MarkerInv'
  BY DEF TypeOK, DirsType, MarkersType, ControlType, PcType, MarkerInv, OpInv, Absent, Whole, Partial
<1>10. CommitInv'
  BY DEF TypeOK, DirsType, MarkersType, ControlType, PcType, CommitInv, OpInv, Absent, Whole, Partial
<1>11. AcceptedInv'
  BY DEF TypeOK, DirsType, MarkersType, ControlType, PcType, AcceptedInv, Absent, Whole, Partial
<1>12. OpInv'
  BY DEF TypeOK, DirsType, MarkersType, ControlType, PcType, OpInv, FreshInv, Absent, Whole, Partial
<1>13. FreshInv'
  BY DEF TypeOK, DirsType, MarkersType, ControlType, PcType, OpInv, FreshInv, AcceptedInv, TargetInv, Absent, Whole, Partial
<1>14. TargetInv'
  BY DEF TypeOK, DirsType, MarkersType, ControlType, PcType, LockInv, StageInv, MarkerInv, CommitInv, AcceptedInv, OpInv, TargetInv, BackupInv, KnownBackupInv, Absent, Whole, Partial, TargetNeverTorn
<1>15. BackupInv'
  BY DEF TypeOK, DirsType, MarkersType, ControlType, PcType, LockInv, StageInv, OpInv, FreshInv, TargetInv, BackupInv, KnownBackupInv, Absent, Whole, Partial
<1>16. KnownBackupInv'
  BY DEF TypeOK, DirsType, MarkersType, ControlType, PcType, LockInv, OpInv, BackupInv, KnownBackupInv, Absent, Whole, Partial
<1>17. ChainInv'
  BY DEF TypeOK, DirsType, MarkersType, ControlType, PcType, LockInv, StageInv, MarkerInv, CommitInv, OpInv, TargetInv, BackupInv, KnownBackupInv, ChainInv, Absent, Whole, Partial
<1> QED BY <1>1, <1>2, <1>3, <1>4, <1>5, <1>6, <1>7, <1>8, <1>9, <1>10, <1>11, <1>12, <1>13, <1>14, <1>15, <1>16, <1>17 DEF TypeOK

\* The leaves of the build's own stage are removed.
LEMMA DiscardStageStep ==
    ASSUME CustodyInv, NEW b \in Builds, DiscardStage(b) PROVE CustodyInv'
<1> USE DEF DiscardStage, CustodyInv
<1>1. DirsType'
  <2>1. Partial(b) \in Dir  BY DirTypes DEF Gens
  <2> QED BY <2>1 DEF TypeOK, DirsType
<1>2. MarkersType'
  BY DEF TypeOK, OpInv, MarkersType, Marker
<1>3. ControlType'
  BY DEF TypeOK, OpInv, ControlType
<1>4. PcType'
  BY DEF TypeOK, PcType, Labels
<1>5. ResultType'
  BY DEF TypeOK, ResultType, PcType, Labels
<1>6. BoundsType'
  BY DEF TypeOK, BoundsType
<1>7. LockInv'
  BY DEF TypeOK, DirsType, MarkersType, ControlType, PcType, LockInv, OpInv, Absent, Whole, Partial
<1>8. StageInv'
  BY DEF TypeOK, DirsType, MarkersType, ControlType, PcType, LockInv, StageInv, OpInv, Absent, Whole, Partial
<1>9. MarkerInv'
  BY DEF TypeOK, DirsType, MarkersType, ControlType, PcType, MarkerInv, OpInv, Absent, Whole, Partial
<1>10. CommitInv'
  BY DEF TypeOK, DirsType, MarkersType, ControlType, PcType, CommitInv, OpInv, Absent, Whole, Partial
<1>11. AcceptedInv'
  BY DEF TypeOK, DirsType, MarkersType, ControlType, PcType, AcceptedInv, Absent, Whole, Partial
<1>12. OpInv'
  BY DEF TypeOK, DirsType, MarkersType, ControlType, PcType, OpInv, FreshInv, Absent, Whole, Partial
<1>13. FreshInv'
  BY DEF TypeOK, DirsType, MarkersType, ControlType, PcType, OpInv, FreshInv, AcceptedInv, TargetInv, Absent, Whole, Partial
<1>14. TargetInv'
  BY DEF TypeOK, DirsType, MarkersType, ControlType, PcType, LockInv, StageInv, MarkerInv, CommitInv, AcceptedInv, OpInv, TargetInv, BackupInv, KnownBackupInv, Absent, Whole, Partial, TargetNeverTorn
<1>15. BackupInv'
  BY DEF TypeOK, DirsType, MarkersType, ControlType, PcType, LockInv, StageInv, OpInv, FreshInv, TargetInv, BackupInv, KnownBackupInv, Absent, Whole, Partial
<1>16. KnownBackupInv'
  BY DEF TypeOK, DirsType, MarkersType, ControlType, PcType, LockInv, OpInv, BackupInv, KnownBackupInv, Absent, Whole, Partial
<1>17. ChainInv'
  BY DEF TypeOK, DirsType, MarkersType, ControlType, PcType, LockInv, StageInv, MarkerInv, CommitInv, OpInv, TargetInv, BackupInv, KnownBackupInv, ChainInv, Absent, Whole, Partial
<1> QED BY <1>1, <1>2, <1>3, <1>4, <1>5, <1>6, <1>7, <1>8, <1>9, <1>10, <1>11, <1>12, <1>13, <1>14, <1>15, <1>16, <1>17 DEF TypeOK

\* The directory of the stage is removed.
LEMMA RmdirStageStep ==
    ASSUME CustodyInv, NEW b \in Builds, RmdirStage(b) PROVE CustodyInv'
<1> USE DEF RmdirStage, CustodyInv
<1>1. DirsType'
  BY DirTypes DEF TypeOK, DirsType, Gens
<1>2. MarkersType'
  BY DEF TypeOK, OpInv, MarkersType, Marker
<1>3. ControlType'
  BY DEF TypeOK, OpInv, ControlType
<1>4. PcType'
  BY DEF TypeOK, PcType, Labels
<1>5. ResultType'
  BY DEF TypeOK, ResultType, PcType, Labels
<1>6. BoundsType'
  BY DEF TypeOK, BoundsType
<1>7. LockInv'
  BY DEF TypeOK, DirsType, MarkersType, ControlType, PcType, LockInv, OpInv, Absent, Whole, Partial
<1>8. StageInv'
  BY DEF TypeOK, DirsType, MarkersType, ControlType, PcType, LockInv, StageInv, OpInv, Absent, Whole, Partial
<1>9. MarkerInv'
  BY DEF TypeOK, DirsType, MarkersType, ControlType, PcType, MarkerInv, OpInv, Absent, Whole, Partial
<1>10. CommitInv'
  BY DEF TypeOK, DirsType, MarkersType, ControlType, PcType, CommitInv, OpInv, Absent, Whole, Partial
<1>11. AcceptedInv'
  BY DEF TypeOK, DirsType, MarkersType, ControlType, PcType, AcceptedInv, Absent, Whole, Partial
<1>12. OpInv'
  BY DEF TypeOK, DirsType, MarkersType, ControlType, PcType, OpInv, FreshInv, Absent, Whole, Partial
<1>13. FreshInv'
  BY DEF TypeOK, DirsType, MarkersType, ControlType, PcType, OpInv, FreshInv, AcceptedInv, TargetInv, Absent, Whole, Partial
<1>14. TargetInv'
  BY DEF TypeOK, DirsType, MarkersType, ControlType, PcType, LockInv, StageInv, MarkerInv, CommitInv, AcceptedInv, OpInv, TargetInv, BackupInv, KnownBackupInv, Absent, Whole, Partial, TargetNeverTorn
<1>15. BackupInv'
  BY DEF TypeOK, DirsType, MarkersType, ControlType, PcType, LockInv, StageInv, OpInv, FreshInv, TargetInv, BackupInv, KnownBackupInv, Absent, Whole, Partial
<1>16. KnownBackupInv'
  BY DEF TypeOK, DirsType, MarkersType, ControlType, PcType, LockInv, OpInv, BackupInv, KnownBackupInv, Absent, Whole, Partial
<1>17. ChainInv'
  BY DEF TypeOK, DirsType, MarkersType, ControlType, PcType, LockInv, StageInv, MarkerInv, CommitInv, OpInv, TargetInv, BackupInv, KnownBackupInv, ChainInv, Absent, Whole, Partial
<1> QED BY <1>1, <1>2, <1>3, <1>4, <1>5, <1>6, <1>7, <1>8, <1>9, <1>10, <1>11, <1>12, <1>13, <1>14, <1>15, <1>16, <1>17 DEF TypeOK

\* The stage marker goes last, and the lock with it.
LEMMA DiscardMarkerStep ==
    ASSUME CustodyInv, NEW b \in Builds, DiscardMarker(b) PROVE CustodyInv'
<1> USE DEF DiscardMarker, CustodyInv
<1>1. DirsType'
  BY DirTypes DEF TypeOK, OpInv, DirsType, ControlType, Gens
<1>2. MarkersType'
  BY DEF TypeOK, OpInv, MarkersType, Marker
<1>3. ControlType'
  BY DEF TypeOK, OpInv, ControlType
<1>4. PcType'
  BY DEF TypeOK, PcType, Labels
<1>5. ResultType'
  BY DEF TypeOK, ResultType, PcType, Labels
<1>6. BoundsType'
  BY DEF TypeOK, BoundsType
<1>7. LockInv'
  BY DEF TypeOK, DirsType, MarkersType, ControlType, PcType, LockInv, OpInv, Absent, Whole, Partial
<1>8. StageInv'
  BY DEF TypeOK, DirsType, MarkersType, ControlType, PcType, LockInv, StageInv, OpInv, Absent, Whole, Partial
<1>9. MarkerInv'
  BY DEF TypeOK, DirsType, MarkersType, ControlType, PcType, MarkerInv, OpInv, Absent, Whole, Partial
<1>10. CommitInv'
  BY DEF TypeOK, DirsType, MarkersType, ControlType, PcType, CommitInv, OpInv, Absent, Whole, Partial
<1>11. AcceptedInv'
  BY DEF TypeOK, DirsType, MarkersType, ControlType, PcType, AcceptedInv, Absent, Whole, Partial
<1>12. OpInv'
  BY DEF TypeOK, DirsType, MarkersType, ControlType, PcType, OpInv, FreshInv, Absent, Whole, Partial
<1>13. FreshInv'
  BY DEF TypeOK, DirsType, MarkersType, ControlType, PcType, OpInv, FreshInv, AcceptedInv, TargetInv, Absent, Whole, Partial
<1>14. TargetInv'
  BY DEF TypeOK, DirsType, MarkersType, ControlType, PcType, LockInv, StageInv, MarkerInv, CommitInv, AcceptedInv, OpInv, TargetInv, BackupInv, KnownBackupInv, Absent, Whole, Partial, TargetNeverTorn
<1>15. BackupInv'
  BY DEF TypeOK, DirsType, MarkersType, ControlType, PcType, LockInv, StageInv, OpInv, FreshInv, TargetInv, BackupInv, KnownBackupInv, Absent, Whole, Partial
<1>16. KnownBackupInv'
  BY DEF TypeOK, DirsType, MarkersType, ControlType, PcType, LockInv, OpInv, BackupInv, KnownBackupInv, Absent, Whole, Partial
<1>17. ChainInv'
  BY DEF TypeOK, DirsType, MarkersType, ControlType, PcType, LockInv, StageInv, MarkerInv, CommitInv, OpInv, TargetInv, BackupInv, KnownBackupInv, ChainInv, Absent, Whole, Partial
<1> QED BY <1>1, <1>2, <1>3, <1>4, <1>5, <1>6, <1>7, <1>8, <1>9, <1>10, <1>11, <1>12, <1>13, <1>14, <1>15, <1>16, <1>17 DEF TypeOK

\* A crash changes the lock and the label only: whatever the build had put in
\* place stays settled or stays marked.
LEMMA CrashStep ==
    ASSUME CustodyInv, NEW b \in Builds, Crash(b) PROVE CustodyInv'
<1> USE DEF Crash, Running, CustodyInv
<1>1. DirsType'
  BY DirTypes DEF TypeOK, OpInv, DirsType, ControlType, Gens
<1>2. MarkersType'
  BY DEF TypeOK, OpInv, MarkersType, Marker
<1>3. ControlType'
  BY DEF TypeOK, OpInv, ControlType
<1>4. PcType'
  BY DEF TypeOK, PcType, Labels
<1>5. ResultType'
  BY DEF TypeOK, ResultType, PcType, Labels
<1>6. BoundsType'
  BY DEF TypeOK, BoundsType
<1>7. LockInv'
  BY DEF TypeOK, DirsType, MarkersType, ControlType, PcType, LockInv, OpInv, Absent, Whole, Partial
<1>8. StageInv'
  BY DEF TypeOK, DirsType, MarkersType, ControlType, PcType, LockInv, StageInv, OpInv, Absent, Whole, Partial
<1>9. MarkerInv'
  BY DEF TypeOK, DirsType, MarkersType, ControlType, PcType, MarkerInv, OpInv, Absent, Whole, Partial
<1>10. CommitInv'
  BY DEF TypeOK, DirsType, MarkersType, ControlType, PcType, CommitInv, OpInv, Absent, Whole, Partial
<1>11. AcceptedInv'
  BY DEF TypeOK, DirsType, MarkersType, ControlType, PcType, AcceptedInv, Absent, Whole, Partial
<1>12. OpInv'
  BY DEF TypeOK, DirsType, MarkersType, ControlType, PcType, OpInv, FreshInv, Absent, Whole, Partial
<1>13. FreshInv'
  BY DEF TypeOK, DirsType, MarkersType, ControlType, PcType, OpInv, FreshInv, AcceptedInv, TargetInv, Absent, Whole, Partial
<1>14. TargetInv'
  BY DEF TypeOK, DirsType, MarkersType, ControlType, PcType, LockInv, StageInv, MarkerInv, CommitInv, AcceptedInv, OpInv, TargetInv, BackupInv, KnownBackupInv, Absent, Whole, Partial, TargetNeverTorn
<1>15. BackupInv'
  BY DEF TypeOK, DirsType, MarkersType, ControlType, PcType, LockInv, StageInv, OpInv, FreshInv, TargetInv, BackupInv, KnownBackupInv, Absent, Whole, Partial
<1>16. KnownBackupInv'
  BY DEF TypeOK, DirsType, MarkersType, ControlType, PcType, LockInv, OpInv, BackupInv, KnownBackupInv, Absent, Whole, Partial
<1>17. ChainInv'
  BY DEF TypeOK, DirsType, MarkersType, ControlType, PcType, LockInv, StageInv, MarkerInv, CommitInv, OpInv, TargetInv, BackupInv, KnownBackupInv, ChainInv, Absent, Whole, Partial
<1> QED BY <1>1, <1>2, <1>3, <1>4, <1>5, <1>6, <1>7, <1>8, <1>9, <1>10, <1>11, <1>12, <1>13, <1>14, <1>15, <1>16, <1>17 DEF TypeOK

-----------------------------------------------------------------------------
(* The invariant *)

\* The invariant holds at the start.
LEMMA InitCustody == Init => CustodyInv
<1> SUFFICES ASSUME Init PROVE CustodyInv
  OBVIOUS
<1> USE DEF Init, Absent
<1>1. TypeOK
  <2>1. DirsType  BY DirTypes DEF DirsType, Gens
  <2>2. MarkersType /\ ControlType  BY DEF MarkersType, ControlType, Marker
  <2>3. PcType /\ ResultType /\ BoundsType  BY DEF PcType, ResultType, BoundsType, Labels
  <2> QED BY <2>1, <2>2, <2>3 DEF TypeOK
<1>2. LockInv /\ StageInv /\ MarkerInv /\ CommitInv /\ AcceptedInv
  BY DEF LockInv, StageInv, MarkerInv, CommitInv, AcceptedInv
<1>3. OpInv /\ FreshInv
  BY DEF OpInv, FreshInv, Whole, Partial
<1>4. TargetInv
  BY DEF TargetInv, TargetNeverTorn, Whole, Partial
<1>5. BackupInv /\ KnownBackupInv /\ ChainInv
  BY DEF BackupInv, KnownBackupInv, ChainInv
<1> QED BY <1>1, <1>2, <1>3, <1>4, <1>5 DEF CustodyInv

\* Every step of every build, and every crash, preserves the invariant.
LEMMA StepCustody == ASSUME CustodyInv, [Next]_vars PROVE CustodyInv'
<1>1. ASSUME NEW b \in Builds, Initialize(b) PROVE CustodyInv'
  BY <1>1, CheckTargetStep, AcquireLockStep, MakeStageStep, MakeStageMarkerStep,
     InitializeFailsStep DEF Initialize
<1>2. ASSUME NEW b \in Builds, Recover(b) PROVE CustodyInv'
  BY <1>2, ScanRemnantsStep, ObserveRemnantsStep DEF Recover
<1>3. ASSUME NEW b \in Builds, Cleanup(b) PROVE CustodyInv'
  BY <1>3, PrepareTombstoneMarkerStep, WriteTombstoneMarkerStep, RenameBackupToTombstoneStep,
     DeleteTombstoneStep, UnlinkLeavesStep, RmdirTombstoneStep, UnlinkTombstoneMarkerStep,
     UnlinkBackupMarkerStep DEF Cleanup
<1>4. ASSUME NEW b \in Builds, Publish(b) PROVE CustodyInv'
  BY <1>4, BuildCandidateStep, StartPublishStep, CreateBackupMarkerStep, WriteBackupMarkerStep,
     RenameTargetToBackupStep, VerifyBackupStep, RenameStageToTargetStep, VerifyTargetStep,
     UnlinkStageMarkerStep, FinishTransferStep DEF Publish
<1>5. ASSUME NEW b \in Builds, Rollback(b) PROVE CustodyInv'
  BY <1>5, RollbackTargetToStageStep, RestoreBackupStep, UnlinkRestoredMarkerStep, ExitStep,
     DiscardStageStep, RmdirStageStep, DiscardMarkerStep DEF Rollback
<1>6. CASE UNCHANGED vars
  <2>1. UNCHANGED <<target, stage, backup, tomb, stageMarker, backupMarker, tombMarker, lock,
                    pc, op, clean, result, prior, contended, faults, crashes>>
    BY <1>6 DEF vars
  <2>2. TypeOK' BY <2>1 DEF CustodyInv, TypeOK, DirsType, MarkersType, ControlType, PcType, ResultType, BoundsType
  <2>3. (LockInv /\ StageInv /\ MarkerInv /\ CommitInv /\ AcceptedInv)'
    BY <2>1 DEF CustodyInv, LockInv, StageInv, MarkerInv, CommitInv, AcceptedInv
  <2>4. (OpInv /\ FreshInv)' BY <2>1 DEF CustodyInv, OpInv, FreshInv
  <2>5. TargetInv' BY <2>1 DEF CustodyInv, TargetInv, TargetNeverTorn
  <2>6. (BackupInv /\ KnownBackupInv /\ ChainInv)'
    BY <2>1 DEF CustodyInv, BackupInv, KnownBackupInv, ChainInv
  <2> QED BY <2>2, <2>3, <2>4, <2>5, <2>6 DEF CustodyInv
<1> QED BY <1>1, <1>2, <1>3, <1>4, <1>5, <1>6, CrashStep DEF Next, Step

\* CustodyInv holds in every reachable state of publish, rollback, cleanup and
\* recover, for any set of builds and any number of faults and crashes.
THEOREM Custody == Spec => []CustodyInv
<1>1. Init => CustodyInv
  BY InitCustody
<1>2. CustodyInv /\ [Next]_vars => CustodyInv'
  BY StepCustody
<1> QED BY <1>1, <1>2, PTL DEF Spec

\* The names in the parent directory and the state of every build keep their
\* types through all calls of publication.py and staging.py.
THEOREM TypeCorrect == Spec => []TypeOK
<1>1. CustodyInv => TypeOK  BY DEF CustodyInv
<1> QED BY <1>1, Custody, PTL

\* TargetNeverTorn: no rename of publish, rollback or recover, interrupted or
\* not, ever puts a directory under the published name that is not whole.
THEOREM TargetStaysWhole == Spec => []TargetNeverTorn
<1>1. CustodyInv => TargetNeverTorn  BY DEF CustodyInv, TargetInv
<1> QED BY <1>1, Custody, PTL

\* OneStage: the orphan check under the lock keeps stage names to one operation,
\* whatever crashes leave behind.
THEOREM SingleStage == Spec => []OneStage
<1>1. CustodyInv => OneStage  BY DEF CustodyInv, StageInv
<1> QED BY <1>1, Custody, PTL

(***************************************************************************)
(* What the invariant is good for.  Publication implements the store of     *)
(* ArtifactStore: a step moves the target or a backup in one of five ways,  *)
(* each an operation of the store; every other step commits the visible     *)
(* generation or is not seen there.                                         *)
(***************************************************************************)
HIDE DEF OneStage, HasRemnant

\* The five calls that rename a directory to or from the target or a backup.
Moves(b) == \/ RenameTargetToBackup(b) \/ RenameStageToTarget(b) \/ RollbackTargetToStage(b)
            \/ RestoreBackup(b) \/ RenameBackupToTombstone(b)

\* Everything else leaves the target and the backups where they are.
LEMMA OnlyMovesMove ==
    ASSUME NEW b \in Builds, Step(b) \/ Crash(b)
    PROVE  UNCHANGED <<target, backup>> \/ Moves(b)
<1>1. CASE Initialize(b)
  BY <1>1 DEF Initialize, CheckTarget, AcquireLock, MakeStage, MakeStageMarker, InitializeFails
<1>2. CASE Recover(b)
  BY <1>2 DEF Recover, ScanRemnants, ObserveRemnants
<1>3. CASE Cleanup(b)
  BY <1>3 DEF Cleanup, PrepareTombstoneMarker, WriteTombstoneMarker, DeleteTombstone,
              UnlinkLeaves, RmdirTombstone, UnlinkTombstoneMarker, UnlinkBackupMarker, Moves
<1>4. CASE Publish(b)
  BY <1>4 DEF Publish, BuildCandidate, StartPublish, CreateBackupMarker, WriteBackupMarker,
              VerifyBackup, VerifyTarget, UnlinkStageMarker, FinishTransfer, Moves
<1>5. CASE Rollback(b)
  BY <1>5 DEF Rollback, UnlinkRestoredMarker, Exit, DiscardStage, RmdirStage, DiscardMarker, Moves
<1>6. CASE Crash(b)
  BY <1>6 DEF Crash
<1> QED BY <1>1, <1>2, <1>3, <1>4, <1>5, <1>6 DEF Step

\* A build changes its own control state and its own stage marker, nobody else's.
LEMMA Frame ==
    ASSUME TypeOK, NEW b \in Builds, Step(b) \/ Crash(b), NEW c \in Builds, c # b
    PROVE  pc'[c] = pc[c] /\ op'[c] = op[c] /\ stageMarker'[c] = stageMarker[c]
<1> USE DEF TypeOK, MarkersType, ControlType, PcType
<1>1. CASE Initialize(b)
  BY <1>1 DEF Initialize, CheckTarget, AcquireLock, MakeStage, MakeStageMarker, InitializeFails
<1>2. CASE Recover(b)
  BY <1>2 DEF Recover, ScanRemnants, ObserveRemnants, RestoreRaises
<1>3. CASE Cleanup(b)
  BY <1>3 DEF Cleanup, PrepareTombstoneMarker, WriteTombstoneMarker, RenameBackupToTombstone,
              DeleteTombstone, UnlinkLeaves, RmdirTombstone, UnlinkTombstoneMarker,
              UnlinkBackupMarker, ChainRaises
<1>4. CASE Publish(b)
  BY <1>4 DEF Publish, BuildCandidate, StartPublish, CreateBackupMarker, WriteBackupMarker,
              RenameTargetToBackup, VerifyBackup, RenameStageToTarget, VerifyTarget,
              UnlinkStageMarker, FinishTransfer
<1>5. CASE Rollback(b)
  BY <1>5 DEF Rollback, RollbackTargetToStage, RestoreBackup, UnlinkRestoredMarker, Exit,
              DiscardStage, RmdirStage, DiscardMarker, RestoreRaises
<1>6. CASE Crash(b)
  BY <1>6 DEF Crash
<1> QED BY <1>1, <1>2, <1>3, <1>4, <1>5, <1>6 DEF Step

\* No call changes the option a build was started with.
LEMMA CleanStays == ASSUME NEW b \in Builds, Step(b) \/ Crash(b) PROVE clean' = clean
<1>1. CASE Initialize(b)
  BY <1>1 DEF Initialize, CheckTarget, AcquireLock, MakeStage, MakeStageMarker,
              InitializeFails, fixed
<1>2. CASE Recover(b)
  BY <1>2 DEF Recover, ScanRemnants, ObserveRemnants, fixed
<1>3. CASE Cleanup(b)
  BY <1>3 DEF Cleanup, PrepareTombstoneMarker, WriteTombstoneMarker, RenameBackupToTombstone,
              DeleteTombstone, UnlinkLeaves, RmdirTombstone, UnlinkTombstoneMarker,
              UnlinkBackupMarker, fixed
<1>4. CASE Publish(b)
  BY <1>4 DEF Publish, BuildCandidate, StartPublish, CreateBackupMarker, WriteBackupMarker,
              RenameTargetToBackup, VerifyBackup, RenameStageToTarget, VerifyTarget,
              UnlinkStageMarker, FinishTransfer, fixed
<1>5. CASE Rollback(b)
  BY <1>5 DEF Rollback, RollbackTargetToStage, RestoreBackup, UnlinkRestoredMarker, Exit,
              DiscardStage, RmdirStage, DiscardMarker, fixed
<1>6. CASE Crash(b)
  BY <1>6 DEF Crash
<1> QED BY <1>1, <1>2, <1>3, <1>4, <1>5, <1>6 DEF Step

\* A generation whose build has committed stays committed.
LEMMA SettledStays ==
    ASSUME CustodyInv, NEW b \in Builds, Step(b) \/ Crash(b), NEW g, Settled(g)
    PROVE  Settled(g)'
<1> SUFFICES ASSUME g \in Builds PROVE Settled(g)'
  OBVIOUS
<1>1. CASE g # b
  BY <1>1, Frame DEF CustodyInv
<1>2. CASE g = b
  <2> USE <1>2 DEF CustodyInv, TypeOK, MarkersType, ControlType, PcType
  <2>1. CASE Crash(b)  BY <2>1 DEF Crash
  <2>2. CASE Cleanup(b)
    BY <2>2 DEF Cleanup, PrepareTombstoneMarker, WriteTombstoneMarker, RenameBackupToTombstone,
                DeleteTombstone, UnlinkLeaves, RmdirTombstone, UnlinkTombstoneMarker,
                UnlinkBackupMarker, ChainRaises
  <2>3. ~Initialize(b)
    BY DEF Initialize, CheckTarget, AcquireLock, MakeStage, MakeStageMarker, InitializeFails
  <2>4. ~Recover(b)
    BY DEF Recover, ScanRemnants, ObserveRemnants
  <2>5. ~Publish(b)
    BY DEF Publish, BuildCandidate, StartPublish, CreateBackupMarker, WriteBackupMarker,
           RenameTargetToBackup, VerifyBackup, RenameStageToTarget, VerifyTarget,
           UnlinkStageMarker, FinishTransfer
  <2>6. ~Rollback(b)
    BY DEF Rollback, RollbackTargetToStage, RestoreBackup, UnlinkRestoredMarker, Exit,
           DiscardStage, RmdirStage, DiscardMarker
  <2> QED BY <2>1, <2>2, <2>3, <2>4, <2>5, <2>6 DEF Step
<1> QED BY <1>1, <1>2

\* A settled generation is not pending, and a pending one is in the target whole.
LEMMA SettledNotPending ==
    ASSUME CustodyInv
    PROVE  /\ Settled(target.gen) => ~Pending
           /\ Exists(target) /\ ~Pending => Settled(target.gen)
           /\ Pending => Exists(target) /\ target.whole
<1> USE DEF CustodyInv, Pending
<1>1. Settled(target.gen) => ~Pending
  OBVIOUS
<1>2. Exists(target) /\ ~Pending => Settled(target.gen)
  BY DEF TargetInv
<1>3. Pending => Exists(target) /\ target.whole
  BY DEF TargetInv, TargetNeverTorn, Partial
<1> QED BY <1>1, <1>2, <1>3

\* At most one backup exists, so the saved generations are none or its own.
LEMMA SavedIsBackup ==
    ASSUME CustodyInv
    PROVE  /\ (\A o \in Builds : ~Exists(backup[o])) => Saved = {}
           /\ \A o \in Builds : Exists(backup[o]) => Saved = {backup[o].gen}
<1>1. ASSUME NEW o \in Builds, Exists(backup[o]) PROVE Saved = {backup[o].gen}
  <2>1. backup[o].gen \in Gens  BY <1>1, DirTypes DEF CustodyInv, TypeOK, DirsType
  <2>2. \A q \in Builds : Exists(backup[q]) => q = o  BY <1>1 DEF CustodyInv, BackupInv
  <2> QED BY <1>1, <2>1, <2>2 DEF Saved
<1> QED BY <1>1 DEF Saved

\* A step that moves neither the target nor a backup.
LEMMA QuietStep ==
    ASSUME CustodyInv, CustodyInv', NEW b \in Builds, Step(b) \/ Crash(b),
           UNCHANGED <<target, backup>>
    PROVE  Store!Commit \/ UNCHANGED Store!storeVars
<1>1. Visible' = Visible /\ Saved' = Saved  BY DEF Visible, Saved
<1>2. ~Pending => ~Pending'
  <2> SUFFICES ASSUME ~Pending, Exists(target) PROVE ~Pending'
    BY DEF Pending
  <2>1. PICK g : g = target.gen  OBVIOUS
  <2>2. Settled(g)  BY <2>1, SettledNotPending
  <2>3. Settled(g)'  BY <2>2, SettledStays
  <2> QED BY <2>1, <2>3 DEF Pending
<1>3. CASE Pending /\ ~Pending'
  BY <1>1, <1>3 DEF Store!Commit
<1>4. CASE Pending = Pending'
  BY <1>1, <1>4 DEF Store!storeVars
<1> QED BY <1>2, <1>3, <1>4 DEF Pending

-----------------------------------------------------------------------------
(* The five moves *)

\* While a build holds the lock, only its own generation can be uncommitted in
\* the target.
LEMMA OthersSettled ==
    ASSUME CustodyInv, NEW b \in Builds, Holds(b), Exists(target), target.gen # b
    PROVE  Settled(target.gen)
<1> SUFFICES ASSUME Unsettled(target.gen) PROVE FALSE
  BY DEF CustodyInv, TargetInv
<1>1. CASE pc[target.gen] \in NewLabels
  BY <1>1 DEF CustodyInv, LockInv
<1>2. CASE stageMarker[target.gen]
  BY <1>2 DEF CustodyInv, StageInv
<1> QED BY <1>1, <1>2

\* rename_target_to_backup sets the visible generation aside.
LEMMA SetAsideMove ==
    ASSUME CustodyInv, NEW b \in Builds, RenameTargetToBackup(b),
           ~UNCHANGED <<target, backup>>
    PROVE  Store!SetAside
<1> USE DEF RenameTargetToBackup
<1>1. /\ backup' = [backup EXCEPT ![b] = target] /\ target' = Absent
  OBVIOUS
<1>2. Exists(target) /\ target.whole /\ target.gen \in Gens
  BY DirTypes DEF CustodyInv, TypeOK, DirsType, TargetInv
<1>3. \A o \in Builds : ~Exists(backup[o])
  BY DEF CustodyInv, KnownBackupInv
<1>4. ~Pending
  <2>1. target.gen # b  BY DEF CustodyInv, TargetInv
  <2> QED BY <2>1, <1>2, OthersSettled, SettledNotPending
<1>5. Saved = {} BY <1>3 DEF Saved
<1>6. Saved' = {target.gen}
  BY <1>1, <1>2, <1>3 DEF Saved, CustodyInv, TypeOK, DirsType
<1>7. Visible = target.gen /\ Visible # None /\ Visible' = None /\ ~Pending'
  BY <1>1, <1>2 DEF Visible, Pending, Absent
<1> QED BY <1>4, <1>5, <1>6, <1>7 DEF Store!SetAside, Pending

\* rename_stage_to_target shows the new generation, uncommitted.
LEMMA ShowMove ==
    ASSUME CustodyInv, NEW b \in Builds, RenameStageToTarget(b),
           ~UNCHANGED <<target, backup>>
    PROVE  Store!Show(b)
<1> USE DEF RenameStageToTarget
<1>1. /\ target' = stage[b] /\ ~Exists(target) /\ backup' = backup
      /\ stageMarker' = stageMarker
  OBVIOUS
<1>2. stage[b] = Whole(b) /\ stageMarker[b]
  BY DEF CustodyInv, AcceptedInv, MarkerInv
<1>3. Visible = None
  BY <1>1 DEF Visible
<1>4. Visible' = b /\ Pending'
  BY <1>1, <1>2 DEF Visible, Pending, Whole
<1>5. Saved' = Saved
  BY <1>1 DEF Saved
<1> QED BY <1>3, <1>4, <1>5 DEF Store!Show

\* rollback_target_to_stage withdraws it.
LEMMA WithdrawMove ==
    ASSUME CustodyInv, NEW b \in Builds, RollbackTargetToStage(b),
           ~UNCHANGED <<target, backup>>
    PROVE  Store!Withdraw
<1> USE DEF RollbackTargetToStage
<1>1. target' = Absent /\ backup' = backup /\ target.gen = b
  OBVIOUS
<1>2. Pending
  BY <1>1 DEF Pending
<1>3. Visible' = None /\ ~Pending'
  BY <1>1 DEF Visible, Pending, Absent
<1>4. Saved' = Saved
  BY <1>1 DEF Saved
<1> QED BY <1>2, <1>3, <1>4 DEF Store!Withdraw, Pending

\* restore_backup_to_target puts the generation held aside back.
LEMMA PutBackMove ==
    ASSUME CustodyInv, CustodyInv', NEW b \in Builds, RestoreBackup(b),
           ~UNCHANGED <<target, backup>>
    PROVE  Store!PutBack
<1> DEFINE o == op[b]
<1>1. /\ o \in Builds /\ Exists(backup[o]) /\ backup[o].whole /\ ~Exists(target)
      /\ target' = backup[o] /\ backup' = [backup EXCEPT ![o] = Absent]
  BY DEF RestoreBackup, BackupVerifies, CustodyInv, OpInv
<1>2. Saved = {backup[o].gen}
  BY <1>1, SavedIsBackup
<1>3. Saved' = {}
  <2>1. \A q \in Builds : Exists(backup[q]) => q = o
    BY <1>1 DEF CustodyInv, BackupInv
  <2> QED BY <1>1, <2>1 DEF Saved, Absent, CustodyInv, TypeOK, DirsType
<1>4. Visible = None /\ Visible' = backup[o].gen
  BY <1>1 DEF Visible
<1>5. ~Pending
  BY <1>1 DEF Pending
<1>6. ~Pending'
  <2>1. PICK g : g = backup[o].gen
    OBVIOUS
  <2>2. Settled(g)
    BY <1>1, <2>1 DEF CustodyInv, BackupInv
  <2>3. Settled(g)'
    BY <2>2, SettledStays DEF Step, Rollback
  <2>4. target'.gen = g
    BY <1>1, <2>1
  <2> QED BY <2>3, <2>4 DEF Pending
<1> QED BY <1>2, <1>3, <1>4, <1>5, <1>6 DEF Store!PutBack, Pending

\* rename_backup_to_tombstone gives it up beside a committed target.
LEMMA GiveUpMove ==
    ASSUME CustodyInv, NEW b \in Builds, RenameBackupToTombstone(b),
           ~UNCHANGED <<target, backup>>
    PROVE  Store!GiveUp
<1> DEFINE o == op[b]
<1>1. /\ o \in Builds /\ Exists(backup[o])
      /\ target' = target /\ backup' = [backup EXCEPT ![o] = Absent]
  BY DEF RenameBackupToTombstone, BackupVerifies, CustodyInv, OpInv
<1>2. target.whole /\ Exists(target) /\ Settled(target.gen)
  BY <1>1 DEF RenameBackupToTombstone, CustodyInv, ChainInv, TargetInv
<1>3. Saved = {backup[o].gen}
  BY <1>1, SavedIsBackup
<1>4. Saved' = {}
  <2>1. \A q \in Builds : Exists(backup[q]) => q = o
    BY <1>1 DEF CustodyInv, BackupInv
  <2> QED BY <1>1, <2>1 DEF Saved, Absent, CustodyInv, TypeOK, DirsType
<1>5. Visible # None /\ Visible' = Visible
  BY <1>1, <1>2 DEF Visible
<1>6. ~Pending
  BY <1>2, SettledNotPending
<1>7. ~Pending'
  <2>1. PICK g : g = target.gen
    OBVIOUS
  <2>2. Settled(g)'
    BY <1>2, <2>1, SettledStays DEF Step, Cleanup
  <2>3. target'.gen = g
    BY <1>1, <2>1
  <2> QED BY <2>2, <2>3 DEF Pending
<1> QED BY <1>3, <1>4, <1>5, <1>6, <1>7 DEF Store!GiveUp, Pending

-----------------------------------------------------------------------------
(* Every step is a step of the store or is not seen there. *)
LEMMA StoreStep ==
    ASSUME CustodyInv, CustodyInv', [Next]_vars
    PROVE  [Store!StoreNext]_(Store!storeVars)
<1>1. ASSUME NEW b \in Builds, Step(b) \/ Crash(b)
      PROVE  Store!StoreNext \/ UNCHANGED Store!storeVars
  <2>1. CASE UNCHANGED <<target, backup>>
    BY <1>1, <2>1, QuietStep DEF Store!StoreNext
  <2>2. CASE ~UNCHANGED <<target, backup>>
    <3>1. Moves(b)  BY <1>1, <2>2, OnlyMovesMove
    <3>2. b \in Gens  BY DEF Gens
    <3> QED BY <2>2, <3>1, <3>2, SetAsideMove, ShowMove, WithdrawMove, PutBackMove, GiveUpMove
            DEF Moves, Store!StoreNext
  <2> QED BY <2>1, <2>2
<1>2. CASE UNCHANGED vars
  <2>1. UNCHANGED <<target, backup, stageMarker, pc>>
    BY <1>2 DEF vars
  <2> QED BY <2>1 DEF Store!storeVars, Visible, Pending, Saved
<1> QED BY <1>1, <1>2 DEF Next

\* The store starts with the directory found in the target, if it is whole.
LEMMA StoreStart == Init => Store!StoreInit
  BY DEF Init, Store!StoreInit, Visible, Pending, Saved, Gens, Absent, Whole, Partial

\* RefinesStore for every set of builds and any number of faults and crashes:
\* publish, rollback, cleanup and recover together are the store that the readers
\* of the artifact directory rely on.
THEOREM Refinement == Spec => RefinesStore
<1>1. Init => Store!StoreInit
  BY StoreStart
<1>2. CustodyInv /\ CustodyInv' /\ [Next]_vars => [Store!StoreNext]_(Store!storeVars)
  BY StoreStep
<1> QED BY <1>1, <1>2, Custody, PTL DEF Spec, RefinesStore, Store!StoreSpec

\* Only publish's check for EXISTING_TARGET leads to the calls that set the target
\* aside, and no call changes the option.
LEMMA StepRequest == ASSUME TypeOK, RequestInv, [Next]_vars PROVE RequestInv'
<1>1. ASSUME NEW b \in Builds, Step(b) \/ Crash(b) PROVE RequestInv'
  <2> SUFFICES ASSUME NEW c \in Builds, pc'[c] \in BackupLabels PROVE clean'[c]
    BY DEF RequestInv
  <2>1. CASE c # b
    BY <1>1, <2>1, Frame, CleanStays DEF RequestInv
  <2>2. CASE c = b
    <3> USE <2>2 DEF TypeOK, ControlType, PcType, BackupLabels
    <3>1. ~Crash(b)  BY DEF Crash
    <3>2. ~Initialize(b)
      BY DEF Initialize, CheckTarget, AcquireLock, MakeStage, MakeStageMarker, InitializeFails
    <3>3. ~Recover(b)
      <4>1. ~ScanRemnants(b)  BY DEF ScanRemnants
      <4>2. ASSUME NEW o, CanRecover(o)
            PROVE  FirstRepair(o) \notin BackupLabels /\ FirstRestore(o) \notin BackupLabels
        <5>1. Shape(o) \in ClosedShapes  BY <4>2 DEF CanRecover, RemnantVerifies
        <5> QED BY <5>1 DEF FirstRepair, FirstRestore, ClosedShapes
      <4>3. ~ObserveRemnants(b)  BY <4>2 DEF ObserveRemnants
      <4> QED BY <4>1, <4>3 DEF Recover
    <3>4. ~Cleanup(b)
      BY DEF Cleanup, PrepareTombstoneMarker, WriteTombstoneMarker, RenameBackupToTombstone,
             DeleteTombstone, UnlinkLeaves, RmdirTombstone, UnlinkTombstoneMarker,
             UnlinkBackupMarker, ChainRaises
    <3>5. ~Rollback(b)
      BY DEF Rollback, RollbackTargetToStage, RestoreBackup, UnlinkRestoredMarker, Exit,
             DiscardStage, RmdirStage, DiscardMarker, RestoreRaises
    <3>6. StartPublish(b) \/ CreateBackupMarker(b) \/ WriteBackupMarker(b)
      BY <1>1, <3>1, <3>2, <3>3, <3>4, <3>5
         DEF Step, Publish, BuildCandidate, RenameTargetToBackup, VerifyBackup,
             RenameStageToTarget, VerifyTarget, UnlinkStageMarker, FinishTransfer
    <3>7. clean[b]
      BY <3>6 DEF RequestInv, StartPublish, CreateBackupMarker, WriteBackupMarker
    <3> QED BY <1>1, <3>7, CleanStays
  <2> QED BY <2>1, <2>2
<1>2. CASE UNCHANGED vars  BY <1>2 DEF vars, fixed, RequestInv
<1> QED BY <1>1, <1>2 DEF Next

\* The three moves of an existing target: by a build with --clean, by the build
\* whose generation it is, or none, for a rename onto it and a restore are refused.
LEMMA StepReplaced ==
    ASSUME CustodyInv, RequestInv, [Next]_vars, Exists(target), target' # target
    PROVE  \E b \in Builds : pc'[b] # pc[b] /\ (clean[b] \/ target.gen = b)
<1>1. PICK b \in Builds : Step(b) \/ Crash(b)
  BY DEF Next, vars, dirs
<1>2. Moves(b)  BY <1>1, OnlyMovesMove
<1> USE DEF CustodyInv, TypeOK, PcType
<1>3. CASE RenameTargetToBackup(b)
  BY <1>3 DEF RenameTargetToBackup, RequestInv, BackupLabels
<1>4. CASE RollbackTargetToStage(b)
  BY <1>4 DEF RollbackTargetToStage
<1>5. ~RenameStageToTarget(b)
  BY DEF RenameStageToTarget
<1>6. ~RestoreBackup(b)
  BY DEF RestoreBackup
<1>7. ~RenameBackupToTombstone(b)
  BY DEF RenameBackupToTombstone
<1> QED BY <1>2, <1>3, <1>4, <1>5, <1>6, <1>7 DEF Moves

\* ReplacedOnRequest for every set of builds: whatever is published between a
\* build's first look and its lock, it is replaced on request only.
THEOREM TargetReplacedOnRequest == Spec => ReplacedOnRequest
<1>1. Init => RequestInv  BY DEF Init, RequestInv, BackupLabels
<1>2. CustodyInv /\ RequestInv /\ [Next]_vars => RequestInv'
  BY StepRequest DEF CustodyInv
<1>3. CustodyInv /\ RequestInv /\ [Next]_vars =>
         [Exists(target) /\ target' # target =>
             \E b \in Builds : pc'[b] # pc[b] /\ (clean[b] \/ target.gen = b)]_vars
  BY StepReplaced
<1> QED BY <1>1, <1>2, <1>3, Custody, PTL DEF Spec, ReplacedOnRequest

\* DurableStays: no step of any build takes the last committed generation away,
\* because no operation of the store does.
THEOREM DurableCopy == Spec => DurableStays
<1>1. CustodyInv => (Durable <=> Store!Held) /\ (Pending => Visible # None) /\ None \notin Saved
  <2> SUFFICES ASSUME CustodyInv
               PROVE  (Durable <=> Store!Held) /\ (Pending => Visible # None) /\ None \notin Saved
    OBVIOUS
  <2>1. target.whole <=> Visible # None
    BY DEF Visible, CustodyInv, TargetInv
  <2>2. (\E o \in Builds : backup[o].whole) <=> Saved # {}
    <3>1. \A o \in Builds : backup[o].whole <=> Exists(backup[o])
      BY DEF CustodyInv, BackupInv
    <3>2. \A o \in Builds : Exists(backup[o]) => backup[o].gen \in Gens
      BY DirTypes DEF CustodyInv, TypeOK, DirsType
    <3> QED BY <3>1, <3>2 DEF Saved
  <2>3. None \notin Saved
    BY DEF Saved, Gens
  <2>4. Pending => Visible # None
    BY <2>1, SettledNotPending
  <2> QED BY <2>1, <2>2, <2>3, <2>4 DEF Durable, Store!Held
<1>2. ASSUME [Store!StoreNext]_(Store!storeVars), Store!Held,
             Pending => Visible # None, None \notin Saved
      PROVE  Store!Held'
  BY <1>2 DEF Store!StoreNext, Store!storeVars, Store!Held, Store!Show, Store!Commit,
              Store!Withdraw, Store!SetAside, Store!PutBack, Store!GiveUp, Pending
<1>3. CustodyInv /\ CustodyInv' /\ [Next]_vars => (Durable => Durable')
  BY <1>1, <1>2, StoreStep, PTL
<1> QED BY <1>3, Custody, PTL DEF Spec, DurableStays

-----------------------------------------------------------------------------
(* What cleanup, rollback and recover leave behind.                          *)

USE DEF OneStage, HasRemnant, RemnantLabels

\* A directory value that does not exist and is not whole is Absent.
LEMMA AbsentDir ==
    ASSUME NEW d \in Dir, ~Exists(d), ~d.whole PROVE d = Absent
  BY DEF Dir, Absent

\* The names of an operation, read off its shape.
LEMMA ShapeNames ==
    ASSUME NEW o \in Builds
    PROVE  /\ Exists(backup[o]) <=> "backup" \in Shape(o)
           /\ Exists(tomb[o]) <=> "tombstone" \in Shape(o)
           /\ backupMarker[o] # "none" <=> "backup_marker" \in Shape(o)
           /\ tombMarker[o] # "none" <=> "tombstone_marker" \in Shape(o)
           /\ Shape(o) \subseteq {"backup", "tombstone", "backup_marker", "tombstone_marker"}
  BY DEF Shape

\* The first call of recover finds the names it needs.
LEMMA RepairShape ==
    ASSUME NEW o \in Builds, RemnantVerifies(o)
    PROVE  /\ backupMarker[o] # "none"
           /\ FirstRepair(o) \in BeforeTombstone => Exists(backup[o])
           /\ FirstRepair(o) \in {"unlink_tombstone_marker", "unlink_backup_marker"}
                 => ~Exists(tomb[o])
           /\ FirstRepair(o) = "unlink_backup_marker" => tombMarker[o] = "none"
           /\ (Exists(backup[o]) /\ FirstRestore(o) = "restore_backup")
                 => tombMarker[o] = "none"
<1>1. Shape(o) \in ClosedShapes  BY DEF RemnantVerifies
<1> HIDE DEF Exists
<1> QED BY <1>1, ShapeNames DEF FirstRepair, FirstRestore, ClosedShapes, BackupWithMarker,
             BackupWithPrepared, TombstoneWithBoth, BothMarkersOnly, BackupMarkerOnly

\* The existing-target check moves nothing.
LEMMA CheckTargetKeeps ==
    ASSUME RemnantInv, NEW b \in Builds, CheckTarget(b) PROVE (TombInv /\ PriorInv /\ ShapeInv)'
<1> USE DEF CheckTarget, RemnantInv, CustodyInv
<1>1. TombInv'
  BY DEF TypeOK, DirsType, MarkersType, ControlType, PcType, LockInv, OpInv, FreshInv, KnownBackupInv, TombInv, Absent, Whole, Partial
<1>2. PriorInv'
  BY DirTypes DEF TypeOK, DirsType, MarkersType, ControlType, PcType, ResultType, LockInv, OpInv, FreshInv, TargetInv, KnownBackupInv, PriorInv, Absent
<1>3. ShapeInv'
  BY DEF TypeOK, DirsType, MarkersType, ControlType, PcType, LockInv, OpInv, FreshInv, KnownBackupInv, TombInv, ShapeInv, Absent
<1> QED BY <1>1, <1>2, <1>3

\* The new holder owes the target it finds.
LEMMA AcquireLockKeeps ==
    ASSUME RemnantInv, NEW b \in Builds, AcquireLock(b) PROVE (TombInv /\ PriorInv /\ ShapeInv)'
<1> USE DEF AcquireLock, RemnantInv, CustodyInv
<1>1. TombInv'
  BY DEF TypeOK, DirsType, MarkersType, ControlType, PcType, LockInv, OpInv, FreshInv, KnownBackupInv, TombInv, Absent, Whole, Partial
<1>2. PriorInv'
  BY DirTypes DEF TypeOK, DirsType, MarkersType, ControlType, PcType, ResultType, LockInv, OpInv, FreshInv, TargetInv, KnownBackupInv, PriorInv, Absent
<1>3. ShapeInv'
  BY DEF TypeOK, DirsType, MarkersType, ControlType, PcType, LockInv, OpInv, FreshInv, KnownBackupInv, TombInv, ShapeInv, Absent
<1> QED BY <1>1, <1>2, <1>3

\* mkdir of the stage touches no remnant.
LEMMA MakeStageKeeps ==
    ASSUME RemnantInv, NEW b \in Builds, MakeStage(b) PROVE (TombInv /\ PriorInv /\ ShapeInv)'
<1> USE DEF MakeStage, RemnantInv, CustodyInv
<1>1. TombInv'
  BY DEF TypeOK, DirsType, MarkersType, ControlType, PcType, LockInv, OpInv, FreshInv, KnownBackupInv, TombInv, Absent, Whole, Partial
<1>2. PriorInv'
  BY DirTypes DEF TypeOK, DirsType, MarkersType, ControlType, PcType, ResultType, LockInv, OpInv, FreshInv, TargetInv, KnownBackupInv, PriorInv, Absent
<1>3. ShapeInv'
  BY DEF TypeOK, DirsType, MarkersType, ControlType, PcType, LockInv, OpInv, FreshInv, KnownBackupInv, TombInv, ShapeInv, Absent
<1> QED BY <1>1, <1>2, <1>3

\* Nor does its marker.
LEMMA MakeStageMarkerKeeps ==
    ASSUME RemnantInv, NEW b \in Builds, MakeStageMarker(b) PROVE (TombInv /\ PriorInv /\ ShapeInv)'
<1> USE DEF MakeStageMarker, RemnantInv, CustodyInv
<1>1. TombInv'
  BY DEF TypeOK, DirsType, MarkersType, ControlType, PcType, LockInv, OpInv, FreshInv, KnownBackupInv, TombInv, Absent, Whole, Partial
<1>2. PriorInv'
  BY DirTypes DEF TypeOK, DirsType, MarkersType, ControlType, PcType, ResultType, LockInv, OpInv, FreshInv, TargetInv, KnownBackupInv, PriorInv, Absent
<1>3. ShapeInv'
  BY DEF TypeOK, DirsType, MarkersType, ControlType, PcType, LockInv, OpInv, FreshInv, KnownBackupInv, TombInv, ShapeInv, Absent
<1> QED BY <1>1, <1>2, <1>3

\* A failing initialization unlocks and ends.
LEMMA InitializeFailsKeeps ==
    ASSUME RemnantInv, NEW b \in Builds, InitializeFails(b) PROVE (TombInv /\ PriorInv /\ ShapeInv)'
<1> USE DEF InitializeFails, RemnantInv, CustodyInv
<1>1. TombInv'
  BY DEF TypeOK, DirsType, MarkersType, ControlType, PcType, LockInv, OpInv, FreshInv, KnownBackupInv, TombInv, Absent, Whole, Partial
<1>2. PriorInv'
  BY DirTypes DEF TypeOK, DirsType, MarkersType, ControlType, PcType, ResultType, LockInv, OpInv, FreshInv, TargetInv, KnownBackupInv, PriorInv, Absent
<1>3. ShapeInv'
  BY DEF TypeOK, DirsType, MarkersType, ControlType, PcType, LockInv, OpInv, FreshInv, KnownBackupInv, TombInv, ShapeInv, Absent
<1> QED BY <1>1, <1>2, <1>3

\* The scan counts an operation whose build still runs as contended.
LEMMA ScanRemnantsKeeps ==
    ASSUME RemnantInv, NEW b \in Builds, ScanRemnants(b) PROVE (TombInv /\ PriorInv /\ ShapeInv)'
<1> USE DEF ScanRemnants, Remnants, Running, RemnantInv, CustodyInv
<1>1. TombInv'
  BY DEF TypeOK, DirsType, MarkersType, ControlType, PcType, LockInv, OpInv, FreshInv, KnownBackupInv, TombInv, Absent, Whole, Partial
<1>2. PriorInv'
  BY DirTypes DEF TypeOK, DirsType, MarkersType, ControlType, PcType, ResultType, LockInv, OpInv, FreshInv, TargetInv, KnownBackupInv, PriorInv, Absent
<1>3. ShapeInv'
  BY DEF TypeOK, DirsType, MarkersType, ControlType, PcType, LockInv, OpInv, FreshInv, KnownBackupInv, TombInv, ShapeInv, Absent
<1> QED BY <1>1, <1>2, <1>3

\* RepairShape ties the first repair to the names that are there.
LEMMA ObserveRemnantsKeeps ==
    ASSUME RemnantInv, NEW b \in Builds, ObserveRemnants(b) PROVE (TombInv /\ PriorInv /\ ShapeInv)'
<1> USE DEF ObserveRemnants, CanRecover, RemnantInv, CustodyInv
<1>0. /\ op[b] \in Builds /\ op[b] # b /\ pc[b] = "observe"
      /\ pc'[b] \in ChainLabels \cup {"unprepare_tombstone", "restore_backup", "discard_stage"}
      /\ pc' = [pc EXCEPT ![b] = pc'[b]]
      /\ pc'[b] \in ChainLabels => backupMarker[op[b]] # "none"
      /\ pc'[b] \in BeforeTombstone \cup {"unprepare_tombstone", "restore_backup"}
            => Exists(backup[op[b]])
      /\ pc'[b] \in {"unlink_tombstone_marker", "unlink_backup_marker"} => ~Exists(tomb[op[b]])
      /\ pc'[b] \in {"restore_backup", "unlink_backup_marker"} => tombMarker[op[b]] = "none"
      /\ UNCHANGED <<dirs, markers, lock, op, prior, contended, fixed>>
  BY RepairLabels, RepairShape DEF OpInv, TypeOK, PcType
<1>2. PriorInv'
  BY DirTypes DEF TypeOK, DirsType, MarkersType, ControlType, PcType, ResultType, LockInv, OpInv, FreshInv, TargetInv, KnownBackupInv, PriorInv, Absent
<1> HIDE DEF ObserveRemnants, CanRecover
<1>1. TombInv'
  BY <1>0 DEF TypeOK, DirsType, MarkersType, ControlType, PcType, LockInv, OpInv, FreshInv, KnownBackupInv, TombInv, Absent, Whole, Partial
<1>3. ShapeInv'
  BY <1>0 DEF TypeOK, DirsType, MarkersType, ControlType, PcType, LockInv, OpInv, FreshInv, KnownBackupInv, TombInv, ShapeInv, Absent
<1> QED BY <1>1, <1>2, <1>3

\* A tombstone marker is created beside a backup marker.
LEMMA PrepareTombstoneMarkerKeeps ==
    ASSUME RemnantInv, NEW b \in Builds, PrepareTombstoneMarker(b) PROVE (TombInv /\ PriorInv /\ ShapeInv)'
<1> USE DEF PrepareTombstoneMarker, ChainRaises, RemnantInv, CustodyInv
<1>1. TombInv'
  BY DEF TypeOK, DirsType, MarkersType, ControlType, PcType, LockInv, OpInv, FreshInv, KnownBackupInv, TombInv, Absent, Whole, Partial
<1>2. PriorInv'
  BY DirTypes DEF TypeOK, DirsType, MarkersType, ControlType, PcType, ResultType, LockInv, OpInv, FreshInv, TargetInv, KnownBackupInv, PriorInv, Absent
<1>3. ShapeInv'
  BY DEF TypeOK, DirsType, MarkersType, ControlType, PcType, LockInv, OpInv, FreshInv, KnownBackupInv, TombInv, ShapeInv, Absent
<1> QED BY <1>1, <1>2, <1>3

\* Its write, or its removal.
LEMMA WriteTombstoneMarkerKeeps ==
    ASSUME RemnantInv, NEW b \in Builds, WriteTombstoneMarker(b) PROVE (TombInv /\ PriorInv /\ ShapeInv)'
<1> USE DEF WriteTombstoneMarker, ChainRaises, RemnantInv, CustodyInv
<1>1. TombInv'
  BY DEF TypeOK, DirsType, MarkersType, ControlType, PcType, LockInv, OpInv, FreshInv, KnownBackupInv, TombInv, Absent, Whole, Partial
<1>2. PriorInv'
  BY DirTypes DEF TypeOK, DirsType, MarkersType, ControlType, PcType, ResultType, LockInv, OpInv, FreshInv, TargetInv, KnownBackupInv, PriorInv, Absent
<1>3. ShapeInv'
  BY DEF TypeOK, DirsType, MarkersType, ControlType, PcType, LockInv, OpInv, FreshInv, KnownBackupInv, TombInv, ShapeInv, Absent
<1> QED BY <1>1, <1>2, <1>3

\* Both markers are complete when the backup becomes a tombstone.
LEMMA RenameBackupToTombstoneKeeps ==
    ASSUME RemnantInv, NEW b \in Builds, RenameBackupToTombstone(b) PROVE (TombInv /\ PriorInv /\ ShapeInv)'
<1> USE DEF RenameBackupToTombstone, ChainRaises, BackupVerifies, RemnantInv, CustodyInv
<1>1. TombInv'
  BY SMTT(30) DEF TypeOK, DirsType, MarkersType, ControlType, PcType, LockInv, OpInv, FreshInv, KnownBackupInv, TombInv, Absent, Whole, Partial
<1>2. PriorInv'
  BY DirTypes DEF TypeOK, DirsType, MarkersType, ControlType, PcType, ResultType, LockInv, OpInv, FreshInv, TargetInv, KnownBackupInv, PriorInv, Absent
<1>3. ShapeInv'
  BY DEF TypeOK, DirsType, MarkersType, ControlType, PcType, LockInv, OpInv, FreshInv, KnownBackupInv, TombInv, ShapeInv, Absent
<1> QED BY <1>1, <1>2, <1>3

\* The checks before the first leaf.
LEMMA DeleteTombstoneKeeps ==
    ASSUME RemnantInv, NEW b \in Builds, DeleteTombstone(b) PROVE (TombInv /\ PriorInv /\ ShapeInv)'
<1> USE DEF DeleteTombstone, ChainRaises, RemnantInv, CustodyInv
<1>1. TombInv'
  BY DEF TypeOK, DirsType, MarkersType, ControlType, PcType, LockInv, OpInv, FreshInv, KnownBackupInv, TombInv, Absent, Whole, Partial
<1>2. PriorInv'
  BY DirTypes DEF TypeOK, DirsType, MarkersType, ControlType, PcType, ResultType, LockInv, OpInv, FreshInv, TargetInv, KnownBackupInv, PriorInv, Absent
<1>3. ShapeInv'
  BY DEF TypeOK, DirsType, MarkersType, ControlType, PcType, LockInv, OpInv, FreshInv, KnownBackupInv, TombInv, ShapeInv, Absent
<1> QED BY <1>1, <1>2, <1>3

\* A tombstone without its leaves is still a tombstone.
LEMMA UnlinkLeavesKeeps ==
    ASSUME RemnantInv, NEW b \in Builds, UnlinkLeaves(b) PROVE (TombInv /\ PriorInv /\ ShapeInv)'
<1> USE DEF UnlinkLeaves, ChainRaises, RemnantInv, CustodyInv
<1>1. TombInv'
  BY DEF TypeOK, DirsType, MarkersType, ControlType, PcType, LockInv, OpInv, FreshInv, KnownBackupInv, TombInv, Absent, Whole, Partial
<1>2. PriorInv'
  BY DirTypes DEF TypeOK, DirsType, MarkersType, ControlType, PcType, ResultType, LockInv, OpInv, FreshInv, TargetInv, KnownBackupInv, PriorInv, Absent
<1>3. ShapeInv'
  BY DEF TypeOK, DirsType, MarkersType, ControlType, PcType, LockInv, OpInv, FreshInv, KnownBackupInv, TombInv, ShapeInv, Absent
<1> QED BY <1>1, <1>2, <1>3

\* The directory goes before its marker.
LEMMA RmdirTombstoneKeeps ==
    ASSUME RemnantInv, NEW b \in Builds, RmdirTombstone(b) PROVE (TombInv /\ PriorInv /\ ShapeInv)'
<1> USE DEF RmdirTombstone, ChainRaises, RemnantInv, CustodyInv
<1>1. TombInv'
  BY SMTT(30) DEF TypeOK, DirsType, MarkersType, ControlType, PcType, LockInv, OpInv, FreshInv, KnownBackupInv, TombInv, Absent, Whole, Partial
<1>2. PriorInv'
  BY DirTypes DEF TypeOK, DirsType, MarkersType, ControlType, PcType, ResultType, LockInv, OpInv, FreshInv, TargetInv, KnownBackupInv, PriorInv, Absent
<1>3. ShapeInv'
  BY DEF TypeOK, DirsType, MarkersType, ControlType, PcType, LockInv, OpInv, FreshInv, KnownBackupInv, TombInv, ShapeInv, Absent
<1> QED BY <1>1, <1>2, <1>3

\* The tombstone marker goes when no tombstone is left.
LEMMA UnlinkTombstoneMarkerKeeps ==
    ASSUME RemnantInv, NEW b \in Builds, UnlinkTombstoneMarker(b) PROVE (TombInv /\ PriorInv /\ ShapeInv)'
<1> USE DEF UnlinkTombstoneMarker, ChainRaises, RemnantInv, CustodyInv
<1>1. TombInv'
  BY DEF TypeOK, DirsType, MarkersType, ControlType, PcType, LockInv, OpInv, FreshInv, KnownBackupInv, TombInv, Absent, Whole, Partial
<1>2. PriorInv'
  BY DirTypes DEF TypeOK, DirsType, MarkersType, ControlType, PcType, ResultType, LockInv, OpInv, FreshInv, TargetInv, KnownBackupInv, PriorInv, Absent
<1>3. ShapeInv'
  BY DEF TypeOK, DirsType, MarkersType, ControlType, PcType, LockInv, OpInv, FreshInv, KnownBackupInv, TombInv, ShapeInv, Absent
<1> QED BY <1>1, <1>2, <1>3

\* The backup marker goes last.
LEMMA UnlinkBackupMarkerKeeps ==
    ASSUME RemnantInv, NEW b \in Builds, UnlinkBackupMarker(b) PROVE (TombInv /\ PriorInv /\ ShapeInv)'
<1> USE DEF UnlinkBackupMarker, ChainRaises, RemnantInv, CustodyInv
<1>1. TombInv'
  BY DEF TypeOK, DirsType, MarkersType, ControlType, PcType, LockInv, OpInv, FreshInv, KnownBackupInv, TombInv, Absent, Whole, Partial
<1>2. PriorInv'
  BY DirTypes DEF TypeOK, DirsType, MarkersType, ControlType, PcType, ResultType, LockInv, OpInv, FreshInv, TargetInv, KnownBackupInv, PriorInv, Absent
<1>3. ShapeInv'
  BY DEF TypeOK, DirsType, MarkersType, ControlType, PcType, LockInv, OpInv, FreshInv, KnownBackupInv, TombInv, ShapeInv, Absent
<1> QED BY <1>1, <1>2, <1>3

\* Building changes the stage only.
LEMMA BuildCandidateKeeps ==
    ASSUME RemnantInv, NEW b \in Builds, BuildCandidate(b) PROVE (TombInv /\ PriorInv /\ ShapeInv)'
<1> USE DEF BuildCandidate, RemnantInv, CustodyInv
<1>1. TombInv'
  BY DEF TypeOK, DirsType, MarkersType, ControlType, PcType, LockInv, OpInv, FreshInv, KnownBackupInv, TombInv, Absent, Whole, Partial
<1>2. PriorInv'
  BY DirTypes DEF TypeOK, DirsType, MarkersType, ControlType, PcType, ResultType, LockInv, OpInv, FreshInv, TargetInv, KnownBackupInv, PriorInv, Absent
<1>3. ShapeInv'
  BY DEF TypeOK, DirsType, MarkersType, ControlType, PcType, LockInv, OpInv, FreshInv, KnownBackupInv, TombInv, ShapeInv, Absent
<1> QED BY <1>1, <1>2, <1>3

\* A build that starts to publish has no name of its own yet.
LEMMA StartPublishKeeps ==
    ASSUME RemnantInv, NEW b \in Builds, StartPublish(b) PROVE (TombInv /\ PriorInv /\ ShapeInv)'
<1> USE DEF StartPublish, RemnantInv, CustodyInv
<1>1. TombInv'
  BY DEF TypeOK, DirsType, MarkersType, ControlType, PcType, LockInv, OpInv, FreshInv, KnownBackupInv, TombInv, Absent, Whole, Partial
<1>2. PriorInv'
  <2>1. ~Exists(target) => target = backup[b]
    BY AbsentDir DEF TypeOK, DirsType, OpInv, FreshInv, TargetInv, BackupInv
  <2>2. result[b] # "failed" /\ target = prior[b]
    BY DEF OpInv, PriorInv
  <2> QED BY <2>1, <2>2 DEF TypeOK, DirsType, ControlType, PcType, ResultType, LockInv, OpInv, PriorInv
<1>3. ShapeInv'
  BY DEF TypeOK, DirsType, MarkersType, ControlType, PcType, LockInv, OpInv, FreshInv, KnownBackupInv, TombInv, ShapeInv, Absent
<1> QED BY <1>1, <1>2, <1>3

\* The backup marker is the first of its names.
LEMMA CreateBackupMarkerKeeps ==
    ASSUME RemnantInv, NEW b \in Builds, CreateBackupMarker(b) PROVE (TombInv /\ PriorInv /\ ShapeInv)'
<1> USE DEF CreateBackupMarker, ActiveOperation, RemnantInv, CustodyInv
<1>1. TombInv'
  BY DEF TypeOK, DirsType, MarkersType, ControlType, PcType, LockInv, OpInv, FreshInv, KnownBackupInv, TombInv, Absent, Whole, Partial
<1>2. PriorInv'
  BY DirTypes DEF TypeOK, DirsType, MarkersType, ControlType, PcType, ResultType, LockInv, OpInv, FreshInv, TargetInv, KnownBackupInv, PriorInv, Absent
<1>3. ShapeInv'
  BY DEF TypeOK, DirsType, MarkersType, ControlType, PcType, LockInv, OpInv, FreshInv, KnownBackupInv, TombInv, ShapeInv, Absent
<1> QED BY <1>1, <1>2, <1>3

\* Its write, or its removal while it is the only one.
LEMMA WriteBackupMarkerKeeps ==
    ASSUME RemnantInv, NEW b \in Builds, WriteBackupMarker(b) PROVE (TombInv /\ PriorInv /\ ShapeInv)'
<1> USE DEF WriteBackupMarker, RemnantInv, CustodyInv
<1>1. TombInv'
  BY DEF TypeOK, DirsType, MarkersType, ControlType, PcType, LockInv, OpInv, FreshInv, KnownBackupInv, TombInv, Absent, Whole, Partial
<1>2. PriorInv'
  BY DirTypes DEF TypeOK, DirsType, MarkersType, ControlType, PcType, ResultType, LockInv, OpInv, FreshInv, TargetInv, KnownBackupInv, PriorInv, Absent
<1>3. ShapeInv'
  BY DEF TypeOK, DirsType, MarkersType, ControlType, PcType, LockInv, OpInv, FreshInv, KnownBackupInv, TombInv, ShapeInv, Absent
<1> QED BY <1>1, <1>2, <1>3

\* The target becomes the backup: what is owed is there now.
LEMMA RenameTargetToBackupKeeps ==
    ASSUME RemnantInv, NEW b \in Builds, RenameTargetToBackup(b) PROVE (TombInv /\ PriorInv /\ ShapeInv)'
<1> USE DEF RenameTargetToBackup, RemnantInv, CustodyInv
<1>1. TombInv'
  BY DEF TypeOK, DirsType, MarkersType, ControlType, PcType, LockInv, OpInv, FreshInv, KnownBackupInv, TombInv, Absent, Whole, Partial
<1>2. PriorInv'
  BY DirTypes DEF TypeOK, DirsType, MarkersType, ControlType, PcType, ResultType, LockInv, OpInv, FreshInv, TargetInv, KnownBackupInv, PriorInv, Absent
<1>3. ShapeInv'
  BY DEF TypeOK, DirsType, MarkersType, ControlType, PcType, LockInv, OpInv, FreshInv, KnownBackupInv, TombInv, ShapeInv, Absent
<1> QED BY <1>1, <1>2, <1>3

\* A backup that does not verify is put back.
LEMMA VerifyBackupKeeps ==
    ASSUME RemnantInv, NEW b \in Builds, VerifyBackup(b) PROVE (TombInv /\ PriorInv /\ ShapeInv)'
<1> USE DEF VerifyBackup, BackupVerifies, RemnantInv, CustodyInv
<1>1. TombInv'
  BY DEF TypeOK, DirsType, MarkersType, ControlType, PcType, LockInv, OpInv, FreshInv, KnownBackupInv, TombInv, Absent, Whole, Partial
<1>2. PriorInv'
  BY DirTypes DEF TypeOK, DirsType, MarkersType, ControlType, PcType, ResultType, LockInv, OpInv, FreshInv, TargetInv, KnownBackupInv, PriorInv, Absent
<1>3. ShapeInv'
  BY DEF TypeOK, DirsType, MarkersType, ControlType, PcType, LockInv, OpInv, FreshInv, KnownBackupInv, TombInv, ShapeInv, Absent
<1> QED BY <1>1, <1>2, <1>3

\* The stage becomes the target, or the backup is put back.
LEMMA RenameStageToTargetKeeps ==
    ASSUME RemnantInv, NEW b \in Builds, RenameStageToTarget(b) PROVE (TombInv /\ PriorInv /\ ShapeInv)'
<1> USE DEF RenameStageToTarget, HadTarget, RemnantInv, CustodyInv
<1>1. TombInv'
  BY DEF TypeOK, DirsType, MarkersType, ControlType, PcType, LockInv, OpInv, FreshInv, KnownBackupInv, TombInv, Absent, Whole, Partial
<1>2. PriorInv'
  <2>1. ~Exists(backup[b]) => backup[b] = Absent
    BY AbsentDir DEF TypeOK, DirsType, BackupInv
  <2>2. target = Absent
    BY AbsentDir DEF TypeOK, DirsType, TargetInv
  <2>3. op[b] = b /\ prior[b] = backup[b] /\ result[b] # "failed"
    BY DEF OpInv, PriorInv
  <2> QED BY <2>1, <2>2, <2>3 DEF TypeOK, DirsType, ControlType, PcType, ResultType, LockInv, OpInv, PriorInv
<1>3. ShapeInv'
  BY DEF TypeOK, DirsType, MarkersType, ControlType, PcType, LockInv, OpInv, FreshInv, KnownBackupInv, TombInv, ShapeInv, Absent
<1> QED BY <1>1, <1>2, <1>3

\* The new target verifies, or is rolled back.
LEMMA VerifyTargetKeeps ==
    ASSUME RemnantInv, NEW b \in Builds, VerifyTarget(b) PROVE (TombInv /\ PriorInv /\ ShapeInv)'
<1> USE DEF VerifyTarget, RemnantInv, CustodyInv
<1>1. TombInv'
  BY DEF TypeOK, DirsType, MarkersType, ControlType, PcType, LockInv, OpInv, FreshInv, KnownBackupInv, TombInv, Absent, Whole, Partial
<1>2. PriorInv'
  BY DirTypes DEF TypeOK, DirsType, MarkersType, ControlType, PcType, ResultType, LockInv, OpInv, FreshInv, TargetInv, KnownBackupInv, PriorInv, Absent
<1>3. ShapeInv'
  BY DEF TypeOK, DirsType, MarkersType, ControlType, PcType, LockInv, OpInv, FreshInv, KnownBackupInv, TombInv, ShapeInv, Absent
<1> QED BY <1>1, <1>2, <1>3

\* The commit.
LEMMA UnlinkStageMarkerKeeps ==
    ASSUME RemnantInv, NEW b \in Builds, UnlinkStageMarker(b) PROVE (TombInv /\ PriorInv /\ ShapeInv)'
<1> USE DEF UnlinkStageMarker, RemnantInv, CustodyInv
<1>1. TombInv'
  BY DEF TypeOK, DirsType, MarkersType, ControlType, PcType, LockInv, OpInv, FreshInv, KnownBackupInv, TombInv, Absent, Whole, Partial
<1>2. PriorInv'
  BY DirTypes DEF TypeOK, DirsType, MarkersType, ControlType, PcType, ResultType, LockInv, OpInv, FreshInv, TargetInv, KnownBackupInv, PriorInv, Absent
<1>3. ShapeInv'
  BY DEF TypeOK, DirsType, MarkersType, ControlType, PcType, LockInv, OpInv, FreshInv, KnownBackupInv, TombInv, ShapeInv, Absent
<1> QED BY <1>1, <1>2, <1>3

\* The publisher enters the chain with its backup marked.
LEMMA FinishTransferKeeps ==
    ASSUME RemnantInv, NEW b \in Builds, FinishTransfer(b) PROVE (TombInv /\ PriorInv /\ ShapeInv)'
<1> USE DEF FinishTransfer, HadTarget, RemnantInv, CustodyInv
<1>1. TombInv'
  BY DEF TypeOK, DirsType, MarkersType, ControlType, PcType, LockInv, OpInv, FreshInv, KnownBackupInv, TombInv, Absent, Whole, Partial
<1>2. PriorInv'
  BY DirTypes DEF TypeOK, DirsType, MarkersType, ControlType, PcType, ResultType, LockInv, OpInv, FreshInv, TargetInv, KnownBackupInv, PriorInv, Absent
<1>3. ShapeInv'
  BY DEF TypeOK, DirsType, MarkersType, ControlType, PcType, LockInv, OpInv, FreshInv, KnownBackupInv, TombInv, ShapeInv, Absent
<1> QED BY <1>1, <1>2, <1>3

\* The new target goes back to the stage.
LEMMA RollbackTargetToStageKeeps ==
    ASSUME RemnantInv, NEW b \in Builds, RollbackTargetToStage(b) PROVE (TombInv /\ PriorInv /\ ShapeInv)'
<1> USE DEF RollbackTargetToStage, HadTarget, RemnantInv, CustodyInv
<1>1. TombInv'
  BY DEF TypeOK, DirsType, MarkersType, ControlType, PcType, LockInv, OpInv, FreshInv, KnownBackupInv, TombInv, Absent, Whole, Partial
<1>2. PriorInv'
  <2>1. ~Exists(backup[b]) => backup[b] = Absent
    BY AbsentDir DEF TypeOK, DirsType, BackupInv
  <2>2. ~Exists(target) => target = Absent
    BY AbsentDir DEF TypeOK, DirsType, TargetInv
  <2> QED BY <2>1, <2>2 DEF TypeOK, DirsType, ControlType, PcType, ResultType, LockInv, OpInv, KnownBackupInv, PriorInv
<1>3. ShapeInv'
  BY DEF TypeOK, DirsType, MarkersType, ControlType, PcType, LockInv, OpInv, FreshInv, KnownBackupInv, TombInv, ShapeInv, Absent
<1> QED BY <1>1, <1>2, <1>3

\* What was owed is the target again.
LEMMA RestoreBackupKeeps ==
    ASSUME RemnantInv, NEW b \in Builds, RestoreBackup(b) PROVE (TombInv /\ PriorInv /\ ShapeInv)'
<1> USE DEF RestoreBackup, RestoreRaises, BackupVerifies, RemnantInv, CustodyInv
<1>1. TombInv'
  BY SMTT(30) DEF TypeOK, DirsType, MarkersType, ControlType, PcType, LockInv, OpInv, FreshInv, KnownBackupInv, TombInv, Absent, Whole, Partial
<1>2. PriorInv'
  BY DirTypes, SMTT(30) DEF TypeOK, DirsType, MarkersType, ControlType, PcType, ResultType, LockInv, OpInv, FreshInv, TargetInv, KnownBackupInv, PriorInv, Absent
<1>3. ShapeInv'
  BY DEF TypeOK, DirsType, MarkersType, ControlType, PcType, LockInv, OpInv, FreshInv, KnownBackupInv, TombInv, ShapeInv, Absent
<1> QED BY <1>1, <1>2, <1>3

\* The marker of a restored backup is the last of the names.
LEMMA UnlinkRestoredMarkerKeeps ==
    ASSUME RemnantInv, NEW b \in Builds, UnlinkRestoredMarker(b) PROVE (TombInv /\ PriorInv /\ ShapeInv)'
<1> USE DEF UnlinkRestoredMarker, RestoreRaises, RemnantInv, CustodyInv
<1>1. TombInv'
  BY DEF TypeOK, DirsType, MarkersType, ControlType, PcType, LockInv, OpInv, FreshInv, KnownBackupInv, TombInv, Absent, Whole, Partial
<1>2. PriorInv'
  BY DirTypes DEF TypeOK, DirsType, MarkersType, ControlType, PcType, ResultType, LockInv, OpInv, FreshInv, TargetInv, KnownBackupInv, PriorInv, Absent
<1>3. ShapeInv'
  BY DEF TypeOK, DirsType, MarkersType, ControlType, PcType, LockInv, OpInv, FreshInv, KnownBackupInv, TombInv, ShapeInv, Absent
<1> QED BY <1>1, <1>2, <1>3

\* A failed rollback ends with its process.
LEMMA ExitKeeps ==
    ASSUME RemnantInv, NEW b \in Builds, Exit(b) PROVE (TombInv /\ PriorInv /\ ShapeInv)'
<1> USE DEF Exit, RemnantInv, CustodyInv
<1>1. TombInv'
  BY DEF TypeOK, DirsType, MarkersType, ControlType, PcType, LockInv, OpInv, FreshInv, KnownBackupInv, TombInv, Absent, Whole, Partial
<1>2. PriorInv'
  BY DirTypes DEF TypeOK, DirsType, MarkersType, ControlType, PcType, ResultType, LockInv, OpInv, FreshInv, TargetInv, KnownBackupInv, PriorInv, Absent
<1>3. ShapeInv'
  BY DEF TypeOK, DirsType, MarkersType, ControlType, PcType, LockInv, OpInv, FreshInv, KnownBackupInv, TombInv, ShapeInv, Absent
<1> QED BY <1>1, <1>2, <1>3

\* The leaves of the stage.
LEMMA DiscardStageKeeps ==
    ASSUME RemnantInv, NEW b \in Builds, DiscardStage(b) PROVE (TombInv /\ PriorInv /\ ShapeInv)'
<1> USE DEF DiscardStage, RemnantInv, CustodyInv
<1>1. TombInv'
  BY DEF TypeOK, DirsType, MarkersType, ControlType, PcType, LockInv, OpInv, FreshInv, KnownBackupInv, TombInv, Absent, Whole, Partial
<1>2. PriorInv'
  BY DirTypes DEF TypeOK, DirsType, MarkersType, ControlType, PcType, ResultType, LockInv, OpInv, FreshInv, TargetInv, KnownBackupInv, PriorInv, Absent
<1>3. ShapeInv'
  BY DEF TypeOK, DirsType, MarkersType, ControlType, PcType, LockInv, OpInv, FreshInv, KnownBackupInv, TombInv, ShapeInv, Absent
<1> QED BY <1>1, <1>2, <1>3

\* Its directory.
LEMMA RmdirStageKeeps ==
    ASSUME RemnantInv, NEW b \in Builds, RmdirStage(b) PROVE (TombInv /\ PriorInv /\ ShapeInv)'
<1> USE DEF RmdirStage, RemnantInv, CustodyInv
<1>1. TombInv'
  BY DEF TypeOK, DirsType, MarkersType, ControlType, PcType, LockInv, OpInv, FreshInv, KnownBackupInv, TombInv, Absent, Whole, Partial
<1>2. PriorInv'
  BY DirTypes DEF TypeOK, DirsType, MarkersType, ControlType, PcType, ResultType, LockInv, OpInv, FreshInv, TargetInv, KnownBackupInv, PriorInv, Absent
<1>3. ShapeInv'
  BY DEF TypeOK, DirsType, MarkersType, ControlType, PcType, LockInv, OpInv, FreshInv, KnownBackupInv, TombInv, ShapeInv, Absent
<1> QED BY <1>1, <1>2, <1>3

\* Its marker, and the unlock.
LEMMA DiscardMarkerKeeps ==
    ASSUME RemnantInv, NEW b \in Builds, DiscardMarker(b) PROVE (TombInv /\ PriorInv /\ ShapeInv)'
<1> USE DEF DiscardMarker, RemnantInv, CustodyInv
<1>1. TombInv'
  BY DEF TypeOK, DirsType, MarkersType, ControlType, PcType, LockInv, OpInv, FreshInv, KnownBackupInv, TombInv, Absent, Whole, Partial
<1>2. PriorInv'
  BY DirTypes DEF TypeOK, DirsType, MarkersType, ControlType, PcType, ResultType, LockInv, OpInv, FreshInv, TargetInv, KnownBackupInv, PriorInv, Absent
<1>3. ShapeInv'
  BY DEF TypeOK, DirsType, MarkersType, ControlType, PcType, LockInv, OpInv, FreshInv, KnownBackupInv, TombInv, ShapeInv, Absent
<1> QED BY <1>1, <1>2, <1>3

\* A crash leaves the names to a recovering build.
LEMMA CrashKeeps ==
    ASSUME RemnantInv, NEW b \in Builds, Crash(b) PROVE (TombInv /\ PriorInv /\ ShapeInv)'
<1> USE DEF Crash, Running, RemnantInv, CustodyInv
<1>1. TombInv'
  BY DEF TypeOK, DirsType, MarkersType, ControlType, PcType, LockInv, OpInv, FreshInv, KnownBackupInv, TombInv, Absent, Whole, Partial
<1>2. PriorInv'
  BY DirTypes DEF TypeOK, DirsType, MarkersType, ControlType, PcType, ResultType, LockInv, OpInv, FreshInv, TargetInv, KnownBackupInv, PriorInv, Absent
<1>3. ShapeInv'
  BY DEF TypeOK, DirsType, MarkersType, ControlType, PcType, LockInv, OpInv, FreshInv, KnownBackupInv, TombInv, ShapeInv, Absent
<1> QED BY <1>1, <1>2, <1>3
-----------------------------------------------------------------------------
(* The invariant, and the properties it implies *)

\* The invariant holds at the start.
LEMMA InitRemnants == Init => RemnantInv
<1> SUFFICES ASSUME Init PROVE RemnantInv
  OBVIOUS
<1>1. CustodyInv  BY InitCustody
<1>2. TombInv  BY DEF Init, Absent, TombInv
<1>3. PriorInv  BY DEF Init, PriorInv
<1>4. ShapeInv  BY DEF Init, Absent, ShapeInv
<1> QED BY <1>1, <1>2, <1>3, <1>4 DEF RemnantInv

\* Every step of every build, and every crash, preserves it.
LEMMA StepRemnants == ASSUME RemnantInv, [Next]_vars PROVE RemnantInv'
<1> SUFFICES (TombInv /\ PriorInv /\ ShapeInv)'
  BY StepCustody DEF RemnantInv
<1>1. ASSUME NEW b \in Builds, Initialize(b) PROVE (TombInv /\ PriorInv /\ ShapeInv)'
  BY <1>1, CheckTargetKeeps, AcquireLockKeeps, MakeStageKeeps, MakeStageMarkerKeeps,
     InitializeFailsKeeps DEF Initialize
<1>2. ASSUME NEW b \in Builds, Recover(b) PROVE (TombInv /\ PriorInv /\ ShapeInv)'
  BY <1>2, ScanRemnantsKeeps, ObserveRemnantsKeeps DEF Recover
<1>3. ASSUME NEW b \in Builds, Cleanup(b) PROVE (TombInv /\ PriorInv /\ ShapeInv)'
  BY <1>3, PrepareTombstoneMarkerKeeps, WriteTombstoneMarkerKeeps,
     RenameBackupToTombstoneKeeps, DeleteTombstoneKeeps, UnlinkLeavesKeeps,
     RmdirTombstoneKeeps, UnlinkTombstoneMarkerKeeps, UnlinkBackupMarkerKeeps DEF Cleanup
<1>4. ASSUME NEW b \in Builds, Publish(b) PROVE (TombInv /\ PriorInv /\ ShapeInv)'
  BY <1>4, BuildCandidateKeeps, StartPublishKeeps, CreateBackupMarkerKeeps,
     WriteBackupMarkerKeeps, RenameTargetToBackupKeeps, VerifyBackupKeeps,
     RenameStageToTargetKeeps, VerifyTargetKeeps, UnlinkStageMarkerKeeps,
     FinishTransferKeeps DEF Publish
<1>5. ASSUME NEW b \in Builds, Rollback(b) PROVE (TombInv /\ PriorInv /\ ShapeInv)'
  BY <1>5, RollbackTargetToStageKeeps, RestoreBackupKeeps, UnlinkRestoredMarkerKeeps,
     ExitKeeps, DiscardStageKeeps, RmdirStageKeeps, DiscardMarkerKeeps DEF Rollback
<1>6. CASE UNCHANGED vars
  BY <1>6 DEF vars, RemnantInv, TombInv, PriorInv, ShapeInv
<1> QED BY <1>1, <1>2, <1>3, <1>4, <1>5, <1>6, CrashKeeps DEF Next, Step

\* RemnantInv holds in every reachable state of publish, rollback, cleanup and
\* recover, for any set of builds and any number of faults and crashes.
THEOREM RemnantCustody == Spec => []RemnantInv
<1>1. Init => RemnantInv
  BY InitRemnants
<1>2. RemnantInv /\ [Next]_vars => RemnantInv'
  BY StepRemnants
<1> QED BY <1>1, <1>2, PTL DEF Spec

\* Names covered by their markers form one of the shapes remnant_state knows.
LEMMA MarkedShapes ==
    ASSUME NEW o \in Builds,
           (Exists(backup[o]) \/ Exists(tomb[o]) \/ tombMarker[o] # "none")
              => backupMarker[o] # "none",
           Exists(tomb[o]) => tombMarker[o] # "none",
           ~(Exists(backup[o]) /\ Exists(tomb[o]))
    PROVE  Shape(o) \in ClosedShapes \cup {NoRemnant}
<1> HIDE DEF Exists
<1> DEFINE S == Shape(o)
<1>1. /\ S \subseteq {"backup", "tombstone", "backup_marker", "tombstone_marker"}
      /\ "backup" \in S \/ "tombstone" \in S \/ "tombstone_marker" \in S
            => "backup_marker" \in S
      /\ "tombstone" \in S => "tombstone_marker" \in S
      /\ ~("backup" \in S /\ "tombstone" \in S)
  BY ShapeNames
<1> SUFFICES S \in ClosedShapes \cup {NoRemnant}
  OBVIOUS
<1> HIDE DEF S
<1>2. CASE "backup_marker" \notin S
  BY <1>1, <1>2 DEF NoRemnant
<1>3. CASE "backup_marker" \in S /\ "tombstone_marker" \notin S
  <2>1. S = {"backup_marker"} \/ S = {"backup", "backup_marker"}
    BY <1>1, <1>3
  <2> QED BY <2>1 DEF ClosedShapes, BackupWithMarker, BackupMarkerOnly
<1>4. CASE "backup_marker" \in S /\ "tombstone_marker" \in S
  <2>1. CASE "backup" \in S
    <3>1. S = {"backup", "backup_marker", "tombstone_marker"}  BY <1>1, <1>4, <2>1
    <3> QED BY <3>1 DEF ClosedShapes, BackupWithPrepared
  <2>2. CASE "tombstone" \in S
    <3>1. S = {"tombstone", "backup_marker", "tombstone_marker"}  BY <1>1, <1>4, <2>2
    <3> QED BY <3>1 DEF ClosedShapes, TombstoneWithBoth
  <2>3. CASE "backup" \notin S /\ "tombstone" \notin S
    <3>1. S = {"backup_marker", "tombstone_marker"}  BY <1>1, <1>4, <2>3
    <3> QED BY <3>1 DEF ClosedShapes, BothMarkersOnly
  <2> QED BY <2>1, <2>2, <2>3
<1> QED BY <1>2, <1>3, <1>4

\* RemnantsClosed: an operation no other build recovered while its own still ran
\* leaves a shape that remnant_state recognizes, whichever call fails or dies.
THEOREM RemnantsAreClosed == Spec => []RemnantsClosed
<1>1. RemnantInv => RemnantsClosed
  BY MarkedShapes DEF RemnantInv, TombInv, ShapeInv, RemnantsClosed
<1> QED BY <1>1, RemnantCustody, PTL

\* FailureRestoresTarget: an ordinary error of publish or recover leaves the
\* target the build found, or the one its recovery put back.
THEOREM FailureIsRestored == Spec => []FailureRestoresTarget
<1>1. RemnantInv => FailureRestoresTarget
  BY DEF RemnantInv, CustodyInv, LockInv, PriorInv, FailureRestoresTarget
<1> QED BY <1>1, RemnantCustody, PTL

\* RecoveredBeforePublish: what publish and its rollback can meet under the
\* backup and tombstone names is the build's own old target.
THEOREM PublishMeetsOwnNames == Spec => []RecoveredBeforePublish
<1>1. RemnantInv => RecoveredBeforePublish
  BY DEF RemnantInv, CustodyInv, OpInv, KnownBackupInv, TombInv, RecoveredBeforePublish
<1> QED BY <1>1, RemnantCustody, PTL
=============================================================================
