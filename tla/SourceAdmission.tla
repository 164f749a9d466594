--------------------------- MODULE SourceAdmission ---------------------------
(* Bringing official source data into the repository
   (tools/admit_official_archive.py).  `--admit` verifies an archive and swaps
   the workbook directory; `--publish` validates a candidate tree and swaps four
   groups of paths behind one rollback.  A rename, a removal or a change of mode
   may fail; the process may be killed, or interrupted from the keyboard, which
   leaves through the clean-up of the temporary directory only.               *)
EXTENDS Integers, Sequences

CONSTANTS MaxTrouble    \* bound: failing calls, interrupts and kills
ASSUME AdmissionAssumption == MaxTrouble \in Nat

Groups == 1..4          \* data, input manifest, schema catalog, expected audit

VARIABLES
    tool,      \* "admit" or "publish"
    next,      \* the tool's next call
    active,    \* group -> "none", "old", "new", "partial": what the path holds
    saved,     \* group -> the backup beside it (admit) or in the temporary tree
    prior,     \* what was active when the tool started
    states,    \* publish: groups entered in `states`, in order
    undo,      \* publish: groups still to roll back, last first
    candidate, \* does the candidate tree validate now
    copied,    \* did the staged copy validate
    open,      \* active data directory writable (its mode was relaxed)
    lost,      \* a rollback step failed
    result,    \* what the run reports
    trouble

avars == <<tool, next, active, saved, prior, states, undo, candidate, copied, open,
           lost, result, trouble>>

AInit ==
    /\ tool \in {"admit", "publish"} /\ next = "verify"
    /\ \E S \in {{}, {1}, Groups} : active = [g \in Groups |-> IF g \in S THEN "old" ELSE "none"]
    /\ saved = [g \in Groups |-> "none"] /\ prior = active
    /\ states = <<>> /\ undo = <<>> /\ candidate \in BOOLEAN /\ copied = FALSE
    /\ open = FALSE /\ lost = FALSE /\ result = "none" /\ trouble = 0

Trouble == trouble < MaxTrouble /\ trouble' = trouble + 1
End(r)  == next' = "ended" /\ result' = r
Calm    == UNCHANGED trouble
Fixed   == UNCHANGED <<tool, prior>>

\* inspect and admit: _verified_payloads checks checksum, members, sizes, sheets.
VerifyArchive ==
    /\ tool = "admit" /\ next = "verify"
    /\ IF candidate THEN next' = "admitBackup" /\ UNCHANGED result ELSE End("refused")
    /\ Calm /\ Fixed /\ UNCHANGED <<active, saved, states, undo, candidate, copied, open, lost>>

\* admit_archive: the backup name must be free; the old directory goes there.
AdmitBackup ==
    /\ tool = "admit" /\ next = "admitBackup"
    /\ \/ /\ saved[1] # "none" /\ End("target_busy") /\ Calm /\ UNCHANGED <<active, saved>>
       \/ /\ saved[1] = "none" /\ next' = "admitInstall" /\ Calm /\ UNCHANGED result
          /\ IF active[1] # "none"
             THEN saved' = [saved EXCEPT ![1] = active[1]] /\ active' = [active EXCEPT ![1] = "none"]
             ELSE UNCHANGED <<active, saved>>
       \/ saved[1] = "none" /\ Trouble /\ End("target_replace") /\ UNCHANGED <<active, saved>>
    /\ Fixed /\ UNCHANGED <<states, undo, candidate, copied, open, lost>>

\* The staged directory takes its place; on failure the backup goes back.
AdmitInstall ==
    /\ tool = "admit" /\ next = "admitInstall"
    /\ \/ /\ active' = [active EXCEPT ![1] = "new"] /\ next' = "admitClean"
          /\ Calm /\ UNCHANGED <<saved, result>>
       \/ /\ Trouble /\ End("target_replace")
          /\ IF saved[1] # "none"
             THEN active' = [active EXCEPT ![1] = saved[1]] /\ saved' = [saved EXCEPT ![1] = "none"]
             ELSE UNCHANGED <<active, saved>>
       \/ /\ trouble + 2 <= MaxTrouble /\ trouble' = trouble + 2     \* and the way back fails
          /\ saved[1] # "none" /\ End("restore_failed") /\ UNCHANGED <<active, saved>>
    /\ Fixed /\ UNCHANGED <<states, undo, candidate, copied, open, lost>>

\* shutil.rmtree(backup): it may stop half-way.
AdmitClean ==
    /\ tool = "admit" /\ next = "admitClean"
    /\ \/ saved' = [saved EXCEPT ![1] = "none"] /\ End("admitted") /\ Calm
       \/ saved[1] # "none" /\ Trouble /\ saved' = [saved EXCEPT ![1] = "partial"] /\ End("backup_left")
    /\ Fixed /\ UNCHANGED <<active, states, undo, candidate, copied, open, lost>>

\* publish_candidate: validate_candidate on the candidate, before anything moves.
ValidateCandidate ==
    /\ tool = "publish" /\ next = "verify"
    /\ IF candidate THEN next' = "copy" /\ UNCHANGED result ELSE End("refused")
    /\ Calm /\ Fixed /\ UNCHANGED <<active, saved, states, undo, candidate, copied, open, lost>>

\* Mutant: the group whose replacement failed is not rolled back.
FailingShort == next' = "rollback" /\ undo' = SubSeq(states, 1, Len(states) - 1) /\ UNCHANGED result

\* Rolling back starts from the groups entered so far.
Failing == next' = "rollback" /\ undo' = states /\ UNCHANGED result

\* copytree and validate_candidate on the copy: a candidate that changes in
\* between is refused, and from here on only the copy is used.
CopyCandidate ==
    /\ tool = "publish" /\ next = "copy"
    /\ \/ /\ candidate /\ copied' = TRUE /\ open' = TRUE /\ next' = "backup"
          /\ Calm /\ UNCHANGED <<undo, result>>
       \/ Failing /\ UNCHANGED <<copied, open>> /\ ((~candidate /\ Calm) \/ Trouble)
    /\ Fixed /\ UNCHANGED <<active, saved, states, candidate, lost>>

Step == Len(states) + 1

\* os.replace(target, backup), then the group is entered in `states`.
BackupGroup ==
    /\ tool = "publish" /\ next = "backup"
    /\ \/ /\ saved' = [saved EXCEPT ![Step] = active[Step]]
          /\ active' = [active EXCEPT ![Step] = "none"]
          /\ states' = Append(states, Step) /\ next' = "install" /\ Calm /\ UNCHANGED <<undo, result>>
       \/ Trouble /\ Failing /\ UNCHANGED <<active, saved, states>>
    /\ Fixed /\ UNCHANGED <<candidate, copied, open, lost>>

\* os.replace(source, target)
InstallGroup ==
    /\ tool = "publish" /\ next = "install"
    /\ LET g == states[Len(states)]
       IN \/ /\ active' = [active EXCEPT ![g] = "new"]
             /\ next' = IF g = 4 THEN "seal" ELSE "backup"
             /\ Calm /\ UNCHANGED <<undo, result>>
          \/ Trouble /\ Failing /\ UNCHANGED active
    /\ Fixed /\ UNCHANGED <<saved, states, candidate, copied, open, lost>>

\* The modes are set; the temporary tree with the backups is deleted on leaving.
\* The data directory is sealed before the last call that may fail.
SealModes ==
    /\ tool = "publish" /\ next = "seal"
    /\ \/ /\ open' = FALSE /\ saved' = [g \in Groups |-> "none"] /\ End("published")
          /\ Calm /\ UNCHANGED undo
       \/ Trouble /\ Failing /\ open' \in BOOLEAN /\ UNCHANGED saved
    /\ Fixed /\ UNCHANGED <<active, states, candidate, copied, lost>>

\* One group of the rollback, last first: _remove_path, then the backup returns.
\* A sealed data directory cannot be emptied.
RollbackGroup ==
    /\ tool = "publish" /\ next = "rollback" /\ undo # <<>>
    /\ LET g == undo[Len(undo)]
           stuck == g = 1 /\ ~open /\ active[g] = "new"
       IN \/ /\ ~stuck /\ active' = [active EXCEPT ![g] = saved[g]]
             /\ saved' = [saved EXCEPT ![g] = "none"] /\ Calm /\ UNCHANGED lost
          \/ /\ (stuck /\ Calm) \/ (~stuck /\ Trouble)
             /\ lost' = TRUE /\ UNCHANGED saved
             /\ \E left \in {active[g]} \cup (IF active[g] = "new" THEN {"partial"} ELSE {})
                              \cup (IF stuck THEN {} ELSE {"none"}) :
                   active' = [active EXCEPT ![g] = left]
    /\ undo' = SubSeq(undo, 1, Len(undo) - 1)
    /\ Fixed /\ UNCHANGED <<next, states, candidate, copied, open, result>>

\* The end of the handler: the modes come back, the temporary tree is deleted
\* with every backup still in it, and the error says which of the two happened.
RollbackEnds ==
    /\ tool = "publish" /\ next = "rollback" /\ undo = <<>>
    /\ saved' = [g \in Groups |-> "none"] /\ open' = FALSE
    /\ \/ End(IF lost THEN "candidate_rollback" ELSE "candidate_publish") /\ Calm
       \/ End("candidate_rollback") /\ Trouble
    /\ Fixed /\ UNCHANGED <<active, states, undo, candidate, copied, lost>>

\* Control-C is no Exception: no rollback runs, the temporary tree still goes.
Interrupt ==
    /\ tool = "publish" /\ next \in {"copy", "backup", "install", "seal", "rollback"} /\ Trouble
    /\ saved' = [g \in Groups |-> "none"] /\ End("interrupted")
    /\ Fixed /\ UNCHANGED <<active, states, undo, candidate, copied, open, lost>>

Kill ==
    /\ next # "ended" /\ Trouble /\ End("killed")
    /\ Fixed /\ UNCHANGED <<active, saved, states, undo, candidate, copied, open, lost>>

\* Somebody edits the candidate while the tool runs; the tool is run again.
EditCandidate ==
    /\ next = "copy" /\ candidate' = ~candidate
    /\ UNCHANGED <<tool, next, active, saved, prior, states, undo, copied, open, lost, result, trouble>>

Again ==
    /\ next = "ended" /\ result # "none" /\ trouble > 0 /\ trouble < MaxTrouble
    /\ next' = "verify" /\ result' = "none" /\ prior' = active
    /\ saved' = IF tool = "admit" THEN saved ELSE [g \in Groups |-> "none"]
    /\ states' = <<>> /\ undo' = <<>> /\ lost' = FALSE /\ copied' = FALSE /\ open' = FALSE
    /\ UNCHANGED <<tool, active, candidate, trouble>>

ANext ==
    \/ VerifyArchive \/ AdmitBackup \/ AdmitInstall \/ AdmitClean
    \/ ValidateCandidate \/ CopyCandidate \/ BackupGroup \/ InstallGroup \/ SealModes
    \/ RollbackGroup \/ RollbackEnds \/ Interrupt \/ Kill \/ EditCandidate \/ Again

ASpec == AInit /\ [][ANext]_avars

-----------------------------------------------------------------------------
\* What a run reports is what it did: a success means that every group of a
\* candidate that validated as a copy is active; a failure other than a failed
\* rollback, an interrupt or a kill means that every group is as it was; no
\* group that was there disappears unless the run reported one of those
\* (publish_candidate, admit_archive).  While --admit swaps the workbook
\* directory, a whole copy of it is under its own or under the backup name.
OutcomeHonest ==
    /\ result = "published" => copied /\ \A g \in Groups : active[g] = "new"
    /\ result = "admitted" => active[1] = "new" /\ saved[1] = "none"
    /\ result \in {"refused", "target_busy", "target_replace", "candidate_publish"} => active = prior
    /\ \A g \in Groups : prior[g] \in {"old", "new"} /\ active[g] \in {"none", "partial"} /\ next = "ended"
         => result \in {"candidate_rollback", "interrupted", "killed", "restore_failed"}
    /\ tool = "admit" /\ prior[1] # "none" =>
         active[1] \in {"old", "new"} \/ saved[1] \in {"old", "new"}
-----------------------------------------------------------------------------
(* The inductive invariant behind OutcomeHonest *)

Contents     == {"none", "old", "new", "partial"}
AdmitCalls   == {"verify", "admitBackup", "admitInstall", "admitClean"}
PublishCalls == {"verify", "copy", "backup", "install", "seal", "rollback"}

AdmissionTypes ==
    /\ tool \in {"admit", "publish"}
    /\ active \in [Groups -> Contents] /\ saved \in [Groups -> Contents]
    /\ prior \in [Groups -> Contents]
    /\ next \in {"ended"} \cup (IF tool = "admit" THEN AdmitCalls ELSE PublishCalls)
    /\ candidate \in BOOLEAN /\ copied \in BOOLEAN /\ open \in BOOLEAN /\ lost \in BOOLEAN

\* A run that goes on has reported nothing; before the first rename nothing moved.
StartInv == /\ next # "ended" => result = "none"
            /\ next \in {"verify", "admitBackup", "copy"} => active = prior

\* --admit: the old directory is whole, in its place or under the backup name.
AdmitInv ==
    tool = "admit" =>
        /\ active[1] # "partial" /\ prior[1] # "partial"
        /\ \A g \in 2..4 : active[g] = prior[g]
        /\ next = "admitInstall" => active[1] = "none" /\ saved[1] = prior[1]
        /\ next = "admitClean" => active[1] = "new"
        /\ prior[1] # "none" => active[1] \in {"old", "new"} \/ saved[1] \in {"old", "new"}

\* --publish: `states` are the first groups, in order; each of them is new (the
\* last one absent until it is installed) with its old content set aside.
PublishInv ==
    tool = "publish" =>
        /\ states \in Seq(Nat) /\ Len(states) <= 4
        /\ \A i \in 1..Len(states) : states[i] = i
        /\ next \in {"verify", "copy"} => states = <<>>
        /\ next = "backup"  => Len(states) < 4
        /\ next = "install" => Len(states) > 0
        /\ next = "seal"    => Len(states) = 4
        /\ next \in {"backup", "install", "seal"} =>
              /\ copied
              /\ \A g \in Groups : IF g <= Len(states) THEN saved[g] = prior[g]
                                                       ELSE active[g] = prior[g]
              /\ \A g \in 1..(IF next = "install" THEN Len(states) - 1 ELSE Len(states)) :
                    active[g] = "new"

\* The rollback: what is still to undo is set aside, the rest is back in place
\* unless a step failed.
UndoInv ==
    (tool = "publish" /\ next = "rollback") =>
        /\ undo \in Seq(Nat) /\ Len(undo) <= 4
        /\ \A i \in 1..Len(undo) : undo[i] = i
        /\ ~lost => \A g \in Groups : IF g <= Len(undo) THEN saved[g] = prior[g]
                                                        ELSE active[g] = prior[g]

\* What each report says of the paths.
ReportInv ==
    next = "ended" =>
        /\ result \in {"published", "admitted", "backup_left", "refused", "target_busy",
                       "target_replace", "candidate_publish", "candidate_rollback",
                       "interrupted", "killed", "restore_failed"}
        /\ result = "published" => copied /\ \A g \in Groups : active[g] = "new"
        /\ result \in {"admitted", "backup_left"} => tool = "admit" /\ active[1] = "new"
        /\ result = "admitted" => saved[1] = "none"
        /\ result \in {"refused", "target_busy", "target_replace", "candidate_publish"}
              => active = prior

AdmissionInv == AdmissionTypes /\ StartInv /\ AdmitInv /\ PublishInv /\ UndoInv /\ ReportInv
=============================================================================
