------------------------- MODULE ArtifactVerification -------------------------
(* The verification of a finished artifact directory (data/artifacts/manifest.py,
   the final verifiers of parquet_io.py, reports.py and database.py).

   The kernel runs a fixed program of checks and reads while another process may
   rewrite, replace or add files.  A check looks at bytes and identity at one
   moment; nothing stops a file from changing between two of them.  What the
   program promises rests on one assumption: who changes a file that was just
   read does not put the bytes back before the check that follows the read.    *)
EXTENDS Integers, Sequences, SequencesExt

CONSTANTS Tables,      \* table files in the registry's order; the first is Bronze,
                       \* the last the quality relation
          Reports,     \* report files in order
          MaxChanges   \* bound: changes made by others

Declared == Tables \o Reports \o <<"database">>     \* manifest.files, in order
Files    == ToSet(Declared) \cup {"manifest"}

ASSUME VerificationAssumption ==
    /\ Tables \in Seq(ToSet(Tables)) /\ Reports \in Seq(ToSet(Reports))
    /\ IsInjective(Declared) /\ ToSet(Declared) \cap {"manifest", "copy"} = {}
    /\ Len(Tables) >= 2 /\ Reports # <<>> /\ MaxChanges \in Nat

VARIABLES
    mode,      \* "path": a directory by name; "root": an adopted held root
    expecting, \* compare with the packaged baseline too
    sound,     \* files whose declared bytes say what the other files say
    baseline,  \* the logical contract equals the packaged one
    bytes,     \* file -> inode -> "declared" or "other"
    inode,     \* file -> inode under its name
    extra,     \* a name the manifest does not know is in the tree
    moved,     \* the root's name shows another directory
    part, item, line,  \* where the kernel is in its program; 0 when it has ended
    entry,     \* file -> inode recorded by the inventory, 2 for none
    used,      \* what was read for a judgement: <<file, bytes>>
    fresh,     \* files read and not yet checked again
    handles,   \* table handles issued by the inventory
    copy,      \* bytes of the private database copy
    verdict,   \* "none", "refused", "accepted"
    seal,      \* "none", "recorded", "taken", "consumed"
    changes

disk  == <<bytes, inode, extra, moved>>
fixed == <<mode, expecting, sound, baseline>>
at    == <<part, item, line>>
vvars == <<fixed, disk, at, entry, used, fresh, handles, copy, verdict, seal, changes>>

Step(op, f) == [op |-> op, file |-> f]
Each(op, s) == [i \in 1..Len(s) |-> Step(op, s[i])]
Only(op)    == <<Step(op, "manifest")>>

(* The program.  A leaf's digest is taken twice by open_verified, before and
   after its use; assert_unchanged opens every leaf without using it.         *)
AssertUnchanged == Only("exact") \o Only("manifest") \o Each("same", Declared)
Use(f)          == <<Step("open", f), Step("read", f), Step("close", f)>>
Inventory(m)    == Only("hold") \o (IF m = "path" THEN Only("exact") ELSE <<>>)
                   \o Only("exact") \o Only("manifest") \o Each("digest", Declared) \o Only("exact")
VerifyTable(t)  == Use(t) \o <<Step("facts", t)>> \o AssertUnchanged \o <<Step("issue", t)>>
\* The end of verify_tables, the kernel's own look and the start of verify_reports
VerifyTables    == AssertUnchanged \o Only("handles") \o Only("handles") \o Only("handles")
Enter(t)        == Only("handles") \o AssertUnchanged \o <<Step("open", t)>>
Leave(op, t)    == <<Step(op, t)>> \o Only("handles") \o AssertUnchanged
Batches(t)      == Enter(t) \o <<Step("read", t)>> \o Leave("close", t)
\* verify_quality_to_bronze: Bronze is left before its end, which closes its
\* iterator without the second digest of open_verified.
QualityJoin     == LET b == Tables[1]  q == Tables[Len(Tables)]
                   IN Enter(b) \o Enter(q) \o <<Step("read", q), Step("read", b)>>
                      \o Leave("close", q) \o Leave("abandon", b)
\* The end of verify_reports, and the kernel's core result
VerifyReports   == Each("facts", Reports) \o Only("handles") \o Only("handles") \o Only("facts")
                   \o Only("handles")
CopyBase        == <<Step("handles", "manifest"), Step("open", "database"), Step("copy", "database"),
                     Step("close", "database"), Step("copied", "manifest")>>
VerifyDatabase  == <<Step("compare", "database"), Step("copied", "manifest")>> \o AssertUnchanged
Conclude(x)     == VerifyDatabase \o (IF x THEN Only("expected") ELSE <<>>)
                   \o AssertUnchanged \o Only("accept")

\* verify_candidate_core, verify_expected and their variants from a held root: ten
\* parts, each run once or once for every table or report.
Program(m, x, p, i) ==
    CASE p = 1  -> Inventory(m)
      [] p = 2  -> VerifyTable(Tables[i])
      [] p = 3  -> VerifyTables
      [] p = 4  -> Use(Reports[i])
      [] p = 5  -> Batches(Tables[i])
      [] p = 6  -> QualityJoin
      [] p = 7  -> VerifyReports
      [] p = 8  -> CopyBase
      [] p = 9  -> Batches(Tables[i])
      [] p = 10 -> Conclude(x)
Items(p) == CASE p \in {2, 5, 9} -> Len(Tables) [] p = 4 -> Len(Reports) [] OTHER -> 1

VInit ==
    /\ mode \in {"path", "root"} /\ expecting \in BOOLEAN /\ baseline \in BOOLEAN
    /\ sound \in {Files} \cup {Files \ {f} : f \in Files}
    /\ \E same \in {"declared", "other"} :
          bytes = [f \in Files |-> [i \in 0..1 |-> IF i = 0 THEN "declared" ELSE same]]
    /\ inode = [f \in Files |-> 0] /\ extra = FALSE /\ moved = FALSE
    /\ part = 1 /\ item = 1 /\ line = 1 /\ entry = [f \in Files |-> 2]
    /\ used = {} /\ fresh = {} /\ handles = {} /\ copy = "none"
    /\ verdict = "none" /\ seal = "none" /\ changes = 0

Routine    == Program(mode, expecting, part, item)
Now        == Routine[line]
File       == Now.file
At(op)     == verdict = "none" /\ Now.op = op
NextItem   == IF item < Items(part) THEN item' = item + 1 /\ UNCHANGED part
                                    ELSE item' = 1 /\ part' = part + 1
Proceed    == /\ IF line < Len(Routine) THEN line' = line + 1 /\ UNCHANGED <<part, item>>
                                        ELSE line' = 1 /\ NextItem
              /\ UNCHANGED verdict
Over       == part' = 0 /\ item' = 0 /\ line' = 0
Refuse     == Over /\ verdict' = "refused"
Pass(cond) == IF cond THEN Proceed ELSE Refuse

\* revalidate_ancestors and check_exact_tree on the held descriptors
ExactTree == ~extra /\ ~moved
\* _require_regular_leaf, the identity of the entry and the digest of its bytes
Intact(f) == inode[f] = entry[f] /\ bytes[f][entry[f]] = "declared"

\* _HeldArtifactTree.open, or adopt_held_artifact_root: the name still shows it.
HoldRoot == /\ At("hold") /\ Pass(~moved)
            /\ UNCHANGED <<fixed, disk, entry, used, fresh, handles, copy, seal, changes>>

CheckTree == /\ At("exact") /\ Pass(ExactTree)
             /\ UNCHANGED <<fixed, disk, entry, used, fresh, handles, copy, seal, changes>>

\* read_initial_entry and later _read_entry: the manifest equals the supplied one.
CheckManifest ==
    /\ At("manifest")
    /\ entry' = IF entry["manifest"] = 2 THEN [entry EXCEPT !["manifest"] = inode["manifest"]] ELSE entry
    /\ Pass(/\ inode["manifest"] = entry'["manifest"]
            /\ bytes["manifest"][inode["manifest"]] = "declared")
    /\ UNCHANGED <<fixed, disk, used, fresh, handles, copy, seal, changes>>

\* read_initial_digest_entry: size and digest as declared
InitialDigest ==
    /\ At("digest") /\ Pass(bytes[File][inode[File]] = "declared")
    /\ entry' = [entry EXCEPT ![File] = inode[File]]
    /\ UNCHANGED <<fixed, disk, used, fresh, handles, copy, seal, changes>>

\* open_verified without a use, in assert_unchanged
Reassert ==
    /\ At("same") /\ Pass(Intact(File) /\ ExactTree) /\ fresh' = fresh \ {File}
    /\ UNCHANGED <<fixed, disk, entry, used, handles, copy, seal, changes>>

\* _open_owned_entry up to the yield
OpenEntry == /\ At("open") /\ Pass(Intact(File) /\ ~moved)
             /\ UNCHANGED <<fixed, disk, entry, used, fresh, handles, copy, seal, changes>>

\* The descriptor keeps the inode it opened; its bytes may have been rewritten.
ReadEntry ==
    /\ At("read") /\ Proceed
    /\ used' = used \cup {<<File, bytes[File][entry[File]]>>} /\ fresh' = fresh \cup {File}
    /\ UNCHANGED <<fixed, disk, entry, handles, copy, seal, changes>>

\* Mutant: the leaf is not digested again.
CloseEntryBlind ==
    /\ At("close") /\ Pass(ExactTree) /\ fresh' = fresh \ {File}
    /\ UNCHANGED <<fixed, disk, entry, used, handles, copy, seal, changes>>

\* _open_owned_entry after the yield
CloseEntry ==
    /\ At("close") /\ Pass(Intact(File) /\ ExactTree) /\ fresh' = fresh \ {File}
    /\ UNCHANGED <<fixed, disk, entry, used, handles, copy, seal, changes>>

\* An iterator closed before its end leaves _open_owned_entry through its finally.
AbandonEntry == /\ At("abandon") /\ Proceed
                /\ UNCHANGED <<fixed, disk, entry, used, fresh, handles, copy, seal, changes>>

\* Declared table facts, rebuilt reports, the manifest's own logical hash.  What
\* was read from changed bytes may compare either way.
CompareFacts ==
    /\ At("facts")
    /\ \/ Pass(File \in sound)
       \/ (\E u \in used : u[2] = "other") /\ (Proceed \/ Refuse)
    /\ UNCHANGED <<fixed, disk, entry, used, fresh, handles, copy, seal, changes>>

\* mint, issue_verified_table_handle: one handle per seal, of an owned entry
IssueHandle ==
    /\ At("issue") /\ Pass(File \notin handles /\ entry[File] # 2)
    /\ handles' = handles \cup {File}
    /\ UNCHANGED <<fixed, disk, entry, used, fresh, copy, seal, changes>>

\* TableVerificationResult._validate: every table, in order, by its own handle
CheckHandles == /\ At("handles") /\ Pass(handles = ToSet(Tables))
                /\ UNCHANGED <<fixed, disk, entry, used, fresh, handles, copy, seal, changes>>

\* _verify_database_against_parquet copies the database through open_verified.
CopyDatabase ==
    /\ At("copy") /\ Proceed /\ copy' = bytes[File][entry[File]]
    /\ UNCHANGED <<fixed, disk, entry, used, fresh, handles, seal, changes>>

\* copy_digest before the connection opens and after it closed
CheckCopy == /\ At("copied") /\ Pass(copy = "declared")
             /\ UNCHANGED <<fixed, disk, entry, used, fresh, handles, copy, seal, changes>>

\* Row counts and batch by batch differences between the copy and the tables.
CompareDatabase ==
    /\ At("compare") /\ used' = used \cup {<<"copy", copy>>}
    /\ \/ Pass("database" \in sound)
       \/ copy = "other" /\ (Proceed \/ Refuse)
    /\ UNCHANGED <<fixed, disk, entry, fresh, handles, copy, seal, changes>>

CompareExpected == /\ At("expected") /\ Pass(baseline)
                   /\ UNCHANGED <<fixed, disk, entry, used, fresh, handles, copy, seal, changes>>

\* The inventory is closed; only verify_expected_from_root records its result.
Accept ==
    /\ At("accept") /\ Over /\ verdict' = "accepted"
    /\ seal' = IF mode = "root" /\ expecting THEN "recorded" ELSE seal
    /\ UNCHANGED <<fixed, disk, entry, used, fresh, handles, copy, changes>>

\* take_expected_acceptance_seal and _consume_expected_acceptance_seal: once each
TakeSeal    == /\ seal = "recorded" /\ seal' = "taken"
               /\ UNCHANGED <<fixed, disk, at, entry, used, fresh, handles, copy, verdict, changes>>
ConsumeSeal == /\ seal = "taken" /\ seal' = "consumed"
               /\ UNCHANGED <<fixed, disk, at, entry, used, fresh, handles, copy, verdict, changes>>

(* Other processes.                                                           *)
Changing   == verdict = "none" /\ changes < MaxChanges /\ changes' = changes + 1
Kept       == UNCHANGED <<fixed, at, entry, used, fresh, handles, verdict, seal>>

Rewrite(f) == /\ Changing /\ bytes' = [bytes EXCEPT ![f][inode[f]] = "other"]
              /\ Kept /\ UNCHANGED <<inode, extra, moved, copy>>
PutBack(f) == /\ Changing /\ f \notin fresh /\ bytes[f][inode[f]] = "other"
              /\ bytes' = [bytes EXCEPT ![f][inode[f]] = "declared"]
              /\ Kept /\ UNCHANGED <<inode, extra, moved, copy>>
Replace(f) == /\ Changing /\ inode' = [inode EXCEPT ![f] = 1 - @]
              /\ Kept /\ UNCHANGED <<bytes, extra, moved, copy>>
AddOrMove  == /\ Changing /\ Kept /\ UNCHANGED <<bytes, inode, copy>>
              /\ \/ extra' = ~extra /\ UNCHANGED moved
                 \/ moved' = ~moved /\ UNCHANGED extra
TouchCopy  == /\ Changing /\ copy = "declared" /\ copy' = "other" /\ Kept /\ UNCHANGED disk

Kernel == \/ HoldRoot \/ CheckTree \/ CheckManifest \/ InitialDigest \/ Reassert
          \/ OpenEntry \/ ReadEntry \/ CloseEntry \/ AbandonEntry \/ CompareFacts
          \/ IssueHandle \/ CheckHandles \/ CopyDatabase \/ CheckCopy \/ CompareDatabase
          \/ CompareExpected \/ Accept \/ TakeSeal \/ ConsumeSeal

VNext == Kernel \/ AddOrMove \/ TouchCopy \/ \E f \in Files : Rewrite(f) \/ PutBack(f) \/ Replace(f)
VSpec == VInit /\ [][VNext]_vvars

-----------------------------------------------------------------------------
\* An accepted artifact was judged by its declared bytes alone, although files
\* changed and changed back between the reads; it is sound in every part that
\* was compared; an acceptance seal exists only for an accepted baseline.  And
\* what nobody touched is refused only for a real fault
\* (ArtifactVerificationKernel, VerifiedPhysicalInventory).
VerdictSound ==
    /\ verdict = "accepted" =>
          /\ \A u \in used : u[2] = "declared"
          /\ sound = Files /\ handles = ToSet(Tables) /\ (expecting => baseline)
    /\ seal # "none" => verdict = "accepted" /\ expecting /\ baseline /\ mode = "root"
    /\ verdict = "refused" /\ changes = 0 => sound # Files \/ (expecting /\ ~baseline)

-----------------------------------------------------------------------------
(* The inductive invariant behind it.                                         *)

Leaves == ToSet(Declared)
\* The step is still to come.
Pending(s) ==
    \/ \E j \in line..Len(Routine) : Routine[j] = s
    \/ \E i \in (item + 1)..Items(part) : s \in ToSet(Program(mode, expecting, part, i))
    \/ \E p \in (part + 1)..10 : \E i \in 1..Items(p) : s \in ToSet(Program(mode, expecting, p, i))
\* The step that compares a file with the others.
Judge(f) == IF f = "database" THEN Step("compare", f) ELSE Step("facts", f)
Tainted  == \E u \in used : u[2] = "other"

KernelTypes ==
    /\ mode \in {"path", "root"} /\ expecting \in BOOLEAN /\ baseline \in BOOLEAN
    /\ sound \in SUBSET Files /\ extra \in BOOLEAN /\ moved \in BOOLEAN
    /\ bytes \in [Files -> [0..1 -> {"declared", "other"}]]
    /\ inode \in [Files -> 0..1] /\ entry \in [Files -> 0..2]
    /\ used \in SUBSET ((Leaves \cup {"copy"}) \X {"declared", "other"})
    /\ fresh \in SUBSET Leaves /\ copy \in {"none", "declared", "other"}
    /\ verdict \in {"none", "refused", "accepted"} /\ changes \in Nat
    /\ seal \in {"none", "recorded", "taken", "consumed"}

\* Where a running kernel is, and what has run before that place: the inventory
\* first, then a handle for each table, later the copy of the database.
PlaceInv ==
    /\ part \in 1..10 /\ item \in 1..Items(part) /\ line \in 1..Len(Routine)
    /\ part = 1 => used = {} /\ fresh = {}
    /\ \A f \in Leaves : entry[f] = 2 =>
          part = 1 /\ \E j \in line..Len(Routine) : Routine[j] = Step("digest", f)
    /\ handles = {Tables[i] : i \in {j \in 1..Len(Tables) : part > 2 \/ (part = 2 /\ j < item)}}
    /\ copy = "none" => part < 8 \/ (part = 8 /\ line <= 3)

\* A changed reading is caught: its file shows the change until a check that is
\* still to come, because nobody puts back what was just read.
TaintInv ==
    /\ \A u \in used : u[2] = "other" =>
          \/ u[1] \in fresh /\ bytes[u[1]][entry[u[1]]] = "other"
          \/ u[1] = "copy" /\ copy = "other" /\ part = 10 /\ line = 2
    /\ part = 10 => \A f \in fresh : \E j \in line..Len(Routine) : Routine[j] = Step("same", f)

\* What would refuse an unsound artifact is still to come, unless a changed
\* reading hid it.
JudgeInv ==
    /\ \A f \in Files \ sound : Pending(Judge(f)) \/ Tainted
    /\ expecting /\ ~baseline => Pending(Step("expected", "manifest"))

\* Nobody has changed anything.
UntouchedInv ==
    changes = 0 => /\ \A f \in Files : /\ bytes[f][0] = "declared" /\ inode[f] = 0
                                       /\ entry[f] \in {0, 2}
                   /\ ~extra /\ ~moved /\ copy # "other" /\ ~Tainted

KernelInv == /\ KernelTypes /\ UntouchedInv /\ VerdictSound
             /\ verdict = "none" => PlaceInv /\ TaintInv /\ JudgeInv
=============================================================================
