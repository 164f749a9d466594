--------------------------- MODULE OwnedWorkspace ---------------------------
(* The private working directories of the verifiers: the unique-key index of a
   Parquet table (_FinalVerificationWorkspace, data/artifacts/parquet_io.py) and
   the copy of the database (_OwnedRuntimeWorkspace, data/artifacts/database.py).

   Both remove only what they made: an entry is renamed to a tombstone, compared
   with the identity taken when it was made or captured, and only then unlinked.
   Another process of the same user may replace an entry or put a new one beside
   it, between two operations of the workspace; a rename with the check around
   it is one operation, and nobody touches a tombstone once it is made.        *)
EXTENDS Integers, FiniteSets, Sequences, SequencesExt

CONSTANTS Kinds,          \* the workspaces to look at: "parquet", "runtime"
          Spills,         \* names of DuckDB spill files, in directory order
          MaxIntrusions,  \* bound: what the other process does
          MaxFailures     \* bound: system calls that fail

ASSUME WorkspaceAssumption ==
    /\ Kinds \subseteq {"parquet", "runtime"} /\ IsInjective(Spills)
    /\ Range(Spills) \cap {"spill", "copy", "marker", "root"} = {}
    /\ MaxIntrusions \in Nat /\ MaxFailures \in Nat

Entries == Range(Spills) \cup {"spill", "copy", "marker", "root"}

VARIABLES
    kind,     \* which of the two workspaces
    step,     \* the owner's next operation
    at,       \* entry -> identity under its own name: 0 none, 1 first, 2 other
    tomb,     \* entry -> identity under its tombstone name
    ident,    \* entry -> identity the owner recorded, 0 for none
    mark,     \* entry -> "O", "T", "R": what the retained state says of it
    stray,    \* an unexpected name in the root directory
    listed,   \* _spill_entries is not None
    todo,     \* entries still to remove
    safe,     \* _cleanup_safe
    authorized,
    bad       \* [failures, intrusions] so far

wvars == <<kind, step, at, tomb, ident, mark, stray, listed, todo, safe, authorized, bad>>
files == <<at, tomb, ident, mark>>
cleaning == <<todo, safe, authorized>>

Nothing == [e \in Entries |-> 0]
\* New entries take names that are free.
With(f, S) == [e \in Entries |-> IF e \in S /\ f[e] = 0 THEN 1 ELSE f[e]]

WInit ==
    /\ kind \in Kinds /\ step = "open"
    /\ at = Nothing /\ tomb = Nothing /\ ident = Nothing
    /\ mark = [e \in Entries |-> "O"]
    /\ stray = FALSE /\ listed = FALSE /\ todo = {} /\ safe = TRUE /\ authorized = FALSE
    /\ bad = [failures |-> 0, intrusions |-> 0]

Fails(n) == /\ bad.failures + n <= MaxFailures
            /\ bad' = [bad EXCEPT !.failures = @ + n]
MayFail == Fails(1)
Keep    == UNCHANGED <<kind, stray>>

\* What the constructor makes: the runtime workspace adds copy and spill later.
Made == IF kind = "parquet" THEN {"root", "spill", "marker"} ELSE {"root", "marker"}

\* _final_verification_workspace up to its yield.  A failing setup closes the
\* descriptors and leaves what it made.
OpenParquet ==
    /\ step = "open" /\ kind = "parquet"
    /\ \/ at' = With(at, Made) /\ ident' = With(ident, Made) /\ step' = "use" /\ UNCHANGED bad
       \/ /\ MayFail /\ step' = "failed" /\ UNCHANGED ident
          /\ \E S \in {{}, {"root"}, {"root", "spill"}, Made} : at' = With(at, S)
    /\ Keep /\ UNCHANGED <<tomb, mark, listed, cleaning>>

\* _OwnedRuntimeWorkspace.__init__ and __enter__.  A failing setup removes marker
\* and root, which may fail as well; a failing __enter__ leaves them, because
\* nobody calls __exit__.
OpenRuntime ==
    /\ step = "open" /\ kind = "runtime"
    /\ \/ at' = With(at, Made) /\ ident' = With(ident, Made) /\ step' = "use" /\ UNCHANGED bad
       \/ MayFail /\ step' = "failed" /\ UNCHANGED <<at, ident>>
       \/ /\ Fails(2) /\ step' = "failed" /\ UNCHANGED ident
          /\ \E S \in {{"root"}, Made} : at' = With(at, S)
       \/ MayFail /\ at' = With(at, Made) /\ ident' = With(ident, Made) /\ step' = "failed"
    /\ Keep /\ UNCHANGED <<tomb, mark, listed, cleaning>>

\* The owner sees its directory as it recorded it (assert_unchanged, _validate).
\* The spill files are recorded later.
Unchanged(e) == at[e] = ident[e]
Validates == ~stray /\ \A e \in Entries \ Range(Spills) : Unchanged(e)

\* A table is checked: the index runs and DuckDB spills; the table or the
\* connection is refused before, and the spill files are never listed; or a
\* connection that cannot be configured cannot be closed either.
UseParquet ==
    /\ step = "use" /\ kind = "parquet"
    /\ \/ /\ Validates /\ step' = "capture" /\ UNCHANGED <<safe, bad>>
          /\ \E n \in 0..Len(Spills) : at' = With(at, {Spills[i] : i \in 1..n})
       \/ step' = "validate" /\ UNCHANGED <<at, safe, bad>>
       \/ MayFail /\ safe' = FALSE /\ step' = "failed" /\ UNCHANGED at
    /\ Keep /\ UNCHANGED <<tomb, ident, mark, listed, todo, authorized>>

\* create_unique_key_index after its yield: close the connection and record
\* every file in the spill directory, whoever made it.
CaptureSpills ==
    /\ step = "capture"
    /\ \/ /\ ident' = [e \in Entries |-> IF e \in Range(Spills) THEN at[e] ELSE ident[e]]
          /\ listed' = TRUE /\ step' = "validate" /\ UNCHANGED <<safe, bad>>
       \/ MayFail /\ safe' = FALSE /\ step' = "failed" /\ UNCHANGED <<ident, listed>>
    /\ Keep /\ UNCHANGED <<at, tomb, mark, todo, authorized>>

\* An entry of the runtime workspace is made and then recorded; when recording
\* it fails it is there and nobody's.
MakeRuntime(e, next) ==
    /\ Validates /\ at' = With(at, {e})
    /\ \/ ident' = With(ident, {e}) /\ step' = next /\ UNCHANGED bad
       \/ MayFail /\ step' = "validate" /\ UNCHANGED ident

\* create_database_copy: refused, or the copy cannot be made, or it is made.
CreateCopy ==
    /\ step = "use" /\ kind = "runtime"
    /\ \/ MakeRuntime("copy", "copied")
       \/ ~Validates /\ step' = "validate" /\ UNCHANGED <<at, ident, bad>>
       \/ MayFail /\ step' = "validate" /\ UNCHANGED <<at, ident>>
    /\ Keep /\ UNCHANGED <<tomb, mark, listed, cleaning>>

\* The copy is written and its digest compared, then create_spill.
CreateSpill ==
    /\ step = "copied"
    /\ \/ MakeRuntime("spill", "compare")
       \/ step' = "validate" /\ UNCHANGED <<at, ident, bad>>
    /\ Keep /\ UNCHANGED <<tomb, mark, listed, cleaning>>

\* The copy is opened and compared with the tables, and DuckDB spills.
CompareCopy ==
    /\ step = "compare" /\ step' = "validate"
    /\ \E n \in 0..Len(Spills) :
          (n > 0 => Validates) /\ at' = With(at, {Spills[i] : i \in 1..n})
    /\ Keep /\ UNCHANGED <<tomb, ident, mark, listed, cleaning, bad>>

Recorded(f) == {e \in Entries : f[e] # 0}
Captured == [e \in Entries |-> IF e \in Range(Spills) THEN at[e] ELSE ident[e]]

\* cleanup: nothing is removed unless everything is as it was recorded; spill
\* files that were never listed are not looked at.
SpillsUnchanged == listed => \A e \in Range(Spills) : Unchanged(e)
Authorize ==
    /\ step = "validate" /\ kind = "parquet"
    /\ \/ /\ Validates /\ SpillsUnchanged
          /\ authorized' = TRUE /\ step' = "rename" /\ UNCHANGED <<safe, bad>>
          /\ todo' = Recorded(ident)
       \/ /\ ~(Validates /\ SpillsUnchanged)
          /\ safe' = FALSE /\ step' = "failed" /\ UNCHANGED <<authorized, todo, bad>>
       \/ MayFail /\ safe' = FALSE /\ step' = "failed" /\ UNCHANGED <<authorized, todo>>
    /\ Keep /\ UNCHANGED <<files, listed>>

\* _cleanup up to the first removal: _validate, then the spill files are
\* recorded as they are found.
AuthorizeRuntime ==
    /\ step = "validate" /\ kind = "runtime"
    /\ \/ /\ Validates
          /\ ident' = IF ident["spill"] = 0 THEN ident ELSE Captured
          /\ authorized' = TRUE /\ step' = "rename" /\ UNCHANGED bad
          /\ todo' = Recorded(ident')
       \/ ~Validates /\ step' = "failed" /\ UNCHANGED <<ident, authorized, todo, bad>>
       \/ MayFail /\ step' = "failed" /\ UNCHANGED <<ident, authorized, todo>>
    /\ Keep /\ UNCHANGED <<at, tomb, mark, listed, safe>>

\* The order of the removals: spill files, their directory, the copy, marker, root.
Order == Spills \o <<"spill", "copy", "marker", "root">>
Foremost(e) ==
    /\ e \in todo
    /\ \E i \in 1..Len(Order) : Order[i] = e /\ \A j \in 1..(i - 1) : Order[j] \notin todo

\* The parquet workspace takes a tombstone name that must be free and looks at
\* the root's listing before it renames the root; the runtime workspace compares
\* the identity before and takes a random name.
MayRename(e) ==
    IF kind = "parquet" THEN tomb[e] = 0 /\ (e = "root" => ~stray) ELSE Unchanged(e)

\* _spill_entry_renamed, _spill_entry_unlinked and the states of directory,
\* marker and root that _retained_state reports.
Retained(e, state) == mark' = [mark EXCEPT ![e] = state]

\* Mutant: what was renamed is not compared.
RenameEntryBlind ==
    /\ step = "rename"
    /\ \E e \in Entries : Foremost(e) /\
          \/ /\ MayRename(e)
             /\ tomb' = [tomb EXCEPT ![e] = at[e]] /\ at' = [at EXCEPT ![e] = 0]
             /\ Retained(e, "T") /\ step' = "unlink" /\ UNCHANGED bad
          \/ ~MayRename(e) /\ step' = "failed" /\ UNCHANGED <<at, tomb, mark, bad>>
          \/ MayFail /\ step' = "failed" /\ UNCHANGED <<at, tomb, mark>>
    /\ Keep /\ UNCHANGED <<ident, listed, cleaning>>

\* _rename_owned_for_cleanup, and the rename of _remove_owned_leaf and
\* _remove_owned_directory: rename, note it, compare what was renamed.
RenameEntry ==
    /\ step = "rename"
    /\ \E e \in Entries : Foremost(e) /\
          \/ /\ MayRename(e)
             /\ tomb' = [tomb EXCEPT ![e] = at[e]] /\ at' = [at EXCEPT ![e] = 0]
             /\ Retained(e, "T")
             /\ step' = IF Unchanged(e) THEN "unlink" ELSE "failed"
             /\ UNCHANGED bad
          \/ ~MayRename(e) /\ step' = "failed" /\ UNCHANGED <<at, tomb, mark, bad>>
          \/ MayFail /\ step' = "failed" /\ UNCHANGED <<at, tomb, mark>>
    /\ Keep /\ UNCHANGED <<ident, listed, cleaning>>

Inside(e) == CASE e = "root"  -> {"marker", "spill", "copy"}
               [] e = "spill" -> Range(Spills)
               [] OTHER       -> {}
Empty(e) == /\ \A c \in Inside(e) : at[c] = 0 /\ tomb[c] = 0
            /\ e = "root" => ~stray

\* Mutant: the last entry is forgotten.
UnlinkEntryShort ==
    /\ step = "unlink"
    /\ \E e \in Entries :
          /\ Foremost(e) /\ tomb' = [tomb EXCEPT ![e] = 0] /\ Retained(e, "R")
          /\ todo' = todo \ {e} /\ step' = IF todo' = {"root"} THEN "close" ELSE "rename"
          /\ UNCHANGED bad
    /\ Keep /\ UNCHANGED <<at, ident, listed, safe, authorized>>

\* unlink of a file, rmdir of a directory, which must be empty.
UnlinkEntry ==
    /\ step = "unlink"
    /\ \E e \in Entries : Foremost(e) /\
          \/ /\ Empty(e) /\ tomb' = [tomb EXCEPT ![e] = 0] /\ Retained(e, "R")
             /\ todo' = todo \ {e} /\ step' = IF todo' = {} THEN "close" ELSE "rename"
             /\ UNCHANGED bad
          \/ ~Empty(e) /\ step' = "failed" /\ UNCHANGED <<tomb, mark, todo, bad>>
          \/ MayFail /\ step' = "failed" /\ UNCHANGED <<tomb, mark, todo>>
    /\ Keep /\ UNCHANGED <<at, ident, listed, safe, authorized>>

\* Nothing is left; the parent is looked at once more and the descriptors are
\* closed, and a failure of that is a failure of the cleanup.
CloseParent ==
    /\ step = "close"
    /\ \/ step' = "done" /\ UNCHANGED bad
       \/ MayFail /\ step' = "failed"
    /\ Keep /\ UNCHANGED <<files, listed, cleaning>>

\* The other process, while the workspace is open.
Intrude ==
    /\ step \notin {"open", "done", "failed"}
    /\ bad.intrusions < MaxIntrusions
    /\ \/ \E e \in Entries : at[e] = 1 /\ at' = [at EXCEPT ![e] = 2] /\ UNCHANGED <<tomb, stray>>
       \/ \E e \in Range(Spills) : /\ at["spill"] = 1 /\ at[e] = 0
                                   /\ at' = [at EXCEPT ![e] = 2] /\ UNCHANGED <<tomb, stray>>
       \/ \E e \in Entries : /\ kind = "parquet" /\ at[e] # 0 /\ tomb[e] = 0
                             /\ tomb' = [tomb EXCEPT ![e] = 2] /\ UNCHANGED <<at, stray>>
       \/ ~stray /\ at["root"] = 1 /\ stray' = TRUE /\ UNCHANGED <<at, tomb>>
    /\ bad' = [bad EXCEPT !.intrusions = @ + 1]
    /\ UNCHANGED <<kind, step, ident, mark, listed, cleaning>>

WNext ==
    \/ OpenParquet \/ UseParquet \/ CaptureSpills \/ Authorize
    \/ OpenRuntime \/ CreateCopy \/ CreateSpill \/ CompareCopy \/ AuthorizeRuntime
    \/ RenameEntry \/ UnlinkEntry \/ CloseParent \/ Intrude

WEnded == step \in {"done", "failed"}
WSpec == WInit /\ [][WNext]_wvars

-----------------------------------------------------------------------------
\* No operation of a workspace makes a file or directory disappear whose
\* identity the workspace did not record as its own; what was renamed by
\* mistake stays under its tombstone name (_rename_owned_for_cleanup).
KeepsForeign == \A e \in Entries : ident'[e] # 2 =>
                   /\ at[e] = 2 => (at'[e] = 2 \/ tomb'[e] = 2)
                   /\ tomb[e] = 2 => tomb'[e] = 2
ForeignKept == [][KeepsForeign]_wvars

\* The retained state that a failed cleanup reports is the state of the disk:
\* "O" still under its name, "T" under its tombstone, "R" gone.
RetainedExact ==
    kind = "parquet" /\ step = "failed" /\ authorized =>
        \A e \in Entries \ {"copy"} : ident[e] # 0 =>
            CASE mark[e] = "O" -> at[e] # 0
              [] mark[e] = "T" -> tomb[e] # 0 /\ at[e] # 1
              [] mark[e] = "R" -> tomb[e] # 1 /\ at[e] # 1

\* A workspace whose cleanup reports success is gone, with all it held.  One that
\* reports failure is gone as a whole, with all it held, or its root directory is
\* there to look into: no failure leaves files behind that no root holds.  And
\* the retained state it reports is right (cleanup, _retained_state, _cleanup).
Gone == at = Nothing /\ tomb = Nothing /\ ~stray
CleanupHonest ==
    /\ step = "done" => Gone
    /\ step = "failed" /\ ident["root"] # 0 => Gone \/ at["root"] # 0 \/ tomb["root"] # 0
    /\ RetainedExact

-----------------------------------------------------------------------------
(* The inductive invariant behind CleanupHonest and ForeignKept *)

WorkTypes ==
    /\ kind \in {"parquet", "runtime"}
    /\ step \in {"open", "use", "capture", "copied", "compare", "validate",
                 "rename", "unlink", "close", "done", "failed"}
    /\ at \in [Entries -> 0..2] /\ tomb \in [Entries -> 0..2] /\ ident \in [Entries -> 0..2]
    /\ mark \in [Entries -> {"O", "T", "R"}]
    /\ stray \in BOOLEAN /\ authorized \in BOOLEAN /\ todo \subseteq Entries

\* Spill files are inside the spill directory, under either of its names.
InsideInv ==
    at["spill"] = 0 /\ tomb["spill"] = 0 =>
        \A e \in Range(Spills) : at[e] = 0 /\ tomb[e] = 0

\* Until the cleanup is authorized nothing the owner recorded is gone, and a
\* tombstone name in use is another's.
OwnedInv ==
    step \in {"open", "use", "capture", "copied", "compare", "validate"} =>
        /\ ~authorized
        /\ \A e \in Entries : /\ mark[e] = "O" /\ (ident[e] # 0 => at[e] # 0)
                              /\ tomb[e] # 0 => tomb[e] = 2 /\ kind = "parquet"
        /\ step = "open" => at = Nothing /\ ident = Nothing /\ tomb = Nothing
        /\ step # "open" => ident["root"] # 0
        /\ step = "open" \/ (kind = "runtime" /\ step # "compare") \/ ident["spill"] # 0

\* During the cleanup: what is left to do is in place, all but the entry under
\* its tombstone name, which is the one that was recorded.
TodoInv ==
    step \in {"rename", "unlink"} =>
        /\ "root" \in todo /\ authorized
        /\ \A e \in todo :
              IF step = "unlink" /\ Foremost(e)
              THEN /\ mark[e] = "T" /\ tomb[e] = ident[e] /\ ident[e] # 0
                   /\ at[e] # 1 /\ (e \notin Range(Spills) => at[e] = 0)
              ELSE mark[e] = "O" /\ at[e] # 0 /\ (kind = "runtime" => tomb[e] = 0)

\* The root is there until the workspace is gone.
RootInv ==
    /\ step \in {"close", "done"} => Gone
    /\ ident["root"] # 0 => Gone \/ at["root"] # 0 \/ tomb["root"] # 0

\* The retained state says where each recorded entry is.
MarkInv ==
    authorized => \A e \in Entries : ident[e] # 0 =>
        /\ mark[e] = "O" => at[e] # 0
        /\ mark[e] = "T" => tomb[e] # 0 /\ at[e] # 1
        /\ mark[e] = "R" => tomb[e] # 1 /\ at[e] # 1

WorkspaceInv == WorkTypes /\ InsideInv /\ OwnedInv /\ TodoInv /\ RootInv /\ MarkInv
=============================================================================
