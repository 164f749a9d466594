-------------------------- MODULE OwnedFilesProofs --------------------------
(* Proofs about the three programs that remove or replace files which others
   also touch: the verifiers' workspaces (OwnedWorkspace), the admission of
   source data (SourceAdmission) and the promotion of benchmark cases (Curation).
   They share no state.  Each part shows its inductive invariant step by step,
   one lemma for each action, and then what the program promises.             *)
EXTENDS OwnedWorkspace, SourceAdmission, Curation, SequenceTheorems, TLAPS

-----------------------------------------------------------------------------
(* The workspaces of the verifiers.                                           *)

USE WorkspaceAssumption
USE DEF With, Fails, MayFail, Keep, cleaning, Made, Unchanged, Entries, Nothing, files,
    Recorded, Gone

\* At most one entry is foremost.
LEMMA ForemostUnique ==
    ASSUME NEW d, NEW e, Foremost(d), Foremost(e) PROVE d = e
<1>1. PICK i \in 1..Len(Order) : Order[i] = d /\ \A k \in 1..(i - 1) : Order[k] \notin todo
  BY DEF Foremost
<1>2. PICK j \in 1..Len(Order) : Order[j] = e /\ \A k \in 1..(j - 1) : Order[k] \notin todo
  BY DEF Foremost
<1>3. d \in todo /\ e \in todo  BY DEF Foremost
<1>4. ~(i < j) /\ ~(j < i)  BY <1>1, <1>2, <1>3
<1>5. i = j  BY <1>4
<1> QED BY <1>1, <1>2, <1>5

\* Which one depends on what is left to do only.
LEMMA ForemostSame ==
    ASSUME NEW e, UNCHANGED todo PROVE Foremost(e)' <=> Foremost(e)
  BY DEF Foremost

\* The constructor takes free names and records them.
LEMMA OpenParquetKeeps ==
    ASSUME WorkspaceInv, OpenParquet PROVE WorkspaceInv'
<1> USE DEF WorkspaceInv, OpenParquet
<1>1. WorkTypes'
  BY DEF WorkTypes
<1>2. InsideInv'
  BY DEF WorkTypes, InsideInv, OwnedInv, TodoInv, RootInv, MarkInv
<1>3. OwnedInv'
  BY DEF WorkTypes, InsideInv, OwnedInv, TodoInv, RootInv, MarkInv
<1>4. TodoInv'
  BY DEF WorkTypes, InsideInv, OwnedInv, TodoInv, RootInv, MarkInv
<1>5. RootInv'
  BY DEF WorkTypes, InsideInv, OwnedInv, TodoInv, RootInv, MarkInv
<1>6. MarkInv'
  BY DEF WorkTypes, InsideInv, OwnedInv, TodoInv, RootInv, MarkInv
<1> QED BY <1>1, <1>2, <1>3, <1>4, <1>5, <1>6

\* So does the other one.
LEMMA OpenRuntimeKeeps ==
    ASSUME WorkspaceInv, OpenRuntime PROVE WorkspaceInv'
<1> USE DEF WorkspaceInv, OpenRuntime
<1>1. WorkTypes'
  BY DEF WorkTypes
<1>2. InsideInv'
  BY DEF WorkTypes, InsideInv, OwnedInv, TodoInv, RootInv, MarkInv
<1>3. OwnedInv'
  BY DEF WorkTypes, InsideInv, OwnedInv, TodoInv, RootInv, MarkInv
<1>4. TodoInv'
  BY DEF WorkTypes, InsideInv, OwnedInv, TodoInv, RootInv, MarkInv
<1>5. RootInv'
  BY DEF WorkTypes, InsideInv, OwnedInv, TodoInv, RootInv, MarkInv
<1>6. MarkInv'
  BY DEF WorkTypes, InsideInv, OwnedInv, TodoInv, RootInv, MarkInv
<1> QED BY <1>1, <1>2, <1>3, <1>4, <1>5, <1>6

\* DuckDB spills into the spill directory.
LEMMA UseParquetKeeps ==
    ASSUME WorkspaceInv, UseParquet PROVE WorkspaceInv'
<1> USE DEF WorkspaceInv, UseParquet, Validates
<1>1. WorkTypes'
  BY DEF WorkTypes
<1>2. InsideInv'
  BY DEF WorkTypes, InsideInv, OwnedInv, TodoInv, RootInv, MarkInv
<1>3. OwnedInv'
  <2>1. /\ step = "use" /\ step' \in {"capture", "validate", "failed"}
        /\ UNCHANGED <<tomb, ident, mark, authorized, kind>>
    OBVIOUS
  <2>2. \A e \in Entries : at[e] # 0 => at'[e] # 0
    BY DEF WorkTypes
  <2> HIDE DEF UseParquet
  <2> QED BY <2>1, <2>2 DEF OwnedInv
<1>4. TodoInv'
  BY DEF WorkTypes, InsideInv, OwnedInv, TodoInv, RootInv, MarkInv
<1>5. RootInv'
  BY DEF WorkTypes, InsideInv, OwnedInv, TodoInv, RootInv, MarkInv
<1>6. MarkInv'
  BY DEF WorkTypes, InsideInv, OwnedInv, TodoInv, RootInv, MarkInv
<1> QED BY <1>1, <1>2, <1>3, <1>4, <1>5, <1>6

\* The copy is recorded as it is made, or is nobody's.
LEMMA CreateCopyKeeps ==
    ASSUME WorkspaceInv, CreateCopy PROVE WorkspaceInv'
<1> USE DEF WorkspaceInv, CreateCopy, MakeRuntime, Validates
<1>1. WorkTypes'
  BY DEF WorkTypes
<1>2. InsideInv'
  BY DEF WorkTypes, InsideInv, OwnedInv, TodoInv, RootInv, MarkInv
<1>3. OwnedInv'
  <2>1. /\ step = "use" /\ step' \in {"copied", "validate"}
        /\ UNCHANGED <<tomb, mark, authorized, kind>>
    OBVIOUS
  <2>2. \A e \in Entries : /\ at[e] # 0 => at'[e] # 0
                           /\ ident'[e] # 0 => ident[e] # 0 \/ at'[e] # 0
                           /\ ident[e] # 0 => ident'[e] # 0
    <3>1. \/ UNCHANGED <<at, ident>>
          \/ at' = With(at, {"copy"}) /\ (ident' = With(ident, {"copy"}) \/ UNCHANGED ident)
      OBVIOUS
    <3> QED BY <3>1 DEF WorkTypes
  <2>3. "root" \in Entries /\ "spill" \in Entries
    OBVIOUS
  <2> HIDE DEF CreateCopy
  <2> QED BY <2>1, <2>2, <2>3 DEF OwnedInv
<1>4. TodoInv'
  BY DEF WorkTypes, InsideInv, OwnedInv, TodoInv, RootInv, MarkInv
<1>5. RootInv'
  BY DEF WorkTypes, InsideInv, OwnedInv, TodoInv, RootInv, MarkInv
<1>6. MarkInv'
  BY DEF WorkTypes, InsideInv, OwnedInv, TodoInv, RootInv, MarkInv
<1> QED BY <1>1, <1>2, <1>3, <1>4, <1>5, <1>6

\* So is the spill directory.
LEMMA CreateSpillKeeps ==
    ASSUME WorkspaceInv, CreateSpill PROVE WorkspaceInv'
<1> USE DEF WorkspaceInv, CreateSpill, MakeRuntime, Validates
<1>1. WorkTypes'
  BY DEF WorkTypes
<1>2. InsideInv'
  BY DEF WorkTypes, InsideInv, OwnedInv, TodoInv, RootInv, MarkInv
<1>3. OwnedInv'
  <2>1. /\ step = "copied" /\ step' \in {"compare", "validate"}
        /\ UNCHANGED <<tomb, mark, authorized, kind>>
    OBVIOUS
  <2>2. \A e \in Entries : /\ at[e] # 0 => at'[e] # 0
                           /\ ident'[e] # 0 => ident[e] # 0 \/ at'[e] # 0
                           /\ ident[e] # 0 => ident'[e] # 0
    <3>1. \/ UNCHANGED <<at, ident>>
          \/ at' = With(at, {"spill"}) /\ (ident' = With(ident, {"spill"}) \/ UNCHANGED ident)
      OBVIOUS
    <3> QED BY <3>1 DEF WorkTypes
  <2>3. /\ "root" \in Entries /\ "spill" \in Entries
        /\ step' = "compare" => ident'["spill"] # 0
    OBVIOUS
  <2> HIDE DEF CreateSpill
  <2> QED BY <2>1, <2>2, <2>3 DEF OwnedInv
<1>4. TodoInv'
  BY DEF WorkTypes, InsideInv, OwnedInv, TodoInv, RootInv, MarkInv
<1>5. RootInv'
  BY DEF WorkTypes, InsideInv, OwnedInv, TodoInv, RootInv, MarkInv
<1>6. MarkInv'
  BY DEF WorkTypes, InsideInv, OwnedInv, TodoInv, RootInv, MarkInv
<1> QED BY <1>1, <1>2, <1>3, <1>4, <1>5, <1>6

\* DuckDB spills into the spill directory of the copy.
LEMMA CompareCopyKeeps ==
    ASSUME WorkspaceInv, CompareCopy PROVE WorkspaceInv'
<1> USE DEF WorkspaceInv, CompareCopy, Validates
<1>1. WorkTypes'
  BY DEF WorkTypes
<1>2. InsideInv'
  <2>1. at["spill"] # 0
    BY DEF OwnedInv
  <2>2. at'["spill"] # 0
    BY <2>1 DEF WorkTypes
  <2> QED BY <2>2 DEF InsideInv
<1>3. OwnedInv'
  <2>1. /\ step = "compare" /\ step' = "validate"
        /\ UNCHANGED <<tomb, ident, mark, authorized, kind>>
    OBVIOUS
  <2>2. \A e \in Entries : at[e] # 0 => at'[e] # 0
    BY DEF WorkTypes
  <2> HIDE DEF CompareCopy
  <2> QED BY <2>1, <2>2 DEF OwnedInv
<1>4. TodoInv'
  BY DEF WorkTypes, InsideInv, OwnedInv, TodoInv, RootInv, MarkInv
<1>5. RootInv'
  BY DEF WorkTypes, InsideInv, OwnedInv, TodoInv, RootInv, MarkInv
<1>6. MarkInv'
  BY DEF WorkTypes, InsideInv, OwnedInv, TodoInv, RootInv, MarkInv
<1> QED BY <1>1, <1>2, <1>3, <1>4, <1>5, <1>6

\* Every spill file found is recorded.
LEMMA CaptureSpillsKeeps ==
    ASSUME WorkspaceInv, CaptureSpills PROVE WorkspaceInv'
<1> USE DEF WorkspaceInv, CaptureSpills
<1>1. WorkTypes'
  BY DEF WorkTypes
<1>2. InsideInv'
  BY DEF WorkTypes, InsideInv, OwnedInv, TodoInv, RootInv, MarkInv
<1>3. OwnedInv'
  <2> SUFFICES ASSUME step' = "validate" PROVE OwnedInv'
    BY DEF OwnedInv
  <2>1. step = "capture" /\ UNCHANGED <<at, tomb, mark, authorized, kind>>
    OBVIOUS
  <2>2. \A e \in Entries : ident'[e] = IF e \in Range(Spills) THEN at[e] ELSE ident[e]
    OBVIOUS
  <2>3. ident'["root"] = ident["root"] /\ ident'["spill"] = ident["spill"]
    BY <2>2
  <2> HIDE DEF CaptureSpills
  <2> QED BY <2>1, <2>2, <2>3 DEF OwnedInv
<1>4. TodoInv'
  BY DEF WorkTypes, InsideInv, OwnedInv, TodoInv, RootInv, MarkInv
<1>5. RootInv'
  BY DEF WorkTypes, InsideInv, OwnedInv, TodoInv, RootInv, MarkInv
<1>6. MarkInv'
  BY DEF WorkTypes, InsideInv, OwnedInv, TodoInv, RootInv, MarkInv
<1> QED BY <1>1, <1>2, <1>3, <1>4, <1>5, <1>6

\* What is to be removed is in place as recorded.
LEMMA AuthorizeKeeps ==
    ASSUME WorkspaceInv, Authorize PROVE WorkspaceInv'
<1> USE DEF WorkspaceInv, Authorize, Validates, SpillsUnchanged
<1>1. WorkTypes'
  BY DEF WorkTypes
<1>2. InsideInv'
  BY DEF WorkTypes, InsideInv, OwnedInv, TodoInv, RootInv, MarkInv
<1>3. OwnedInv'
  BY DEF WorkTypes, InsideInv, OwnedInv, TodoInv, RootInv, MarkInv
<1>4. TodoInv'
  <2> SUFFICES ASSUME step' = "rename" PROVE TodoInv'
    BY DEF TodoInv
  <2>1. /\ step = "validate" /\ authorized' /\ UNCHANGED <<at, tomb, mark, kind>>
        /\ todo' = {e \in Entries : ident'[e] # 0}
    OBVIOUS
  <2>2. \A e \in Entries : /\ mark[e] = "O" /\ (ident'[e] # 0 => at[e] # 0)
                           /\ kind = "runtime" => tomb[e] = 0
    BY DEF OwnedInv, Captured
  <2>3. "root" \in Entries /\ ident'["root"] # 0
    BY DEF OwnedInv, Captured
  <2> HIDE DEF Authorize
  <2> QED BY <2>1, <2>2, <2>3 DEF TodoInv
<1>5. RootInv'
  BY DEF WorkTypes, InsideInv, OwnedInv, TodoInv, RootInv, MarkInv
<1>6. MarkInv'
  <2>1. CASE step' = "rename"
    <3>1. UNCHANGED <<at, mark>> /\ \A e \in Entries : mark[e] = "O" /\ (ident'[e] # 0 => at[e] # 0)
      BY <2>1 DEF OwnedInv, Captured
    <3> QED BY <3>1 DEF MarkInv
  <2>2. CASE step' = "failed"
    BY <2>2 DEF OwnedInv, MarkInv
  <2> QED BY <2>1, <2>2
<1> QED BY <1>1, <1>2, <1>3, <1>4, <1>5, <1>6

\* What is to be removed is in place as recorded.
LEMMA AuthorizeRuntimeKeeps ==
    ASSUME WorkspaceInv, AuthorizeRuntime PROVE WorkspaceInv'
<1> USE DEF WorkspaceInv, AuthorizeRuntime, Validates, Captured
<1>1. WorkTypes'
  BY ZenonT(60) DEF WorkTypes
<1>2. InsideInv'
  BY DEF WorkTypes, InsideInv, OwnedInv, TodoInv, RootInv, MarkInv
<1>3. OwnedInv'
  BY DEF WorkTypes, InsideInv, OwnedInv, TodoInv, RootInv, MarkInv
<1>4. TodoInv'
  <2> SUFFICES ASSUME step' = "rename" PROVE TodoInv'
    BY DEF TodoInv
  <2>1. /\ step = "validate" /\ authorized' /\ UNCHANGED <<at, tomb, mark, kind>>
        /\ todo' = {e \in Entries : ident'[e] # 0}
    OBVIOUS
  <2>2. \A e \in Entries : /\ mark[e] = "O" /\ (ident'[e] # 0 => at[e] # 0)
                           /\ kind = "runtime" => tomb[e] = 0
    BY DEF OwnedInv, Captured
  <2>3. "root" \in Entries /\ ident'["root"] # 0
    BY DEF OwnedInv, Captured
  <2> HIDE DEF AuthorizeRuntime
  <2> QED BY <2>1, <2>2, <2>3 DEF TodoInv
<1>5. RootInv'
  BY DEF WorkTypes, InsideInv, OwnedInv, TodoInv, RootInv, MarkInv
<1>6. MarkInv'
  <2>1. CASE step' = "rename"
    <3>1. UNCHANGED <<at, mark>> /\ \A e \in Entries : mark[e] = "O" /\ (ident'[e] # 0 => at[e] # 0)
      BY <2>1 DEF OwnedInv, Captured
    <3> QED BY <3>1 DEF MarkInv
  <2>2. CASE step' = "failed"
    BY <2>2 DEF OwnedInv, MarkInv
  <2> QED BY <2>1, <2>2
<1> QED BY <1>1, <1>2, <1>3, <1>4, <1>5, <1>6

\* The foremost entry is under its tombstone name, or the cleanup stops.
LEMMA RenameEntryKeeps ==
    ASSUME WorkspaceInv, RenameEntry PROVE WorkspaceInv'
<1> USE DEF WorkspaceInv, RenameEntry, MayRename, Retained
<1>0. PICK e \in Entries :
        /\ Foremost(e) /\ e \in todo
        /\ \/ /\ MayRename(e) /\ UNCHANGED bad
              /\ tomb' = [tomb EXCEPT ![e] = at[e]] /\ at' = [at EXCEPT ![e] = 0]
              /\ mark' = [mark EXCEPT ![e] = "T"]
              /\ step' = IF Unchanged(e) THEN "unlink" ELSE "failed"
           \/ step' = "failed" /\ UNCHANGED <<at, tomb, mark>>
  BY DEF Foremost
<1>x. /\ step = "rename" /\ UNCHANGED <<kind, stray, ident, todo, safe, authorized>>
      /\ authorized /\ "root" \in todo
      /\ at[e] # 0 /\ mark[e] = "O" /\ (kind = "runtime" => tomb[e] = 0)
      /\ \A d \in todo : mark[d] = "O" /\ at[d] # 0 /\ (kind = "runtime" => tomb[d] = 0)
  BY <1>0 DEF TodoInv
<1> HIDE DEF RenameEntry, MayRename
<1>1. WorkTypes'
  BY <1>0, <1>x DEF WorkTypes
<1>2. InsideInv'
  <2>1. \A d \in Entries : tomb'[d] = 0 => tomb[d] = 0
    BY <1>0, <1>x DEF WorkTypes, MayRename
  <2>2. \A d \in Entries : at'[d] # 0 => at'[d] = at[d]
    BY <1>0 DEF WorkTypes
  <2>3. SUFFICES ASSUME at'["spill"] = 0, tomb'["spill"] = 0, NEW d \in Range(Spills)
                 PROVE  at'[d] = 0 /\ tomb'[d] = 0
    BY DEF InsideInv
  <2>4. (e # "spill" /\ at["spill"] = 0 /\ tomb["spill"] = 0) \/ UNCHANGED <<at, tomb>>
    BY <1>0, <1>x, <2>1, <2>3 DEF WorkTypes
  <2>5. at[d] = 0 /\ tomb[d] = 0
    BY <2>3, <2>4 DEF InsideInv
  <2>6. d # e
    BY <1>x, <2>5
  <2> QED BY <1>0, <2>5, <2>6 DEF WorkTypes
<1>3. OwnedInv'
  BY <1>0 DEF OwnedInv
<1>4. TodoInv'
  <2> SUFFICES ASSUME step' = "unlink" PROVE TodoInv'
    BY <1>0 DEF TodoInv
  <2>1. /\ tomb' = [tomb EXCEPT ![e] = at[e]] /\ at' = [at EXCEPT ![e] = 0]
        /\ mark' = [mark EXCEPT ![e] = "T"] /\ at[e] = ident[e]
    BY <1>0
  <2>2. \A d \in todo : Foremost(d)' <=> d = e
    BY <1>0, <1>x, ForemostUnique, ForemostSame
  <2>3. \A d \in todo : d # e => UNCHANGED <<at[d], tomb[d], mark[d]>>
    BY <2>1 DEF WorkTypes
  <2>4. mark'[e] = "T" /\ tomb'[e] = ident'[e] /\ ident'[e] # 0 /\ at'[e] = 0
    BY <1>0, <1>x, <2>1 DEF WorkTypes
  <2> QED BY <1>x, <2>2, <2>3, <2>4 DEF TodoInv
<1>5. RootInv'
  <2>1. \A d \in Entries : (at[d] # 0 \/ tomb[d] # 0) => (at'[d] # 0 \/ tomb'[d] # 0)
    BY <1>0, <1>x DEF WorkTypes, MayRename
  <2>2. step' \notin {"close", "done"}
    BY <1>0
  <2> QED BY <1>x, <2>1, <2>2 DEF RootInv
<1>6. MarkInv'
  <2>1. CASE UNCHANGED <<at, tomb, mark>>
    BY <1>x, <2>1 DEF MarkInv
  <2>2. CASE /\ tomb' = [tomb EXCEPT ![e] = at[e]] /\ at' = [at EXCEPT ![e] = 0]
             /\ mark' = [mark EXCEPT ![e] = "T"]
    <3>1. tomb'[e] # 0 /\ at'[e] = 0 /\ mark'[e] = "T"
      BY <1>x, <2>2 DEF WorkTypes
    <3>2. \A d \in Entries : d # e => UNCHANGED <<at[d], tomb[d], mark[d]>>
      BY <2>2 DEF WorkTypes
    <3> QED BY <1>x, <3>1, <3>2 DEF MarkInv
  <2> QED BY <1>0, <2>1, <2>2
<1> QED BY <1>1, <1>2, <1>3, <1>4, <1>5, <1>6

\* Only what was recorded is unlinked; the root goes last.
LEMMA UnlinkEntryKeeps ==
    ASSUME WorkspaceInv, UnlinkEntry PROVE WorkspaceInv'
<1> USE DEF WorkspaceInv, UnlinkEntry, Empty, Inside, Retained
<1>0. PICK e \in Entries :
        /\ Foremost(e) /\ e \in todo
        /\ \/ /\ Empty(e) /\ tomb' = [tomb EXCEPT ![e] = 0] /\ mark' = [mark EXCEPT ![e] = "R"]
              /\ todo' = todo \ {e} /\ step' = IF todo' = {} THEN "close" ELSE "rename"
           \/ step' = "failed" /\ UNCHANGED <<tomb, mark, todo>>
  BY DEF Foremost
<1>x. /\ step = "unlink" /\ UNCHANGED <<kind, stray, at, ident, safe, authorized>>
      /\ authorized /\ "root" \in todo /\ "root" \in Entries
      /\ mark[e] = "T" /\ tomb[e] = ident[e] /\ ident[e] # 0
      /\ at[e] # 1 /\ (e \notin Range(Spills) => at[e] = 0)
      /\ \A d \in todo : d # e => mark[d] = "O" /\ at[d] # 0 /\ (kind = "runtime" => tomb[d] = 0)
  BY <1>0, ForemostUnique DEF TodoInv
<1> HIDE DEF UnlinkEntry, Empty
<1>1. WorkTypes'
  BY <1>0, <1>x DEF WorkTypes
<1>2. InsideInv'
  <2>1. \A d \in Entries : tomb'[d] # 0 => tomb'[d] = tomb[d]
    BY <1>0 DEF WorkTypes
  <2>2. CASE e = "spill" /\ Empty(e)
    <3>1. \A d \in Range(Spills) : at[d] = 0 /\ tomb[d] = 0
      BY <2>2 DEF Empty
    <3> QED BY <1>x, <2>1, <3>1 DEF InsideInv
  <2>3. CASE ~(e = "spill" /\ Empty(e))
    <3>1. tomb'["spill"] = tomb["spill"]
      BY <1>0, <2>3 DEF WorkTypes
    <3> QED BY <1>x, <2>1, <3>1 DEF InsideInv
  <2> QED BY <2>2, <2>3
<1>3. OwnedInv'
  BY <1>0 DEF OwnedInv
<1>4. TodoInv'
  <2> SUFFICES ASSUME step' = "rename" PROVE TodoInv'
    BY <1>0 DEF TodoInv
  <2>1. /\ Empty(e) /\ tomb' = [tomb EXCEPT ![e] = 0] /\ mark' = [mark EXCEPT ![e] = "R"]
        /\ todo' = todo \ {e} /\ todo' # {}
    BY <1>0
  <2>2. e # "root"
    <3> SUFFICES ASSUME e = "root" PROVE FALSE
      OBVIOUS
    <3>1. \A c \in {"marker", "spill", "copy"} : at[c] = 0 /\ tomb[c] = 0
      BY <2>1 DEF Empty
    <3>2. \A c \in Range(Spills) : at[c] = 0
      BY <3>1 DEF InsideInv
    <3>3. \A d \in todo : d = "root"
      BY <1>x, <3>1, <3>2 DEF WorkTypes
    <3> QED BY <2>1, <3>3
  <2>3. \A d \in todo' : UNCHANGED <<tomb[d], mark[d]>>
    BY <2>1 DEF WorkTypes
  <2> QED BY <1>x, <2>1, <2>2, <2>3 DEF TodoInv
<1>5. RootInv'
  <2>1. CASE step' = "failed"
    BY <1>0, <1>x, <2>1 DEF RootInv
  <2>2. CASE step' = "rename"
    <3>1. "root" \in todo'
      BY <1>4, <2>2 DEF TodoInv
    <3>2. at["root"] # 0
      BY <1>0, <1>x, <2>2, <3>1
    <3> QED BY <1>x, <2>2, <3>2 DEF RootInv
  <2>3. CASE step' = "close"
    <3>1. e = "root" /\ Empty(e) /\ tomb' = [tomb EXCEPT ![e] = 0]
      BY <1>0, <1>x, <2>3
    <3>2. /\ \A c \in {"marker", "spill", "copy"} : at[c] = 0 /\ tomb[c] = 0
          /\ ~stray
      BY <3>1 DEF Empty
    <3>3. \A c \in Range(Spills) : at[c] = 0 /\ tomb[c] = 0
      BY <3>2 DEF InsideInv
    <3>4. at["root"] = 0
      BY <1>x, <3>1
    <3>5. \A c \in Entries : at'[c] = 0 /\ tomb'[c] = 0
      BY <1>x, <3>1, <3>2, <3>3, <3>4 DEF WorkTypes
    <3>6. at' = Nothing /\ tomb' = Nothing
      BY <1>1, <3>5 DEF WorkTypes
    <3> QED BY <1>x, <2>3, <3>2, <3>6 DEF RootInv
  <2> QED BY <1>0, <2>1, <2>2, <2>3
<1>6. MarkInv'
  <2>1. CASE UNCHANGED <<tomb, mark>>
    BY <1>x, <2>1 DEF MarkInv
  <2>2. CASE tomb' = [tomb EXCEPT ![e] = 0] /\ mark' = [mark EXCEPT ![e] = "R"]
    <3>1. tomb'[e] = 0 /\ mark'[e] = "R"
      BY <2>2 DEF WorkTypes
    <3>2. \A d \in Entries : d # e => UNCHANGED <<tomb[d], mark[d]>>
      BY <2>2 DEF WorkTypes
    <3> QED BY <1>x, <3>1, <3>2 DEF MarkInv
  <2> QED BY <1>0, <2>1, <2>2
<1> QED BY <1>1, <1>2, <1>3, <1>4, <1>5, <1>6

\* Nothing was left, and nothing is.
LEMMA CloseParentKeeps ==
    ASSUME WorkspaceInv, CloseParent PROVE WorkspaceInv'
<1> USE DEF WorkspaceInv, CloseParent
<1>1. WorkTypes'
  BY DEF WorkTypes
<1>2. InsideInv'
  BY DEF WorkTypes, InsideInv, OwnedInv, TodoInv, RootInv, MarkInv
<1>3. OwnedInv'
  BY DEF OwnedInv
<1>4. TodoInv'
  BY DEF WorkTypes, InsideInv, OwnedInv, TodoInv, RootInv, MarkInv
<1>5. RootInv'
  BY DEF WorkTypes, InsideInv, OwnedInv, TodoInv, RootInv, MarkInv
<1>6. MarkInv'
  BY DEF WorkTypes, InsideInv, OwnedInv, TodoInv, RootInv, MarkInv
<1> QED BY <1>1, <1>2, <1>3, <1>4, <1>5, <1>6

\* Another process replaces or adds, and never empties a name.
LEMMA IntrudeKeeps ==
    ASSUME WorkspaceInv, Intrude PROVE WorkspaceInv'
<1> USE DEF WorkspaceInv, Intrude
<1>0. /\ WorkTypes'
      /\ UNCHANGED <<kind, step, ident, mark, todo, safe, authorized>>
      /\ step \notin {"open", "done", "failed"}
      /\ \A e \in Entries : /\ at[e] # 0 => at'[e] # 0
                            /\ at'[e] = 1 => at[e] = 1
                            /\ (at[e] = 0 /\ at'[e] # 0) => e \in Range(Spills) /\ at["spill"] = 1
                            /\ tomb[e] # 0 => tomb'[e] = tomb[e]
                            /\ tomb'[e] # tomb[e] => tomb'[e] = 2 /\ kind = "parquet" /\ at[e] # 0
  <2>0. /\ \A f \in [Entries -> 0..2], e \in Entries : [f EXCEPT ![e] = 2] \in [Entries -> 0..2]
        /\ UNCHANGED <<kind, step, ident, mark, todo, safe, authorized>>
        /\ step \notin {"open", "done", "failed"}
    OBVIOUS
  <2>1. CASE \E e \in Entries : at[e] = 1 /\ at' = [at EXCEPT ![e] = 2] /\ UNCHANGED <<tomb, stray>>
    BY <2>0, <2>1 DEF WorkTypes
  <2>2. CASE \E e \in Range(Spills) : /\ at["spill"] = 1 /\ at[e] = 0
                                      /\ at' = [at EXCEPT ![e] = 2] /\ UNCHANGED <<tomb, stray>>
    BY <2>0, <2>2 DEF WorkTypes
  <2>3. CASE \E e \in Entries : /\ kind = "parquet" /\ at[e] # 0 /\ tomb[e] = 0
                                /\ tomb' = [tomb EXCEPT ![e] = 2] /\ UNCHANGED <<at, stray>>
    BY <2>0, <2>3 DEF WorkTypes
  <2>4. CASE stray' = TRUE /\ UNCHANGED <<at, tomb>>
    BY <2>0, <2>4 DEF WorkTypes
  <2> QED BY <2>1, <2>2, <2>3, <2>4
<1> HIDE DEF Intrude
<1>1. WorkTypes'
  BY <1>0
<1>2. InsideInv'
  <2>1. "spill" \in Entries
    OBVIOUS
  <2>2. ASSUME NEW e \in Range(Spills), at["spill"] = 0, tomb["spill"] = 0
        PROVE  at'[e] = 0 /\ tomb'[e] = 0
    <3>1. at[e] = 0 /\ tomb[e] = 0 /\ e \in Entries
      BY <2>2 DEF InsideInv
    <3> QED BY <1>0, <2>1, <2>2, <3>1
  <2> QED BY <1>0, <2>1, <2>2 DEF InsideInv
<1>3. OwnedInv'
  <2>1. \A e \in Entries : (tomb[e] # 0 => tomb[e] = 2 /\ kind = "parquet")
                              => (tomb'[e] # 0 => tomb'[e] = 2 /\ kind = "parquet")
    BY <1>0
  <2>2. \A e \in Entries : (ident[e] # 0 => at[e] # 0) => (ident[e] # 0 => at'[e] # 0)
    BY <1>0
  <2> QED BY <1>0, <2>1, <2>2 DEF OwnedInv
<1>4. TodoInv'
  <2>1. \A e \in todo : Foremost(e)' <=> Foremost(e)
    BY <1>0, ForemostSame
  <2>2. todo \subseteq Entries
    BY DEF WorkTypes
  <2> QED BY <1>0, <2>1, <2>2 DEF TodoInv
<1>5. RootInv'
  <2>1. stray' = stray \/ at["root"] = 1
    BY DEF Intrude
  <2>2. "spill" \in Entries /\ "root" \in Entries
    OBVIOUS
  <2>3. ASSUME Gone PROVE Gone'
    <3>1. \A e \in Entries : at[e] = 0 /\ tomb[e] = 0
      BY <2>3
    <3>2. \A e \in Entries : at'[e] = 0 /\ tomb'[e] = 0
      BY <1>0, <2>2, <3>1
    <3>3. at' = Nothing /\ tomb' = Nothing
      BY <1>1, <3>2 DEF WorkTypes
    <3> QED BY <2>1, <2>2, <2>3, <3>1, <3>3
  <2> HIDE DEF Gone
  <2> QED BY <1>0, <2>2, <2>3 DEF RootInv
<1>6. MarkInv'
  BY <1>0 DEF MarkInv
<1> QED BY <1>1, <1>2, <1>3, <1>4, <1>5, <1>6

\* A workspace starts with nothing on disk.
LEMMA InitWorkspace == WInit => WorkspaceInv
<1> SUFFICES ASSUME WInit PROVE WorkspaceInv
  OBVIOUS
<1> USE DEF WInit
<1>1. WorkTypes
  <2>1. kind \in {"parquet", "runtime"}  OBVIOUS
  <2>2. at \in [Entries -> 0..2] /\ tomb \in [Entries -> 0..2] /\ ident \in [Entries -> 0..2]
    OBVIOUS
  <2>3. mark \in [Entries -> {"O", "T", "R"}]  OBVIOUS
  <2>4. stray \in BOOLEAN /\ authorized \in BOOLEAN /\ todo \subseteq Entries  OBVIOUS
  <2> QED BY <2>1, <2>2, <2>3, <2>4 DEF WorkTypes
<1>2. InsideInv  BY DEF InsideInv
<1>3. OwnedInv  BY DEF OwnedInv
<1>4. TodoInv /\ RootInv /\ MarkInv  BY DEF TodoInv, RootInv, MarkInv
<1> QED BY <1>1, <1>2, <1>3, <1>4 DEF WorkspaceInv

\* Every operation of the owner and every act of another process preserves it.
LEMMA StepWorkspace == ASSUME WorkspaceInv, [WNext]_wvars PROVE WorkspaceInv'
<1>1. CASE WNext
  BY <1>1, OpenParquetKeeps, OpenRuntimeKeeps, UseParquetKeeps, CreateCopyKeeps,
     CreateSpillKeeps, CompareCopyKeeps, CaptureSpillsKeeps, AuthorizeKeeps,
     AuthorizeRuntimeKeeps, RenameEntryKeeps, UnlinkEntryKeeps, CloseParentKeeps,
     IntrudeKeeps DEF WNext
<1>2. CASE UNCHANGED wvars
  <2>1. UNCHANGED <<kind, step, at, tomb, ident, mark, stray, listed, todo, safe,
                  authorized, bad>>
    BY <1>2 DEF wvars
  <2>2. (WorkTypes /\ InsideInv /\ OwnedInv /\ RootInv /\ MarkInv)'
    BY <2>1 DEF WorkspaceInv, WorkTypes, InsideInv, OwnedInv, RootInv, MarkInv
  <2>3. TodoInv'
    <3>1. \A e \in todo : Foremost(e)' <=> Foremost(e)  BY <2>1, ForemostSame
    <3> QED BY <2>1, <3>1 DEF WorkspaceInv, TodoInv
  <2> QED BY <2>2, <2>3 DEF WorkspaceInv
<1> QED BY <1>1, <1>2

\* WorkspaceInv holds for any spill files, intrusions and failing calls.
THEOREM Workspace == WSpec => []WorkspaceInv
<1>1. WInit => WorkspaceInv  BY InitWorkspace
<1>2. WorkspaceInv /\ [WNext]_wvars => WorkspaceInv'  BY StepWorkspace
<1> QED BY <1>1, <1>2, PTL DEF WSpec

\* CleanupHonest: a cleanup that reports success left nothing; one that reports
\* failure left nothing or left its root to look into, and _retained_state says
\* where each entry is.
THEOREM CleanupIsHonest == WSpec => []CleanupHonest
<1>1. WorkspaceInv => CleanupHonest
  <2> SUFFICES ASSUME WorkspaceInv PROVE CleanupHonest
    OBVIOUS
  <2>1. RetainedExact
    BY DEF WorkspaceInv, WorkTypes, MarkInv, RetainedExact
  <2> QED BY <2>1 DEF WorkspaceInv, RootInv, CleanupHonest
<1> QED BY <1>1, Workspace, PTL

\* ForeignKept: nothing disappears that the workspace did not record as its own;
\* a rename that caught something else leaves it under the tombstone name.
THEOREM ForeignIsKept == WSpec => ForeignKept
<1>1. WorkspaceInv /\ [WNext]_wvars => [KeepsForeign]_wvars
  <2> SUFFICES ASSUME WorkspaceInv, WNext PROVE KeepsForeign
    BY DEF wvars
  <2>1. CASE OpenParquet \/ OpenRuntime
    BY <2>1 DEF OpenParquet, OpenRuntime, WorkspaceInv, WorkTypes, KeepsForeign
  <2>2. CASE UseParquet \/ CreateCopy \/ CreateSpill \/ CompareCopy
    BY <2>2 DEF UseParquet, CreateCopy, CreateSpill, CompareCopy, MakeRuntime, WorkspaceInv,
                WorkTypes, KeepsForeign
  <2>3. CASE CaptureSpills \/ Authorize \/ AuthorizeRuntime \/ CloseParent
    <3>1. UNCHANGED <<at, tomb>>
      BY <2>3 DEF CaptureSpills, Authorize, AuthorizeRuntime, CloseParent
    <3> QED BY <3>1 DEF KeepsForeign
  <2>4. CASE RenameEntry
    <3>1. PICK e \in todo :
            /\ \/ /\ MayRename(e) /\ tomb' = [tomb EXCEPT ![e] = at[e]]
                  /\ at' = [at EXCEPT ![e] = 0]
               \/ UNCHANGED <<at, tomb>>
            /\ kind = "runtime" => tomb[e] = 0
            /\ UNCHANGED ident
      BY <2>4 DEF RenameEntry, Foremost, WorkspaceInv, TodoInv
    <3>2. CASE UNCHANGED <<at, tomb>>
      BY <3>2 DEF KeepsForeign
    <3>3. CASE /\ MayRename(e) /\ tomb' = [tomb EXCEPT ![e] = at[e]]
               /\ at' = [at EXCEPT ![e] = 0]
      <4>1. tomb[e] = 0
        BY <3>1, <3>3 DEF MayRename, WorkspaceInv, WorkTypes
      <4> QED BY <3>3, <4>1 DEF WorkspaceInv, WorkTypes, KeepsForeign
    <3> QED BY <3>1, <3>2, <3>3
  <2>5. CASE UnlinkEntry
    <3>1. PICK e \in Entries : /\ tomb[e] = ident[e] /\ UNCHANGED <<at, ident>>
                               /\ tomb' = [tomb EXCEPT ![e] = 0] \/ UNCHANGED tomb
      BY <2>5 DEF UnlinkEntry, Foremost, WorkspaceInv, TodoInv
    <3> QED BY <3>1 DEF WorkspaceInv, WorkTypes, KeepsForeign
  <2>6. CASE Intrude
    BY <2>6 DEF Intrude, WorkspaceInv, WorkTypes, KeepsForeign
  <2> QED BY <2>1, <2>2, <2>3, <2>4, <2>5, <2>6 DEF WNext
<1> QED BY <1>1, Workspace, PTL DEF WSpec, ForeignKept

HIDE WorkspaceAssumption
HIDE DEF With, Fails, MayFail, Keep, cleaning, Made, Unchanged, Entries, Nothing, files,
    Recorded, Gone

-----------------------------------------------------------------------------
(* The admission of source data.                                              *)

USE DEF Trouble, End, Calm, Fixed, Failing, Step, Groups

\* Group numbers.
LEMMA SmallNumbers ==
    /\ \A n \in Nat : n < 4 => n \in 0..3
    /\ \A n \in Nat : (n # 0 /\ n <= 4) => n \in 1..4
  OBVIOUS

\* Verification reads only.
LEMMA VerifyArchiveKeeps ==
    ASSUME AdmissionInv, VerifyArchive PROVE AdmissionInv'
<1> USE DEF AdmissionInv, VerifyArchive
<1>1. AdmissionTypes'
  BY DEF AdmissionTypes, AdmitCalls, PublishCalls, Contents, PublishInv, UndoInv
<1>2. StartInv'
  BY DEF AdmissionTypes, AdmitCalls, PublishCalls, Contents, StartInv, AdmitInv, PublishInv, UndoInv, ReportInv
<1>3. AdmitInv'
  BY DEF AdmissionTypes, AdmitCalls, PublishCalls, Contents, StartInv, AdmitInv, PublishInv, UndoInv, ReportInv
<1>4. PublishInv'
  BY DEF AdmissionTypes, AdmitCalls, PublishCalls, Contents, StartInv, AdmitInv, PublishInv, UndoInv, ReportInv
<1>5. UndoInv'
  BY DEF AdmissionTypes, AdmitCalls, PublishCalls, Contents, StartInv, AdmitInv, PublishInv, UndoInv, ReportInv
<1>6. ReportInv'
  BY DEF AdmissionTypes, AdmitCalls, PublishCalls, Contents, StartInv, AdmitInv, PublishInv, UndoInv, ReportInv
<1> QED BY <1>1, <1>2, <1>3, <1>4, <1>5, <1>6

\* The old directory goes under a free backup name, whole.
LEMMA AdmitBackupKeeps ==
    ASSUME AdmissionInv, AdmitBackup PROVE AdmissionInv'
<1> USE DEF AdmissionInv, AdmitBackup
<1>1. AdmissionTypes'
  BY DEF AdmissionTypes, AdmitCalls, PublishCalls, Contents, PublishInv, UndoInv
<1>2. StartInv'
  BY DEF AdmissionTypes, AdmitCalls, PublishCalls, Contents, StartInv, AdmitInv, PublishInv, UndoInv, ReportInv
<1>3. AdmitInv'
  BY DEF AdmissionTypes, AdmitCalls, PublishCalls, Contents, StartInv, AdmitInv, PublishInv, UndoInv, ReportInv
<1>4. PublishInv'
  BY DEF AdmissionTypes, AdmitCalls, PublishCalls, Contents, StartInv, AdmitInv, PublishInv, UndoInv, ReportInv
<1>5. UndoInv'
  BY DEF AdmissionTypes, AdmitCalls, PublishCalls, Contents, StartInv, AdmitInv, PublishInv, UndoInv, ReportInv
<1>6. ReportInv'
  BY DEF AdmissionTypes, AdmitCalls, PublishCalls, Contents, StartInv, AdmitInv, PublishInv, UndoInv, ReportInv
<1> QED BY <1>1, <1>2, <1>3, <1>4, <1>5, <1>6

\* The new directory takes its place, or the backup returns.
LEMMA AdmitInstallKeeps ==
    ASSUME AdmissionInv, AdmitInstall PROVE AdmissionInv'
<1> USE DEF AdmissionInv, AdmitInstall
<1>1. AdmissionTypes'
  BY DEF AdmissionTypes, AdmitCalls, PublishCalls, Contents, PublishInv, UndoInv
<1>2. StartInv'
  BY DEF AdmissionTypes, AdmitCalls, PublishCalls, Contents, StartInv, AdmitInv, PublishInv, UndoInv, ReportInv
<1>3. AdmitInv'
  BY DEF AdmissionTypes, AdmitCalls, PublishCalls, Contents, StartInv, AdmitInv, PublishInv, UndoInv, ReportInv
<1>4. PublishInv'
  BY DEF AdmissionTypes, AdmitCalls, PublishCalls, Contents, StartInv, AdmitInv, PublishInv, UndoInv, ReportInv
<1>5. UndoInv'
  BY DEF AdmissionTypes, AdmitCalls, PublishCalls, Contents, StartInv, AdmitInv, PublishInv, UndoInv, ReportInv
<1>6. ReportInv'
  BY DEF AdmissionTypes, AdmitCalls, PublishCalls, Contents, StartInv, AdmitInv, PublishInv, UndoInv, ReportInv
<1> QED BY <1>1, <1>2, <1>3, <1>4, <1>5, <1>6

\* The backup goes when the new directory is in place.
LEMMA AdmitCleanKeeps ==
    ASSUME AdmissionInv, AdmitClean PROVE AdmissionInv'
<1> USE DEF AdmissionInv, AdmitClean
<1>1. AdmissionTypes'
  BY DEF AdmissionTypes, AdmitCalls, PublishCalls, Contents, PublishInv, UndoInv
<1>2. StartInv'
  BY DEF AdmissionTypes, AdmitCalls, PublishCalls, Contents, StartInv, AdmitInv, PublishInv, UndoInv, ReportInv
<1>3. AdmitInv'
  BY DEF AdmissionTypes, AdmitCalls, PublishCalls, Contents, StartInv, AdmitInv, PublishInv, UndoInv, ReportInv
<1>4. PublishInv'
  BY DEF AdmissionTypes, AdmitCalls, PublishCalls, Contents, StartInv, AdmitInv, PublishInv, UndoInv, ReportInv
<1>5. UndoInv'
  BY DEF AdmissionTypes, AdmitCalls, PublishCalls, Contents, StartInv, AdmitInv, PublishInv, UndoInv, ReportInv
<1>6. ReportInv'
  BY DEF AdmissionTypes, AdmitCalls, PublishCalls, Contents, StartInv, AdmitInv, PublishInv, UndoInv, ReportInv
<1> QED BY <1>1, <1>2, <1>3, <1>4, <1>5, <1>6

\* Validation reads only.
LEMMA ValidateCandidateKeeps ==
    ASSUME AdmissionInv, ValidateCandidate PROVE AdmissionInv'
<1> USE DEF AdmissionInv, ValidateCandidate
<1>1. AdmissionTypes'
  BY DEF AdmissionTypes, AdmitCalls, PublishCalls, Contents, PublishInv, UndoInv
<1>2. StartInv'
  BY DEF AdmissionTypes, AdmitCalls, PublishCalls, Contents, StartInv, AdmitInv, PublishInv, UndoInv, ReportInv
<1>3. AdmitInv'
  BY DEF AdmissionTypes, AdmitCalls, PublishCalls, Contents, StartInv, AdmitInv, PublishInv, UndoInv, ReportInv
<1>4. PublishInv'
  BY DEF AdmissionTypes, AdmitCalls, PublishCalls, Contents, StartInv, AdmitInv, PublishInv, UndoInv, ReportInv
<1>5. UndoInv'
  BY DEF AdmissionTypes, AdmitCalls, PublishCalls, Contents, StartInv, AdmitInv, PublishInv, UndoInv, ReportInv
<1>6. ReportInv'
  BY DEF AdmissionTypes, AdmitCalls, PublishCalls, Contents, StartInv, AdmitInv, PublishInv, UndoInv, ReportInv
<1> QED BY <1>1, <1>2, <1>3, <1>4, <1>5, <1>6

\* Nothing moves before the copy has validated.
LEMMA CopyCandidateKeeps ==
    ASSUME AdmissionInv, CopyCandidate PROVE AdmissionInv'
<1> USE DEF AdmissionInv, CopyCandidate
<1>1. AdmissionTypes'
  BY DEF AdmissionTypes, AdmitCalls, PublishCalls, Contents, PublishInv, UndoInv
<1>2. StartInv'
  BY DEF AdmissionTypes, AdmitCalls, PublishCalls, Contents, StartInv, AdmitInv, PublishInv, UndoInv, ReportInv
<1>3. AdmitInv'
  BY DEF AdmissionTypes, AdmitCalls, PublishCalls, Contents, StartInv, AdmitInv, PublishInv, UndoInv, ReportInv
<1>4. PublishInv'
  BY DEF AdmissionTypes, AdmitCalls, PublishCalls, Contents, StartInv, AdmitInv, PublishInv, UndoInv, ReportInv
<1>5. UndoInv'
  BY DEF AdmissionTypes, AdmitCalls, PublishCalls, Contents, StartInv, AdmitInv, PublishInv, UndoInv, ReportInv
<1>6. ReportInv'
  BY DEF AdmissionTypes, AdmitCalls, PublishCalls, Contents, StartInv, AdmitInv, PublishInv, UndoInv, ReportInv
<1> QED BY <1>1, <1>2, <1>3, <1>4, <1>5, <1>6

\* The next group is set aside and entered in `states`.
LEMMA BackupGroupKeeps ==
    ASSUME AdmissionInv, BackupGroup PROVE AdmissionInv'
<1> USE DEF AdmissionInv, BackupGroup
<1>1. AdmissionTypes'
  BY DEF AdmissionTypes, AdmitCalls, PublishCalls, Contents, PublishInv, UndoInv
<1>2. StartInv'
  BY DEF AdmissionTypes, AdmitCalls, PublishCalls, Contents, StartInv, AdmitInv, PublishInv, UndoInv, ReportInv
<1>3. AdmitInv'
  BY DEF AdmissionTypes, AdmitCalls, PublishCalls, Contents, StartInv, AdmitInv, PublishInv, UndoInv, ReportInv
<1>4. PublishInv'
  <2>1. CASE next' = "install"
    <3>0. Len(states) \in 0..3
      <4>1. states \in Seq(Nat) /\ Len(states) < 4  BY DEF PublishInv
      <4>2. Len(states) \in Nat  BY <4>1, LenProperties
      <4> QED BY <4>1, <4>2, SmallNumbers
    <3>1. /\ Len(states) \in 0..3 /\ states' = Append(states, Len(states) + 1)
          /\ saved' = [saved EXCEPT ![Len(states) + 1] = active[Len(states) + 1]]
          /\ active' = [active EXCEPT ![Len(states) + 1] = "none"]
          /\ UNCHANGED <<tool, prior, copied>>
      BY <2>1, <3>0
    <3>2. /\ states' \in Seq(Nat) /\ Len(states') = Len(states) + 1
          /\ \A i \in 1..Len(states') : states'[i] = i
      BY <3>1 DEF PublishInv
    <3>3. copied'  BY <3>1 DEF PublishInv
    <3>4. \A g \in Groups : IF g <= Len(states') THEN saved'[g] = prior'[g]
                                               ELSE active'[g] = prior'[g]
      BY <3>1, <3>2 DEF PublishInv, AdmissionTypes
    <3>5. \A g \in 1..(Len(states') - 1) : active'[g] = "new"
      BY <3>1, <3>2 DEF PublishInv, AdmissionTypes
    <3> QED BY <2>1, <3>1, <3>2, <3>3, <3>4, <3>5 DEF PublishInv
  <2>2. CASE next' = "rollback"
    BY <2>2 DEF PublishInv
  <2> QED BY <2>1, <2>2
<1>5. UndoInv'
  BY DEF AdmissionTypes, AdmitCalls, PublishCalls, Contents, StartInv, AdmitInv, PublishInv, UndoInv, ReportInv
<1>6. ReportInv'
  BY DEF AdmissionTypes, AdmitCalls, PublishCalls, Contents, StartInv, AdmitInv, PublishInv, UndoInv, ReportInv
<1> QED BY <1>1, <1>2, <1>3, <1>4, <1>5, <1>6

\* The last group of `states` is installed.
LEMMA InstallGroupKeeps ==
    ASSUME AdmissionInv, InstallGroup PROVE AdmissionInv'
<1> USE DEF AdmissionInv, InstallGroup
<1>1. AdmissionTypes'
  BY DEF AdmissionTypes, AdmitCalls, PublishCalls, Contents, PublishInv, UndoInv
<1>2. StartInv'
  BY DEF AdmissionTypes, AdmitCalls, PublishCalls, Contents, StartInv, AdmitInv, PublishInv, UndoInv, ReportInv
<1>3. AdmitInv'
  BY DEF AdmissionTypes, AdmitCalls, PublishCalls, Contents, StartInv, AdmitInv, PublishInv, UndoInv, ReportInv
<1>4. PublishInv'
  BY DEF AdmissionTypes, AdmitCalls, PublishCalls, Contents, StartInv, AdmitInv, PublishInv, UndoInv, ReportInv
<1>5. UndoInv'
  BY DEF AdmissionTypes, AdmitCalls, PublishCalls, Contents, StartInv, AdmitInv, PublishInv, UndoInv, ReportInv
<1>6. ReportInv'
  BY DEF AdmissionTypes, AdmitCalls, PublishCalls, Contents, StartInv, AdmitInv, PublishInv, UndoInv, ReportInv
<1> QED BY <1>1, <1>2, <1>3, <1>4, <1>5, <1>6

\* All four groups are new when the modes are set.
LEMMA SealModesKeeps ==
    ASSUME AdmissionInv, SealModes PROVE AdmissionInv'
<1> USE DEF AdmissionInv, SealModes
<1>1. AdmissionTypes'
  BY DEF AdmissionTypes, AdmitCalls, PublishCalls, Contents, PublishInv, UndoInv
<1>2. StartInv'
  BY DEF AdmissionTypes, AdmitCalls, PublishCalls, Contents, StartInv, AdmitInv, PublishInv, UndoInv, ReportInv
<1>3. AdmitInv'
  BY DEF AdmissionTypes, AdmitCalls, PublishCalls, Contents, StartInv, AdmitInv, PublishInv, UndoInv, ReportInv
<1>4. PublishInv'
  BY DEF AdmissionTypes, AdmitCalls, PublishCalls, Contents, StartInv, AdmitInv, PublishInv, UndoInv, ReportInv
<1>5. UndoInv'
  BY DEF AdmissionTypes, AdmitCalls, PublishCalls, Contents, StartInv, AdmitInv, PublishInv, UndoInv, ReportInv
<1>6. ReportInv'
  BY DEF AdmissionTypes, AdmitCalls, PublishCalls, Contents, StartInv, AdmitInv, PublishInv, UndoInv, ReportInv
<1> QED BY <1>1, <1>2, <1>3, <1>4, <1>5, <1>6

\* One group goes back; a failing step is remembered in `lost`.
LEMMA RollbackGroupKeeps ==
    ASSUME AdmissionInv, RollbackGroup PROVE AdmissionInv'
<1> USE DEF AdmissionInv, RollbackGroup
<1>1. AdmissionTypes'
  <2>1. \A f \in [Groups -> Contents], v \in Contents : \A g : [f EXCEPT ![g] = v] \in [Groups -> Contents]
    OBVIOUS
  <2>2. Len(undo) \in Groups /\ undo[Len(undo)] = Len(undo)
    <3>1. undo \in Seq(Nat) /\ Len(undo) <= 4 /\ undo # <<>>  BY DEF UndoInv
    <3>2. Len(undo) \in Nat /\ Len(undo) # 0  BY <3>1, EmptySeq
    <3>3. undo[Len(undo)] = Len(undo)  BY <3>1, <3>2 DEF UndoInv
    <3>4. Len(undo) \in Groups  BY <3>1, <3>2, SmallNumbers
    <3> QED BY <3>3, <3>4
  <2>3. active' \in [Groups -> Contents]
    BY <2>1, <2>2 DEF AdmissionTypes, Contents
  <2>4. saved' \in [Groups -> Contents]
    BY <2>1 DEF AdmissionTypes, Contents
  <2> QED BY <2>3, <2>4 DEF AdmissionTypes
<1>2. StartInv'
  BY DEF AdmissionTypes, AdmitCalls, PublishCalls, Contents, StartInv, AdmitInv, PublishInv, UndoInv, ReportInv
<1>3. AdmitInv'
  BY DEF AdmissionTypes, AdmitCalls, PublishCalls, Contents, StartInv, AdmitInv, PublishInv, UndoInv, ReportInv
<1>4. PublishInv'
  BY DEF AdmissionTypes, AdmitCalls, PublishCalls, Contents, StartInv, AdmitInv, PublishInv, UndoInv, ReportInv
<1>5. UndoInv'
  BY SMTT(30) DEF AdmissionTypes, AdmitCalls, PublishCalls, Contents, StartInv, AdmitInv, PublishInv, UndoInv, ReportInv
<1>6. ReportInv'
  BY DEF AdmissionTypes, AdmitCalls, PublishCalls, Contents, StartInv, AdmitInv, PublishInv, UndoInv, ReportInv
<1> QED BY <1>1, <1>2, <1>3, <1>4, <1>5, <1>6

\* With nothing lost every group is back.
LEMMA RollbackEndsKeeps ==
    ASSUME AdmissionInv, RollbackEnds PROVE AdmissionInv'
<1> USE DEF AdmissionInv, RollbackEnds
<1>1. AdmissionTypes'
  BY DEF AdmissionTypes, AdmitCalls, PublishCalls, Contents, PublishInv, UndoInv
<1>2. StartInv'
  BY DEF AdmissionTypes, AdmitCalls, PublishCalls, Contents, StartInv, AdmitInv, PublishInv, UndoInv, ReportInv
<1>3. AdmitInv'
  BY DEF AdmissionTypes, AdmitCalls, PublishCalls, Contents, StartInv, AdmitInv, PublishInv, UndoInv, ReportInv
<1>4. PublishInv'
  BY DEF AdmissionTypes, AdmitCalls, PublishCalls, Contents, StartInv, AdmitInv, PublishInv, UndoInv, ReportInv
<1>5. UndoInv'
  BY DEF AdmissionTypes, AdmitCalls, PublishCalls, Contents, StartInv, AdmitInv, PublishInv, UndoInv, ReportInv
<1>6. ReportInv'
  BY DEF AdmissionTypes, AdmitCalls, PublishCalls, Contents, StartInv, AdmitInv, PublishInv, UndoInv, ReportInv
<1> QED BY <1>1, <1>2, <1>3, <1>4, <1>5, <1>6

\* An interrupt reports itself.
LEMMA InterruptKeeps ==
    ASSUME AdmissionInv, Interrupt PROVE AdmissionInv'
<1> USE DEF AdmissionInv, Interrupt
<1>1. AdmissionTypes'
  BY DEF AdmissionTypes, AdmitCalls, PublishCalls, Contents, PublishInv, UndoInv
<1>2. StartInv'
  BY DEF AdmissionTypes, AdmitCalls, PublishCalls, Contents, StartInv, AdmitInv, PublishInv, UndoInv, ReportInv
<1>3. AdmitInv'
  BY DEF AdmissionTypes, AdmitCalls, PublishCalls, Contents, StartInv, AdmitInv, PublishInv, UndoInv, ReportInv
<1>4. PublishInv'
  BY DEF AdmissionTypes, AdmitCalls, PublishCalls, Contents, StartInv, AdmitInv, PublishInv, UndoInv, ReportInv
<1>5. UndoInv'
  BY DEF AdmissionTypes, AdmitCalls, PublishCalls, Contents, StartInv, AdmitInv, PublishInv, UndoInv, ReportInv
<1>6. ReportInv'
  BY DEF AdmissionTypes, AdmitCalls, PublishCalls, Contents, StartInv, AdmitInv, PublishInv, UndoInv, ReportInv
<1> QED BY <1>1, <1>2, <1>3, <1>4, <1>5, <1>6

\* So does a kill.
LEMMA KillKeeps ==
    ASSUME AdmissionInv, Kill PROVE AdmissionInv'
<1> USE DEF AdmissionInv, Kill
<1>1. AdmissionTypes'
  BY DEF AdmissionTypes, AdmitCalls, PublishCalls, Contents, PublishInv, UndoInv
<1>2. StartInv'
  BY DEF AdmissionTypes, AdmitCalls, PublishCalls, Contents, StartInv, AdmitInv, PublishInv, UndoInv, ReportInv
<1>3. AdmitInv'
  BY DEF AdmissionTypes, AdmitCalls, PublishCalls, Contents, StartInv, AdmitInv, PublishInv, UndoInv, ReportInv
<1>4. PublishInv'
  BY DEF AdmissionTypes, AdmitCalls, PublishCalls, Contents, StartInv, AdmitInv, PublishInv, UndoInv, ReportInv
<1>5. UndoInv'
  BY DEF AdmissionTypes, AdmitCalls, PublishCalls, Contents, StartInv, AdmitInv, PublishInv, UndoInv, ReportInv
<1>6. ReportInv'
  BY DEF AdmissionTypes, AdmitCalls, PublishCalls, Contents, StartInv, AdmitInv, PublishInv, UndoInv, ReportInv
<1> QED BY <1>1, <1>2, <1>3, <1>4, <1>5, <1>6

\* An edit of the candidate moves nothing of the tool's.
LEMMA EditCandidateKeeps ==
    ASSUME AdmissionInv, EditCandidate PROVE AdmissionInv'
<1> USE DEF AdmissionInv, EditCandidate
<1>1. AdmissionTypes'
  BY DEF AdmissionTypes, AdmitCalls, PublishCalls, Contents, PublishInv, UndoInv
<1>2. StartInv'
  BY DEF AdmissionTypes, AdmitCalls, PublishCalls, Contents, StartInv, AdmitInv, PublishInv, UndoInv, ReportInv
<1>3. AdmitInv'
  BY DEF AdmissionTypes, AdmitCalls, PublishCalls, Contents, StartInv, AdmitInv, PublishInv, UndoInv, ReportInv
<1>4. PublishInv'
  BY DEF AdmissionTypes, AdmitCalls, PublishCalls, Contents, StartInv, AdmitInv, PublishInv, UndoInv, ReportInv
<1>5. UndoInv'
  BY DEF AdmissionTypes, AdmitCalls, PublishCalls, Contents, StartInv, AdmitInv, PublishInv, UndoInv, ReportInv
<1>6. ReportInv'
  BY DEF AdmissionTypes, AdmitCalls, PublishCalls, Contents, StartInv, AdmitInv, PublishInv, UndoInv, ReportInv
<1> QED BY <1>1, <1>2, <1>3, <1>4, <1>5, <1>6

\* A new run starts from what it finds.
LEMMA AgainKeeps ==
    ASSUME AdmissionInv, Again PROVE AdmissionInv'
<1> USE DEF AdmissionInv, Again
<1>1. AdmissionTypes'
  BY DEF AdmissionTypes, AdmitCalls, PublishCalls, Contents, PublishInv, UndoInv
<1>2. StartInv'
  BY DEF AdmissionTypes, AdmitCalls, PublishCalls, Contents, StartInv, AdmitInv, PublishInv, UndoInv, ReportInv
<1>3. AdmitInv'
  BY DEF AdmissionTypes, AdmitCalls, PublishCalls, Contents, StartInv, AdmitInv, PublishInv, UndoInv, ReportInv
<1>4. PublishInv'
  BY DEF AdmissionTypes, AdmitCalls, PublishCalls, Contents, StartInv, AdmitInv, PublishInv, UndoInv, ReportInv
<1>5. UndoInv'
  BY DEF AdmissionTypes, AdmitCalls, PublishCalls, Contents, StartInv, AdmitInv, PublishInv, UndoInv, ReportInv
<1>6. ReportInv'
  BY DEF AdmissionTypes, AdmitCalls, PublishCalls, Contents, StartInv, AdmitInv, PublishInv, UndoInv, ReportInv
<1> QED BY <1>1, <1>2, <1>3, <1>4, <1>5, <1>6

\* The first run starts from the repository as it is.
LEMMA InitAdmission == AInit => AdmissionInv
<1> SUFFICES ASSUME AInit PROVE AdmissionInv
  OBVIOUS
<1> USE DEF AInit
<1>1. AdmissionTypes
  <2>1. active \in [Groups -> Contents]  BY DEF Contents
  <2>2. saved \in [Groups -> Contents] /\ prior \in [Groups -> Contents]  BY <2>1 DEF Contents
  <2> QED BY <2>1, <2>2 DEF AdmissionTypes, AdmitCalls, PublishCalls
<1>2. StartInv /\ ReportInv  BY DEF StartInv, ReportInv
<1>3. AdmitInv  BY DEF AdmitInv
<1>4. PublishInv
  <2>1. states \in Seq(Nat) /\ Len(states) = 0  BY EmptySeq
  <2> QED BY <2>1 DEF PublishInv
<1>5. UndoInv  BY DEF UndoInv
<1> QED BY <1>1, <1>2, <1>3, <1>4, <1>5 DEF AdmissionInv

\* Every call of admit_archive and publish_candidate, every failure of one, every
\* interrupt and kill preserves the invariant.
LEMMA StepAdmission == ASSUME AdmissionInv, [ANext]_avars PROVE AdmissionInv'
<1>1. CASE ANext
  BY <1>1, VerifyArchiveKeeps, AdmitBackupKeeps, AdmitInstallKeeps, AdmitCleanKeeps,
     ValidateCandidateKeeps, CopyCandidateKeeps, BackupGroupKeeps, InstallGroupKeeps,
     SealModesKeeps, RollbackGroupKeeps, RollbackEndsKeeps, InterruptKeeps, KillKeeps,
     EditCandidateKeeps, AgainKeeps DEF ANext
<1>2. CASE UNCHANGED avars
  BY <1>2 DEF avars, AdmissionInv, AdmissionTypes, StartInv, AdmitInv, PublishInv, UndoInv, ReportInv
<1> QED BY <1>1, <1>2

\* AdmissionInv holds through any number of runs of the tool and of troubles.
THEOREM Admission == ASpec => []AdmissionInv
<1>1. AInit => AdmissionInv  BY InitAdmission
<1>2. AdmissionInv /\ [ANext]_avars => AdmissionInv'  BY StepAdmission
<1> QED BY <1>1, <1>2, PTL DEF ASpec

\* OutcomeHonest: what --admit and --publish report of the four groups of paths
\* is what they did, whichever rename, removal or mode change failed.
THEOREM OutcomeIsHonest == ASpec => []OutcomeHonest
<1>1. AdmissionInv => OutcomeHonest
  BY DEF AdmissionInv, AdmissionTypes, Contents, StartInv, AdmitInv, ReportInv, OutcomeHonest
<1> QED BY <1>1, Admission, PTL

HIDE DEF Trouble, End, Calm, Fixed, Failing, Step, Groups

-----------------------------------------------------------------------------
(* The promotion of benchmark cases.                                          *)

\* Approvals are not withdrawn, so a sound case stays sound.
LEMMA CasesStaySound ==
  ASSUME NEW A, NEW B, A \subseteq B, NEW f, FilesSound(A, f) PROVE FilesSound(B, f)
  BY DEF FilesSound, CaseSound

\* The steps that leave suites, running promotion and pending files alone.
LEMMA OthersKeep ==
  ASSUME CurationInv, UNCHANGED <<suites, pending, job, stops>>,
         approved \subseteq approved', ApprovalInv'
  PROVE  CurationInv'
<1>1. DiskInv'
  <2>1. ASSUME NEW s \in Suites PROVE FilesSound(approved', suites'[s])
    BY CasesStaySound DEF CurationInv, DiskInv
  <2> QED BY <2>1 DEF CurationInv, DiskInv
<1>2. JobInv'
  <2>1. CASE job = Idle  BY <2>1 DEF JobInv, Idle
  <2>2. CASE job # Idle
    <3>1. FilesSound(approved', job'.out)
      BY <2>2, CasesStaySound DEF CurationInv, JobInv
    <3> QED BY <2>2, <3>1 DEF CurationInv, JobInv
  <2> QED BY <2>1, <2>2
<1>3. WholeInv' /\ (stops \in Nat)'
  BY DEF CurationInv, WholeInv, Mine
<1> QED BY <1>1, <1>2, <1>3 DEF CurationInv

\* An approval adds one approved version and changes no file.
LEMMA ApproveReferenceKeeps ==
  ASSUME CurationInv, NEW b \in All, ApproveReference(b) PROVE CurationInv'
<1>1. ApprovalInv'
  BY DEF ApproveReference, CurationInv, ApprovalInv
<1> QED BY <1>1, OthersKeep DEF ApproveReference

\* The editing steps change neither an approval nor what was approved.
LEMMA PaperworkKeeps ==
  ASSUME CurationInv, UNCHANGED <<approval, approved, suites, pending, job, stops>>
  PROVE  CurationInv'
<1>1. ApprovalInv'  BY DEF CurationInv, ApprovalInv
<1> QED BY <1>1, OthersKeep

\* A case of an approved reference packet that _build_case lets pass is sound.
LEMMA IncomingIsSound ==
  ASSUME CurationInv, NEW b \in All, NEW c \in Files, ApprovalValid(b), CaseHolds(refs[b])
  PROVE  CaseSound(approved, Case(b, c), c)
<1> DEFINE x == Case(b, c)
<1>1. x.id = <<b, c>> /\ x.version = refs[b].version /\ x.part = refs[b].part
  BY DEF Case
<1>2. <<x.id[1], x.version>> \in approved
  BY <1>1 DEF ApprovalValid, CurationInv, ApprovalInv
<1>3. /\ x.part["trace"] = x.part["plan"] /\ x.part["traceArtifact"] = x.part["artifact"]
      /\ x.part["answer"] = x.part["required"]
  BY <1>1 DEF CaseHolds, TraceHolds, AnswerHolds, Agree
<1>4. \A p \in {"plan", "detail", "trace", "artifact", "traceArtifact", "answer", "required"} :
         Formed(x, p)
  BY <1>1 DEF CaseHolds, TraceHolds, AnswerHolds, ArtifactHolds, Agree, Formed
<1>5. \A p \in Parts \ {"rows", "summaryArtifact"} : Formed(x, p)
  BY <1>4 DEF Parts
<1> QED BY <1>1, <1>2, <1>3, <1>5 DEF CaseSound

\* A promotion starts: only job changes, and what it will write is sound, asks
\* nothing that another suite asks and, without a failure, is whole.
LEMMA JobStarts ==
  ASSUME CurationInv, job = Idle, NEW b \in All, NEW s \in Suites, NEW f,
         UNCHANGED <<packet, refs, approval, approved, suites, pending, stops>>,
         job' = [batch |-> b, suite |-> s, out |-> f, made |-> {}, todo |-> Files],
         FilesSound(approved, f), stops = 0 => FilesWhole(f),
         s \in Destinations => \A t \in Destinations \ {s} : FilesApart(f, suites[t])
  PROVE  CurationInv'
<1>1. ApprovalInv' /\ DiskInv'
  BY DEF CurationInv, ApprovalInv, DiskInv
<1>2. JobInv'
  <2>1. FilesSound(approved', job'.out)
    OBVIOUS
  <2> QED BY <2>1 DEF JobInv
<1>3. WholeInv'
  <2> SUFFICES ASSUME stops = 0 PROVE WholeInv'
    BY DEF WholeInv
  <2>1. \A t \in Suites : FilesWhole(suites[t])
    BY DEF CurationInv, WholeInv, Idle, Suites, Destinations
  <2>2. job' # Idle  BY DEF Idle, Suites, Destinations
  <2>3. pending' = {} /\ {Mine(c) : c \in job.made \cap job.todo}' = {}
    BY DEF CurationInv, WholeInv
  <2> QED BY <2>1, <2>2, <2>3 DEF WholeInv
<1> QED BY <1>1, <1>2, <1>3 DEF CurationInv

\* promote_reference_packet plans to add sound, fresh cases to the suite it has read.
LEMMA StartPromotionKeeps ==
  ASSUME CurationInv, NEW b \in Batches, NEW s \in Targets, StartPromotion(b, s),
         CurationAssumption
  PROVE  CurationInv'
<1> DEFINE f == [c \in Files |-> suites[s][c] \cup {Case(b, c)}]
<1>1. s \in Suites /\ s \in Destinations /\ b \in All
  BY DEF CurationAssumption, Suites, All
<1>2. FilesSound(approved, f)
  <2> SUFFICES ASSUME NEW c \in Files, NEW x \in f[c]
               PROVE  /\ CaseSound(approved, x, c)
                      /\ \A y \in f[c] : x.id = y.id => x = y
    BY DEF FilesSound
  <2>1. CaseSound(approved, Case(b, c), c)
    BY <1>1, IncomingIsSound DEF StartPromotion
  <2>2. \A y \in suites[s][c] : CaseSound(approved, y, c) /\ y.id # Case(b, c).id
    <3> SUFFICES ASSUME NEW y \in suites[s][c] PROVE CaseSound(approved, y, c) /\ y.id # Case(b, c).id
      OBVIOUS
    <3>1. y \in CasesOf(s) /\ Case(b, c) \in Incoming(b)
      BY DEF CasesOf, Incoming
    <3> QED BY <1>1, <3>1 DEF StartPromotion, IdsFresh, CurationInv, DiskInv, FilesSound
  <2>3. \A y, z \in suites[s][c] : y.id = z.id => y = z
    BY <1>1 DEF CurationInv, DiskInv, FilesSound
  <2> QED BY <2>1, <2>2, <2>3
<1>3. ASSUME stops = 0 PROVE FilesWhole(f)
  <2>1. FilesWhole(suites[s])
    BY <1>1, <1>3 DEF StartPromotion, CurationInv, WholeInv, Idle, Suites, Destinations
  <2> SUFFICES ASSUME NEW c \in Files, NEW d \in Files, NEW x \in f[c]
               PROVE  \E y \in f[d] : y.id = <<x.id[1], d>>
    BY DEF FilesWhole
  <2>2. CASE x \in suites[s][c]
    BY <2>1, <2>2 DEF FilesWhole
  <2>3. CASE x = Case(b, c)
    <3>1. x.id[1] = b /\ Case(b, d).id = <<b, d>>
      BY <2>3 DEF Case
    <3> QED BY <3>1
  <2> QED BY <2>2, <2>3
<1>4. \A t \in Destinations \ {s} : FilesApart(f, suites[t])
  <2> SUFFICES ASSUME NEW t \in Destinations, t # s, NEW c \in Files, NEW d \in Files,
                      NEW x \in f[c], NEW y \in suites[t][d], x.q = y.q
               PROVE  FALSE
    BY DEF FilesApart
  <2> DEFINE with == [u \in Suites |-> Asked(CasesOf(u) \cup (IF u = s THEN Incoming(b) ELSE {}))]
  <2>1. with[s] \cap with[t] = {}
    BY <1>1 DEF StartPromotion, NoCollision, Suites
  <2>2. x \in CasesOf(s) \cup Incoming(b)
    BY DEF CasesOf, Incoming
  <2>3. y \in CasesOf(t)
    BY DEF CasesOf
  <2>4. with[s] = Asked(CasesOf(s) \cup Incoming(b)) /\ with[t] = Asked(CasesOf(t) \cup {})
    BY <1>1 DEF Suites
  <2> QED BY <2>1, <2>2, <2>3, <2>4, ZenonT(60) DEF Asked
<1> HIDE DEF f
<1>5. job' = [batch |-> b, suite |-> s, out |-> f, made |-> {}, todo |-> Files]
  BY DEF StartPromotion, f
<1> QED BY <1>1, <1>2, <1>3, <1>4, <1>5, JobStarts DEF StartPromotion

\* The organizer's suite is planned anew, of sound cases only.
LEMMA StartOrganizerKeeps ==
  ASSUME CurationInv, StartOrganizer PROVE CurationInv'
<1> DEFINE f == [c \in Files |-> {Case(Organizer, c)}]
<1>1. Organizer \in All /\ "organizer" \in Suites /\ "organizer" \notin Destinations
  BY DEF All, Suites, Destinations
<1>2. FilesSound(approved, f)
  BY <1>1, IncomingIsSound DEF StartOrganizer, FilesSound
<1>3. FilesWhole(f)
  <2> SUFFICES ASSUME NEW c \in Files, NEW d \in Files
               PROVE  Case(Organizer, d).id = <<Case(Organizer, c).id[1], d>>
    BY DEF FilesWhole
  <2> QED BY DEF Case
<1> HIDE DEF f
<1>4. job' = [batch |-> Organizer, suite |-> "organizer", out |-> f, made |-> {}, todo |-> Files]
  BY DEF StartOrganizer, f
<1> QED BY <1>1, <1>2, <1>3, <1>4, JobStarts DEF StartOrganizer

\* A promotion ends early: the suites stay, half written if a failure stopped it.
LEMMA JobStops ==
  ASSUME CurationInv, job' = Idle, stops' \in Nat, stops' # 0,
         UNCHANGED <<approval, approved, suites>>
  PROVE  CurationInv'
<1>1. ApprovalInv' /\ DiskInv'
  BY DEF CurationInv, ApprovalInv, DiskInv
<1>2. JobInv'  BY DEF JobInv, Idle
<1> QED BY <1>1, <1>2 DEF CurationInv, WholeInv

\* A failure or a kill is counted.
LEMMA FailingStops ==
  ASSUME CurationInv, stops' = stops + 1 PROVE stops' \in Nat /\ stops' # 0
  BY DEF CurationInv

\* A promotion that is killed leaves each suite old or new.
LEMMA KillPromotionKeeps ==
  ASSUME CurationInv, KillPromotion PROVE CurationInv'
  BY FailingStops, JobStops DEF KillPromotion

\* A step of a running promotion that goes on: its suites, plan and progress.
LEMMA JobGoesOn ==
  ASSUME CurationInv, job # Idle, NEW M \in SUBSET Files, NEW T \in SUBSET Files,
         M # Files => T = Files,
         job' = [job EXCEPT !.made = M, !.todo = T],
         UNCHANGED <<approval, approved, stops>>,
         suites' = [suites EXCEPT ![job.suite] =
                      [c \in Files |-> IF c \in job.todo \ T THEN job.out[c] ELSE suites[job.suite][c]]],
         T \subseteq job.todo,
         stops = 0 => pending' = {Mine(c) : c \in M \cap T}
  PROVE  CurationInv'
<1>1. /\ job = [batch |-> job.batch, suite |-> job.suite, out |-> job.out,
                made |-> job.made, todo |-> job.todo]
      /\ job.suite \in Suites /\ FilesSound(approved, job.out)
  BY DEF CurationInv, JobInv
<1>2. /\ job' = [batch |-> job.batch, suite |-> job.suite, out |-> job.out,
                 made |-> M, todo |-> T]
      /\ job'.suite = job.suite /\ job'.out = job.out /\ job'.made = M /\ job'.todo = T
  BY <1>1
<1>3. /\ \A s \in Suites \ {job.suite} : suites'[s] = suites[s]
      /\ \A c \in Files : suites'[job.suite][c] \in {job.out[c], suites[job.suite][c]}
      /\ suites' = [s \in Suites |-> [c \in Files |-> suites'[s][c]]]
  BY <1>1 DEF CurationInv, DiskInv
<1>4. ApprovalInv'  BY DEF CurationInv, ApprovalInv
<1>5. \A s \in Suites : FilesSound(approved', suites'[s])
  <2> SUFFICES ASSUME NEW s \in Suites, NEW c \in Files, NEW x \in suites'[s][c]
               PROVE  CaseSound(approved, x, c) /\ \A y \in suites'[s][c] : x.id = y.id => x = y
    BY DEF FilesSound
  <2>1. CASE s # job.suite
    BY <1>3, <2>1 DEF CurationInv, DiskInv, FilesSound
  <2>2. CASE s = job.suite
    BY <1>1, <1>3, <2>2 DEF CurationInv, DiskInv, FilesSound
  <2> QED BY <2>1, <2>2
<1>6. \A s, t \in Destinations : s # t => FilesApart(suites'[s], suites'[t])
  <2> SUFFICES ASSUME NEW s \in Destinations, NEW t \in Destinations, s # t,
                      NEW c \in Files, NEW d \in Files,
                      NEW x \in suites'[s][c], NEW y \in suites'[t][d], x.q = y.q
               PROVE  FALSE
    BY DEF FilesApart
  <2>1. s \in Suites /\ t \in Suites  BY DEF Suites
  <2>2. CASE job.suite \notin {s, t}
    <3>1. x \in suites[s][c] /\ y \in suites[t][d]
      BY <1>3, <2>1, <2>2
    <3>2. FilesApart(suites[s], suites[t])
      BY DEF CurationInv, DiskInv
    <3> QED BY <3>1, <3>2 DEF FilesApart
  <2>3. CASE job.suite = s
    <3>1. y \in suites[t][d] /\ (x \in job.out[c] \/ x \in suites[s][c])
      BY <1>3, <2>1, <2>3
    <3>2. FilesApart(job.out, suites[t]) /\ FilesApart(suites[s], suites[t])
      BY <2>3 DEF CurationInv, JobInv, DiskInv, Idle
    <3> QED BY <3>1, <3>2 DEF FilesApart
  <2>4. CASE job.suite = t
    <3>1. x \in suites[s][c] /\ (y \in job.out[d] \/ y \in suites[t][d])
      BY <1>3, <2>1, <2>4
    <3>2. FilesApart(job.out, suites[s]) /\ FilesApart(suites[s], suites[t])
      BY <2>4 DEF CurationInv, JobInv, DiskInv, Idle
    <3> QED BY <3>1, <3>2 DEF FilesApart
  <2> QED BY <2>2, <2>3, <2>4
<1>7. DiskInv'
  BY <1>3, <1>5, <1>6 DEF DiskInv
<1>8. JobInv'
  <2>1. FilesSound(approved', job'.out)
    BY <1>1, <1>2
  <2>2. job.suite \in Destinations =>
           \A t \in Destinations \ {job.suite} : FilesApart(job.out, suites'[t])
    BY <1>3 DEF CurationInv, JobInv, Suites
  <2> QED BY <1>1, <1>2, <2>1, <2>2 DEF JobInv
<1>9. WholeInv'
  <2> SUFFICES ASSUME stops = 0 PROVE WholeInv'
    BY DEF WholeInv
  <2>1. job' # Idle
    BY <1>1, <1>2 DEF Idle, Suites, Destinations
  <2>2. /\ \A s \in Suites \ {job.suite} : FilesWhole(suites[s])
        /\ FilesWhole(job.out)
        /\ \A c \in Files \ job.todo : suites[job.suite][c] = job.out[c]
    BY DEF CurationInv, WholeInv
  <2>3. \A s \in Suites \ {job.suite} : FilesWhole(suites'[s])
    BY <1>3, <2>2
  <2>4. \A c \in Files \ T : suites'[job.suite][c] = job.out[c]
    BY <1>1, <2>2 DEF CurationInv, DiskInv
  <2>5. pending' = {Mine(c)' : c \in M \cap T}
    BY <1>2 DEF Mine
  <2> QED BY <1>2, <2>1, <2>2, <2>3, <2>4, <2>5 DEF WholeInv
<1> QED BY <1>4, <1>7, <1>8, <1>9 DEF CurationInv

\* While a promotion runs without a failure, a pending file is one it made.
LEMMA PendingIsMine ==
  ASSUME CurationInv, job # Idle, stops = 0, NEW c, Mine(c) \in pending
  PROVE  c \in job.made
<1>1. PICK d \in job.made \cap job.todo : Mine(c) = Mine(d)
  BY DEF CurationInv, WholeInv
<1> QED BY <1>1 DEF Mine

\* A pending file is created beside the suite, never in its place.
LEMMA WritePendingKeeps ==
  ASSUME CurationInv, WritePending PROVE CurationInv'
<1> USE DEF WritePending
<1>1. PICK c \in Files :
         /\ IsFirst(Files \ job.made, c)
         /\ \/ /\ Mine(c) \notin pending
               /\ pending' = pending \cup {Mine(c)}
               /\ job' = [job EXCEPT !.made = @ \cup {c}] /\ UNCHANGED stops
            \/ Mine(c) \in pending /\ Tidy /\ UNCHANGED stops
            \/ stops < MaxStops /\ stops' = stops + 1 /\ Tidy
  OBVIOUS
<1>2. c \notin job.made  BY <1>1 DEF IsFirst
<1>3. /\ job # Idle /\ job.made \subseteq Files /\ job.todo = Files /\ job.suite \in Suites
      /\ job = [batch |-> job.batch, suite |-> job.suite, out |-> job.out,
                made |-> job.made, todo |-> job.todo]
      /\ UNCHANGED <<approval, approved, suites>>
  BY DEF CurationInv, JobInv
<1> HIDE DEF WritePending
<1>4. CASE /\ pending' = pending \cup {Mine(c)}
           /\ job' = [job EXCEPT !.made = @ \cup {c}] /\ UNCHANGED stops
  <2> DEFINE M == job.made \cup {c}
  <2>1. job' = [job EXCEPT !.made = M, !.todo = Files]
    BY <1>3, <1>4
  <2>2. suites' = [suites EXCEPT ![job.suite] =
           [k \in Files |-> IF k \in job.todo \ Files THEN job.out[k] ELSE suites[job.suite][k]]]
    BY <1>3 DEF CurationInv, DiskInv
  <2>3. ASSUME stops = 0 PROVE pending' = {Mine(k) : k \in M \cap Files}
    <3>1. pending = {Mine(k) : k \in job.made \cap job.todo}
      BY <1>3, <2>3 DEF CurationInv, WholeInv
    <3> QED BY <1>1, <1>3, <1>4, <3>1
  <2>4. M \in SUBSET Files /\ Files \in SUBSET Files /\ Files \subseteq job.todo
    BY <1>1, <1>3
  <2>5. UNCHANGED <<approval, approved, stops>> /\ job # Idle  BY <1>3, <1>4
  <2> HIDE DEF M
  <2> QED BY <2>1, <2>2, <2>3, <2>4, <2>5, JobGoesOn
<1>5. CASE Mine(c) \in pending /\ Tidy /\ UNCHANGED stops
  BY <1>2, <1>3, <1>5, PendingIsMine, JobStops DEF Tidy, CurationInv
<1>6. CASE stops' = stops + 1 /\ Tidy
  BY <1>3, <1>6, FailingStops, JobStops DEF Tidy
<1> QED BY <1>1, <1>4, <1>5, <1>6

\* A promotion that replaced all its files leaves a whole suite and no pending file.
LEMMA JobEnds ==
  ASSUME CurationInv, job # Idle, job.todo = {}, job' = Idle,
         pending' = pending \ {Mine(c) : c \in job.made},
         UNCHANGED <<approval, approved, suites, stops>>
  PROVE  CurationInv'
<1>1. ApprovalInv' /\ DiskInv'
  BY DEF CurationInv, ApprovalInv, DiskInv
<1>2. JobInv'  BY DEF JobInv, Idle
<1>3. WholeInv'
  <2> SUFFICES ASSUME stops = 0 PROVE WholeInv'
    BY DEF WholeInv
  <2>1. /\ \A s \in Suites \ {job.suite} : FilesWhole(suites[s])
        /\ pending = {Mine(c) : c \in job.made \cap job.todo}
        /\ FilesWhole(job.out)
        /\ \A c \in Files \ job.todo : suites[job.suite][c] = job.out[c]
    BY DEF CurationInv, WholeInv
  <2>2. pending' = {}  BY <2>1
  <2>3. FilesWhole(suites[job.suite])  BY <2>1, ZenonT(60) DEF FilesWhole
  <2>4. \A s \in Suites : FilesWhole(suites'[s])  BY <2>1, <2>3
  <2> QED BY <2>2, <2>4 DEF WholeInv
<1> QED BY <1>1, <1>2, <1>3 DEF CurationInv

\* os.replace exchanges one file of the suite for the planned one.
LEMMA ReplaceNextKeeps ==
  ASSUME CurationInv, ReplaceNext PROVE CurationInv'
<1>1. /\ job # Idle /\ job.made = Files /\ job.todo \subseteq Files /\ job.suite \in Suites
      /\ job = [batch |-> job.batch, suite |-> job.suite, out |-> job.out,
                made |-> job.made, todo |-> job.todo]
      /\ UNCHANGED <<approval, approved>>
  BY DEF ReplaceNext, CurationInv, JobInv
<1>2. CASE \E c \in Files :
              /\ IsFirst(job.todo, c)
              /\ suites' = [suites EXCEPT ![job.suite][c] = job.out[c]]
              /\ pending' = pending \ {Mine(c)}
              /\ job' = [job EXCEPT !.todo = @ \ {c}] /\ UNCHANGED stops
  <2>1. PICK c \in Files :
              /\ IsFirst(job.todo, c)
              /\ suites' = [suites EXCEPT ![job.suite][c] = job.out[c]]
              /\ pending' = pending \ {Mine(c)}
              /\ job' = [job EXCEPT !.todo = @ \ {c}] /\ UNCHANGED stops
    BY <1>2
  <2> DEFINE T == job.todo \ {c}
  <2>2. c \in job.todo  BY <2>1 DEF IsFirst
  <2>3. job' = [job EXCEPT !.made = Files, !.todo = T]
    BY <1>1, <2>1
  <2>4. suites' = [suites EXCEPT ![job.suite] =
           [k \in Files |-> IF k \in job.todo \ T THEN job.out[k] ELSE suites[job.suite][k]]]
    BY <1>1, <2>1, <2>2 DEF CurationInv, DiskInv
  <2>5. ASSUME stops = 0 PROVE pending' = {Mine(k) : k \in Files \cap T}
    <3>1. pending = {Mine(k) : k \in job.made \cap job.todo}
      BY <1>1, <2>5 DEF CurationInv, WholeInv
    <3>2. \A k \in Files : Mine(k) = Mine(c) => k = c  BY DEF Mine
    <3> QED BY <1>1, <2>1, <2>2, <3>1, <3>2
  <2>6. T \in SUBSET Files /\ T \subseteq job.todo  BY <1>1
  <2> HIDE DEF T
  <2> QED BY <1>1, <2>1, <2>3, <2>4, <2>5, <2>6, JobGoesOn
<1>3. CASE job.todo = {} /\ Tidy /\ UNCHANGED <<suites, stops>>
  BY <1>1, <1>3, JobEnds DEF Tidy
<1>4. CASE stops' = stops + 1 /\ Tidy /\ UNCHANGED suites
  BY <1>1, <1>4, FailingStops, JobStops DEF Tidy
<1> QED BY <1>2, <1>3, <1>4 DEF ReplaceNext

\* Before the first job the suites are sound.
LEMMA InitCuration == CInit => CurationInv
<1> SUFFICES ASSUME CInit PROVE CurationInv
  OBVIOUS
<1> USE DEF CInit
<1>1. \A s \in Suites, c \in Files : suites[s][c] = {}  OBVIOUS
<1>2. ApprovalInv  BY DEF ApprovalInv
<1>3. DiskInv
  <2>1. suites = [s \in Suites |-> [c \in Files |-> suites[s][c]]]  OBVIOUS
  <2>2. \A s \in Suites : FilesSound(approved, suites[s])
    BY <1>1 DEF FilesSound
  <2>3. \A s, t \in Destinations : FilesApart(suites[s], suites[t])
    BY <1>1 DEF FilesApart, Suites
  <2> QED BY <2>1, <2>2, <2>3 DEF DiskInv
<1>4. JobInv  BY DEF JobInv
<1>5. WholeInv
  <2>1. \A s \in Suites : FilesWhole(suites[s])
    BY <1>1 DEF FilesWhole
  <2> QED BY <2>1 DEF WholeInv
<1> QED BY <1>2, <1>3, <1>4, <1>5 DEF CurationInv

\* Every step of curation keeps the invariant.
LEMMA StepCuration == ASSUME CurationAssumption, CurationInv, [CNext]_cvars PROVE CurationInv'
<1>1. CASE \E b \in Batches : GeneratePacket(b) \/ ApproveQuestions(b) \/ BuildReference(b)
  BY <1>1, PaperworkKeeps DEF GeneratePacket, ApproveQuestions, BuildReference
<1>2. CASE \E b \in All : EditReference(b)
  BY <1>2, PaperworkKeeps DEF EditReference
<1>3. CASE \E b \in All : ApproveReference(b)
  BY <1>3, ApproveReferenceKeeps
<1>4. CASE BuildOrganizer
  BY <1>4, PaperworkKeeps DEF BuildOrganizer
<1>5. CASE \E b \in Batches, s \in Targets : StartPromotion(b, s)
  BY <1>5, StartPromotionKeeps
<1>6. CASE StartOrganizer \/ WritePending \/ ReplaceNext \/ KillPromotion
  BY <1>6, StartOrganizerKeeps, WritePendingKeeps, ReplaceNextKeeps, KillPromotionKeeps
<1>7. CASE UNCHANGED cvars
  BY <1>7, PaperworkKeeps DEF cvars
<1> QED BY <1>1, <1>2, <1>3, <1>4, <1>5, <1>6, <1>7 DEF CNext

\* CurationInv holds however packets are edited, failures met and tools killed.
THEOREM Promotions == CSpec => []CurationInv
<1>1. CInit => CurationInv  BY InitCuration
<1>2. CurationInv /\ [CNext]_cvars => CurationInv'
  BY StepCuration, CurationAssumption
<1> QED BY <1>1, <1>2, PTL DEF CSpec

\* SuitesSound follows from what the invariant says of the files.
LEMMA SoundFromInv == ASSUME CurationInv PROVE SuitesSound
<1>1. \A s \in Suites : \A x \in CasesOf(s) : \E c \in Files : x \in suites[s][c] /\ CaseSound(approved, x, c)
  BY DEF CasesOf, CurationInv, DiskInv, FilesSound
<1>2. ASSUME NEW s \in Suites, NEW x \in CasesOf(s)
      PROVE  /\ <<x.id[1], x.version>> \in approved
             /\ x.part["trace"] = x.part["plan"] /\ x.part["traceArtifact"] = x.part["artifact"]
             /\ x.part["answer"] = x.part["required"]
             /\ \A p \in Parts \ {"rows", "summaryArtifact"} : Formed(x, p)
  BY <1>1 DEF CaseSound
<1>3. ASSUME NEW s \in Suites, NEW x \in CasesOf(s), NEW y \in CasesOf(s), x.id = y.id
      PROVE  x = y
  <2>1. PICK c \in Files : x \in suites[s][c] /\ x.id = <<x.id[1], c>>
    BY <1>1 DEF CaseSound
  <2>2. PICK d \in Files : y \in suites[s][d] /\ y.id = <<y.id[1], d>>
    BY <1>1 DEF CaseSound
  <2>3. c = d  BY <1>3, <2>1, <2>2
  <2> QED BY <1>3, <2>1, <2>2, <2>3 DEF CurationInv, DiskInv, FilesSound
<1>4. ASSUME NEW s \in Destinations, NEW t \in Destinations, s # t
      PROVE  Asked(CasesOf(s)) \cap Asked(CasesOf(t)) = {}
  <2>1. \A x \in CasesOf(s), y \in CasesOf(t) : x.q # y.q
    BY <1>4 DEF CasesOf, CurationInv, DiskInv, FilesApart
  <2> QED BY <2>1 DEF Asked
<1>5. ASSUME stops = 0, job = Idle, NEW s \in Suites PROVE WholeBatches(s)
  <2>1. FilesWhole(suites[s])
    BY <1>5 DEF CurationInv, WholeInv, Idle, Suites, Destinations
  <2>2. \A d \in Files : \A y \in suites[s][d] : y \in CasesOf(s)
    BY DEF CasesOf
  <2> QED BY <1>1, <2>1, <2>2 DEF WholeBatches, FilesWhole
<1>6. stops = 0 /\ job = Idle => pending = {}
  BY DEF CurationInv, WholeInv
<1> QED BY <1>2, <1>3, <1>4, <1>5, <1>6 DEF SuitesSound

\* SuitesSound: a reviewed suite holds only approved, consistent cases, none
\* twice, none in two suites, and only a failure leaves a batch half promoted.
THEOREM SuitesAreSound == CSpec => []SuitesSound
<1>1. CurationInv => SuitesSound  BY SoundFromInv
<1> QED BY <1>1, Promotions, PTL
=============================================================================
