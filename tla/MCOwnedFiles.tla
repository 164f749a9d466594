---------------------------- MODULE MCOwnedFiles ----------------------------
(* Three programs that remove or replace files which other programs also touch:
   the verifiers' workspaces, the admission of source data and the promotion of
   benchmark cases.  They share no state; a behaviour runs one of them.        *)
EXTENDS OwnedWorkspace, SourceAdmission, Curation, TLC

CONSTANTS b1, b2, org, q1, q2, q3

VARIABLE focus     \* the program that runs

MCSpills     == <<"e1", "e2">>
MCCategories == <<"c1", "c2">>
\* A plan changed together with its trace, an answer changed alone, a row that no
\* longer parses.
MCHandEdits  == {<<{"plan", "trace"}, "other">>, <<{"answer"}, "other">>, <<{"rows"}, "malformed">>}
Symmetry     == Permutations(Questions) \cup Permutations(Batches)

Init ==
    /\ focus \in {"workspace", "admission", "curation"}
    /\ WInit /\ AInit /\ CInit
    /\ focus # "workspace" => kind = "parquet"
    /\ focus # "admission" => tool = "admit" /\ candidate /\ active[1] = "none"
    /\ focus # "curation" => packet[Organizer].q["c1"] = q1 /\ packet[Organizer].q["c2"] = q2

Workspace == focus = "workspace" /\ WNext /\ UNCHANGED <<avars, cvars>>
Admission == focus = "admission" /\ ANext /\ UNCHANGED <<wvars, cvars>>
Promotion == focus = "curation" /\ CNext /\ UNCHANGED <<wvars, avars>>

Next == (Workspace \/ Admission \/ Promotion) /\ UNCHANGED focus
Spec == Init /\ [][Next]_<<wvars, avars, cvars, focus>>
=============================================================================
