\* Two intruding acts and two failing calls against a workspace with two spill
\* files; three failures or kills of an admission; two batches and the
\* organizer's, three questions, one packet edited by hand once (three
\* kinds of edits), one failure of a promotion.
CONSTANTS
    Kinds = {"parquet", "runtime"}
    Spills <- MCSpills
    MaxIntrusions = 2
    MaxFailures = 2
    MaxTrouble = 3
    b1 = b1
    b2 = b2
    org = org
    q1 = q1
    q2 = q2
    q3 = q3
    Batches = {b1, b2}
    Organizer = org
    Categories <- MCCategories
    Questions = {q1, q2, q3}
    Targets = {"canonical", "blind_development"}
    Historic = {b1, b2}
    HandEdits <- MCHandEdits
    MaxVersion = 2
    MaxEdited = 1
    MaxStops = 1
SYMMETRY Symmetry
CHECK_DEADLOCK FALSE
SPECIFICATION Spec
INVARIANTS
    CleanupHonest
    OutcomeHonest
    SuitesSound
PROPERTIES
    ForeignKept
