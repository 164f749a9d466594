\* Three builds, two failing calls and one crash.
CONSTANTS
    Builds = {b1, b2, b3}
    Old = Old
    None = None
    MaxFaults = 2
    MaxCrashes = 1
SPECIFICATION Spec
SYMMETRY Symmetry
CHECK_DEADLOCK FALSE
INVARIANTS
    TypeOK
    TargetNeverTorn
    OneStage
    RemnantsClosed
    FailureRestoresTarget
    RecoveredBeforePublish
PROPERTIES
    DurableStays
    ReplacedOnRequest
    RefinesStore
