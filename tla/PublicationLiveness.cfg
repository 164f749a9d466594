\* Two builds, no symmetry: each property is about what eventually happens.
CONSTANTS
    Builds = {b1, b2}
    Old = Old
    None = None
    MaxFaults = 2
    MaxCrashes = 1
SPECIFICATION Spec
CHECK_DEADLOCK FALSE
PROPERTIES
    LockReleased
    RecoveryCompletes
