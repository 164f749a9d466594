\* A publisher that dies between its two renames, and a later build.
CONSTANTS
    Builds = {b1, b2}
    Old = Old
    None = None
    MaxFaults = 0
    MaxCrashes = 1
SPECIFICATION Spec
CHECK_DEADLOCK FALSE
PROPERTY AbsentTargetRestored
