\* A publisher that dies while it deletes its tombstone, and a later build.
CONSTANTS
    Builds = {b1, b2}
    Old = Old
    None = None
    MaxFaults = 0
    MaxCrashes = 1
SPECIFICATION Spec
CHECK_DEADLOCK FALSE
PROPERTY ResumesPartialTombstone
