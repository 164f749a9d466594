\* Two builds that overlap; nothing fails and nothing crashes.
CONSTANTS
    Builds = {b1, b2}
    Old = Old
    None = None
    MaxFaults = 0
    MaxCrashes = 0
SPECIFICATION Spec
CHECK_DEADLOCK FALSE
INVARIANT RemnantsAlwaysClosed
