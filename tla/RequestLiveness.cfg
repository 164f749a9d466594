\* Two requests for one permit, up to two queries for a worker; no symmetry.
CONSTANTS
    Requests = {r1, r2}
    None = None
    Permits = 1
    MaxQueries = 2
SPECIFICATION Spec
CHECK_DEADLOCK FALSE
PROPERTIES
    RequestEnds
    PermitReturns
    DrainCompletes
