\* Three requests for two permits, one query for each worker.
CONSTANTS
    Requests = {r1, r2, r3}
    None = None
    Permits = 2
    MaxQueries = 1
SPECIFICATION Spec
SYMMETRY Symmetry
CHECK_DEADLOCK FALSE
INVARIANTS
    TypeOK
    PermitsConserved
    WorkersBounded
    InterruptIsOwn
    SessionOutlivesWorkers
PROPERTY NoCallAfterCutoff
