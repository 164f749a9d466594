\* Up to eight units of time, so that both stages can wait, repair and retry.
CONSTANTS
    Budget = 8
    None = None
SPECIFICATION Spec
CHECK_DEADLOCK FALSE
INVARIANTS
    TypeOK
    RepairOrRetry
    SummaryFits
    CallsInTime
