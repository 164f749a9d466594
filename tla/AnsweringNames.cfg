\* Every product type of the plan listed by name.
CONSTANTS
    Focuses = {"answers"}
    Tables <- MCTables
    Reports <- MCReports
    MaxChanges = 2
    Variants <- MCVariants
    MaxRows = 4
    Limit = 2
    Batch = 2
    Catalogs <- MCCatalogs
    Plans <- MCPlans
    MaxCandidates = 3
    MaxFields = 5
    MaxRecords = 3
    MaxTable = 1
    MaxDirect = 9
    MaxSummaries = 14
    MaxClaims = 7
CHECK_DEADLOCK FALSE
SPECIFICATION Spec
INVARIANTS
    NamesOfEachAnswered
