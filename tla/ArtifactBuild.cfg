\* Five tables in three layers, three failing calls.
CONSTANTS
    Bronze <- MCBronze
    Silver <- MCSilver
    Gold <- MCGold
    MaxFaults = 3
SPECIFICATION Spec
INVARIANTS
    TypeOK
    CandidateComplete
    RefusalLeavesNothing
    StampFresh
    ResidueReported
PROPERTIES
    AmbiguousStageKept
    BuildEnds
