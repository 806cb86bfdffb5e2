\* Regions may get fewer threads than they ask for; one allocation may fail.
SPECIFICATION FairDriverSpec
CONSTANTS
    BM = 4
    BN = 3
    BK = 2
    BM_SMALL = 2
    BN_SMALL = 1
    BK_SMALL = 2
    STACK_K_CAPACITY = 10
    arg <- SmallBlocks
    nocopy <- SmallThresholds
    Problems <- SmallProblems
    MayShrink = TRUE
    MaxFaults = 1
INVARIANTS
    SlicesAreExact
    PartitionIsExact
    NobodyRaces
    ProductIsComplete
PROPERTY
    EveryCallReturns
