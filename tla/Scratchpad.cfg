\* Both kinds of scratchpad; two allocations may fail.
SPECIFICATION Spec
CONSTANTS
    Threads = {T1, T2}
    Primitives = {P1, P2, P3}
    Storages = {S1, S2, S3, S4}
    Sizes = {1, 2}
    ENABLE_CONCURRENT_EXEC = 1
    UINT = 8
    MaxFaults = 2
    Null = Null
SYMMETRY Symmetry
INVARIANTS
    EveryExecutionIsServed
    NoSharedStorage
    NothingLeaks
