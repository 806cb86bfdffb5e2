\* Up to two allocations fail.  A behaviour may end in a deleted pool.
CONSTANTS
    Threads = {T1, T2, T3}
    Sizes = {1, 9}
    Blocks = {1, 2, 3, 4, 5, 6, 7}
    zenLibBufPoolLimit = 2
    MaxFaults = 2
    MayFree = TRUE
    NULL = NULL
SYMMETRY Symmetry
SPECIFICATION Spec
CHECK_DEADLOCK FALSE
INVARIANTS
    UsedSlotHasUser
    NothingLeaks
    NoSharedBuffer
    BufferIsLargeEnough
