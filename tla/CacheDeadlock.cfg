CONSTANTS
    A = A
    B = B
    C = C
    Threads = {T1, T2}
    Keys = {A, B}
    Futures = {1, 2, 3, 4, 5}
    NestedOf <- Nested
    Checks = {A}
    CanFail = {A}
    Capacities = {1}
    MaxCalls = 3
    NoKey = NoKey
    NoFuture = NoFuture
    NoThread = NoThread
SPECIFICATION FairSpec
CHECK_DEADLOCK FALSE
PROPERTIES
    WaitersAreNotified
