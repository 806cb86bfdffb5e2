\* A creates B, in a cache that is resized meanwhile; B may fail, and A does not ask.
CONSTANTS
    A = A
    B = B
    C = C
    Threads = {T1, T2, T3}
    Keys = {A, B}
    Futures = {1, 2, 3, 4, 5, 6}
    NestedOf <- Nested
    Checks = {}
    CanFail = {B}
    Capacities = {0, 1, 2}
    MaxCalls = 3
    NoKey = NoKey
    NoFuture = NoFuture
    NoThread = NoThread
SPECIFICATION FairSpec
\* The calls are bounded by MaxCalls.
CHECK_DEADLOCK FALSE
INVARIANTS
    ListAndMapperAgree
    WithinCapacity
    KeysPointToLivingObjects
    InvalidatedEntryIsBeingRemoved
PROPERTIES
    EveryCallReturns
