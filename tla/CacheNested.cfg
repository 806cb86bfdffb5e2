\* A creates B; C makes two keys too few places for all.
CONSTANTS
    A = A
    B = B
    C = C
    Threads = {T1, T2}
    Keys = {A, B, C}
    Futures = {1, 2, 3, 4, 5, 6}
    NestedOf <- Nested
    Checks = {A}
    CanFail = {A, B}
    Capacities = {0, 2}
    MaxCalls = 5
    NoKey = NoKey
    NoFuture = NoFuture
    NoThread = NoThread
SYMMETRY Symmetry
SPECIFICATION SpecLru
\* The calls are bounded by MaxCalls.
CHECK_DEADLOCK FALSE
INVARIANTS
    TypeOK
PROPERTIES
    OutcomesAreFinal
    OnlyFailuresAreRemoved
    ImplementsLru
