\* A does not ask how its creation of B ended, as ref_concat_t, ref_sum_t and
\* ref_fused_convolution_fwd_t do not.
CONSTANTS
    A = A
    B = B
    C = C
    Threads = {T1, T2}
    Keys = {A, B}
    Futures = {1, 2, 3, 4, 5}
    NestedOf <- Nested
    Checks = {}
    CanFail = {B}
    Capacities = {2}
    MaxCalls = 2
    NoKey = NoKey
    NoFuture = NoFuture
    NoThread = NoThread
SPECIFICATION FairSpec
CHECK_DEADLOCK FALSE
PROPERTIES
    ErrorsAreReported
