CONSTANTS
    Threads = {T1, T2, T3}
    Values = {V1, V2}
    Default = V1
    NoReply = NoReply
    Accepted = Accepted
    Refused = Refused
    MaxCalls = 2
SPECIFICATION FairSettingSpec
\* The calls are bounded by MaxCalls.
CHECK_DEADLOCK FALSE
INVARIANTS GetsAreFinal NoDataRace
PROPERTIES ImplementsSetting EveryCallReturns
