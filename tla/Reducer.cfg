\* Up to four threads, three jobs and three rows, jobs of one element and of
\* one and a half cache lines, in a runtime with barriers (OpenMP) and in one
\* without (TBB).
SPECIFICATION FairSpec
CONSTANTS
    MaxThreads = 4
    MaxJobs = 3
    MaxRows = 3
    JobSizes = {1, 3}
    Buffers = {4, 40}
    Calls <- SmallCalls
    cl = 2
    Runtimes = {TRUE, FALSE}
INVARIANTS DivisionIsValid CheapestIsKept InBounds NoDataRace ResultIsComplete
PROPERTY Terminates
