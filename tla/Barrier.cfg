\* Rounds without end.
CONSTANTS
    Threads = {T1, T2, T3, T4, T5}
SPECIFICATION SharedSpec
PROPERTIES ImplementsBarrier EveryoneGetsOut
