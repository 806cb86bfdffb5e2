\* Every range up to 3 by 3, with up to three threads: fewer items than
\* threads, as many, and counts that the team does not divide.
SPECIFICATION Spec
CONSTANTS
    max_threads = 3
    MaxD = 3
INVARIANTS CalledOnce CalledForAll
