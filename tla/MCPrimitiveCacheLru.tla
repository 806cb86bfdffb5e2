------------------------ MODULE MCPrimitiveCacheLru ------------------------
EXTENDS PrimitiveCacheLru, TLC

CONSTANTS A, B, C

\* A creates a nested B.
Nested == [k \in Keys |-> IF k = A THEN B ELSE NoKey]

\* The threads differ in nothing.
Symmetry == Permutations(Threads)
=============================================================================
