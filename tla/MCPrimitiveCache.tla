-------------------------- MODULE MCPrimitiveCache --------------------------
(* Small instances of PrimitiveCache for TLC. *)
EXTENDS PrimitiveCache, TLC

CONSTANTS A, B, C

\* A creates a nested B.
Nested == [k \in Keys |-> IF k = A THEN B ELSE NoKey]

Symmetry == Permutations(Threads)
=============================================================================
