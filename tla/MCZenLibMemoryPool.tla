------------------------- MODULE MCZenLibMemoryPool -------------------------
(* Small instances of ZenLibMemoryPool for TLC. *)
EXTENDS ZenLibMemoryPool, TLC

Symmetry == Permutations(Threads)
=============================================================================
