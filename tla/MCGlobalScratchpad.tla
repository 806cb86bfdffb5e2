-------------------------- MODULE MCGlobalScratchpad --------------------------
(* Small instances of GlobalScratchpad for TLC. *)
EXTENDS GlobalScratchpad, TLC

\* Neither threads nor primitives nor storages differ.
Symmetry == Permutations(Threads) \cup Permutations(Storages) \cup Permutations(Primitives)
=============================================================================
