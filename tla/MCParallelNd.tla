---------------------------- MODULE MCParallelNd ----------------------------
(* Small instances of ParallelNd for TLC. *)
EXTENDS ParallelNd
=============================================================================
