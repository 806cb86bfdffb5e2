-------------------------- MODULE MCSimpleBarrier --------------------------
(* The threads differ in nothing, but the run checks liveness, for which a  *)
(* symmetry set would not be sound.                                         *)
EXTENDS SimpleBarrier
=============================================================================
