------------------------ MODULE MCSetBeforeFirstGet ------------------------
EXTENDS SetBeforeFirstGet, TLC

\* The threads differ in nothing.
Symmetry == Permutations(Threads)
=============================================================================
