---------------------------- MODULE MCGemmDriver ----------------------------
(* Small instances of GemmDriver for TLC: small blocks and thresholds. *)
EXTENDS GemmDriver

\* Rows are copied in pairs, k in blocks of two.
SmallBlocks ==
    [um |-> 2, bm |-> 2, un |-> 1, bn |-> 2, uk |-> 1, bk |-> 2, bk_traditional |-> 2,
     k_min |-> 1, multiplier |-> 1, n2d_max |-> 2, m2d_min |-> 5]

\* With three threads a product of 4 by 4 by 4 is worth copying, one of 1 by 1
\* or of 3 columns is not.
SmallThresholds ==
    [num |-> 2, den |-> 1, block |-> 3, bm |-> 1, mn |-> 1, n |-> [b \in BOOLEAN |-> 1],
     k |-> [b \in BOOLEAN |-> 1]]

A == [m |-> 3, n |-> 3, k |-> 3, f32 |-> FALSE, transb |-> FALSE, force_nocopy |-> FALSE,
      nthr_max |-> 3, goal |-> 3, packed |-> "none", plan |-> "row_1d", split |-> <<1, 1, 1>>]

\* For jit_avx_gemm_f32: up to four parts of k.
Forced ==
    {[A EXCEPT !.f32 = TRUE, !.force_nocopy = TRUE, !.m = m, !.n = n, !.k = k, !.nthr_max = t,
               !.goal = t] :
       m \in {1, 5, 9}, n \in {2, 5}, k \in {5, 7, 12}, t \in {1, 2, 3, 5}}

\* Slices in three dimensions, with k divided or not.
InThree ==
    {[A EXCEPT !.plan = "mnk_3d", !.split = s, !.packed = p] :
       s \in {<<1, 1, 2>>, <<1, 1, 3>>, <<3, 1, 1>>, <<1, 2, 1>>}, p \in {"none", "b"}}
    \cup {[A EXCEPT !.plan = "mnk_3d", !.goal = 4, !.nthr_max = 4, !.split = <<2, 1, 2>>]}

\* Rows divided between two threads (from ten on) or four (from twenty on), and
\* columns between the others; six columns leave one of four threads idle.
InTwo ==
    {[A EXCEPT !.plan = "col_major_2d", !.m = size[1], !.n = size[2], !.k = 1, !.goal = g,
               !.nthr_max = g] :
       size \in {<<10, 1>>, <<21, 3>>, <<22, 5>>}, g \in {2, 4}}
    \cup {[A EXCEPT !.plan = "col_major_2d", !.m = size[1], !.n = size[2], !.k = 1,
                     !.goal = 8, !.nthr_max = 8] :
             size \in {<<10, 6>>, <<22, 3>>}}

\* A copied together, in blocks of four rows and one.
Together ==
    {[A EXCEPT !.plan = "shared_a", !.m = 5, !.n = 2, !.packed = p, !.goal = g] :
       p \in {"none", "a", "b"}, g \in {2, 3}}

\* Products of floats on either side of the thresholds.
Floats ==
    {[A EXCEPT !.m = size[1], !.n = size[2], !.k = 4, !.f32 = TRUE, !.plan = plan, !.packed = p,
               !.goal = g, !.transb = b] :
       size \in {<<1, 2>>, <<1, 4>>, <<4, 4>>}, b \in BOOLEAN, plan \in {"row_1d", "col_1d", "col_major_2d", "shared_a"},
       p \in {"none", "b"}, g \in {1, 2, 3}}

SmallProblems == Forced \cup InTwo \cup InThree \cup Together \cup Floats
=============================================================================
