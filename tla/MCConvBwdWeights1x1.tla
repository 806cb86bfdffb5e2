------------------------ MODULE MCConvBwdWeights1x1 ------------------------
(* Small instances of ConvBwdWeights1x1 for TLC. *)
EXTENDS ConvBwdWeights1x1, TLC

CONSTANTS Threads, InPlaceThreads, Groups

Problem(threads, mb, groups, oc, ic, sp) ==
    [nthreads |-> threads, mb |-> mb, ngroups |-> groups, nb_oc |-> oc, nb_ic |-> ic, sp_nb |-> sp]

\* The source is transposed, one place and one or two input blocks at a time.
Transposed(p, blocks) ==
    [nb_reduce_blocking |-> 1, nb_reduce_blocking_max |-> 1,
     nb_bcast_blocking |-> blocks, nb_bcast_blocking_max |-> 2, transpose_src |-> TRUE] @@ p

\* The source is read in place, two places at a time.
InPlace(p) ==
    [nb_reduce_blocking |-> 2, nb_reduce_blocking_max |-> 2,
     nb_bcast_blocking |-> 1, nb_bcast_blocking_max |-> 2, transpose_src |-> FALSE] @@ p

\* Problems that give a thread several steps over images, places, groups and
\* input blocks, threads that share their source and threads that do not; and
\* one in which each of two threads takes whole images.
SmallShapes ==
    {Transposed(Problem(n, 2, g, 2, 3, 1), 2) : n \in Threads, g \in Groups}
        \cup {InPlace(Problem(n, 2, g, 3, 2, 3)) : n \in InPlaceThreads, g \in Groups}
        \cup {Transposed(Problem(2, 7, 1, 1, 1, 3), 1)}
=============================================================================
