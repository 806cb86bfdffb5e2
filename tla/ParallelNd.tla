----------------------------- MODULE ParallelNd -----------------------------
(***************************************************************************)
(* parallel_nd(D0, D1, f) under OpenMP (zendnn_thread_parallel_nd.hpp): a  *)
(* parallel region whose threads walk their piece of the D0 by D1 range    *)
(* and call f for every item of it.  OpenMP may grant fewer threads than   *)
(* the region asks for; every thread then divides by the number granted.   *)
(***************************************************************************)
EXTENDS Balance211, FiniteSets

CONSTANTS
    max_threads,     \* omp_get_max_threads()
    MaxD             \* bound on either dimension

ASSUME ThreadsAssumption == max_threads \in Nat \ {0}
ASSUME MaxDAssumption == MaxD \in Nat

Tids == 0..(max_threads - 1)

VARIABLES
    D,       \* the dimensions of the running call, <<0, 0>> when none runs
    nthr,    \* threads of the region
    thr,     \* per thread, the state of its for_nd
    called   \* the items f has been called for

vars == <<D, nthr, thr, called>>

work_amount == D[1] * D[2]

Items == (0..(D[1] - 1)) \X (0..(D[2] - 1))

NotRunning == [pc |-> "none", iwork |-> 0, end |-> 0, d |-> <<0, 0>>]

Thr == [pc : {"none", "start", "loop", "end"}, iwork : Nat, end : Nat, d : Nat \X Nat]

\* One item is not worth a region of several threads.
adjust_num_threads(work) == IF work = 1 THEN 1 ELSE max_threads

\* The region starts with the threads that OpenMP grants.
ParallelNd(D0, D1, granted) ==
    /\ nthr = 0
    /\ granted <= adjust_num_threads(D0 * D1)
    /\ D' = <<D0, D1>>
    /\ nthr' = granted
    /\ thr' = [t \in Tids |-> IF t < granted THEN [NotRunning EXCEPT !.pc = "start"]
                              ELSE NotRunning]
    /\ called' = {}

\* for_nd: an empty range, or this thread's piece of it.
ForNd(t) ==
    /\ thr[t].pc = "start"
    /\ LET start == balance211_start(work_amount, nthr, t)
       IN  thr' = [thr EXCEPT ![t] =
                     IF work_amount = 0 THEN [@ EXCEPT !.pc = "end"]
                     ELSE [pc    |-> "loop",
                           iwork |-> start,
                           end   |-> balance211_end(work_amount, nthr, t),
                           d     |-> nd_iterator_init(start, D[1], D[2])]]
    /\ UNCHANGED <<D, nthr, called>>

Advanced(r) ==
    [r EXCEPT !.iwork = r.iwork + 1, !.d = nd_iterator_step(r.d, D[1], D[2])]

\* One turn of the loop: f(d0, d1) and a step of the iterator.
CallF(t) ==
    /\ thr[t].pc = "loop"
    /\ thr[t].iwork < thr[t].end
    /\ called' = called \cup {thr[t].d}
    /\ thr' = [thr EXCEPT ![t] = Advanced(thr[t])]
    /\ UNCHANGED <<D, nthr>>

\* The loop is over.
LoopEnds(t) ==
    /\ thr[t].pc = "loop"
    /\ thr[t].iwork >= thr[t].end
    /\ thr' = [thr EXCEPT ![t].pc = "end"]
    /\ UNCHANGED <<D, nthr, called>>

AllEnded == nthr > 0 /\ \A t \in Tids : t < nthr => thr[t].pc = "end"

\* The barrier at the end of the region: the call returns.
Return ==
    /\ AllEnded
    /\ D' = <<0, 0>>
    /\ nthr' = 0
    /\ thr' = [t \in Tids |-> NotRunning]
    /\ called' = {}

Init ==
    /\ D = <<0, 0>>
    /\ nthr = 0
    /\ thr = [t \in Tids |-> NotRunning]
    /\ called = {}

Next ==
    \/ \E D0, D1 \in 0..MaxD, granted \in 1..max_threads : ParallelNd(D0, D1, granted)
    \/ \E t \in Tids : ForNd(t) \/ CallF(t) \/ LoopEnds(t)
    \/ Return

Spec == Init /\ [][Next]_vars

-----------------------------------------------------------------------------
(* Correctness *)

\* The variables have the types of the code's, and f is called for items of
\* the range only.
TypeOK ==
    /\ D \in Nat \X Nat
    /\ nthr \in 0..max_threads
    /\ thr \in [Tids -> Thr]
    /\ called \subseteq Items

\* f is never called twice for an item: the item a thread is about to pass to
\* f has not been passed by any thread, and no other thread is about to.
AboutToCall(t) == thr[t].pc = "loop" /\ thr[t].iwork < thr[t].end

CalledOnce ==
    \A t \in Tids : AboutToCall(t) =>
        /\ thr[t].d \notin called
        /\ \A u \in Tids \ {t} : AboutToCall(u) => thr[u].d # thr[t].d

\* When the region is over f has been called for every item.
CalledForAll == AllEnded => called = Items
=============================================================================
