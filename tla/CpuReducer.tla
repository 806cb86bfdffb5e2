----------------------------- MODULE CpuReducer -----------------------------
(***************************************************************************)
(* cpu_reducer_t (cpu/x64/cpu_reducer.cpp and .hpp) at work in a kernel of *)
(* a convolution's backward pass (ker_bias of jit_avx2_convolution.cpp).   *)
(* Every thread sums its rows of its group's jobs, the first thread of a   *)
(* group into the destination and the others into the reducer's space; the *)
(* group meets at a barrier; then each thread adds its cache lines of the  *)
(* others' sums to the destination.                                        *)
(*                                                                         *)
(* The value of an element is the set of terms <<job, row>> summed in it.  *)
(* Of the group's barrier only what it promises is used.                   *)
(***************************************************************************)
EXTENDS ReduceBalancer, FiniteSets

CONSTANTS
    cl,          \* elements in a cache line
    Runtimes     \* whether the threads of a region may wait for each other

ASSUME LineAssumption == cl \in Nat \ {0}
ASSUME RuntimesAssumption == Runtimes \subseteq BOOLEAN

VARIABLES
    thr_syncable,    \* of Runtimes, the one the library is built for
    thr,       \* per thread of the region, where it is in ker
    arrived,   \* per group, the threads that have arrived at its barrier
    dst,       \* the destination
    space      \* key_reducer_space of the scratchpad

built == <<balancerVars, thr_syncable>>
vars == <<built, thr, arrived, dst, space>>

nthr == call.nthr
Tids == 0..(nthr - 1)

Garbage == <<-1, -1>>    \* the element was never written
Twice == <<-2, -2>>      \* a term was added twice

\* The sum of the values that f lists.
Sum(f) ==
    IF \A i, j \in DOMAIN f : i # j => f[i] \cap f[j] = {}
    THEN UNION {f[i] : i \in DOMAIN f} ELSE {Twice}

-----------------------------------------------------------------------------
(* Addresses *)

space_per_thread == best.njobs_per_group_ub * call.job_size

\* MUTANT of space_size: there is space for one group only.
space_size_one_group == (best.nthr_per_group - 1) * space_per_thread

space_size == best.ngroups * (best.nthr_per_group - 1) * space_per_thread

ithr_njobs(t) == grp_njobs(group_id(t))
ithr_job_off(t) == grp_job_off(group_id(t))

ToDst(t) == id_in_group(t) = 0

\* get_local_ptr: an offset in dst for the first thread of a group, in space
\* for the others.
local_off(t) ==
    IF ToDst(t) THEN ithr_job_off(t) * call.job_size
    ELSE (group_id(t) * (best.nthr_per_group - 1) + id_in_group(t) - 1) * space_per_thread

\* The elements of thread t's partial sums.
Local(t) == local_off(t)..(local_off(t) + ithr_njobs(t) * call.job_size - 1)

\* MUTANT of Slice: every thread adds up all the elements.
SliceWhole(t) == 0..(ithr_njobs(t) * call.job_size - 1)

\* The lines of the group's jobs that thread t adds up, as offsets.
Slice(t) ==
    LET size  == ithr_njobs(t) * call.job_size
        lines == div_up(size, cl)
    IN  {e \in 0..(size - 1) : e \div cl \in Piece(lines, best.nthr_per_group, id_in_group(t))}

Master(t) == t - id_in_group(t)

\* What thread t adds up for the element at offset e: one source for every
\* other thread of the group, space_per_thread apart.
Source(t, k, e) == local_off(Master(t) + 1) + (k - 1) * space_per_thread + e

Sources(t, e) == {Source(t, k, e) : k \in 1..(best.nthr_per_group - 1)}

-----------------------------------------------------------------------------

Out == [pc |-> "out", row |-> 0, end |-> 0]

AllOut == \A t \in Tids : thr[t].pc = "out"
AllDone == \A t \in Tids : thr[t].pc = "done"

Balance ==
    /\ TryCandidate
    /\ UNCHANGED <<thr_syncable, thr, arrived, dst, space>>

\* The primitive is executed: init() of the reducer, then the region.  What is
\* in the destination and in the scratchpad is what others left there.
Execute ==
    /\ Balanced
    /\ AllOut
    /\ thr' = [t \in Tids |-> [Out EXCEPT !.pc = "start"]]
    /\ arrived' = [g \in 0..(best.ngroups - 1) |-> {}]
    /\ dst' = [e \in 0..(call.njobs * call.job_size - 1) |-> {Garbage}]
    /\ space' = [e \in 0..(space_size - 1) |-> {Garbage}]
    /\ UNCHANGED built

\* ker starts: a thread without jobs leaves, the others divide the rows.
Start(t) ==
    /\ thr[t].pc = "start"
    /\ thr' = [thr EXCEPT ![t] =
                 IF ithr_njobs(t) = 0 THEN [@ EXCEPT !.pc = "done"]
                 ELSE LET team == best.nthr_per_group
                          id   == id_in_group(t)
                          rows == call.reduction_size
                      IN  [pc |-> "compute", row |-> balance211_start(rows, team, id),
                           end |-> balance211_end(rows, team, id)]]
    /\ UNCHANGED <<built, arrived, dst, space>>

FirstRow(t) ==
    thr[t].row = balance211_start(call.reduction_size, best.nthr_per_group, id_in_group(t))

\* MUTANT of Partial: the partial sums are not cleared at the first row.
PartialNotCleared(t, mem, e) ==
    LET job == ithr_job_off(t) + (e - local_off(t)) \div call.job_size
    IN  Sum(<<mem[e], {<<job, thr[t].row>>}>>)

\* The row's terms of all the group's jobs; the first row clears the sums.
Partial(t, mem, e) ==
    LET job == ithr_job_off(t) + (e - local_off(t)) \div call.job_size
    IN  Sum(<<IF FirstRow(t) THEN {} ELSE mem[e], {<<job, thr[t].row>>}>>)

ComputeRow(t) ==
    /\ thr[t].pc = "compute"
    /\ thr[t].row < thr[t].end
    /\ IF ToDst(t)
       THEN /\ dst' = [e \in DOMAIN dst |-> IF e \in Local(t) THEN Partial(t, dst, e) ELSE dst[e]]
            /\ UNCHANGED space
       ELSE /\ space' = [e \in DOMAIN space |->
                           IF e \in Local(t) THEN Partial(t, space, e) ELSE space[e]]
            /\ UNCHANGED dst
    /\ thr' = [thr EXCEPT ![t].row = @ + 1]
    /\ UNCHANGED <<built, arrived>>

\* reduce(): nothing to do for a group of one thread; else the barrier.
Reduce(t) ==
    /\ thr[t].pc = "compute"
    /\ thr[t].row >= thr[t].end
    /\ IF best.nthr_per_group = 1 \/ idle(t)
       THEN thr' = [thr EXCEPT ![t].pc = "done"] /\ UNCHANGED arrived
       ELSE /\ thr' = [thr EXCEPT ![t].pc = "barrier"]
            /\ arrived' = [arrived EXCEPT ![group_id(t)] = @ \cup {t}]
    /\ UNCHANGED <<built, dst, space>>

\* MUTANT of MayPass: the barrier counts the jobs, not the threads.
MayPassByJobs(t) == Cardinality(arrived[group_id(t)]) = ithr_njobs(t)

\* Everybody t waits for at the barrier has come.  Without barriers the sums
\* are made in one region and added up in the next one.
MayPass(t) ==
    IF thr_syncable
    THEN Cardinality(arrived[group_id(t)]) = best.nthr_per_group
    ELSE \A u \in Tids : thr[u].pc \notin {"start", "compute"}

PassBarrier(t) ==
    /\ thr[t].pc = "barrier"
    /\ MayPass(t)
    /\ thr' = [thr EXCEPT ![t].pc = "reduce"]
    /\ UNCHANGED <<built, arrived, dst, space>>

\* Once more around the loop in which the barrier waits.
Spin(t) ==
    /\ thr[t].pc = "barrier"
    /\ ~MayPass(t)
    /\ UNCHANGED vars

\* What the generated driver makes of the element at offset e of the group's
\* part of dst: it is loaded, the sources are added, it is stored.
Accumulated(t, e) ==
    Sum([k \in 0..(best.nthr_per_group - 1) |->
            IF k = 0 THEN dst[local_off(Master(t)) + e] ELSE space[Source(t, k, e)]])

\* reduce_nolock
ReduceNolock(t) ==
    LET off == local_off(Master(t))
    IN  /\ thr[t].pc = "reduce"
        /\ dst' = [e \in DOMAIN dst |->
                     IF e - off \in Slice(t) THEN Accumulated(t, e - off) ELSE dst[e]]
        /\ thr' = [thr EXCEPT ![t].pc = "done"]
        /\ UNCHANGED <<built, arrived, space>>

\* The region is over.
Return ==
    /\ AllDone
    /\ thr' = [t \in Tids |-> Out]
    /\ arrived' = <<>>
    /\ dst' = <<>>
    /\ space' = <<>>
    /\ UNCHANGED built

Init ==
    /\ BalancerInit
    /\ thr_syncable \in Runtimes
    /\ thr = [t \in Tids |-> Out]
    /\ arrived = <<>>
    /\ dst = <<>>
    /\ space = <<>>

Step(t) ==
    Start(t) \/ ComputeRow(t) \/ Reduce(t) \/ PassBarrier(t) \/ Spin(t) \/ ReduceNolock(t)

Next == Balance \/ Execute \/ (\E t \in Tids : Step(t)) \/ Return

Spec == Init /\ [][Next]_vars

\* OpenMP runs all threads of a region; the region then ends.
FairSpec ==
    /\ Spec
    /\ WF_vars(Return)
    /\ \A t \in UNION {0..(c.nthr - 1) : c \in Calls} : WF_vars(t \in Tids /\ Step(t))

-----------------------------------------------------------------------------
(* Correctness *)

Computes(t) == thr[t].pc = "compute" /\ thr[t].row < thr[t].end
Reduces(t) == thr[t].pc = "reduce"

\* What the next step of a thread writes and reads, as <<array, offset>>.
Writes(t) ==
    CASE Computes(t) -> {IF ToDst(t) THEN "dst" ELSE "space"} \X Local(t)
      [] Reduces(t)  -> {"dst"} \X {local_off(Master(t)) + e : e \in Slice(t)}
      [] OTHER       -> {}

Reads(t) ==
    IF Reduces(t) THEN {"space"} \X UNION {Sources(t, e) : e \in Slice(t)} ELSE {}

Elements == ({"dst"} \X DOMAIN dst) \cup ({"space"} \X DOMAIN space)

\* No thread reaches beyond the destination or the space that was booked.
InBounds == \A t \in Tids : Writes(t) \cup Reads(t) \subseteq Elements

\* No thread writes what another one writes or reads at the same time.
NoDataRace ==
    \A t, u \in Tids : t # u => Writes(t) \cap (Writes(u) \cup Reads(u)) = {}

\* When the region is over every element of the destination is the sum of all
\* the terms of its job, each added once.
ResultIsComplete ==
    AllDone => \A e \in DOMAIN dst :
        dst[e] = {e \div call.job_size} \X (0..(call.reduction_size - 1))

\* Every execution ends.
Terminates == (\E t \in Tids : thr[t].pc = "start") ~> AllOut
=============================================================================
