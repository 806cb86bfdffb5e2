------------------------------ MODULE GemmKSum ------------------------------
(***************************************************************************)
(* jit_avx_gemm_f32 (cpu/x64/gemm/f32/jit_avx_gemm_f32.cpp), for the       *)
(* OpenMP build: the threads that compute the same block of C from         *)
(* different parts of k write buffers of their own, publish them in        *)
(* ompstatus, and each adds some columns of all buffers to C.              *)
(*                                                                         *)
(* A column of a block of C is the set of parts of k summed in it; the     *)
(* rows of a block are treated alike and left out.                         *)
(***************************************************************************)
EXTENDS NocopyPartition, FiniteSets

CONSTANTS
    Problems,     \* records [m, n, k, nthrs, nthr_max] of positive numbers, where nthrs
                  \* is at most nthr_max, the threads there are
    MayShrink,    \* BOOLEAN: OpenMP may give a region fewer threads than it asks for
    MaxFaults,    \* bound on the drivers and allocations that fail, a number
    STACK_K_CAPACITY    \* the greatest k for which a thread's stack is enough

VARIABLES
    prob,         \* the call's arguments
    part,         \* how they are divided among the threads
    region,       \* "out", "compute", "between", "later" or "returned"
    team,         \* the threads of the region
    thr,          \* per thread, where it is
    ompstatus,    \* per block and part of k: the part is computed
    c,            \* per block and column of C
    c_buffers,    \* per block, part of k and column
    st,           \* "success" or "error"
    faults        \* drivers and allocations that have failed (bound, not code)

vars == <<prob, part, region, team, thr, ompstatus, c, c_buffers, st, faults>>

nthr_k == part.nthr_k
nthr_mn == part.nthr_m * part.nthr_n
nthr_to_use == nthr_mn * nthr_k

Team == 0..(team - 1)

-----------------------------------------------------------------------------
(* A thread's block *)

Mn(t) == t % nthr_mn

\* Parts 0 and nthr_k - 1 are swapped.
ithr_k(t) ==
    LET i == t \div nthr_mn
    IN  CASE i = 0 -> nthr_k - 1
          [] i # 0 /\ i = nthr_k - 1 -> 0
          [] OTHER -> i

\* Places from to to - 1 of a dimension of size d that block i has.
BlockRange(i, b, d) == (b * i)..(Lesser(b * (i + 1), d) - 1)

MRange(mn) == BlockRange(mn % part.nthr_m, part.MB, prob.m)
NRange(mn) == BlockRange(mn \div part.nthr_m, part.NB, prob.n)

myN(t) == Cardinality(NRange(Mn(t)))

Blocks == 0..(nthr_mn - 1)
Parts == 0..(nthr_k - 1)
Columns(mn) == 0..(Cardinality(NRange(mn)) - 1)

\* The columns of its block that a thread sums.
MyColumns(t) == t_range(ithr_k(t), nthr_k, myN(t))

Garbage == -1
Twice == -2
Add(a, b) == IF a \cap b = {} THEN a \cup b ELSE {Twice}

\* Adding part ik to the columns of thread t in block b of C.
Added(t, ik) ==
    [c EXCEPT ![Mn(t)] = [col \in DOMAIN @ |->
        IF col \in MyColumns(t) THEN Add(@[col], c_buffers[<<Mn(t), ik>>][col]) ELSE @[col]]]

-----------------------------------------------------------------------------

At(t, pc) == thr[t].pc = pc
Goto(t, pc) == thr' = [thr EXCEPT ![t].pc = pc]

Teams(n) == IF MayShrink THEN 1..n ELSE {n}

Out == [pc |-> "out", ik |-> 0]

InCall == UNCHANGED <<prob, part, region, team>>

\* The call starts: the partition, for nthrs threads, the buffers, and the region,
\* which asks for all threads there are.  (With work for one thread the code needs
\* no region; here that thread works alone in one.)
Call ==
    /\ region = "out"
    /\ region' = "compute"
    /\ team' \in Teams(prob.nthr_max)
    /\ thr' = [t \in 0..(team' - 1) |->
                 [Out EXCEPT !.pc = IF t < nthr_to_use THEN "compute" ELSE "done"]]
    /\ ompstatus' = [p \in Blocks \X Parts |-> 0]
    /\ c' = [mn \in Blocks |-> [col \in Columns(mn) |-> {Garbage}]]
    /\ c_buffers' = [p \in Blocks \X Parts |-> [col \in Columns(p[1]) |-> {Garbage}]]
    /\ UNCHANGED <<prob, part, st, faults>>

\* The flags and buffers, or the threads' work space, cannot be allocated: the
\* call returns before it has touched anything.
CallFails ==
    /\ region = "out"
    /\ nthr_k > 1 \/ prob.k > STACK_K_CAPACITY
    /\ faults < MaxFaults
    /\ faults' = faults + 1
    /\ UNCHANGED <<prob, part, region, team, thr, ompstatus, c, c_buffers, st>>

\* More threads are needed than the region has: nobody waits for anybody.
sum_later == team < nthr_to_use

AfterCompute == IF nthr_k > 1 /\ ~sum_later THEN "own" ELSE "done"

\* What sgemm_nocopy_driver leaves in a block: whatever blocking it chooses,
\* the first values of k replace what was there (beta is 0) and the others are
\* added, so every column has the thread's part of k and nothing else.
Driven(t) == [col \in Columns(Mn(t)) |-> {ithr_k(t)}]

\* The code computes and publishes only a block that is not empty; by
\* PartitionIsExact none is.  Part 0 goes to C, the others to their buffers.
Compute(t) ==
    LET mn == Mn(t)
    IN  /\ At(t, "compute")
        /\ IF ithr_k(t) = 0
           THEN c' = [c EXCEPT ![mn] = Driven(t)] /\ UNCHANGED c_buffers
           ELSE c_buffers' = [c_buffers EXCEPT ![<<mn, ithr_k(t)>>] = Driven(t)] /\ UNCHANGED c
        /\ Goto(t, "publish")
        /\ InCall /\ UNCHANGED <<ompstatus, st, faults>>

\* The driver fails, and the thread leaves the region.
ComputeFails(t) ==
    /\ At(t, "compute")
    /\ faults < MaxFaults
    /\ faults' = faults + 1
    /\ st' = "error"
    /\ Goto(t, "done")
    /\ InCall /\ UNCHANGED <<ompstatus, c, c_buffers>>

\* MUTANT of Publish: part 0 has no buffer, and is not published.
PublishBuffer(t) ==
    /\ At(t, "publish")
    /\ ompstatus' = IF ithr_k(t) > 0 THEN [ompstatus EXCEPT ![<<Mn(t), ithr_k(t)>>] = 1]
                    ELSE ompstatus
    /\ Goto(t, AfterCompute)
    /\ InCall /\ UNCHANGED <<c, c_buffers, st, faults>>

Publish(t) ==
    /\ At(t, "publish")
    /\ ompstatus' = IF nthr_k > 1 /\ ~sum_later
                    THEN [ompstatus EXCEPT ![<<Mn(t), ithr_k(t)>>] = 1] ELSE ompstatus
    /\ Goto(t, AfterCompute)
    /\ InCall /\ UNCHANGED <<c, c_buffers, st, faults>>

Published(t, ik) == ompstatus[<<Mn(t), ik>>] = 1

\* The part a thread adds after ik, or nthr_k; it has added its own first.
NextPart(t, ik) ==
    LET rest == {i \in (ik + 1)..(nthr_k - 1) : i # ithr_k(t)}
    IN  IF rest = {} THEN nthr_k ELSE CHOOSE i \in rest : \A j \in rest : i <= j

GoOn(t, ik) ==
    LET n == NextPart(t, ik)
    IN  thr' = [thr EXCEPT ![t] = [pc |-> IF n = nthr_k THEN "done" ELSE "others", ik |-> n]]

\* MUTANT of MayAddOwn: the thread does not wait for part 0.
MayAddOwnAtOnce(t) == At(t, "own")

\* A thread's own part comes first, once part 0 is in C.
MayAddOwn(t) == At(t, "own") /\ (ithr_k(t) > 0 => Published(t, 0))

AddOwn(t) ==
    /\ MayAddOwn(t)
    /\ c' = IF ithr_k(t) > 0 THEN Added(t, ithr_k(t)) ELSE c
    /\ GoOn(t, 0)
    /\ InCall /\ UNCHANGED <<ompstatus, c_buffers, st, faults>>

\* Then the others' parts, each once it is computed.
MayAddOther(t) == At(t, "others") /\ Published(t, thr[t].ik)

AddOther(t) ==
    /\ MayAddOther(t)
    /\ c' = Added(t, thr[t].ik)
    /\ GoOn(t, thr[t].ik)
    /\ InCall /\ UNCHANGED <<ompstatus, c_buffers, st, faults>>

\* Once more around one of the loops that wait.
Spin(t) ==
    /\ \/ At(t, "own") /\ ~MayAddOwn(t)
       \/ At(t, "others") /\ ~MayAddOther(t)
    /\ UNCHANGED vars

AllDone == \A t \in Team : At(t, "done")

\* CHECK(st), and whether part of the sum is left.
EndCompute ==
    /\ region = "compute" /\ AllDone
    /\ region' = IF st = "success" /\ nthr_k > 1 /\ ompstatus[<<0, 0>>] = 0
                 THEN "between" ELSE "returned"
    /\ UNCHANGED <<prob, part, team, thr, ompstatus, c, c_buffers, st, faults>>

\* "handle C summation later": a second region, which has as many threads.
BeginLater ==
    /\ region = "between"
    /\ region' = "later"
    /\ thr' = [t \in Team |-> [Out EXCEPT !.pc = IF t < nthr_to_use THEN "later" ELSE "done"]]
    /\ UNCHANGED <<prob, part, team, ompstatus, c, c_buffers, st, faults>>

\* All parts but 0, without waiting.
SumLater(t) ==
    LET S[i \in Nat] == [col \in Columns(Mn(t)) |->
            IF i = 0 THEN c[Mn(t)][col] ELSE Add(S[i - 1][col], c_buffers[<<Mn(t), i>>][col])]
    IN  /\ At(t, "later")
        /\ c' = [c EXCEPT ![Mn(t)] = [col \in DOMAIN @ |->
                   IF col \in MyColumns(t) THEN S[nthr_k - 1][col] ELSE @[col]]]
        /\ Goto(t, "done")
        /\ InCall /\ UNCHANGED <<ompstatus, c_buffers, st, faults>>

EndLater ==
    /\ region = "later" /\ AllDone
    /\ region' = "returned"
    /\ UNCHANGED <<prob, part, team, thr, ompstatus, c, c_buffers, st, faults>>

\* The caller has C; the next call.
Return ==
    /\ region = "returned"
    /\ region' = "out" /\ team' = 0 /\ st' = "success"
    /\ thr' = <<>> /\ ompstatus' = <<>> /\ c' = <<>> /\ c_buffers' = <<>>
    /\ UNCHANGED <<prob, part, faults>>

NotCalled ==
    /\ region = "out" /\ team = 0 /\ st = "success" /\ faults = 0
    /\ thr = <<>> /\ ompstatus = <<>> /\ c = <<>> /\ c_buffers = <<>>

Init ==
    /\ prob \in Problems
    /\ part = calc_nthr_nocopy_avx(prob.m, prob.n, prob.k, prob.nthrs)
    /\ NotCalled

Step(t) ==
    \/ Compute(t) \/ ComputeFails(t) \/ Publish(t)
    \/ AddOwn(t) \/ AddOther(t) \/ SumLater(t) \/ Spin(t)

Next ==
    \/ Call \/ CallFails
    \/ \E t \in Team : Step(t)
    \/ EndCompute \/ BeginLater \/ EndLater \/ Return

Spec == Init /\ [][Next]_vars

-----------------------------------------------------------------------------
(* Correctness *)

\* The partition asks for no more threads than there are, no block and no part
\* of k is empty (the threads of an empty block would wait for ever for its
\* status), and together they are the whole matrix and the whole of k.
PartitionIsExact ==
    /\ nthr_to_use \in 1..prob.nthrs
    /\ \A mn \in Blocks : MRange(mn) # {} /\ NRange(mn) # {}
    /\ part.MB * part.nthr_m >= prob.m
    /\ part.NB * part.nthr_n >= prob.n
    /\ \A i \in Parts : BlockRange(i, part.KB, prob.k) # {}
    /\ part.KB * nthr_k >= prob.k

\* What the next step of a thread writes and reads: <<block, part, column>>,
\* where part 0 is C itself.
Writes(t) ==
    CASE At(t, "compute") -> {Mn(t)} \X {ithr_k(t)} \X Columns(Mn(t))
      [] MayAddOwn(t) /\ ithr_k(t) > 0 -> {Mn(t)} \X {0} \X MyColumns(t)
      [] MayAddOther(t) \/ At(t, "later") -> {Mn(t)} \X {0} \X MyColumns(t)
      [] OTHER -> {}

Reads(t) ==
    CASE MayAddOwn(t) /\ ithr_k(t) > 0 -> {Mn(t)} \X {ithr_k(t)} \X MyColumns(t)
      [] MayAddOther(t) -> {Mn(t)} \X {thr[t].ik} \X MyColumns(t)
      [] At(t, "later") -> {Mn(t)} \X (Parts \ {0}) \X MyColumns(t)
      [] OTHER -> {}

\* No thread writes columns of C or of a buffer that another one writes or
\* reads at the same time.
NoDataRace ==
    \A t, u \in Team : t # u => Writes(t) \cap (Writes(u) \cup Reads(u)) = {}

Returned == region = "returned" /\ st = "success"

Complete == \A mn \in Blocks : \A col \in Columns(mn) : c[mn][col] = Parts

\* A call that returns success from a region with a thread for every part of
\* the partition, as the code asserts, has summed every part of k, once, in
\* every column of every block.
ResultIsComplete == Returned /\ ~sum_later => Complete

\* Every call returns, unless a driver fails: the others would wait for its part.
Returns == (region = "compute") ~> (region = "returned" \/ st = "error")
=============================================================================
