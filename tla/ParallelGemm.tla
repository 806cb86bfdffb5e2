----------------------------- MODULE ParallelGemm -----------------------------
(***************************************************************************)
(* gemm_threading_driver and parallel_a_copy (cpu/x64/gemm/gemm_driver.cpp)*)
(* for the OpenMP build: the blocked gemm, whose threads compute slices of *)
(* C.  Either each copies what it needs for itself, and the threads of one *)
(* block of C with different parts of k then add up their results          *)
(* (sum_k_blocks); or all copy each block of A together and meet at        *)
(* barriers of the team before and after they multiply with it.            *)
(*                                                                         *)
(* A place of C is the set of the places of k summed in it.                *)
(***************************************************************************)
EXTENDS GemmThreading, FiniteSets

CONSTANTS
    Problems,     \* records of Problem
    MayShrink,    \* OpenMP may give a region fewer threads than it asks for
    MaxFaults     \* bound on the allocations that fail

\* nthr_max: the threads there are; goal: what adjust_thread_count leaves of
\* them, or, for a packed matrix, the threads it was packed for; plan: how the
\* product is to be divided, split: into how many slices of m, n and k when in
\* three dimensions; f32: the only type that nocopy_checker may divert.
Problem == [m : Nat \ {0}, n : Nat \ {0}, k : Nat \ {0}, f32 : BOOLEAN, transb : BOOLEAN,
            force_nocopy : BOOLEAN, nthr_max : Nat \ {0}, goal : Nat \ {0}, packed : {"none", "a", "b"},
            plan : {"row_1d", "col_1d", "col_major_2d", "mnk_3d", "shared_a"},
            split : (Nat \ {0}) \X (Nat \ {0}) \X (Nat \ {0})]

\* A matrix packed for more threads than there are is left out: it has more
\* slices than the driver's array has places.
ASSUME ProblemsAssumption ==
    \A p \in Problems : /\ p \in Problem
                        /\ p.goal <= p.nthr_max
                        /\ p.split[1] * p.split[2] * p.split[3] <= p.goal
ASSUME ShrinkAssumption == MayShrink \in BOOLEAN
ASSUME FaultsAssumption == MaxFaults \in Nat

VARIABLES
    prob,         \* the call's arguments
    region,       \* "out", "compute", "between", "later" or "returned"
    team,         \* threads of the region
    thread_info,  \* how the product is divided
    thr,          \* per thread, where it is
    thread_arg,   \* per slice, its result and whether it is computed
    shared_mem,   \* "none", "null", "live" or "freed"
    bufferA,      \* per row of the shared copy of A, what it has
    c,            \* per row and column
    c_local,      \* per slice, its own C
    faults        \* allocations that have failed (bound, not code)

vars == <<prob, region, team, thread_info, thr, thread_arg, shared_mem, bufferA, c, c_local,
          faults>>

Team == 0..(team - 1)

-----------------------------------------------------------------------------
(* How the product is divided *)

Threading(partition, nm, nn, nk, copy) ==
    [partition |-> partition, nthrs_m |-> nm, nthrs_n |-> nn, nthrs_k |-> nk, copy |-> copy,
     thread_m |-> -1, thread_n |-> -1, thread_k |-> -1]

\* set_thread_opts_pack, with the numbers of slices to start from.
set_thread_opts_pack(p) ==
    LET bm == choose_blocking(p.m, p.split[1], arg.bm, arg.um)
        bn == choose_blocking(p.n, p.split[2], arg.bn, arg.un)
        bk == choose_blocking(p.k, p.split[3], arg.bk, arg.uk)
    IN  [Threading("mnk_3d", bm.nthr, bn.nthr, bk.nthr, "nonshared") EXCEPT
           !.thread_m = bm.thread, !.thread_n = bn.thread, !.thread_k = bk.thread]

\* With nm threads for the rows, and each of the others for some columns, twice
\* as many for the rows are better.
MoreForRows(p, nthr, nm) ==
    LET nn == nthr \div nm
    IN  /\ nn % 2 = 0
        /\ p.n \div nthr > arg.n2d_max \/ p.n \div nn <= arg.n2d_max \div 2
        /\ p.m \div nm >= 2 * arg.m2d_min

\* The loop for floats, and for all types without AVX-512.
nthrs_m_2d(p, nthr) ==
    CASE ~MoreForRows(p, nthr, 1) -> 1
      [] MoreForRows(p, nthr, 1) /\ ~MoreForRows(p, nthr, 2) -> 2
      [] OTHER -> 4

\* The thresholds that choose the plan are left out.
set_thread_opts_nopack(p, nthr, nthrs_spawn) ==
    LET nm == nthrs_m_2d(p, nthr)
    IN  CASE p.plan = "row_1d" -> Threading("row_1d", nthr, 1, 1, "nonshared")
          [] p.plan = "col_1d" -> Threading("col_1d", 1, nthr, 1, "nonshared")
          [] p.plan = "col_major_2d" -> Threading("col_major_2d", nm, nthr \div nm, 1, "nonshared")
          [] p.plan = "shared_a" -> Threading("col_1d", 1, nthrs_spawn, 1, "shared_a")
          [] p.plan = "mnk_3d" ->
               set_thread_opts_pack(
                 IF p.split[1] * p.split[2] * p.split[3] <= nthr THEN p
                 ELSE [p EXCEPT !.split = <<nthr, 1, 1>>])

\* nocopy_checker
IsNocopy(p, nthr) ==
    /\ p.f32
    /\ \/ p.force_nocopy
       \/ p.packed = "none" /\ nocopy_checker_avx2(nthr, p.transb, p.m, p.n, p.k)

\* The threads of a product that is not copied get slices of no size: their
\* sizes would have to be chosen later.
set_thread_opts(p, nthr, nthrs_spawn) ==
    IF IsNocopy(p, nthr) THEN Threading("mnk_3d", nthr, 1, 1, "no_copy")
    ELSE set_thread_opts_nopack(p, nthr, nthrs_spawn)

\* The division is made before the region for a packed matrix (when it was
\* packed, with the threads there were) and when k is divided.
force_threading(p) == p.packed # "none" \/ (p.plan = "mnk_3d" /\ set_thread_opts_pack(p).nthrs_k > 1)

forced(p) == set_thread_opts_nopack(p, p.goal, p.goal)

nthr_goal(p) == IF force_threading(p) THEN nthrs(forced(p)) ELSE p.goal

\* What the threads of a region of nthr work by; one alone does everything.
threading_of(p, nthr) ==
    LET n == Lesser(p.goal, nthr)
    IN  CASE force_threading(p) -> forced(p)
          [] ~force_threading(p) /\ n = 1 -> Threading("row_1d", 1, 1, 1, "nonshared")
          [] OTHER -> set_thread_opts(p, n, nthr)

nthr_eff == nthrs(thread_info)
k_summing == thread_info.nthrs_k > 1
copies_a == thread_info.copy = "shared_a" /\ prob.packed # "a"

slice(i) == thread_arg[i].slice
Slices == 0..(nthr_eff - 1)

m_padd == get_m_padd_parallel_a(prob.m, nthr_eff)
k_padd == get_k_padd(prob.k)
SizeM(Bm) == Lesser(m_padd, prob.m - Bm)
SizeK(Bk) == Lesser(k_padd, prob.k - Bk)

-----------------------------------------------------------------------------
(* What the threads do to C *)

Garbage == -1
Twice == -2
Add(a, b) == IF a \cap b = {} THEN a \cup b ELSE {Twice}

NewC == [pl \in (0..(prob.m - 1)) \X (0..(prob.n - 1)) |-> {Garbage}]

Cells(i) == slice(i).m \X slice(i).n

\* The slice of the same block of C that has part ik of k.
OfPart(i, ik) == i + (ik - slice(i).ithr_k) * thr_k_stride(thread_info)

First(S) == CHOOSE x \in S : \A y \in S : x <= y

\* The places of its block that a slice's thread adds up: some columns.
SummedCells(i) ==
    LET s    == slice(i)
        mine == partition_1d(s.ithr_k, thread_info.nthrs_k, Cardinality(s.n))
    IN  s.m \X {First(s.n) + j : j \in mine}

Summed(old, i, ik) ==
    LET mine  == SummedCells(i)
        other == c_local[OfPart(i, ik)]
    IN  [pl \in DOMAIN old |-> IF pl \in mine THEN Add(old[pl], other[pl]) ELSE old[pl]]

\* A row of the shared copy is what the kernel takes it for.
RowIsCurrent(t, i) ==
    prob.packed = "a" \/ bufferA[i - thr[t].Bm] = <<i, thr[t].Bk>>

\* The places that the kernel changes, and with which part of k.
BlockCells(t) ==
    Places(thr[t].Bm, SizeM(thr[t].Bm)) \X slice(thr[t].ithr).n

Multiplied(t) ==
    LET k     == Places(thr[t].Bk, SizeK(thr[t].Bk))
        block == BlockCells(t)
    IN  [pl \in DOMAIN c |->
           CASE pl \notin block -> c[pl]
             [] pl \in block /\ ~RowIsCurrent(t, pl[1]) -> {Garbage}
             [] OTHER -> IF thr[t].Bk = 0 THEN k ELSE Add(c[pl], k)]

-----------------------------------------------------------------------------
(* Threads *)

At(t, pc) == thr[t].pc = pc
Goto(t, pc) == thr' = [thr EXCEPT ![t].pc = pc]

\* zendnn_thr_barrier: entered before pc, and passed when all have entered it
\* as often.
Meet(t, pc) == thr' = [thr EXCEPT ![t].pc = pc, ![t].round = @ + 1]
Passed(t) == \A u \in Team : thr[u].round >= thr[t].round

\* A thread takes up slice i of a division.
Take(info, i, round) ==
    [pc |-> CASE i >= nthrs(info) -> "done"
              [] i < nthrs(info) /\ info.copy # "shared_a" -> "compute"
              [] OTHER -> IF prob.packed = "a" THEN "multiply" ELSE "alloc",
     ithr |-> i, Bk |-> 0, Bm |-> 0, ik |-> 0, round |-> round]

NextSlice(t) == thr' = [thr EXCEPT ![t] = Take(thread_info, @.ithr + team, @.round)]

Reported(t) == thread_arg' = [thread_arg EXCEPT ![thr[t].ithr].result = "out_of_memory"]

Fault == faults < MaxFaults /\ faults' = faults + 1

InCall == UNCHANGED <<prob, region, team, thread_info>>

\* The first thread allocates the shared copy; all wait for it.
Allocate(t) ==
    /\ At(t, "alloc")
    /\ IF thr[t].ithr = 0
       THEN \/ /\ shared_mem' = "live"
               /\ bufferA' = [r \in 0..(m_padd - 1) |-> <<>>]
               /\ UNCHANGED faults
            \/ /\ shared_mem' = "null"
               /\ Fault
               /\ UNCHANGED bufferA
       ELSE UNCHANGED <<shared_mem, bufferA, faults>>
    /\ Meet(t, "get")
    /\ InCall /\ UNCHANGED <<thread_arg, c, c_local>>

\* Every thread sees whether there is memory, and gives up if there is none.
GetMemory(t) ==
    /\ At(t, "get") /\ Passed(t)
    /\ IF shared_mem = "null" THEN Reported(t) /\ NextSlice(t)
       ELSE Goto(t, "copy") /\ UNCHANGED thread_arg
    /\ InCall /\ UNCHANGED <<shared_mem, bufferA, c, c_local, faults>>

Copy(t) ==
    /\ At(t, "copy")
    /\ bufferA' = [r \in DOMAIN bufferA |->
                     IF r \in CopiedBand(thr[t].ithr, nthr_eff, SizeM(thr[t].Bm))
                     THEN <<thr[t].Bm + r, thr[t].Bk>> ELSE bufferA[r]]
    /\ Meet(t, "multiply")
    /\ InCall /\ UNCHANGED <<thread_arg, shared_mem, c, c_local, faults>>

Multiplies(t) == At(t, "multiply") /\ Passed(t)

\* MUTANT of AfterMultiply: a thread does not wait for the others' kernels.
AfterMultiplyAtOnce(t) == Goto(t, "advance")

AfterMultiply(t) == IF copies_a THEN Meet(t, "advance") ELSE Goto(t, "advance")

Multiply(t) ==
    /\ Multiplies(t)
    /\ c' = Multiplied(t)
    /\ AfterMultiply(t)
    /\ InCall /\ UNCHANGED <<thread_arg, shared_mem, bufferA, c_local, faults>>

\* MUTANT of MultiplyFails: a thread that has no memory returns at once.
MultiplyFailsAndReturns(t) ==
    /\ Multiplies(t) /\ slice(thr[t].ithr).n # {}
    /\ Fault
    /\ Reported(t)
    /\ NextSlice(t)
    /\ InCall /\ UNCHANGED <<shared_mem, bufferA, c, c_local>>

\* No memory for the thread's copy of B: the others go on, and so does it.
MultiplyFails(t) ==
    /\ Multiplies(t) /\ slice(thr[t].ithr).n # {}
    /\ Fault
    /\ Reported(t)
    /\ AfterMultiply(t)
    /\ InCall /\ UNCHANGED <<shared_mem, bufferA, c, c_local>>

\* The next block: of rows, then of k.  Behind the last the first thread frees
\* the shared copy.
Advance(t) ==
    LET Bm == thr[t].Bm + SizeM(thr[t].Bm)
        Bk == thr[t].Bk + SizeK(thr[t].Bk)
        pc == IF copies_a THEN "copy" ELSE "multiply"
        over == Bm >= prob.m /\ Bk >= prob.k
    IN  /\ At(t, "advance") /\ Passed(t)
        /\ \/ Bm < prob.m /\ thr' = [thr EXCEPT ![t].pc = pc, ![t].Bm = Bm]
           \/ /\ Bm >= prob.m /\ Bk < prob.k
              /\ thr' = [thr EXCEPT ![t].pc = pc, ![t].Bm = 0, ![t].Bk = Bk]
           \/ over /\ NextSlice(t)
        /\ shared_mem' = IF over /\ copies_a /\ thr[t].ithr = 0 THEN "freed" ELSE shared_mem
        /\ InCall /\ UNCHANGED <<thread_arg, bufferA, c, c_local, faults>>

-----------------------------------------------------------------------------
(* Slices that are computed apart, and summed if they are parts of k *)

\* Summing while others still compute is safe only if no slice waits for a
\* thread that is still to take up another one.
sum_in_region == k_summing /\ team >= nthr_eff

AfterCompute(t) == IF sum_in_region THEN Goto(t, "publish") ELSE NextSlice(t)

\* gemm_kernel_driver, or the driver that copies nothing.  Parts of k but the
\* first go to the slice's own C.
Compute(t) ==
    LET i == thr[t].ithr
        own == k_summing /\ slice(i).ithr_k > 0
        cells == Cells(i)
        Computed(old) == [pl \in DOMAIN old |-> IF pl \in cells THEN slice(i).k ELSE old[pl]]
    IN  /\ At(t, "compute")
        /\ c' = IF own THEN c ELSE Computed(c)
        /\ c_local' = IF own THEN [c_local EXCEPT ![i] = Computed(@)] ELSE c_local
        /\ AfterCompute(t)
        /\ InCall /\ UNCHANGED <<thread_arg, shared_mem, bufferA, faults>>

ComputeFails(t) ==
    /\ At(t, "compute") /\ Cells(thr[t].ithr) # {}
    /\ Fault
    /\ Reported(t)
    /\ AfterCompute(t)
    /\ InCall /\ UNCHANGED <<shared_mem, bufferA, c, c_local>>

Publish(t) ==
    /\ At(t, "publish")
    /\ thread_arg' = [thread_arg EXCEPT ![thr[t].ithr].compute_done = TRUE]
    /\ Goto(t, "own")
    /\ InCall /\ UNCHANGED <<shared_mem, bufferA, c, c_local, faults>>

Done(i, ik) == thread_arg[OfPart(i, ik)].compute_done

\* The part that a thread adds after ik, if any; it has added its own first.
GoOn(t, ik) ==
    LET rest == {j \in (ik + 1)..(thread_info.nthrs_k - 1) : j # slice(thr[t].ithr).ithr_k}
    IN  IF rest = {} THEN NextSlice(t)
        ELSE thr' = [thr EXCEPT ![t].pc = "others", ![t].ik = First(rest)]

MayAddOwn(t) == At(t, "own") /\ (slice(thr[t].ithr).ithr_k > 0 => Done(thr[t].ithr, 0))

AddOwn(t) ==
    LET i == thr[t].ithr
    IN  /\ MayAddOwn(t)
        /\ c' = IF slice(i).ithr_k > 0 THEN Summed(c, i, slice(i).ithr_k) ELSE c
        /\ GoOn(t, 0)
        /\ InCall /\ UNCHANGED <<thread_arg, shared_mem, bufferA, c_local, faults>>

MayAddOther(t) == At(t, "others") /\ Done(thr[t].ithr, thr[t].ik)

AddOther(t) ==
    /\ MayAddOther(t)
    /\ c' = Summed(c, thr[t].ithr, thr[t].ik)
    /\ GoOn(t, thr[t].ik)
    /\ InCall /\ UNCHANGED <<thread_arg, shared_mem, bufferA, c_local, faults>>

\* All parts but 0, in the region that follows.
SumLater(t) ==
    LET i == thr[t].ithr
        S[ik \in 0..(thread_info.nthrs_k - 1)] == IF ik = 0 THEN c ELSE Summed(S[ik - 1], i, ik)
    IN  /\ At(t, "later")
        /\ c' = S[thread_info.nthrs_k - 1]
        /\ thr' = [thr EXCEPT ![t].ithr = i + team,
                              ![t].pc = IF i + team < nthr_eff THEN "later" ELSE "done"]
        /\ InCall /\ UNCHANGED <<thread_arg, shared_mem, bufferA, c_local, faults>>

\* Once more around a loop that waits, or still in a barrier.
Waits(t) ==
    \/ thr[t].pc \in {"get", "multiply", "advance"} /\ ~Passed(t)
    \/ At(t, "own") /\ ~MayAddOwn(t)
    \/ At(t, "others") /\ ~MayAddOther(t)

Spin(t) == Waits(t) /\ UNCHANGED vars

-----------------------------------------------------------------------------
(* The call *)

Teams(n) == IF MayShrink THEN 1..n ELSE {n}

\* One thread is enough, and needs no region.
CallAlone ==
    /\ region = "out" /\ nthr_goal(prob) = 1 /\ ~IsNocopy(prob, 1)
    /\ region' = "returned"
    /\ c' = [pl \in DOMAIN NewC |-> 0..(prob.k - 1)]
    /\ UNCHANGED <<prob, team, thread_info, thr, thread_arg, shared_mem, bufferA, c_local, faults>>

\* The region asks for all threads, however many are to work.
Call ==
    /\ region = "out" /\ nthr_goal(prob) > 1 /\ ~IsNocopy(prob, nthr_goal(prob))
    /\ region' = "compute"
    /\ \E nthr \in Teams(prob.nthr_max) :
         LET info == threading_of(prob, nthr)
         IN  /\ team' = nthr
             /\ thread_info' = info
             /\ thr' = [t \in 0..(nthr - 1) |-> Take(info, t, 0)]
             /\ thread_arg' = [i \in 0..(nthrs(info) - 1) |->
                                 [slice |-> get_thread_slice(info, i, prob.m, prob.n, prob.k),
                                  result |-> "success", compute_done |-> FALSE]]
             /\ c_local' = [i \in 0..(nthrs(info) - 1) |-> IF info.nthrs_k > 1 THEN NewC ELSE <<>>]
    /\ c' = NewC
    /\ UNCHANGED <<prob, shared_mem, bufferA, faults>>

AllDone == \A t \in Team : At(t, "done")

EndCompute ==
    /\ region = "compute" /\ AllDone
    /\ region' = IF k_summing /\ ~thread_arg[0].compute_done THEN "between" ELSE "returned"
    /\ UNCHANGED <<prob, team, thread_info, thr, thread_arg, shared_mem, bufferA, c, c_local, faults>>

\* "Sum thread results along k dimension if this wasn't done earlier."
BeginLater ==
    /\ region = "between"
    /\ region' = "later"
    /\ team' \in Teams(nthr_goal(prob))
    /\ thr' = [t \in 0..(team' - 1) |-> [Take(thread_info, t, 0) EXCEPT !.pc = "later"]]
    /\ UNCHANGED <<prob, thread_info, thread_arg, shared_mem, bufferA, c, c_local, faults>>

EndLater ==
    /\ region = "later" /\ AllDone
    /\ region' = "returned"
    /\ UNCHANGED <<prob, team, thread_info, thr, thread_arg, shared_mem, bufferA, c, c_local, faults>>

Undivided == Threading("row_1d", 1, 1, 1, "nonshared")

Return ==
    /\ region = "returned"
    /\ region' = "out" /\ team' = 0 /\ thread_info' = Undivided /\ shared_mem' = "none"
    /\ thr' = <<>> /\ thread_arg' = <<>> /\ bufferA' = <<>> /\ c' = <<>> /\ c_local' = <<>>
    /\ UNCHANGED <<prob, faults>>

Idle ==
    /\ region = "out" /\ team = 0 /\ thread_info = Undivided /\ shared_mem = "none"
    /\ thr = <<>> /\ thread_arg = <<>> /\ bufferA = <<>> /\ c = <<>> /\ c_local = <<>>
    /\ faults = 0

Init == prob \in Problems /\ Idle

Step(t) ==
    \/ Allocate(t) \/ GetMemory(t) \/ Copy(t) \/ Multiply(t) \/ MultiplyFails(t) \/ Advance(t)
    \/ Compute(t) \/ ComputeFails(t) \/ Publish(t) \/ AddOwn(t) \/ AddOther(t)
    \/ SumLater(t) \/ Spin(t)

Next ==
    \/ CallAlone \/ Call
    \/ \E t \in Team : Step(t)
    \/ EndCompute \/ BeginLater \/ EndLater \/ Return

Spec == Init /\ [][Next]_vars

-----------------------------------------------------------------------------
(* Correctness *)

\* A matrix B that was packed for a shared copy of A is multiplied by as many
\* threads as it was packed for; the other divisions suit every team.
SuitsTeam == copies_a /\ prob.packed = "b" => team = nthr_eff

\* The slices are the whole product, and no two have a place of it in common.
SlicesAreExact ==
    region = "compute" =>
        \A pl \in DOMAIN NewC : \A k \in 0..(prob.k - 1) :
            \E i \in Slices : /\ pl \in Cells(i) /\ k \in slice(i).k
                              /\ \A j \in Slices \ {i} : ~(pl \in Cells(j) /\ k \in slice(j).k)

\* What the next step of a thread writes and reads: rows of the shared copy of
\* A, places of C, and places of a slice's own C.
OfA(rows) == {<<"A", 0>>} \X (rows \X {0})
OfC(cells) == {<<"C", 0>>} \X cells
OfOwn(i, cells) == {<<"own", i>>} \X cells

FreesCopy(t) ==
    /\ At(t, "advance") /\ Passed(t) /\ copies_a /\ thr[t].ithr = 0
    /\ thr[t].Bm + SizeM(thr[t].Bm) >= prob.m
    /\ thr[t].Bk + SizeK(thr[t].Bk) >= prob.k

AddsOwn(t) == MayAddOwn(t) /\ slice(thr[t].ithr).ithr_k > 0

Writes(t) ==
    LET i == thr[t].ithr
    IN  CASE At(t, "copy") -> OfA(CopiedBand(i, nthr_eff, SizeM(thr[t].Bm)))
          [] FreesCopy(t) -> OfA(DOMAIN bufferA)
          [] Multiplies(t) -> OfC(BlockCells(t))
          [] At(t, "compute") /\ k_summing /\ slice(i).ithr_k > 0 -> OfOwn(i, Cells(i))
          [] At(t, "compute") /\ ~(k_summing /\ slice(i).ithr_k > 0) -> OfC(Cells(i))
          [] AddsOwn(t) \/ MayAddOther(t) \/ At(t, "later") -> OfC(SummedCells(i))
          [] OTHER -> {}

Reads(t) ==
    LET i == thr[t].ithr
    IN  CASE Multiplies(t) /\ copies_a -> OfA(Places(0, SizeM(thr[t].Bm)))
          [] AddsOwn(t) -> OfOwn(i, SummedCells(i))
          [] MayAddOther(t) -> OfOwn(OfPart(i, thr[t].ik), SummedCells(i))
          [] At(t, "later") ->
               UNION {OfOwn(OfPart(i, ik), SummedCells(i)) : ik \in 1..(thread_info.nthrs_k - 1)}
          [] OTHER -> {}

\* No thread writes a place of C or of a slice's own C that another one writes
\* or reads at the same time, and none of the shared copy of A if the division
\* suits the team; freeing the copy counts as writing all of it.
NoDataRace ==
    \A t, u \in Team : t # u =>
        \A x \in Writes(t) \cap (Writes(u) \cup Reads(u)) :
            x[1] = <<"A", 0>> /\ ~SuitsTeam

Succeeded == \A i \in DOMAIN thread_arg : thread_arg[i].result = "success"

Complete == \A pl \in DOMAIN NewC : c[pl] = 0..(prob.k - 1)

\* A call that reports success has summed every part of k, once, in every place
\* of C, if its division suits the team.
ResultIsComplete == region = "returned" /\ Succeeded /\ SuitsTeam => Complete

\* Every call whose division suits the team returns, with memory or without:
\* nobody waits at a barrier, or for a slice, for ever.
Returns == (region = "compute" /\ SuitsTeam) ~> (region = "returned")
=============================================================================
