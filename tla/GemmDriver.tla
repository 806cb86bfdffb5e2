------------------------------ MODULE GemmDriver ------------------------------
(***************************************************************************)
(* A call of gemm_driver (cpu/x64/gemm/gemm_driver.cpp) as a whole: the    *)
(* driver goes to the gemm that copies nothing (GemmKSum, for AVX2) or to  *)
(* the blocked one (ParallelGemm).                                         *)
(***************************************************************************)
EXTENDS ParallelGemm

CONSTANTS
    BM, BN, BK, BM_SMALL, BN_SMALL, BK_SMALL,    \* see NocopyPartition
    STACK_K_CAPACITY                             \* see GemmKSum

ASSUME BlocksAssumption == {BM, BN, BK, BM_SMALL, BN_SMALL, BK_SMALL} \subseteq Nat \ {0}

VARIABLES
    nocopy_prob, nocopy_part, nocopy_region, nocopy_team, nocopy_thr, ompstatus, nocopy_c,
    c_buffers, nocopy_st, nocopy_faults    \* the variables of GemmKSum

\* call_no_copy_sgemm passes on the sizes and the threads chosen.
call_no_copy_sgemm(p) ==
    [m |-> p.m, n |-> p.n, k |-> p.k, nthrs |-> nthr_goal(p), nthr_max |-> p.nthr_max]

DivertedProblems == {p \in Problems : IsNocopy(p, nthr_goal(p))}

Nocopy == INSTANCE GemmKSum WITH
    Problems <- {call_no_copy_sgemm(p) : p \in DivertedProblems},
    prob <- nocopy_prob, part <- nocopy_part, region <- nocopy_region, team <- nocopy_team,
    thr <- nocopy_thr, c <- nocopy_c, st <- nocopy_st, faults <- nocopy_faults

nocopy_vars ==
    <<nocopy_prob, nocopy_part, nocopy_region, nocopy_team, nocopy_thr, ompstatus, nocopy_c,
      c_buffers, nocopy_st, nocopy_faults>>

driver_vars == <<vars, nocopy_vars>>

Diverted == IsNocopy(prob, nthr_goal(prob))

DriverInit ==
    /\ Init
    /\ \/ Diverted /\ Nocopy!Init /\ nocopy_prob = call_no_copy_sgemm(prob)
       \/ ~Diverted /\ Nocopy!NotCalled /\ nocopy_prob = <<>> /\ nocopy_part = <<>>

DriverNext ==
    \/ Diverted /\ Nocopy!Next /\ UNCHANGED vars
    \/ ~Diverted /\ Next /\ UNCHANGED nocopy_vars

DriverSpec == DriverInit /\ [][DriverNext]_driver_vars

MostThreads ==
    CHOOSE most \in {p.nthr_max : p \in Problems} : \A p \in Problems : p.nthr_max <= most

ThreadSteps(t) ==
    \/ t \in Nocopy!Team /\ Diverted /\ Nocopy!Step(t) /\ UNCHANGED vars
    \/ t \in Team /\ ~Diverted /\ Step(t) /\ UNCHANGED nocopy_vars

CallGoesOn ==
    \/ Diverted /\ (Nocopy!EndCompute \/ Nocopy!BeginLater \/ Nocopy!EndLater) /\ UNCHANGED vars
    \/ ~Diverted /\ (EndCompute \/ BeginLater \/ EndLater) /\ UNCHANGED nocopy_vars

\* OpenMP runs all threads of a region; the call goes on when a region ends.
FairDriverSpec ==
    /\ DriverSpec
    /\ WF_driver_vars(CallGoesOn)
    /\ \A t \in 0..(MostThreads - 1) : WF_driver_vars(ThreadSteps(t))

-----------------------------------------------------------------------------
(* Correctness of both gemms; see ParallelGemm and GemmKSum *)

\* calc_nthr_nocopy_avx asks for no more threads than there are, leaves no
\* block and no part of k empty, and covers the whole product.
PartitionIsExact == Diverted => Nocopy!PartitionIsExact

\* The region has a thread for every part of a partition, and a matrix that was
\* packed for a shared copy of A as many threads as it was packed for.  The
\* code asserts the one and takes the other for granted.
TeamSuffices ==
    /\ nocopy_region # "out" => ~Nocopy!sum_later
    /\ SuitsTeam

\* No thread of either gemm writes places of C or of a buffer that another one
\* writes or reads at the same time, whatever its team; nor of a shared copy of
\* A, unless that was packed for another team.
NobodyRaces == IF Diverted THEN Nocopy!NoDataRace ELSE NoDataRace

SuccessMeansWhole ==
    IF Diverted THEN Nocopy!Returned => Nocopy!Complete
    ELSE region = "returned" /\ Succeeded => Complete

\* A call of either gemm that reports success from a team that suffices has
\* summed every part of k, once, in every place of C.
ProductIsComplete == TeamSuffices => SuccessMeansWhole

\* Every call returns; in GemmKSum, unless a driver fails, and in ParallelGemm,
\* if its division suits the team.
EveryCallReturns ==
    /\ Returns
    /\ (nocopy_region = "compute") ~> (nocopy_region = "returned" \/ nocopy_st = "error")
=============================================================================
