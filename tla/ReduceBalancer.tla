--------------------------- MODULE ReduceBalancer ---------------------------
(***************************************************************************)
(* reduce_balancer_t (cpu/x64/cpu_reducer.cpp and .hpp): how njobs sums of *)
(* reduction_size terms are shared out.  The threads are divided into      *)
(* groups, each group gets some of the jobs, and the threads of a group    *)
(* divide the terms of its jobs.  The constructor tries every number of    *)
(* jobs per group and keeps the cheapest division.                         *)
(***************************************************************************)
EXTENDS Balance211

CONSTANT Calls    \* the arguments that the primitive descriptors pass

CallType == [nthr : Nat \ {0}, job_size : Nat \ {0}, njobs : Nat \ {0},
             reduction_size : Nat \ {0}, max_buffer_size : Nat,
             allow_nthr_in_group : BOOLEAN]

ASSUME CallsAssumption == Calls \subseteq CallType

VARIABLES
    call,                 \* the arguments of the constructor
    c_njobs_per_group,    \* the next candidate
    best                  \* the division kept so far

balancerVars == <<call, c_njobs_per_group, best>>

min(a, b) == IF a < b THEN a ELSE b
max(a, b) == IF a > b THEN a ELSE b

min_njobs_per_group == max(1, call.njobs \div call.nthr)

max_njobs_per_group == max(1, call.max_buffer_size \div (call.nthr * call.job_size))

\* MUTANT of Groups: there may be more groups than threads.
GroupsUnlimited(c) == call.njobs \div c

\* The groups there are when each gets c jobs.
Groups(c) == min(call.njobs \div c, call.nthr)

ThreadsPerGroup(c) ==
    IF call.allow_nthr_in_group THEN min(call.nthr \div Groups(c), call.reduction_size)
    ELSE 1

\* The most jobs a group can get.
JobsPerGroup(c) == div_up(call.njobs, Groups(c))

\* What one thread has to do: its share of the terms, and its share of the
\* final sum of the group's partial results.
Complexity(c) ==
    call.job_size * JobsPerGroup(c)
        * (div_up(call.reduction_size, ThreadsPerGroup(c))
           + (IF ThreadsPerGroup(c) # 1 THEN 1 ELSE 0))

\* The partial results of several threads would not fit the buffer.
TooLarge(c) == ThreadsPerGroup(c) > 1 /\ JobsPerGroup(c) > max_njobs_per_group

Division(c, complexity) ==
    [ngroups |-> Groups(c), nthr_per_group |-> ThreadsPerGroup(c),
     njobs_per_group_ub |-> JobsPerGroup(c), complexity |-> complexity]

BalancerInit ==
    /\ call \in Calls
    /\ c_njobs_per_group = min_njobs_per_group
    /\ best = Division(min_njobs_per_group, call.njobs * call.job_size * call.reduction_size)

\* MUTANT of TryCandidate: the comparison is the wrong way round.
TryCandidateKeepsWorst ==
    LET c == c_njobs_per_group
    IN  /\ c < call.njobs
        /\ best' = IF ~TooLarge(c) /\ Complexity(c) > best.complexity
                   THEN Division(c, Complexity(c)) ELSE best
        /\ c_njobs_per_group' = c + 1
        /\ UNCHANGED call

\* One turn of the brute-force loop.
TryCandidate ==
    LET c == c_njobs_per_group
    IN  /\ c < call.njobs
        /\ best' = IF ~TooLarge(c) /\ Complexity(c) < best.complexity
                   THEN Division(c, Complexity(c)) ELSE best
        /\ c_njobs_per_group' = c + 1
        /\ UNCHANGED call

BalancerSpec == BalancerInit /\ [][TryCandidate]_balancerVars

Balanced == c_njobs_per_group >= call.njobs

-----------------------------------------------------------------------------
(* The division, as the reducers use it *)

group_id(t) == t \div best.nthr_per_group
id_in_group(t) == t % best.nthr_per_group
idle(t) == t >= best.nthr_per_group * best.ngroups

grp_njobs(g) ==
    IF g >= best.ngroups THEN 0
    ELSE call.njobs \div best.ngroups + (IF g < call.njobs % best.ngroups THEN 1 ELSE 0)

grp_job_off(g) ==
    IF g >= best.ngroups THEN call.njobs
    ELSE (call.njobs \div best.ngroups) * g + min(g, call.njobs % best.ngroups)

-----------------------------------------------------------------------------
(* Correctness *)

\* Whatever the arguments, the groups fit in the team, every group has a job,
\* no thread of a group is without a term, and no group gets more jobs than
\* the space of its threads is made for.
DivisionIsValid ==
    /\ best.ngroups \in 1..call.njobs
    /\ best.nthr_per_group \in 1..call.reduction_size
    /\ best.ngroups * best.nthr_per_group <= call.nthr
    /\ \A g \in 0..(best.ngroups - 1) : grp_njobs(g) \in 1..best.njobs_per_group_ub
    /\ ~call.allow_nthr_in_group => best.nthr_per_group = 1

\* When the loop is over no candidate that fits the buffer is cheaper than the
\* division that was kept.
CheapestIsKept ==
    Balanced => \A c \in min_njobs_per_group..(call.njobs - 1) :
                    ~TooLarge(c) => best.complexity <= Complexity(c)
=============================================================================
