--------------------------- MODULE CpuReducerProofs ---------------------------
(***************************************************************************)
(* The balancer: whatever the arguments of the constructor, the division   *)
(* that it keeps is valid, and it is the cheapest of the candidates.       *)
(*                                                                         *)
(* The reducer that works with it: in every execution, on any number of    *)
(* threads, every access is within the arrays, there is no data race, and  *)
(* every element of the destination is the sum of all the terms of its     *)
(* job.  The areas of the threads are disjoint because the division is     *)
(* valid; the threads that add up each other's sums find them complete,    *)
(* because the barrier of their group counts who has summed.               *)
(***************************************************************************)
EXTENDS CpuReducer, Balance211Proofs, FiniteSetTheorems

-----------------------------------------------------------------------------
(* The balancer.  Its invariant says that the division is that of one        *)
(* candidate, and that no candidate tried so far is cheaper.                 *)

Candidates == min_njobs_per_group..call.njobs

BestIsACandidate ==
    \E c \in Candidates : best = Division(c, best.complexity)

NoneTriedIsCheaper ==
    \A c \in min_njobs_per_group..(c_njobs_per_group - 1) :
        ~TooLarge(c) => best.complexity <= Complexity(c)

BalancerInv ==
    /\ call \in Calls
    /\ c_njobs_per_group \in Nat /\ c_njobs_per_group >= min_njobs_per_group
    /\ best.complexity \in Nat
    /\ BestIsACandidate
    /\ NoneTriedIsCheaper

\* The arguments are positive.
LEMMA CallFacts ==
    ASSUME call \in Calls
    PROVE  /\ call.nthr \in Nat \ {0} /\ call.job_size \in Nat \ {0}
           /\ call.njobs \in Nat \ {0} /\ call.reduction_size \in Nat \ {0}
           /\ call.max_buffer_size \in Nat /\ call.allow_nthr_in_group \in BOOLEAN
    BY CallsAssumption DEF CallType

\* The smallest candidate is one.
LEMMA FirstCandidate ==
    ASSUME call \in Calls
    PROVE  min_njobs_per_group \in 1..call.njobs
    <1>1. /\ call.nthr \in Nat \ {0} /\ call.njobs \in Nat \ {0}
        BY CallFacts
    <1>2. CASE call.nthr <= call.njobs
        <2>1. call.njobs \div call.nthr \in 1..call.njobs
            BY <1>1, <1>2, QuotientIsPositive
        <2> QED
            BY <1>1, <2>1 DEF min_njobs_per_group, max
    <1>3. CASE call.nthr > call.njobs
        <2> DEFINE q == call.njobs \div call.nthr
                   r == call.njobs % call.nthr
        <2>1. q \in Nat /\ r \in 0..(call.nthr - 1) /\ call.njobs = call.nthr * q + r
            BY <1>1, DivisionFacts
        <2> HIDE DEF q, r
        <2>2. q = 0
            <3>1. SUFFICES ASSUME 1 <= q PROVE FALSE
                BY <2>1
            <3>2. 1 * call.nthr <= q * call.nthr /\ q * call.nthr = call.nthr * q
                BY <1>1, <2>1, <3>1, ProductMonotone
            <3> QED
                BY <1>1, <1>3, <2>1, <3>2
        <2> QED
            BY <1>1, <2>2 DEF min_njobs_per_group, max, q
    <1> QED
        BY <1>1, <1>2, <1>3

\* The division of a candidate is valid.
LEMMA CandidateIsValid ==
    ASSUME call \in Calls, NEW c \in 1..call.njobs
    PROVE  /\ Groups(c) \in 1..call.njobs /\ Groups(c) <= call.nthr
           /\ ThreadsPerGroup(c) \in 1..call.reduction_size
           /\ Groups(c) * ThreadsPerGroup(c) <= call.nthr
           /\ ~call.allow_nthr_in_group => ThreadsPerGroup(c) = 1
           /\ JobsPerGroup(c) \in Nat \ {0}
    <1>1. /\ call.nthr \in Nat \ {0} /\ call.njobs \in Nat \ {0}
          /\ call.reduction_size \in Nat \ {0} /\ call.allow_nthr_in_group \in BOOLEAN
        BY CallFacts
    <1> DEFINE G == Groups(c)
               q == call.nthr \div G
    <1>2. G \in 1..call.njobs /\ G <= call.nthr
        <2> DEFINE n == call.njobs \div c
        <2>1. n \in 1..call.njobs
            BY <1>1, QuotientIsPositive
        <2>2. G = IF n < call.nthr THEN n ELSE call.nthr
            BY DEF Groups, min
        <2> HIDE DEF n, G
        <2> QED
            BY <1>1, <2>1, <2>2
    <1> HIDE DEF G
    <1>3. q \in Nat \ {0} /\ q * G <= call.nthr
        <2>1. G \in Nat \ {0} /\ call.nthr \in Nat /\ G <= call.nthr
            BY <1>1, <1>2
        <2> QED
            BY <2>1, QuotientIsPositive
    <1>4. ThreadsPerGroup(c) = IF call.allow_nthr_in_group
                               THEN (IF q < call.reduction_size THEN q ELSE call.reduction_size)
                               ELSE 1
        BY DEF ThreadsPerGroup, min, G
    <1> HIDE DEF q
    <1>5. ThreadsPerGroup(c) \in 1..call.reduction_size /\ ThreadsPerGroup(c) <= q
        BY <1>1, <1>3, <1>4
    <1>6. G * ThreadsPerGroup(c) <= call.nthr
        <2> DEFINE T == ThreadsPerGroup(c)
        <2>1. T \in Nat /\ T <= q
            BY <1>1, <1>5
        <2> HIDE DEF T
        <2>2. T * G <= q * G /\ T * G = G * T /\ G * T \in Nat /\ q * G \in Nat
            BY <1>2, <1>3, <2>1, ProductMonotone
        <2>3. G * T <= call.nthr
            BY <1>1, <1>3, <2>2
        <2> QED
            BY <2>3 DEF T
    <1>7. JobsPerGroup(c) \in Nat \ {0}
        <2>1. G \in Nat \ {0}
            BY <1>2
        <2>2. div_up(call.njobs, G) \in Nat \ {0}
            BY <1>1, <2>1, DivUpFacts
        <2> QED
            BY <2>2 DEF JobsPerGroup, G
    <1> QED
        BY <1>2, <1>4, <1>5, <1>6, <1>7 DEF G

\* Jobs that are dealt out to G groups: each gets at least one and at most
\* div_up(n, G) of them.
LEMMA JobsAreDealtOut ==
    ASSUME NEW n \in Nat \ {0}, NEW G \in 1..n, NEW g \in 0..(G - 1)
    PROVE  n \div G + (IF g < n % G THEN 1 ELSE 0) \in 1..div_up(n, G)
    <1> DEFINE q == n \div G
               r == n % G
               u == div_up(n, G)
    <1>1. G \in Nat \ {0}
        OBVIOUS
    <1>2. q \in Nat /\ r \in 0..(G - 1) /\ n = G * q + r
        BY <1>1, DivisionFacts
    <1>3. q # 0
        BY <1>1, QuotientIsPositive
    <1>4. u \in Nat \ {0} /\ n <= u * G
        BY <1>1, DivUpFacts
    <1> HIDE DEF q, r, u
    <1>5. G * q = q * G /\ (q + 1) * G = q * G + G /\ q * G \in Nat /\ u * G \in Nat
        BY <1>1, <1>2, <1>4
    <1>6. q <= u
        <2>1. SUFFICES ASSUME u + 1 <= q PROVE FALSE
            BY <1>2, <1>4
        <2>2. (u + 1) * G <= q * G /\ (u + 1) * G = u * G + G
            BY <1>1, <1>2, <1>4, <2>1, ProductMonotone
        <2> QED
            BY <1>1, <1>2, <1>4, <1>5, <2>2
    <1>7. r > 0 => q + 1 <= u
        <2>1. SUFFICES ASSUME r > 0, u = q PROVE FALSE
            BY <1>2, <1>4, <1>6
        <2> QED
            BY <1>1, <1>2, <1>4, <1>5, <2>1
    <1>8. q + (IF g < r THEN 1 ELSE 0) \in 1..u
        <2>1. CASE g < r
            BY <1>2, <1>3, <1>4, <1>7, <2>1
        <2>2. CASE ~(g < r)
            BY <1>2, <1>3, <1>4, <1>6, <2>2
        <2> QED
            BY <2>1, <2>2
    <1> QED
        BY <1>8 DEF q, r, u

\* The cost of a candidate is a number.
LEMMA ComplexityIsNat ==
    ASSUME call \in Calls, NEW c \in 1..call.njobs
    PROVE  Complexity(c) \in Nat
    <1> DEFINE T == ThreadsPerGroup(c)
               J == JobsPerGroup(c)
               S == div_up(call.reduction_size, T) + (IF T # 1 THEN 1 ELSE 0)
    <1>1. call.job_size \in Nat /\ call.reduction_size \in Nat \ {0}
        BY CallFacts
    <1>2. T \in 1..call.reduction_size /\ J \in Nat
        BY CandidateIsValid
    <1>3. T \in Nat \ {0}
        BY <1>1, <1>2
    <1> HIDE DEF T, J
    <1>4. div_up(call.reduction_size, T) \in Nat
        BY <1>1, <1>3, DivUpFacts
    <1>5. S \in Nat
        BY <1>4
    <1> HIDE DEF S
    <1>6. call.job_size * J * S \in Nat
        BY <1>1, <1>2, <1>5
    <1> QED
        BY <1>6 DEF Complexity, T, J, S

\* The division kept is always that of a candidate, so it is valid.
LEMMA InvIsValid == BalancerInv => DivisionIsValid
    <1> SUFFICES ASSUME BalancerInv PROVE DivisionIsValid
        OBVIOUS
    <1>1. call \in Calls /\ call.njobs \in Nat \ {0}
        BY CallFacts DEF BalancerInv
    <1>2. PICK c \in Candidates : best = Division(c, best.complexity)
        BY DEF BalancerInv, BestIsACandidate
    <1>3. c \in 1..call.njobs
        BY <1>1, <1>2, FirstCandidate DEF Candidates
    <1>4. /\ best.ngroups = Groups(c) /\ best.nthr_per_group = ThreadsPerGroup(c)
          /\ best.njobs_per_group_ub = JobsPerGroup(c)
        <2>1. \A x : /\ Division(c, x).ngroups = Groups(c)
                     /\ Division(c, x).nthr_per_group = ThreadsPerGroup(c)
                     /\ Division(c, x).njobs_per_group_ub = JobsPerGroup(c)
            BY DEF Division
        <2> QED
            BY <1>2, <2>1, Zenon
    <1>5. /\ best.ngroups \in 1..call.njobs
          /\ best.nthr_per_group \in 1..call.reduction_size
          /\ best.ngroups * best.nthr_per_group <= call.nthr
          /\ ~call.allow_nthr_in_group => best.nthr_per_group = 1
        BY <1>1, <1>3, <1>4, CandidateIsValid
    <1>6. best.njobs_per_group_ub = div_up(call.njobs, best.ngroups)
        BY <1>4 DEF JobsPerGroup
    <1>7. ASSUME NEW g \in 0..(best.ngroups - 1)
          PROVE  grp_njobs(g) \in 1..best.njobs_per_group_ub
        <2>1. ~(g >= best.ngroups)
            BY <1>1, <1>5
        <2>2. grp_njobs(g) = call.njobs \div best.ngroups
                             + (IF g < call.njobs % best.ngroups THEN 1 ELSE 0)
            BY <2>1 DEF grp_njobs
        <2> QED
            BY <1>1, <1>5, <1>6, <2>2, JobsAreDealtOut
    <1> QED
        BY <1>5, <1>7 DEF DivisionIsValid

\* When the loop is over every candidate has been tried.
LEMMA InvIsCheapest == BalancerInv => CheapestIsKept
    <1> SUFFICES ASSUME BalancerInv, Balanced, NEW c \in min_njobs_per_group..(call.njobs - 1),
                        ~TooLarge(c)
                 PROVE  best.complexity <= Complexity(c)
        BY DEF CheapestIsKept
    <1>1. call.njobs \in Nat /\ min_njobs_per_group \in Nat /\ c_njobs_per_group \in Nat
        BY CallFacts, FirstCandidate DEF BalancerInv
    <1>2. c \in min_njobs_per_group..(c_njobs_per_group - 1)
        BY <1>1 DEF Balanced
    <1> QED
        BY <1>2 DEF BalancerInv, NoneTriedIsCheaper

\* The loop starts with the first candidate, and none has been tried.
LEMMA BalancerInitHolds == BalancerInit => BalancerInv
    <1> SUFFICES ASSUME BalancerInit PROVE BalancerInv
        OBVIOUS
    <1> DEFINE cost == call.njobs * call.job_size * call.reduction_size
    <1>1. /\ call \in Calls /\ c_njobs_per_group = min_njobs_per_group
          /\ best = Division(min_njobs_per_group, cost)
        BY DEF BalancerInit
    <1>2. /\ call.njobs \in Nat /\ call.job_size \in Nat /\ call.reduction_size \in Nat
          /\ min_njobs_per_group \in 1..call.njobs
        BY <1>1, CallFacts, FirstCandidate
    <1>3. cost \in Nat
        BY <1>2
    <1> HIDE DEF cost
    <1>4. best.complexity = cost
        BY <1>1 DEF Division
    <1>5. BestIsACandidate
        <2>1. min_njobs_per_group \in Candidates
            BY <1>2 DEF Candidates
        <2> QED
            BY <1>1, <1>4, <2>1 DEF BestIsACandidate
    <1>6. NoneTriedIsCheaper
        BY <1>1, <1>2 DEF NoneTriedIsCheaper
    <1> QED
        BY <1>1, <1>2, <1>3, <1>4, <1>5, <1>6 DEF BalancerInv

\* One turn of the loop keeps the cheaper of two divisions.
LEMMA TryCandidateKeepsBalancerInv ==
    ASSUME BalancerInv, TryCandidate
    PROVE  BalancerInv'
    <1> DEFINE c == c_njobs_per_group
               better == ~TooLarge(c) /\ Complexity(c) < best.complexity
    <1>1. /\ c < call.njobs /\ call' = call /\ c_njobs_per_group' = c + 1
          /\ best' = IF better THEN Division(c, Complexity(c)) ELSE best
        BY DEF TryCandidate
    <1>2. /\ call \in Calls /\ c \in Nat /\ c >= min_njobs_per_group
          /\ best.complexity \in Nat
        BY DEF BalancerInv
    <1>3. call.njobs \in Nat /\ min_njobs_per_group \in 1..call.njobs
        BY <1>2, CallFacts, FirstCandidate
    <1>4. c \in Candidates /\ c \in 1..call.njobs
        BY <1>1, <1>2, <1>3 DEF Candidates
    <1>5. Complexity(c) \in Nat
        BY <1>2, <1>4, ComplexityIsNat
    <1>6. /\ min_njobs_per_group' = min_njobs_per_group
          /\ Candidates' = Candidates
          /\ \A d : TooLarge(d)' = TooLarge(d)
          /\ \A d : Complexity(d)' = Complexity(d)
          /\ \A d, x : Division(d, x)' = Division(d, x)
        BY <1>1 DEF min_njobs_per_group, max_njobs_per_group, Candidates, TooLarge,
                    Complexity, Division, Groups, ThreadsPerGroup, JobsPerGroup
    <1>7. best'.complexity = IF better THEN Complexity(c) ELSE best.complexity
        BY <1>1 DEF Division
    <1>8. best'.complexity \in Nat /\ best'.complexity <= best.complexity
        BY <1>2, <1>5, <1>7
    <1>9. BestIsACandidate'
        <2>1. \E d \in Candidates : best' = Division(d, best'.complexity)
            <3>1. CASE better
                BY <1>1, <1>4, <1>7, <3>1
            <3>2. CASE ~better
                BY <1>1, <1>7, <3>2 DEF BalancerInv, BestIsACandidate
            <3> QED
                BY <3>1, <3>2
        <2> QED
            BY <1>1, <2>1 DEF BestIsACandidate, Division, Candidates, Groups, ThreadsPerGroup,
                              JobsPerGroup, min_njobs_per_group
    <1>10. NoneTriedIsCheaper'
        <2>1. SUFFICES ASSUME NEW d \in min_njobs_per_group..c, ~TooLarge(d)
                       PROVE  best'.complexity <= Complexity(d)
            BY <1>1, <1>2, <1>3, <1>6 DEF NoneTriedIsCheaper
        <2>2. CASE d = c
            BY <1>2, <1>5, <1>7, <2>1, <2>2
        <2>3. CASE d # c
            <3>1. d \in min_njobs_per_group..(c - 1)
                BY <1>2, <1>3, <2>1, <2>3
            <3>2. best.complexity <= Complexity(d)
                BY <2>1, <3>1 DEF BalancerInv, NoneTriedIsCheaper
            <3>3. d \in 1..call.njobs
                BY <1>3, <1>4, <2>1
            <3>4. Complexity(d) \in Nat
                BY <1>2, <3>3, ComplexityIsNat
            <3> QED
                BY <1>2, <1>8, <3>2, <3>4
        <2> QED
            BY <2>2, <2>3
    <1> QED
        BY <1>1, <1>2, <1>3, <1>6, <1>8, <1>9, <1>10 DEF BalancerInv

\* The invariant holds at every turn of the loop.
LEMMA BalancerInvHolds == BalancerSpec => []BalancerInv
    <1>1. BalancerInv /\ [TryCandidate]_balancerVars => BalancerInv'
        <2> SUFFICES ASSUME BalancerInv, [TryCandidate]_balancerVars PROVE BalancerInv'
            OBVIOUS
        <2>1. CASE TryCandidate
            BY <2>1, TryCandidateKeepsBalancerInv
        <2>2. CASE UNCHANGED balancerVars
            BY <2>2 DEF balancerVars, BalancerInv, BestIsACandidate, NoneTriedIsCheaper, Candidates,
                        min_njobs_per_group, max_njobs_per_group, TooLarge, Complexity,
                        Division, Groups, ThreadsPerGroup, JobsPerGroup
        <2> QED
            BY <2>1, <2>2
    <1> QED
        BY <1>1, BalancerInitHolds, PTL DEF BalancerSpec

\* The groups fit in the team, every group has a job and every thread of a
\* group a term, for all arguments of the constructor.
THEOREM DivisionAlwaysValid == BalancerSpec => []DivisionIsValid
    BY BalancerInvHolds, InvIsValid, PTL

\* The loop ends with the cheapest candidate.
THEOREM CheapestAlwaysKept == BalancerSpec => []CheapestIsKept
    BY BalancerInvHolds, InvIsCheapest, PTL

-----------------------------------------------------------------------------
(* The areas of the threads.  Thread i of group g keeps its sums at Base(g, i) *)
(* of the destination (i = 0) or of the space (i > 0).                         *)

NGroups == best.ngroups
Team == best.nthr_per_group

Base(g, i) ==
    IF i = 0 THEN grp_job_off(g) * call.job_size
    ELSE (g * (Team - 1) + i - 1) * space_per_thread

Size(g) == grp_njobs(g) * call.job_size

Member(g, i) == Team * g + i

Working(t) == group_id(t) < NGroups

\* t has all its sums.
Summed(t) == thr[t].pc \notin {"start", "compute"}

\* Everybody in t's group has all its sums.
GroupSummed(t) == \A u \in Tids : group_id(u) = group_id(t) => Summed(u)

-----------------------------------------------------------------------------
(* The invariant *)

Pcs == {"out", "start", "compute", "barrier", "reduce", "done"}

TypeInv == thr \in [Tids -> [pc : Pcs, row : Nat, end : Nat]]

\* Between two executions nobody is in the region; in an execution everybody
\* is, the division is the final one and the arrays are there.
RegionInv ==
    \/ AllOut
    \/ /\ Balanced
       /\ \A t \in Tids : thr[t].pc # "out"
       /\ DOMAIN arrived = 0..(NGroups - 1)
       /\ DOMAIN dst = 0..(call.njobs * call.job_size - 1)
       /\ DOMAIN space = 0..(space_size - 1)

\* Only threads with jobs get beyond the start, and only threads of a group of
\* several to the barrier.
WorkInv ==
    \A t \in Tids :
        /\ thr[t].pc \in {"compute", "barrier", "reduce"} => Working(t)
        /\ thr[t].pc \in {"barrier", "reduce"} => Team > 1

\* The barrier of a group counts the threads that have all their sums.
BarrierInv ==
    ~AllOut /\ Team > 1 =>
        \A g \in 0..(NGroups - 1) :
            arrived[g] = {u \in Tids : group_id(u) = g /\ Summed(u)}

\* Who is beyond the barrier left nobody of its group behind.
PhaseInv ==
    \A t \in Tids :
        /\ thr[t].pc = "reduce" => GroupSummed(t)
        /\ thr[t].pc = "done" /\ Team > 1 /\ Working(t) => GroupSummed(t)

ControlInv == TypeInv /\ RegionInv /\ WorkInv /\ BarrierInv /\ PhaseInv

FirstOf(t) == balance211_start(call.reduction_size, Team, id_in_group(t))
EndOf(t) == balance211_end(call.reduction_size, Team, id_in_group(t))

\* Of the partial sums of thread t, the one at offset x: where it is, and
\* the job it belongs to.
Element(t, x) == IF ToDst(t) THEN dst[local_off(t) + x] ELSE space[local_off(t) + x]
JobAt(t, x) == ithr_job_off(t) + (x \div call.job_size)

\* Somebody of the group has added everybody's sums at offset x.
Finished(g, x) ==
    Team > 1 /\ \E u \in Tids : group_id(u) = g /\ thr[u].pc = "done" /\ x \in Slice(u)

ProgressInv ==
    \A t \in Tids : Working(t) /\ thr[t].pc \notin {"out", "start"} =>
        /\ thr[t].end = EndOf(t)
        /\ thr[t].row \in FirstOf(t)..EndOf(t)
        /\ Summed(t) => thr[t].row = EndOf(t)

\* The rows that thread t has summed are in its sums, each once, until they
\* are in the destination with all the others.
DataInv ==
    \A t \in Tids : Working(t) /\ thr[t].pc \notin {"out", "start"} =>
        \A x \in 0..(Size(group_id(t)) - 1) :
            IF ToDst(t) /\ Finished(group_id(t), x)
            THEN Element(t, x) = {JobAt(t, x)} \X (0..(call.reduction_size - 1))
            ELSE thr[t].row > FirstOf(t) =>
                     Element(t, x) = {JobAt(t, x)} \X (FirstOf(t)..(thr[t].row - 1))

ReducerInv == BalancerInv /\ ControlInv /\ ProgressInv /\ DataInv

-----------------------------------------------------------------------------
(* Where the threads are and what they have of the jobs. *)

\* The numbers of the final division.
LEMMA DivisionNumbers ==
    ASSUME BalancerInv
    PROVE  /\ nthr \in Nat \ {0} /\ call.njobs \in Nat \ {0} /\ call.job_size \in Nat \ {0}
           /\ call.reduction_size \in Nat \ {0}
           /\ NGroups \in 1..call.njobs /\ Team \in 1..call.reduction_size
           /\ Team * NGroups <= nthr
           /\ best.njobs_per_group_ub \in Nat \ {0}
           /\ space_per_thread \in Nat \ {0}
           /\ \A g \in 0..(NGroups - 1) : grp_njobs(g) \in 1..best.njobs_per_group_ub
    <1>1. DivisionIsValid /\ call \in Calls
        BY InvIsValid DEF BalancerInv
    <1>2. /\ nthr \in Nat \ {0} /\ call.njobs \in Nat \ {0} /\ call.job_size \in Nat \ {0}
          /\ call.reduction_size \in Nat \ {0}
        BY <1>1, CallFacts DEF nthr
    <1>3. /\ NGroups \in 1..call.njobs /\ Team \in 1..call.reduction_size
          /\ NGroups * Team <= nthr
          /\ \A g \in 0..(NGroups - 1) : grp_njobs(g) \in 1..best.njobs_per_group_ub
        BY <1>1 DEF DivisionIsValid, NGroups, Team, nthr
    <1>4. Team * NGroups = NGroups * Team
        BY <1>2, <1>3
    <1>5. best.njobs_per_group_ub \in Nat \ {0}
        <2>1. grp_njobs(0) \in 1..best.njobs_per_group_ub
            BY <1>2, <1>3
        <2>2. PICK c \in Candidates : best = Division(c, best.complexity)
            BY DEF BalancerInv, BestIsACandidate
        <2>3. c \in 1..call.njobs
            BY <1>1, <1>2, <2>2, FirstCandidate DEF Candidates
        <2>4. best.njobs_per_group_ub = JobsPerGroup(c)
            <3>1. \A x : Division(c, x).njobs_per_group_ub = JobsPerGroup(c)
                BY DEF Division
            <3> QED
                BY <2>2, <3>1, Zenon
        <2> QED
            BY <1>1, <2>3, <2>4, CandidateIsValid
    <1>6. space_per_thread \in Nat \ {0}
        <2> DEFINE b == best.njobs_per_group_ub
                   s == call.job_size
        <2>1. b \in Nat \ {0} /\ s \in Nat \ {0}
            BY <1>2, <1>5
        <2> HIDE DEF b, s
        <2>2. b * s \in Nat \ {0}
            <3>1. 1 * s <= b * s
                BY <2>1, ProductMonotone
            <3> QED
                BY <2>1, <3>1
        <2> QED
            BY <2>2 DEF space_per_thread, b, s
    <1> QED
        BY <1>2, <1>3, <1>4, <1>5, <1>6

\* Every thread is a member of a group, perhaps of one without jobs.
LEMMA ThreadIsAMember ==
    ASSUME BalancerInv, NEW t \in Tids
    PROVE  /\ group_id(t) \in Nat /\ id_in_group(t) \in 0..(Team - 1)
           /\ t = Member(group_id(t), id_in_group(t))
           /\ Master(t) = Member(group_id(t), 0)
    <1>1. t \in Nat /\ Team \in Nat \ {0}
        BY DivisionNumbers DEF Tids
    <1> DEFINE g == t \div Team
               i == t % Team
    <1>2. g \in Nat /\ i \in 0..(Team - 1) /\ t = Team * g + i
        BY <1>1, DivisionFacts
    <1>3. group_id(t) = g /\ id_in_group(t) = i
        BY DEF group_id, id_in_group, Team
    <1> HIDE DEF g, i
    <1>4. Team * g \in Nat
        BY <1>1, <1>2
    <1>5. t - i = Team * g + 0
        BY <1>1, <1>2, <1>4
    <1> QED
        BY <1>2, <1>3, <1>5 DEF Member, Master

\* Every group with jobs has all its members.
LEMMA MemberIsAThread ==
    ASSUME BalancerInv, NEW g \in 0..(NGroups - 1), NEW i \in 0..(Team - 1)
    PROVE  /\ Member(g, i) \in Tids
           /\ group_id(Member(g, i)) = g /\ id_in_group(Member(g, i)) = i
    <1>1. /\ Team \in Nat \ {0} /\ NGroups \in Nat \ {0} /\ nthr \in Nat
          /\ Team * NGroups <= nthr
        BY DivisionNumbers
    <1>2. g \in Nat /\ i \in Nat /\ i < Team
        BY <1>1
    <1> DEFINE m == Team * g + i
    <1>3. m \in Nat
        BY <1>1, <1>2
    <1>4. m < Team * NGroups
        <2>1. (g + 1) * Team <= NGroups * Team
            BY <1>1, <1>2, ProductMonotone
        <2>2. (g + 1) * Team = Team * g + Team /\ NGroups * Team = Team * NGroups
            BY <1>1, <1>2
        <2>3. Team * g \in Nat /\ Team * NGroups \in Nat
            BY <1>1, <1>2
        <2> QED
            BY <1>1, <1>2, <2>1, <2>2, <2>3
    <1>5. m \in Tids
        <2>1. Team * NGroups \in Nat
            BY <1>1
        <2> HIDE DEF m
        <2> QED
            BY <1>1, <1>3, <1>4, <2>1 DEF Tids
    <1>6. m \div Team = g /\ m % Team = i
        BY <1>1, <1>2, <1>3, DivisionIsUnique
    <1> QED
        BY <1>5, <1>6 DEF Member, group_id, id_in_group, Team

\* The groups with jobs are the ones whose threads have jobs.
LEMMA WorkersHaveJobs ==
    ASSUME BalancerInv, NEW t \in Tids
    PROVE  /\ Working(t) <=> group_id(t) \in 0..(NGroups - 1)
           /\ Working(t) <=> ithr_njobs(t) # 0
           /\ Working(t) => ~idle(t)
    <1>1. /\ group_id(t) \in Nat /\ id_in_group(t) \in 0..(Team - 1)
          /\ t = Team * group_id(t) + id_in_group(t)
        BY ThreadIsAMember DEF Member
    <1>2. /\ NGroups \in Nat \ {0} /\ Team \in Nat \ {0}
          /\ \A g \in 0..(NGroups - 1) : grp_njobs(g) \in 1..best.njobs_per_group_ub
        BY DivisionNumbers
    <1> DEFINE g == group_id(t)
               i == id_in_group(t)
    <1> HIDE DEF g, i
    <1>3. Working(t) <=> g \in 0..(NGroups - 1)
        BY <1>1, <1>2 DEF Working, g
    <1>4. Working(t) => grp_njobs(g) # 0
        BY <1>2, <1>3
    <1>5. ~Working(t) => grp_njobs(g) = 0
        BY <1>1, <1>2 DEF Working, grp_njobs, g, NGroups
    <1>6. Working(t) => ~idle(t)
        <2>1. SUFFICES ASSUME g + 1 <= NGroups PROVE ~idle(t)
            BY <1>1, <1>2, <1>3 DEF g
        <2>2. g \in Nat /\ i \in 0..(Team - 1) /\ t = Team * g + i
            BY <1>1 DEF g, i
        <2>3. (g + 1) * Team <= NGroups * Team
            BY <1>2, <2>1, <2>2, ProductMonotone
        <2>4. /\ (g + 1) * Team = Team * g + Team /\ NGroups * Team = Team * NGroups
              /\ Team * g \in Nat /\ Team * NGroups \in Nat
            BY <1>2, <2>2
        <2>5. t < Team * NGroups
            BY <1>2, <2>2, <2>3, <2>4
        <2>6. t \in Nat
            BY <2>2, <2>4
        <2> QED
            BY <2>4, <2>5, <2>6 DEF idle, Team, NGroups
    <1> QED
        BY <1>3, <1>4, <1>5, <1>6 DEF ithr_njobs, g

\* The jobs are divided among the groups as balance211 divides items.
LEMMA JobsOfGroups ==
    ASSUME BalancerInv, NEW g \in 0..(NGroups - 1)
    PROVE  /\ grp_job_off(g) = balance211_start(call.njobs, NGroups, g)
           /\ grp_job_off(g) + grp_njobs(g) = balance211_end(call.njobs, NGroups, g)
    <1> DEFINE n == call.njobs
               G == NGroups
               q == n \div G
               r == n % G
    <1>1. n \in Nat \ {0} /\ G \in Nat \ {0} /\ G \in 1..n
        BY DivisionNumbers
    <1>2. ~(g >= G) /\ g \in Nat
        BY <1>1
    <1>3. /\ grp_njobs(g) = q + (IF g < r THEN 1 ELSE 0)
          /\ grp_job_off(g) = q * g + (IF g < r THEN g ELSE r)
        BY <1>2 DEF grp_njobs, grp_job_off, min, NGroups
    <1> HIDE DEF n, G
    <1>4. q \in Nat /\ r \in 0..(G - 1) /\ n = G * q + r
        BY <1>1, DivisionFacts
    <1>5. CASE G = 1
        <2>1. g = 0 /\ r = 0 /\ q = n
            BY <1>1, <1>2, <1>4, <1>5
        <2>2. balance211_start(n, G, g) = 0 /\ balance211_end(n, G, g) = n
            BY <1>1, <1>5 DEF NotDivided, balance211_start, balance211_size, balance211_end
        <2> QED
            BY <1>1, <1>3, <2>1, <2>2 DEF n, G
    <1>6. CASE G > 1
        <2> DEFINE n1 == BigPiece(n, G)
                   T1 == BigPieces(n, G)
        <2>1. n1 \in Nat \ {0} /\ T1 \in 1..G /\ n = G * (n1 - 1) + T1
            BY <1>1, PiecesFacts
        <2>2. g \in 0..(G - 1)
            BY DEF G
        <2>3. /\ g <= T1 => balance211_start(n, G, g) = g * n1
              /\ g >= T1 => balance211_start(n, G, g) = T1 + g * (n1 - 1)
              /\ g < T1 => balance211_end(n, G, g) = (g + 1) * n1
              /\ g >= T1 => balance211_end(n, G, g) = T1 + (g + 1) * (n1 - 1)
            BY <1>1, <1>6, <2>2, StartFacts
        <2> HIDE DEF n1, T1
        <2>4. g * n1 = g * (n1 - 1) + g /\ (g + 1) * n1 = g * n1 + n1
              /\ (g + 1) * (n1 - 1) = g * (n1 - 1) + (n1 - 1)
            BY <1>2, <2>1
        <2>5. CASE T1 = G
            <3>1. G * n1 = G * (n1 - 1) + G
                BY <1>1, <2>1
            <3>2. n = G * n1 + 0 /\ 0 \in 0..(G - 1)
                BY <1>1, <2>1, <2>5, <3>1
            <3>3. q = n1 /\ r = 0
                BY <1>1, <2>1, <3>2, DivisionIsUnique
            <3> HIDE DEF q, r
            <3>4. q * g = g * n1
                BY <1>2, <2>1, <3>3
            <3>5. g < T1
                BY <2>2, <2>5, <1>1
            <3> QED
                BY <1>2, <1>3, <2>1, <2>3, <2>4, <3>3, <3>4, <3>5 DEF n, G
        <2>6. CASE T1 # G
            <3>1. T1 \in 0..(G - 1) /\ n1 - 1 \in Nat
                BY <1>1, <2>1, <2>6
            <3>2. q = n1 - 1 /\ r = T1
                <4>1. PICK m \in Nat : m = n1 - 1
                    BY <3>1
                <4>2. n \in Nat /\ n = G * m + T1
                    BY <1>1, <2>1, <4>1
                <4>3. n \div G = m /\ n % G = T1
                    BY <1>1, <3>1, <4>2, DivisionIsUnique
                <4> QED
                    BY <4>1, <4>3
            <3> HIDE DEF q, r
            <3>3. q * g = g * (n1 - 1) /\ q * g \in Nat
                BY <1>2, <1>4, <3>2
            <3>4. CASE g < T1
                BY <1>2, <1>3, <2>1, <2>3, <2>4, <3>2, <3>3, <3>4 DEF n, G
            <3>5. CASE g >= T1
                BY <1>2, <1>3, <2>1, <2>3, <2>4, <3>2, <3>3, <3>5 DEF n, G
            <3> QED
                BY <1>2, <3>1, <3>4, <3>5
        <2> QED
            BY <2>5, <2>6
    <1> QED
        BY <1>1, <1>5, <1>6

\* The jobs of a group are in the destination, in the order of the groups.
LEMMA JobsAreInOrder ==
    ASSUME BalancerInv, NEW g \in 0..(NGroups - 1)
    PROVE  /\ grp_job_off(g) \in Nat
           /\ grp_njobs(g) \in 1..best.njobs_per_group_ub
           /\ grp_job_off(g) + grp_njobs(g) <= call.njobs
           /\ \A h \in 0..(NGroups - 1) :
                 g < h => grp_job_off(g) + grp_njobs(g) <= grp_job_off(h)
    <1>1. call.njobs \in Nat /\ NGroups \in Nat \ {0} /\ best.njobs_per_group_ub \in Nat
        BY DivisionNumbers
    <1>2. grp_njobs(g) \in 1..best.njobs_per_group_ub
        BY DivisionNumbers
    <1>3. grp_job_off(g) \in Nat /\ grp_job_off(g) + grp_njobs(g) \in 0..call.njobs
        BY <1>1, JobsOfGroups, PieceBounds
    <1>4. ASSUME NEW h \in 0..(NGroups - 1), g < h
          PROVE  grp_job_off(g) + grp_njobs(g) <= grp_job_off(h)
        <2>1. balance211_end(call.njobs, NGroups, g) <= balance211_start(call.njobs, NGroups, h)
            BY <1>1, <1>4, PiecesAreOrdered
        <2> QED
            BY <2>1, <1>4, JobsOfGroups
    <1> QED
        BY <1>1, <1>2, <1>3, <1>4

\* The area of every member of a group with jobs is within its array.
LEMMA AreasFit ==
    ASSUME BalancerInv, NEW g \in 0..(NGroups - 1), NEW i \in 0..(Team - 1)
    PROVE  /\ Base(g, i) \in Nat
           /\ Size(g) \in Nat \ {0} /\ Size(g) <= space_per_thread
           /\ i = 0 => Base(g, i) + Size(g) <= call.njobs * call.job_size
           /\ i # 0 => Base(g, i) + Size(g) <= space_size
           /\ call.njobs * call.job_size \in Nat /\ space_size \in Nat
    <1> DEFINE n == call.njobs
               s == call.job_size
               off == grp_job_off(g)
               num == grp_njobs(g)
               ub == best.njobs_per_group_ub
               sp == space_per_thread
    <1>1. /\ n \in Nat \ {0} /\ s \in Nat \ {0} /\ ub \in Nat \ {0} /\ sp \in Nat \ {0}
          /\ NGroups \in Nat \ {0} /\ Team \in Nat \ {0}
        BY DivisionNumbers
    <1>2. off \in Nat /\ num \in Nat \ {0} /\ num <= ub /\ off + num <= n
        BY <1>1, JobsAreInOrder
    <1>3. sp = ub * s
        BY DEF space_per_thread
    <1>4. /\ Size(g) = num * s
          /\ Base(g, i) = IF i = 0 THEN off * s ELSE (g * (Team - 1) + i - 1) * sp
          /\ space_size = NGroups * (Team - 1) * sp
        BY DEF Size, Base, space_size, NGroups, Team
    <1> HIDE DEF n, s, off, num, ub, sp
    <1>5. num * s <= ub * s /\ 1 * s <= num * s /\ num * s \in Nat
        BY <1>1, <1>2, ProductMonotone
    <1>6. Size(g) \in Nat \ {0} /\ Size(g) <= sp
        BY <1>1, <1>3, <1>4, <1>5
    <1>7. n * s \in Nat /\ space_size \in Nat
        <2>1. NGroups * (Team - 1) \in Nat
            BY <1>1
        <2> QED
            BY <1>1, <1>4, <2>1
    <1>8. CASE i = 0
        <2>1. off * s \in Nat /\ (off + num) * s <= n * s
            BY <1>1, <1>2, ProductMonotone
        <2>2. (off + num) * s = off * s + num * s
            BY <1>1, <1>2
        <2>3. Base(g, i) = off * s
            BY <1>4, <1>8
        <2> QED
            BY <1>4, <1>6, <1>7, <1>8, <2>1, <2>2, <2>3 DEF n, s, sp
    <1>9. CASE i # 0
        <2> DEFINE k == g * (Team - 1) + i - 1
                   K == NGroups * (Team - 1)
        <2>1. g \in Nat /\ i - 1 \in Nat /\ Team - 1 \in Nat /\ i - 1 < Team - 1
            BY <1>1, <1>9
        <2>2. g * (Team - 1) \in Nat /\ K \in Nat
            BY <1>1, <2>1
        <2>3. k \in Nat /\ k + 1 <= K
            <3>1. (g + 1) * (Team - 1) <= K
                BY <1>1, <2>1, ProductMonotone
            <3>2. (g + 1) * (Team - 1) = g * (Team - 1) + (Team - 1)
                BY <1>1, <2>1
            <3> QED
                BY <2>1, <2>2, <3>1, <3>2
        <2>4. Base(g, i) = k * sp /\ space_size = K * sp
            BY <1>4, <1>9
        <2> HIDE DEF k, K
        <2>5. (k + 1) * sp <= K * sp /\ (k + 1) * sp = k * sp + sp /\ k * sp \in Nat
            BY <1>1, <2>2, <2>3, ProductMonotone
        <2>6. Base(g, i) + Size(g) <= space_size
            BY <1>1, <1>6, <1>7, <2>4, <2>5
        <2> QED
            BY <1>6, <1>7, <1>9, <2>4, <2>5, <2>6 DEF n, s, sp
    <1> QED
        BY <1>8, <1>9

\* The areas of two members in the same array are disjoint.
LEMMA AreasAreDisjoint ==
    ASSUME BalancerInv,
           NEW g \in 0..(NGroups - 1), NEW i \in 0..(Team - 1),
           NEW h \in 0..(NGroups - 1), NEW j \in 0..(Team - 1),
           i = 0 <=> j = 0, g # h \/ i # j,
           NEW x \in 0..(Size(g) - 1), NEW y \in 0..(Size(h) - 1)
    PROVE  Base(g, i) + x # Base(h, j) + y
    <1> DEFINE Below(a, b, c, d) == Base(a, b) + Size(a) <= Base(c, d)
    <1>1. ASSUME NEW a \in 0..(NGroups - 1), NEW b \in 0..(Team - 1),
                 NEW c \in 0..(NGroups - 1), NEW d \in 0..(Team - 1),
                 b = 0 <=> d = 0, a < c \/ (a = c /\ b < d)
          PROVE  Below(a, b, c, d)
        <2>1. /\ call.job_size \in Nat \ {0} /\ Team \in Nat \ {0} /\ NGroups \in Nat \ {0}
              /\ space_per_thread \in Nat \ {0}
            BY DivisionNumbers
        <2>2. CASE b = 0
            <3> DEFINE s == call.job_size
                       off == grp_job_off(a)
                       num == grp_njobs(a)
                       off2 == grp_job_off(c)
            <3>0. a < c /\ d = 0
                BY <1>1, <2>2, <2>1
            <3>1. off \in Nat /\ num \in Nat /\ off + num <= off2 /\ off2 \in Nat
                BY <3>0, JobsAreInOrder
            <3>2. Base(a, b) = off * s /\ Base(c, d) = off2 * s /\ Size(a) = num * s
                BY <2>2, <3>0 DEF Base, Size
            <3>3. s \in Nat
                BY <2>1
            <3> HIDE DEF s, off, num, off2
            <3>4. (off + num) * s <= off2 * s /\ (off + num) * s = off * s + num * s
                BY <3>1, <3>3, ProductMonotone
            <3> QED
                BY <3>2, <3>4
        <2>3. CASE b # 0
            <3> DEFINE sp == space_per_thread
                       M == Team - 1
                       k == a * M + b - 1
                       l == c * M + d - 1
            <3>1. a \in Nat /\ c \in Nat /\ b - 1 \in Nat /\ d - 1 \in Nat /\ M \in Nat
                  /\ b - 1 < M /\ sp \in Nat
                BY <1>1, <2>1, <2>3
            <3>2. Base(a, b) = k * sp /\ Base(c, d) = l * sp
                BY <1>1, <2>3 DEF Base
            <3> HIDE DEF M, sp
            <3>3. a * M \in Nat /\ c * M \in Nat
                BY <3>1
            <3>4. k \in Nat /\ l \in Nat /\ k + 1 <= l
                <4>1. CASE a < c
                    <5>1. (a + 1) * M <= c * M /\ (a + 1) * M = a * M + M
                        BY <3>1, <4>1, ProductMonotone
                    <5> QED
                        BY <3>1, <3>3, <5>1
                <4>2. CASE a = c /\ b < d
                    BY <3>1, <3>3, <4>2
                <4> QED
                    BY <1>1, <4>1, <4>2
            <3> HIDE DEF k, l
            <3>5. (k + 1) * sp <= l * sp /\ (k + 1) * sp = k * sp + sp /\ k * sp \in Nat
                  /\ l * sp \in Nat
                BY <3>1, <3>4, ProductMonotone
            <3>6. Size(a) \in Nat /\ Size(a) <= sp
                BY AreasFit DEF sp
            <3> QED
                BY <3>1, <3>2, <3>5, <3>6
        <2> QED
            BY <2>2, <2>3
    <1>2. /\ Base(g, i) \in Nat /\ Size(g) \in Nat
          /\ Base(h, j) \in Nat /\ Size(h) \in Nat
        BY AreasFit
    <1>3. Below(g, i, h, j) \/ Below(h, j, g, i)
        <2>1. \/ g < h \/ (g = h /\ i < j)
              \/ h < g \/ (h = g /\ j < i)
            OBVIOUS
        <2> HIDE DEF Below
        <2> QED
            BY <1>1, <2>1
    <1> QED
        BY <1>2, <1>3

\* Where the sums of a thread are, where the driver looks for them, and where
\* it puts them.
LEMMA AreasOfThreads ==
    ASSUME BalancerInv, NEW t \in Tids, Working(t)
    PROVE  LET g == group_id(t)
           IN  /\ g \in 0..(NGroups - 1) /\ id_in_group(t) \in 0..(Team - 1)
               /\ local_off(t) = Base(g, id_in_group(t))
               /\ Local(t) = Base(g, id_in_group(t))..(Base(g, id_in_group(t)) + Size(g) - 1)
               /\ local_off(Master(t)) = Base(g, 0)
               /\ \A k \in 1..(Team - 1), e \in Int : Source(t, k, e) = Base(g, k) + e
               /\ ithr_njobs(t) * call.job_size = Size(g)
    <1> DEFINE g == group_id(t)
    <1>1. g \in 0..(NGroups - 1) /\ id_in_group(t) \in 0..(Team - 1)
        BY ThreadIsAMember, WorkersHaveJobs
    <1>2. \A u : local_off(u) = Base(group_id(u), id_in_group(u))
        BY DEF local_off, Base, ToDst, ithr_job_off, Team
    <1>3. ithr_njobs(t) * call.job_size = Size(g)
        BY DEF ithr_njobs, Size
    <1>4. Local(t) = Base(g, id_in_group(t))..(Base(g, id_in_group(t)) + Size(g) - 1)
        BY <1>2, <1>3 DEF Local
    <1>5. Master(t) = Member(g, 0)
        BY ThreadIsAMember
    <1>6. Team \in Nat \ {0} /\ NGroups \in Nat \ {0} /\ space_per_thread \in Nat
        BY DivisionNumbers
    <1> HIDE DEF g
    <1>7. local_off(Master(t)) = Base(g, 0)
        <2>1. group_id(Member(g, 0)) = g /\ id_in_group(Member(g, 0)) = 0
            BY <1>1, <1>6, MemberIsAThread
        <2> QED
            BY <1>2, <1>5, <2>1
    <1>8. ASSUME NEW k \in 1..(Team - 1), NEW e \in Int
          PROVE  Source(t, k, e) = Base(g, k) + e
        <2>1. group_id(Member(g, 1)) = g /\ id_in_group(Member(g, 1)) = 1
            BY <1>1, <1>6, MemberIsAThread
        <2>2. Master(t) + 1 = Member(g, 1)
            <3>1. g \in Nat
                BY <1>1, <1>6
            <3>2. Team * g \in Nat
                BY <1>6, <3>1
            <3> QED
                BY <1>5, <3>2 DEF Member
        <2>3. local_off(Master(t) + 1) = Base(g, 1)
            BY <1>2, <2>1, <2>2
        <2> DEFINE a == g * (Team - 1)
                   sp == space_per_thread
        <2>4. Base(g, 1) = (a + 1 - 1) * sp /\ Base(g, k) = (a + k - 1) * sp
            BY DEF Base
        <2>5. a \in Nat /\ sp \in Nat
            <3>1. g \in Nat /\ Team - 1 \in Nat
                BY <1>1, <1>6
            <3> QED
                BY <1>6, <3>1
        <2>6. Source(t, k, e) = Base(g, 1) + (k - 1) * sp + e
            BY <2>3 DEF Source
        <2> HIDE DEF a, sp
        <2>7. (a + k - 1) * sp = (a + 1 - 1) * sp + (k - 1) * sp
            BY <2>5
        <2> QED
            BY <2>4, <2>6, <2>7
    <1> QED
        BY <1>1, <1>2, <1>3, <1>4, <1>7, <1>8 DEF g

\* The members of a group divide the elements among themselves.
LEMMA SlicesDivide ==
    ASSUME BalancerInv, NEW t \in Tids, Working(t)
    PROVE  /\ Slice(t) \subseteq 0..(Size(group_id(t)) - 1)
           /\ \A u \in Tids :
                 group_id(u) = group_id(t) /\ u # t => Slice(t) \cap Slice(u) = {}
           /\ \A x \in 0..(Size(group_id(t)) - 1) :
                 \E u \in Tids : group_id(u) = group_id(t) /\ x \in Slice(u)
    <1> DEFINE g == group_id(t)
               lines == div_up(Size(g), cl)
    <1>1. g \in 0..(NGroups - 1) /\ Team \in Nat \ {0}
        BY AreasOfThreads, DivisionNumbers
    <1>2. Size(g) \in Nat \ {0} /\ cl \in Nat \ {0}
        BY <1>1, AreasFit, LineAssumption
    <1>3. lines \in Nat \ {0} /\ Size(g) <= lines * cl
        BY <1>2, DivUpFacts
    <1>4. \A u \in Tids : group_id(u) = g =>
              Slice(u) = {e \in 0..(Size(g) - 1) : e \div cl \in Piece(lines, Team, id_in_group(u))}
        BY DEF Slice, Size, ithr_njobs, Team
    <1> HIDE DEF g, lines
    <1>5. g = group_id(t)
        BY DEF g
    <1>6. ASSUME NEW u \in Tids, group_id(u) = g, u # t
          PROVE  Slice(t) \cap Slice(u) = {}
        <2> DEFINE i == id_in_group(t)
                   j == id_in_group(u)
        <2>1. i \in 0..(Team - 1) /\ j \in 0..(Team - 1)
            BY ThreadIsAMember
        <2>2. i # j
            BY <1>5, <1>6, ThreadIsAMember
        <2>3. SUFFICES ASSUME NEW l, l \in Piece(lines, Team, i), l \in Piece(lines, Team, j)
                       PROVE  FALSE
            BY <1>4, <1>5, <1>6
        <2> HIDE DEF i, j
        <2>4. /\ balance211_start(lines, Team, i) \in Nat /\ balance211_end(lines, Team, i) \in Nat
              /\ balance211_start(lines, Team, j) \in Nat /\ balance211_end(lines, Team, j) \in Nat
            <3>1. lines \in Nat
                BY <1>3
            <3>2. \A k \in 0..(Team - 1) :
                     /\ balance211_start(lines, Team, k) \in Nat
                     /\ balance211_end(lines, Team, k) \in 0..lines
                BY <1>1, <3>1, PieceBounds
            <3> QED
                BY <2>1, <3>1, <3>2
        <2>5. i < j => balance211_end(lines, Team, i) <= balance211_start(lines, Team, j)
            BY <1>1, <1>3, <2>1, PiecesAreOrdered
        <2>6. j < i => balance211_end(lines, Team, j) <= balance211_start(lines, Team, i)
            BY <1>1, <1>3, <2>1, PiecesAreOrdered
        <2>7. i < j \/ j < i
            BY <2>1, <2>2
        <2> QED
            BY <2>3, <2>4, <2>5, <2>6, <2>7 DEF Piece
    <1>7. ASSUME NEW x \in 0..(Size(g) - 1)
          PROVE  \E u \in Tids : group_id(u) = g /\ x \in Slice(u)
        <2> DEFINE l == x \div cl
        <2>1. x \in Nat /\ l \in Nat /\ x % cl \in 0..(cl - 1) /\ x = cl * l + (x % cl)
            <3>1. x \in Nat
                BY <1>2
            <3> QED
                BY <1>2, <3>1, DivisionFacts
        <2>2. l \in 0..(lines - 1)
            <3>1. SUFFICES ASSUME lines <= l PROVE FALSE
                BY <1>3, <2>1
            <3> HIDE DEF l
            <3>2. lines * cl <= l * cl /\ l * cl = cl * l /\ l * cl \in Nat /\ lines * cl \in Nat
                BY <1>2, <1>3, <2>1, <3>1, ProductMonotone
            <3> QED
                BY <1>2, <1>3, <2>1, <3>2
        <2>3. PICK i \in 0..(Team - 1) : l \in Piece(lines, Team, i)
            BY <1>1, <1>3, <2>2, EveryItemHasAThread
        <2>4. /\ Member(g, i) \in Tids /\ group_id(Member(g, i)) = g
              /\ id_in_group(Member(g, i)) = i
            BY <1>1, MemberIsAThread
        <2>5. x \in Slice(Member(g, i))
            BY <1>4, <2>3, <2>4
        <2> QED
            BY <2>4, <2>5
    <1> QED
        BY <1>4, <1>5, <1>6, <1>7

\* The members of a group divide the rows, and each gets some.
LEMMA RowsDivide ==
    ASSUME BalancerInv, NEW t \in Tids
    PROVE  /\ FirstOf(t) \in Nat /\ EndOf(t) \in 0..call.reduction_size
           /\ FirstOf(t) < EndOf(t)
           /\ \A u \in Tids :
                 id_in_group(t) < id_in_group(u) => EndOf(t) <= FirstOf(u)
    <1> DEFINE R == call.reduction_size
               i == id_in_group(t)
    <1>1. R \in Nat \ {0} /\ Team \in 1..R /\ Team \in Nat \ {0}
        BY DivisionNumbers
    <1>2. i \in 0..(Team - 1)
        BY ThreadIsAMember
    <1>3. /\ balance211_start(R, Team, i) \in Nat /\ balance211_end(R, Team, i) \in 0..R
        BY <1>1, <1>2, PieceBounds
    <1>4. ASSUME NEW u \in Tids, id_in_group(t) < id_in_group(u)
          PROVE  EndOf(t) <= FirstOf(u)
        <2>1. id_in_group(u) \in 0..(Team - 1)
            BY ThreadIsAMember
        <2>2. balance211_end(R, Team, i) <= balance211_start(R, Team, id_in_group(u))
            BY <1>1, <1>2, <1>4, <2>1, PiecesAreOrdered
        <2> QED
            BY <2>2 DEF EndOf, FirstOf
    <1>5. balance211_start(R, Team, i) < balance211_end(R, Team, i)
        <2> HIDE DEF R, i
        <2>1. balance211_size(R, Team, i) \in Nat \ {0}
            <3>1. CASE NotDivided(R, Team)
                BY <1>1, <3>1 DEF balance211_size
            <3>2. CASE ~NotDivided(R, Team)
                <4> DEFINE n1 == BigPiece(R, Team)
                           T1 == BigPieces(R, Team)
                <4>1. n1 \in Nat \ {0} /\ T1 \in 1..Team /\ R = Team * (n1 - 1) + T1
                    BY <1>1, PiecesFacts
                <4>2. balance211_size(R, Team, i) = IF i < T1 THEN n1 ELSE n1 - 1
                    BY <3>2 DEF balance211_size
                <4> HIDE DEF n1, T1
                <4>3. n1 = 1 => T1 = Team
                    <5>1. n1 = 1 => Team * (n1 - 1) = 0
                        BY <1>1
                    <5> QED
                        BY <1>1, <4>1, <5>1
                <4> QED
                    BY <1>2, <4>1, <4>2, <4>3
            <3> QED
                BY <3>1, <3>2
        <2> QED
            BY <1>3, <2>1 DEF balance211_end
    <1> QED
        BY <1>3, <1>4, <1>5 DEF FirstOf, EndOf

\* Every row belongs to a member of every group with jobs.
LEMMA EveryRowHasAMember ==
    ASSUME BalancerInv, NEW g \in 0..(NGroups - 1), NEW r \in 0..(call.reduction_size - 1)
    PROVE  \E i \in 0..(Team - 1) :
              r \in FirstOf(Member(g, i))..(EndOf(Member(g, i)) - 1)
    <1>1. call.reduction_size \in Nat /\ Team \in Nat \ {0}
        BY DivisionNumbers
    <1>2. PICK i \in 0..(Team - 1) : r \in Piece(call.reduction_size, Team, i)
        BY <1>1, EveryItemHasAThread
    <1>3. id_in_group(Member(g, i)) = i
        BY MemberIsAThread
    <1> QED
        BY <1>2, <1>3 DEF FirstOf, EndOf, Piece

\* Where an element of the destination is in its group's part.
LEMMA EveryElementHasAGroup ==
    ASSUME BalancerInv, NEW e \in 0..(call.njobs * call.job_size - 1)
    PROVE  \E g \in 0..(NGroups - 1) : \E x \in 0..(Size(g) - 1) :
              /\ e = Base(g, 0) + x
              /\ e \div call.job_size = grp_job_off(g) + (x \div call.job_size)
    <1> DEFINE n == call.njobs
               s == call.job_size
               j == e \div s
    <1>1. n \in Nat \ {0} /\ s \in Nat \ {0} /\ NGroups \in Nat \ {0}
        BY DivisionNumbers
    <1>2. n * s \in Nat /\ e \in Nat /\ e < n * s
        <2>1. n * s \in Nat
            BY <1>1
        <2> QED
            BY <2>1
    <1>3. j \in Nat /\ e % s \in 0..(s - 1) /\ e = s * j + (e % s)
        BY <1>1, <1>2, DivisionFacts
    <1>4. PICK r \in 0..(s - 1) : r = e % s
        BY <1>3
    <1>5. PICK m \in Nat : m = j
        BY <1>3
    <1>6. e = s * m + r
        BY <1>3, <1>4, <1>5
    <1> HIDE DEF j
    <1>7. m \in 0..(n - 1)
        <2>1. SUFFICES ASSUME n <= m PROVE FALSE
            BY <1>1
        <2> HIDE DEF n, s
        <2>2. n * s <= m * s /\ m * s = s * m /\ s * m \in Nat
            BY <1>1, <2>1, ProductMonotone
        <2> QED
            BY <1>1, <1>2, <1>6, <2>2
    <1>8. PICK g \in 0..(NGroups - 1) : m \in Piece(n, NGroups, g)
        BY <1>1, <1>7, EveryItemHasAThread
    <1>9. PICK off \in Nat : off = grp_job_off(g)
        BY JobsAreInOrder
    <1>10. PICK num \in Nat : num = grp_njobs(g)
        BY JobsAreInOrder, <1>1, DivisionNumbers
    <1>11. off <= m /\ m < off + num
        <2>1. /\ off = balance211_start(n, NGroups, g)
              /\ off + num = balance211_end(n, NGroups, g)
            BY <1>9, <1>10, JobsOfGroups
        <2> QED
            BY <1>8, <2>1 DEF Piece
    <1>12. Base(g, 0) = off * s /\ Size(g) = num * s
        BY <1>9, <1>10 DEF Base, Size
    <1> HIDE DEF n, s
    <1>13. PICK d \in Nat : m = off + d
        <2>1. m - off \in Nat /\ m = off + (m - off)
            BY <1>11
        <2> QED
            BY <2>1
    <1>14. /\ s * m = s * off + s * d /\ s * off = off * s
           /\ s * d \in Nat /\ s * off \in Nat
        BY <1>1, <1>13
    <1>15. PICK x \in Nat : x = s * d + r
        BY <1>1, <1>14
    <1>16. x < num * s
        <2>1. (d + 1) * s <= num * s
            BY <1>1, <1>11, <1>13, ProductMonotone
        <2>2. (d + 1) * s = s * d + s /\ num * s \in Nat
            BY <1>1
        <2> QED
            BY <1>1, <1>14, <1>15, <2>1, <2>2
    <1>17. e = off * s + x
        BY <1>1, <1>6, <1>14, <1>15
    <1>18. x \div s = d
        BY <1>1, <1>15, DivisionIsUnique
    <1>19. x \in 0..(Size(g) - 1)
        <2>1. num * s \in Nat
            BY <1>1
        <2> QED
            BY <1>12, <1>16, <2>1
    <1>20. e \div s = off + (x \div s)
        BY <1>5, <1>13, <1>18 DEF j
    <1> QED
        BY <1>9, <1>12, <1>17, <1>19, <1>20 DEF s

-----------------------------------------------------------------------------
(* The invariant of the reducer: its control. *)

\* While the division stays, everything that is computed from it stays.
LEMMA DivisionStays ==
    ASSUME UNCHANGED built
    PROVE  /\ NGroups' = NGroups /\ Team' = Team /\ Tids' = Tids /\ call' = call
           /\ space_size' = space_size /\ (Balanced' <=> Balanced)
           /\ \A g, i : Base(g, i)' = Base(g, i)
           /\ \A g : Size(g)' = Size(g)
           /\ \A t : /\ group_id(t)' = group_id(t) /\ id_in_group(t)' = id_in_group(t)
                     /\ (Working(t)' <=> Working(t)) /\ (ToDst(t)' <=> ToDst(t))
                     /\ local_off(t)' = local_off(t) /\ Local(t)' = Local(t)
                     /\ ithr_njobs(t)' = ithr_njobs(t)
                     /\ Slice(t)' = Slice(t) /\ Master(t)' = Master(t)
                     /\ FirstOf(t)' = FirstOf(t) /\ EndOf(t)' = EndOf(t)
           /\ \A t, x : JobAt(t, x)' = JobAt(t, x)
           /\ BalancerInv => BalancerInv'
    <1>1. call' = call /\ best' = best /\ c_njobs_per_group' = c_njobs_per_group
        BY DEF built, balancerVars
    <1>2. /\ NGroups' = NGroups /\ Team' = Team /\ Tids' = Tids
          /\ space_size' = space_size /\ (Balanced' <=> Balanced)
          /\ space_per_thread' = space_per_thread
        BY <1>1 DEF NGroups, Team, Tids, nthr, space_size, space_per_thread, Balanced
    <1>3. \A g : grp_njobs(g)' = grp_njobs(g) /\ grp_job_off(g)' = grp_job_off(g)
        BY <1>1 DEF grp_njobs, grp_job_off, min
    <1>4. \A t : group_id(t)' = group_id(t) /\ id_in_group(t)' = id_in_group(t)
        BY <1>1 DEF group_id, id_in_group
    <1>5. \A g, i : Base(g, i)' = Base(g, i)
        BY <1>1, <1>2, <1>3 DEF Base
    <1>6. \A g : Size(g)' = Size(g)
        BY <1>1, <1>3 DEF Size
    <1>7. \A t : /\ (Working(t)' <=> Working(t)) /\ (ToDst(t)' <=> ToDst(t))
                 /\ Master(t)' = Master(t)
                 /\ ithr_njobs(t)' = ithr_njobs(t) /\ ithr_job_off(t)' = ithr_job_off(t)
        BY <1>1, <1>2 DEF Working, ToDst, Master, ithr_njobs, ithr_job_off, group_id,
                          id_in_group, grp_njobs, grp_job_off, min
    <1>8. \A t : local_off(t)' = local_off(t)
        BY <1>1, <1>2, <1>4, <1>7 DEF local_off
    <1>9. \A t : Local(t)' = Local(t)
        BY <1>1, <1>7, <1>8 DEF Local
    <1>10. \A t : Slice(t)' = Slice(t)
        BY <1>1, <1>4, <1>7 DEF Slice
    <1>11. \A t : FirstOf(t)' = FirstOf(t) /\ EndOf(t)' = EndOf(t)
        BY <1>1, <1>2, <1>4 DEF FirstOf, EndOf
    <1>12. \A t, x : JobAt(t, x)' = JobAt(t, x)
        BY <1>1, <1>7 DEF JobAt
    <1>13. BalancerInv => BalancerInv'
        BY <1>1 DEF BalancerInv, BestIsACandidate, NoneTriedIsCheaper, Candidates,
                    min_njobs_per_group, max_njobs_per_group, TooLarge, Complexity,
                    Division, Groups, ThreadsPerGroup, JobsPerGroup
    <1> QED
        BY <1>1, <1>2, <1>4, <1>5, <1>6, <1>7, <1>8, <1>9, <1>10, <1>11, <1>12, <1>13

\* A thread that is in the region is not alone there.
LEMMA InTheRegion ==
    ASSUME ControlInv, NEW t \in Tids, thr[t].pc # "out"
    PROVE  /\ ~AllOut /\ Balanced
           /\ \A u \in Tids : thr[u].pc # "out"
           /\ DOMAIN arrived = 0..(NGroups - 1)
           /\ DOMAIN dst = 0..(call.njobs * call.job_size - 1)
           /\ DOMAIN space = 0..(space_size - 1)
    BY DEF ControlInv, RegionInv, AllOut

\* What the step of one thread has to keep.
LEMMA ThreadStepKeepsControl ==
    ASSUME BalancerInv, ControlInv, UNCHANGED built,
           NEW t \in Tids, thr[t].pc # "out",
           NEW q \in [pc : Pcs, row : Nat, end : Nat], q.pc # "out",
           thr' = [thr EXCEPT ![t] = q],
           DOMAIN arrived' = DOMAIN arrived,
           DOMAIN dst' = DOMAIN dst, DOMAIN space' = DOMAIN space,
           q.pc \in {"compute", "barrier", "reduce"} => Working(t),
           q.pc \in {"barrier", "reduce"} => Team > 1,
           Summed(t) => q.pc \notin {"start", "compute"},
           Team > 1 => \A g \in 0..(NGroups - 1) :
               arrived'[g] = IF g = group_id(t) /\ q.pc \notin {"start", "compute"}
                             THEN arrived[g] \cup {t} ELSE arrived[g],
           q.pc = "reduce" => GroupSummed(t),
           q.pc = "done" /\ Team > 1 /\ Working(t) => GroupSummed(t)
    PROVE  ControlInv'
    <1>1. /\ NGroups' = NGroups /\ Team' = Team /\ Tids' = Tids /\ call' = call
          /\ space_size' = space_size /\ (Balanced' <=> Balanced)
          /\ \A u : group_id(u)' = group_id(u) /\ (Working(u)' <=> Working(u))
        BY DivisionStays
    <1>2. /\ thr \in [Tids -> [pc : Pcs, row : Nat, end : Nat]]
          /\ thr' \in [Tids -> [pc : Pcs, row : Nat, end : Nat]]
        BY DEF ControlInv, TypeInv
    <1>3. \A u \in Tids : thr'[u] = IF u = t THEN q ELSE thr[u]
        BY <1>2
    <1>4. TypeInv'
        BY <1>1, <1>2 DEF TypeInv
    <1>5. RegionInv'
        <2>1. \A u \in Tids : thr'[u].pc # "out"
            BY <1>3, InTheRegion
        <2>2. /\ Balanced /\ DOMAIN arrived = 0..(NGroups - 1)
              /\ DOMAIN dst = 0..(call.njobs * call.job_size - 1)
              /\ DOMAIN space = 0..(space_size - 1)
            BY InTheRegion
        <2> QED
            BY <1>1, <2>1, <2>2 DEF RegionInv
    <1>6. WorkInv'
        BY <1>1, <1>3 DEF ControlInv, WorkInv
    <1>7. \A u \in Tids : Summed(u)' <=> IF u = t THEN q.pc \notin {"start", "compute"} ELSE Summed(u)
        BY <1>3 DEF Summed
    <1>8. BarrierInv'
        <2>1. SUFFICES ASSUME Team > 1, NEW g \in 0..(NGroups - 1)
                       PROVE  arrived'[g] = {u \in Tids : group_id(u) = g /\ Summed(u)'}
            BY <1>1 DEF BarrierInv
        <2>2. arrived[g] = {u \in Tids : group_id(u) = g /\ Summed(u)}
            BY <2>1, InTheRegion DEF ControlInv, BarrierInv
        <2>3. CASE g = group_id(t) /\ q.pc \notin {"start", "compute"}
            <3>1. arrived'[g] = arrived[g] \cup {t}
                BY <2>1, <2>3
            <3> QED
                BY <1>7, <2>2, <2>3, <3>1
        <2>4. CASE g = group_id(t) /\ q.pc \in {"start", "compute"}
            <3>1. arrived'[g] = arrived[g] /\ ~Summed(t)
                BY <2>1, <2>4
            <3> QED
                BY <1>7, <2>2, <2>4, <3>1
        <2>5. CASE g # group_id(t)
            <3>1. arrived'[g] = arrived[g]
                BY <2>1, <2>5
            <3> QED
                BY <1>7, <2>2, <2>5, <3>1
        <2> QED
            BY <2>3, <2>4, <2>5
    <1>9. PhaseInv'
        <2>1. \A u \in Tids : Summed(u) => Summed(u)'
            BY <1>7
        <2>2. \A u \in Tids : GroupSummed(u) => GroupSummed(u)'
            BY <1>1, <2>1 DEF GroupSummed
        <2>3. ASSUME NEW u \in Tids,
                     \/ thr'[u].pc = "reduce"
                     \/ thr'[u].pc = "done" /\ Team > 1 /\ Working(u)
              PROVE  GroupSummed(u)'
            <3>1. GroupSummed(u)
                <4>1. CASE u = t
                    BY <1>3, <2>3, <4>1
                <4>2. CASE u # t
                    BY <1>3, <2>3, <4>2 DEF ControlInv, PhaseInv
                <4> QED
                    BY <4>1, <4>2
            <3> QED
                BY <2>2, <3>1
        <2> QED
            BY <1>1, <2>3 DEF PhaseInv
    <1> QED
        BY <1>4, <1>5, <1>6, <1>8, <1>9 DEF ControlInv

\* A thread starts: it has nothing to do, or it computes.
LEMMA StartKeepsControl ==
    ASSUME BalancerInv, ControlInv, NEW t \in Tids, Start(t)
    PROVE  ControlInv'
    <1>1. /\ thr[t].pc = "start" /\ thr \in [Tids -> [pc : Pcs, row : Nat, end : Nat]]
          /\ UNCHANGED <<built, arrived, dst, space>>
        BY DEF Start, ControlInv, TypeInv
    <1>2. Working(t) <=> ithr_njobs(t) # 0
        BY WorkersHaveJobs
    <1>3. CASE ithr_njobs(t) = 0
        <2> DEFINE q == [thr[t] EXCEPT !.pc = "done"]
        <2>1. q \in [pc : Pcs, row : Nat, end : Nat] /\ q.pc = "done"
            BY <1>1 DEF Pcs
        <2>2. thr' = [thr EXCEPT ![t] = q]
            BY <1>3 DEF Start
        <2>3. \A g \in 0..(NGroups - 1) : g # group_id(t)
            BY <1>2, <1>3, WorkersHaveJobs
        <2> HIDE DEF q
        <2> QED
            BY <1>1, <1>2, <1>3, <2>1, <2>2, <2>3, ThreadStepKeepsControl DEF Summed
    <1>4. CASE ithr_njobs(t) # 0
        <2> DEFINE q == [pc |-> "compute", row |-> FirstOf(t), end |-> EndOf(t)]
        <2>1. q \in [pc : Pcs, row : Nat, end : Nat] /\ q.pc = "compute"
            <3>1. call.reduction_size \in Nat /\ FirstOf(t) \in Nat /\ EndOf(t) \in Nat
                BY RowsDivide, DivisionNumbers
            <3> QED
                BY <3>1 DEF Pcs
        <2>2. thr' = [thr EXCEPT ![t] = q]
            BY <1>4 DEF Start, FirstOf, EndOf, Team
        <2> HIDE DEF q
        <2> QED
            BY <1>1, <1>2, <1>4, <2>1, <2>2, ThreadStepKeepsControl DEF Summed
    <1> QED
        BY <1>3, <1>4

\* A row is computed: the arrays keep their sizes.
LEMMA ComputeRowKeepsControl ==
    ASSUME BalancerInv, ControlInv, NEW t \in Tids, ComputeRow(t)
    PROVE  ControlInv'
    <1>1. /\ thr[t].pc = "compute" /\ thr \in [Tids -> [pc : Pcs, row : Nat, end : Nat]]
          /\ UNCHANGED built /\ UNCHANGED arrived
        BY DEF ComputeRow, ControlInv, TypeInv
    <1>2. DOMAIN dst' = DOMAIN dst /\ DOMAIN space' = DOMAIN space
        <2>1. CASE ToDst(t)
            BY <2>1 DEF ComputeRow
        <2>2. CASE ~ToDst(t)
            BY <2>2 DEF ComputeRow
        <2> QED
            BY <2>1, <2>2
    <1>3. Working(t)
        BY <1>1 DEF ControlInv, WorkInv
    <1> DEFINE q == [thr[t] EXCEPT !.row = @ + 1]
    <1>4. q \in [pc : Pcs, row : Nat, end : Nat] /\ q.pc = "compute"
        BY <1>1
    <1>5. thr' = [thr EXCEPT ![t] = q]
        BY DEF ComputeRow
    <1> HIDE DEF q
    <1> QED
        BY <1>1, <1>2, <1>3, <1>4, <1>5, ThreadStepKeepsControl DEF Summed

\* A thread has all its sums: it is done, or it arrives at the barrier.
LEMMA ReduceKeepsControl ==
    ASSUME BalancerInv, ControlInv, NEW t \in Tids, Reduce(t)
    PROVE  ControlInv'
    <1>1. /\ thr[t].pc = "compute" /\ thr \in [Tids -> [pc : Pcs, row : Nat, end : Nat]]
          /\ UNCHANGED <<built, dst, space>>
        BY DEF Reduce, ControlInv, TypeInv
    <1>2. Working(t) /\ ~idle(t)
        BY <1>1, WorkersHaveJobs DEF ControlInv, WorkInv
    <1>3. Team \in Nat \ {0}
        BY DivisionNumbers
    <1>4. CASE Team = 1
        <2> DEFINE q == [thr[t] EXCEPT !.pc = "done"]
        <2>1. q \in [pc : Pcs, row : Nat, end : Nat] /\ q.pc = "done"
            BY <1>1 DEF Pcs
        <2>2. thr' = [thr EXCEPT ![t] = q] /\ UNCHANGED arrived
            BY <1>4 DEF Reduce, Team
        <2>3. ~(Team > 1)
            BY <1>4
        <2> HIDE DEF q
        <2> QED
            BY <1>1, <2>1, <2>2, <2>3, ThreadStepKeepsControl DEF Summed
    <1>5. CASE Team # 1
        <2> DEFINE q == [thr[t] EXCEPT !.pc = "barrier"]
        <2>1. q \in [pc : Pcs, row : Nat, end : Nat] /\ q.pc = "barrier"
            BY <1>1 DEF Pcs
        <2>2. /\ thr' = [thr EXCEPT ![t] = q]
              /\ arrived' = [arrived EXCEPT ![group_id(t)] = @ \cup {t}]
            BY <1>2, <1>5 DEF Reduce, Team
        <2>3. DOMAIN arrived = 0..(NGroups - 1)
            BY <1>1, InTheRegion
        <2>4. /\ DOMAIN arrived' = DOMAIN arrived
              /\ \A g \in 0..(NGroups - 1) :
                    arrived'[g] = IF g = group_id(t) THEN arrived[g] \cup {t} ELSE arrived[g]
            BY <2>2, <2>3
        <2>5. Team > 1
            BY <1>3, <1>5
        <2> HIDE DEF q
        <2> QED
            BY <1>1, <1>2, <2>1, <2>2, <2>4, <2>5, ThreadStepKeepsControl DEF Summed
    <1> QED
        BY <1>4, <1>5

\* The barrier opens when everybody in the group has all its sums.
LEMMA BarrierOpensForAll ==
    ASSUME BalancerInv, ControlInv, NEW t \in Tids, thr[t].pc = "barrier", MayPass(t)
    PROVE  GroupSummed(t)
    <1>1. CASE ~thr_syncable
        BY <1>1 DEF MayPass, GroupSummed, Summed
    <1>2. CASE thr_syncable
        <2> DEFINE g == group_id(t)
                   members == Member(g, 0)..Member(g, Team - 1)
        <2>1. Working(t) /\ Team > 1 /\ g \in 0..(NGroups - 1) /\ g \in Nat
            BY ThreadIsAMember, WorkersHaveJobs DEF ControlInv, WorkInv
        <2>2. Cardinality(arrived[g]) = Team
            BY <1>2 DEF MayPass, Team
        <2>3. arrived[g] = {u \in Tids : group_id(u) = g /\ Summed(u)}
            BY <2>1, InTheRegion DEF ControlInv, BarrierInv
        <2>4. Team \in Nat
            BY DivisionNumbers
        <2> HIDE DEF g
        <2>5. Team * g \in Nat
            BY <2>1, <2>4
        <2>6. IsFiniteSet(members) /\ Cardinality(members) = Team
            <3> DEFINE a == Member(g, 0)
                       b == Member(g, Team - 1)
            <3>1. a \in Int /\ b \in Int /\ ~(a > b) /\ b - a + 1 = Team
                BY <2>1, <2>4, <2>5 DEF Member
            <3> HIDE DEF a, b
            <3>2. IsFiniteSet(a..b) /\ Cardinality(a..b) = b - a + 1
                BY <3>1, FS_Interval
            <3> QED
                BY <3>1, <3>2 DEF a, b
        <2>7. \A u \in Tids : group_id(u) = g => u \in members
            <3>1. SUFFICES ASSUME NEW u \in Tids, group_id(u) = g PROVE u \in members
                OBVIOUS
            <3>2. id_in_group(u) \in 0..(Team - 1) /\ u = Team * g + id_in_group(u)
                BY <3>1, ThreadIsAMember DEF Member
            <3> QED
                BY <2>1, <2>4, <2>5, <3>2 DEF Member
        <2>8. arrived[g] \in SUBSET members
            BY <2>3, <2>7
        <2> HIDE DEF members
        <2>9. arrived[g] = members
            BY <2>2, <2>6, <2>8, FS_Subset
        <2> QED
            BY <2>3, <2>7, <2>9 DEF GroupSummed, g
    <1> QED
        BY <1>1, <1>2

\* A thread passes the barrier.
LEMMA PassBarrierKeepsControl ==
    ASSUME BalancerInv, ControlInv, NEW t \in Tids, PassBarrier(t)
    PROVE  ControlInv'
    <1>1. /\ thr[t].pc = "barrier" /\ thr \in [Tids -> [pc : Pcs, row : Nat, end : Nat]]
          /\ UNCHANGED <<built, arrived, dst, space>> /\ GroupSummed(t)
        BY BarrierOpensForAll DEF PassBarrier, ControlInv, TypeInv
    <1>2. Working(t) /\ Team > 1 /\ Summed(t)
        BY <1>1 DEF ControlInv, WorkInv, Summed
    <1> DEFINE q == [thr[t] EXCEPT !.pc = "reduce"]
    <1>3. q \in [pc : Pcs, row : Nat, end : Nat] /\ q.pc = "reduce"
        BY <1>1 DEF Pcs
    <1>4. thr' = [thr EXCEPT ![t] = q]
        BY DEF PassBarrier
    <1>5. \A g \in 0..(NGroups - 1) : g = group_id(t) => t \in arrived[g]
        BY <1>1, <1>2, InTheRegion DEF ControlInv, BarrierInv
    <1>6. \A g \in 0..(NGroups - 1) :
              arrived'[g] = IF g = group_id(t) THEN arrived[g] \cup {t} ELSE arrived[g]
        BY <1>1, <1>5
    <1> HIDE DEF q
    <1> QED
        BY <1>1, <1>2, <1>3, <1>4, <1>6, ThreadStepKeepsControl

\* A thread has added its elements.
LEMMA ReduceNolockKeepsControl ==
    ASSUME BalancerInv, ControlInv, NEW t \in Tids, ReduceNolock(t)
    PROVE  ControlInv'
    <1>1. /\ thr[t].pc = "reduce" /\ thr \in [Tids -> [pc : Pcs, row : Nat, end : Nat]]
          /\ UNCHANGED <<built, arrived, space>> /\ GroupSummed(t)
        BY DEF ReduceNolock, ControlInv, TypeInv, PhaseInv
    <1>2. Summed(t)
        BY <1>1 DEF Summed
    <1> DEFINE q == [thr[t] EXCEPT !.pc = "done"]
    <1>3. q \in [pc : Pcs, row : Nat, end : Nat] /\ q.pc = "done"
        BY <1>1 DEF Pcs
    <1>4. thr' = [thr EXCEPT ![t] = q]
        BY DEF ReduceNolock
    <1>5. \A g \in 0..(NGroups - 1) : Team > 1 /\ g = group_id(t) => t \in arrived[g]
        BY <1>1, <1>2, InTheRegion DEF ControlInv, BarrierInv
    <1>6. Team > 1 => \A g \in 0..(NGroups - 1) :
              arrived'[g] = IF g = group_id(t) THEN arrived[g] \cup {t} ELSE arrived[g]
        BY <1>1, <1>5
    <1>7. DOMAIN dst' = DOMAIN dst
        BY DEF ReduceNolock
    <1> HIDE DEF q
    <1> QED
        BY <1>1, <1>2, <1>3, <1>4, <1>6, <1>7, ThreadStepKeepsControl

-----------------------------------------------------------------------------
(* The invariant of the reducer: its data. *)

\* A thread that is beyond the start has jobs, or it is done without any.
LEMMA WorkerFacts ==
    ASSUME BalancerInv, ControlInv, NEW t \in Tids,
           thr[t].pc \in {"compute", "barrier", "reduce"}
    PROVE  /\ Working(t) /\ group_id(t) \in 0..(NGroups - 1)
           /\ thr[t].pc # "out" /\ thr[t].pc # "start"
    <1>1. Working(t)
        BY DEF ControlInv, WorkInv
    <1> QED
        BY <1>1, WorkersHaveJobs

\* Nobody adds up the sums of a group while one of its threads still computes.
LEMMA ComputingIsNotFinished ==
    ASSUME BalancerInv, ControlInv, NEW t \in Tids, Working(t), ~Summed(t), NEW x
    PROVE  ~Finished(group_id(t), x)
    <1>1. SUFFICES ASSUME Team > 1, NEW u \in Tids, group_id(u) = group_id(t), thr[u].pc = "done"
                   PROVE  FALSE
        BY DEF Finished
    <1>2. GroupSummed(u)
        BY <1>1 DEF ControlInv, PhaseInv, Working
    <1> QED
        BY <1>1, <1>2 DEF GroupSummed

\* The progress of the threads is kept: a step of one thread that moves it
\* forward within its rows.
LEMMA ThreadStepKeepsProgress ==
    ASSUME BalancerInv, ControlInv, ProgressInv, UNCHANGED built, NEW t \in Tids,
           NEW q \in [pc : Pcs, row : Nat, end : Nat], thr' = [thr EXCEPT ![t] = q],
           Working(t) /\ q.pc \notin {"out", "start"} =>
               /\ q.end = EndOf(t)
               /\ q.row \in FirstOf(t)..EndOf(t)
               /\ q.pc # "compute" => q.row = EndOf(t)
    PROVE  ProgressInv'
    <1>1. /\ Tids' = Tids
          /\ \A u : /\ (Working(u)' <=> Working(u))
                    /\ FirstOf(u)' = FirstOf(u) /\ EndOf(u)' = EndOf(u)
        BY DivisionStays
    <1>2. \A u \in Tids : thr'[u] = IF u = t THEN q ELSE thr[u]
        BY DEF ControlInv, TypeInv
    <1>3. ASSUME NEW u \in Tids, Working(u), thr'[u].pc \notin {"out", "start"}
          PROVE  /\ thr'[u].end = EndOf(u)
                 /\ thr'[u].row \in FirstOf(u)..EndOf(u)
                 /\ Summed(u)' => thr'[u].row = EndOf(u)
        <2>1. CASE u = t
            BY <1>2, <1>3, <2>1 DEF Summed
        <2>2. CASE u # t
            BY <1>2, <1>3, <2>2 DEF ProgressInv, Summed
        <2> QED
            BY <2>1, <2>2
    <1> QED
        BY <1>1, <1>3 DEF ProgressInv

\* A step of one thread that leaves the arrays alone keeps the data: the
\* others' sums, and its own, are where they were, and no element becomes
\* finished.
LEMMA ThreadStepKeepsData ==
    ASSUME BalancerInv, ControlInv, ProgressInv, DataInv, UNCHANGED <<built, dst, space>>,
           NEW t \in Tids,
           NEW q \in [pc : Pcs, row : Nat, end : Nat], thr' = [thr EXCEPT ![t] = q],
           thr[t].pc # "done",
           q.pc = "done" => ~(Team > 1) \/ ~Working(t),
           Working(t) =>
               \/ thr[t].pc = "start" /\ q.row = FirstOf(t)
               \/ thr[t].pc # "start" /\ thr[t].pc # "out" /\ q.row = thr[t].row
    PROVE  DataInv'
    <1>1. /\ Tids' = Tids /\ Team' = Team /\ call' = call
          /\ \A g : Size(g)' = Size(g)
          /\ \A u : /\ group_id(u)' = group_id(u) /\ (Working(u)' <=> Working(u))
                    /\ (ToDst(u)' <=> ToDst(u)) /\ Slice(u)' = Slice(u)
                    /\ local_off(u)' = local_off(u)
                    /\ FirstOf(u)' = FirstOf(u) /\ EndOf(u)' = EndOf(u)
          /\ \A u, x : JobAt(u, x)' = JobAt(u, x)
        BY DivisionStays
    <1>2. \A u \in Tids : thr'[u] = IF u = t THEN q ELSE thr[u]
        BY DEF ControlInv, TypeInv
    <1>3. \A u, x : Element(u, x)' = Element(u, x)
        BY <1>1 DEF Element
    <1>4. \A u \in Tids : \A x : Working(u) =>
              (Finished(group_id(u), x)' <=> Finished(group_id(u), x))
        <2>1. SUFFICES ASSUME NEW u \in Tids, NEW x, Working(u)
                       PROVE  Finished(group_id(u), x)' <=> Finished(group_id(u), x)
            OBVIOUS
        <2>2. ASSUME NEW v \in Tids, group_id(v) = group_id(u), Team > 1
              PROVE  thr'[v].pc = "done" <=> thr[v].pc = "done"
            <3>1. Working(v)
                BY <2>1, <2>2 DEF Working
            <3> QED
                BY <1>2, <2>2, <3>1
        <2>3. Finished(group_id(u), x)' <=>
                  Team > 1 /\ \E v \in Tids :
                      group_id(v) = group_id(u) /\ thr'[v].pc = "done" /\ x \in Slice(v)
            BY <1>1 DEF Finished
        <2> QED
            BY <2>2, <2>3 DEF Finished
    <1>5. ASSUME NEW u \in Tids, Working(u), thr'[u].pc \notin {"out", "start"},
                 NEW x \in 0..(Size(group_id(u)) - 1)
          PROVE  IF ToDst(u) /\ Finished(group_id(u), x)
                 THEN Element(u, x) = {JobAt(u, x)} \X (0..(call.reduction_size - 1))
                 ELSE thr'[u].row > FirstOf(u) =>
                          Element(u, x) = {JobAt(u, x)} \X (FirstOf(u)..(thr'[u].row - 1))
        <2>1. CASE u = t /\ thr[t].pc = "start"
            <3>1. ~Finished(group_id(u), x)
                BY <1>5, <2>1, ComputingIsNotFinished DEF Summed
            <3>2. thr'[u].row = FirstOf(u) /\ FirstOf(u) \in Nat
                BY <1>2, <1>5, <2>1, RowsDivide
            <3> QED
                BY <3>1, <3>2
        <2>2. CASE u # t \/ thr[t].pc # "start"
            <3>1. thr'[u].row = thr[u].row /\ thr[u].pc \notin {"out", "start"}
                BY <1>2, <1>5, <2>2
            <3> QED
                BY <1>5, <3>1 DEF DataInv
        <2> QED
            BY <2>1, <2>2
    <1>6. ASSUME NEW u \in Tids, Working(u)', thr'[u].pc \notin {"out", "start"},
                 NEW x \in 0..(Size(group_id(u)) - 1)'
          PROVE  IF ToDst(u)' /\ Finished(group_id(u), x)'
                 THEN Element(u, x)' = {JobAt(u, x)'} \X (0..(call.reduction_size - 1))
                 ELSE thr'[u].row > FirstOf(u)' =>
                          Element(u, x)' = {JobAt(u, x)'} \X (FirstOf(u)'..(thr'[u].row - 1))
        BY <1>1, <1>3, <1>4, <1>5, <1>6
    <1> QED
        BY <1>1, <1>6 DEF DataInv

\* A sum of two values without a term in common.
LEMMA SumOfTwo ==
    ASSUME NEW a, NEW b, a \cap b = {}
    PROVE  Sum(<<a, b>>) = a \cup b
    <1> DEFINE f == <<a, b>>
    <1>1. DOMAIN f = {1, 2} /\ f[1] = a /\ f[2] = b
        OBVIOUS
    <1> HIDE DEF f
    <1>2. \A i, j \in DOMAIN f : i # j => f[i] \cap f[j] = {}
        BY <1>1
    <1>3. UNION {f[i] : i \in DOMAIN f} = a \cup b
        BY <1>1
    <1> QED
        BY <1>2, <1>3 DEF Sum, f

\* What a thread sums is in its area, which nobody else has in that array.
LEMMA ElementsAreApart ==
    ASSUME BalancerInv, NEW t \in Tids, NEW u \in Tids, Working(t), Working(u), t # u,
           ToDst(t) <=> ToDst(u), NEW x \in 0..(Size(group_id(u)) - 1)
    PROVE  local_off(u) + x \notin Local(t)
    <1> DEFINE g == group_id(t)
               h == group_id(u)
               i == id_in_group(t)
               j == id_in_group(u)
    <1>1. /\ g \in 0..(NGroups - 1) /\ i \in 0..(Team - 1)
          /\ h \in 0..(NGroups - 1) /\ j \in 0..(Team - 1)
          /\ local_off(u) = Base(h, j) /\ Local(t) = Base(g, i)..(Base(g, i) + Size(g) - 1)
        BY AreasOfThreads
    <1>2. i = 0 <=> j = 0
        BY DEF ToDst
    <1>3. g # h \/ i # j
        BY ThreadIsAMember
    <1> HIDE DEF g, h, i, j
    <1>4. x \in 0..(Size(h) - 1)
        BY DEF h
    <1>5. Base(g, i) \in Nat /\ Size(g) \in Nat /\ Base(h, j) \in Nat
        BY <1>1, AreasFit
    <1>6. SUFFICES ASSUME NEW y \in 0..(Size(g) - 1), Base(h, j) + x = Base(g, i) + y
                   PROVE  FALSE
        <2>1. SUFFICES ASSUME local_off(u) + x \in Local(t) PROVE FALSE
            OBVIOUS
        <2> DEFINE y == Base(h, j) + x - Base(g, i)
        <2>2. y \in 0..(Size(g) - 1) /\ Base(h, j) + x = Base(g, i) + y
            BY <1>1, <1>4, <1>5, <2>1
        <2> QED
            BY <1>6, <2>2
    <1> QED
        BY <1>1, <1>2, <1>3, <1>4, <1>6, AreasAreDisjoint

\* Where the element at offset x of a thread's sums is.
LEMMA ElementIsInItsArray ==
    ASSUME BalancerInv, NEW t \in Tids, Working(t), NEW x \in 0..(Size(group_id(t)) - 1)
    PROVE  /\ local_off(t) \in Nat /\ local_off(t) + x \in Local(t)
           /\ ToDst(t) => local_off(t) + x \in 0..(call.njobs * call.job_size - 1)
           /\ ~ToDst(t) => local_off(t) + x \in 0..(space_size - 1)
    <1> DEFINE g == group_id(t)
               i == id_in_group(t)
    <1>1. /\ g \in 0..(NGroups - 1) /\ i \in 0..(Team - 1)
          /\ local_off(t) = Base(g, i) /\ Local(t) = Base(g, i)..(Base(g, i) + Size(g) - 1)
        BY AreasOfThreads
    <1>2. x \in 0..(Size(g) - 1) /\ (ToDst(t) <=> i = 0)
        BY DEF ToDst
    <1> HIDE DEF g, i
    <1>3. /\ Base(g, i) \in Nat /\ Size(g) \in Nat
          /\ i = 0 => Base(g, i) + Size(g) <= call.njobs * call.job_size
          /\ i # 0 => Base(g, i) + Size(g) <= space_size
          /\ call.njobs * call.job_size \in Nat /\ space_size \in Nat
        BY <1>1, AreasFit
    <1> QED
        BY <1>1, <1>2, <1>3

\* A row more is in the sums of the thread, and nobody else's have changed.
LEMMA ComputeRowKeepsData ==
    ASSUME BalancerInv, ControlInv, ProgressInv, DataInv, NEW t \in Tids, ComputeRow(t)
    PROVE  DataInv'
    <1> DEFINE row == thr[t].row
    <1>1. /\ thr[t].pc = "compute" /\ row < thr[t].end /\ UNCHANGED built
          /\ thr' = [thr EXCEPT ![t].row = @ + 1]
          /\ thr \in [Tids -> [pc : Pcs, row : Nat, end : Nat]]
        BY DEF ComputeRow, ControlInv, TypeInv
    <1>2. /\ Working(t) /\ ~Summed(t) /\ group_id(t) \in 0..(NGroups - 1)
          /\ DOMAIN dst = 0..(call.njobs * call.job_size - 1)
          /\ DOMAIN space = 0..(space_size - 1)
        BY <1>1, WorkerFacts, InTheRegion DEF Summed
    <1>3. row \in Nat /\ FirstOf(t) \in Nat /\ FirstOf(t) <= row
        <2>1. thr[t].row \in FirstOf(t)..EndOf(t)
            BY <1>1, <1>2 DEF ProgressInv
        <2>2. FirstOf(t) \in Nat /\ EndOf(t) \in Nat
            BY RowsDivide, DivisionNumbers
        <2> QED
            BY <2>1, <2>2
    <1>4. /\ Tids' = Tids /\ Team' = Team /\ call' = call
          /\ \A g : Size(g)' = Size(g)
          /\ \A u : /\ group_id(u)' = group_id(u) /\ (Working(u)' <=> Working(u))
                    /\ (ToDst(u)' <=> ToDst(u)) /\ Slice(u)' = Slice(u)
                    /\ local_off(u)' = local_off(u)
                    /\ FirstOf(u)' = FirstOf(u)
          /\ \A u, x : JobAt(u, x)' = JobAt(u, x)
        BY <1>1, DivisionStays
    <1>5. \A u \in Tids : /\ thr'[u].pc = thr[u].pc
                          /\ thr'[u].row = IF u = t THEN row + 1 ELSE thr[u].row
        BY <1>1
    <1>6. \A g, x : Finished(g, x)' <=> Finished(g, x)
        BY <1>4, <1>5 DEF Finished
    <1>7. /\ ToDst(t) => /\ space' = space
                         /\ dst' = [e \in DOMAIN dst |->
                                       IF e \in Local(t) THEN Partial(t, dst, e) ELSE dst[e]]
          /\ ~ToDst(t) => /\ dst' = dst
                          /\ space' = [e \in DOMAIN space |->
                                         IF e \in Local(t) THEN Partial(t, space, e) ELSE space[e]]
        BY DEF ComputeRow
    <1>8. ASSUME NEW u \in Tids, Working(u), u # t, NEW x \in 0..(Size(group_id(u)) - 1)
          PROVE  Element(u, x)' = Element(u, x)
        <2> DEFINE e == local_off(u) + x
        <2>1. Element(u, x)' = IF ToDst(u) THEN dst'[e] ELSE space'[e]
            BY <1>4 DEF Element
        <2>2. /\ ToDst(u) => e \in DOMAIN dst
              /\ ~ToDst(u) => e \in DOMAIN space
            BY <1>2, <1>8, ElementIsInItsArray
        <2>3. (ToDst(t) <=> ToDst(u)) => e \notin Local(t)
            BY <1>2, <1>8, ElementsAreApart
        <2>4. Element(u, x) = IF ToDst(u) THEN dst[e] ELSE space[e]
            BY DEF Element
        <2> HIDE DEF e
        <2>5. CASE ToDst(u)
            <3>1. dst'[e] = dst[e]
                BY <1>7, <2>2, <2>3, <2>5
            <3> QED
                BY <2>1, <2>4, <2>5, <3>1
        <2>6. CASE ~ToDst(u)
            <3>1. space'[e] = space[e]
                BY <1>7, <2>2, <2>3, <2>6
            <3> QED
                BY <2>1, <2>4, <2>6, <3>1
        <2> QED
            BY <2>5, <2>6
    <1>9. ASSUME NEW x \in 0..(Size(group_id(t)) - 1)
          PROVE  Element(t, x)' = {JobAt(t, x)} \X (FirstOf(t)..row)
        <2> DEFINE e == local_off(t) + x
                   old == IF FirstRow(t) THEN {} ELSE Element(t, x)
                   job == JobAt(t, x)
        <2>1. local_off(t) \in Nat /\ e \in Local(t)
            BY <1>2, <1>9, ElementIsInItsArray
        <2>2. /\ ToDst(t) => e \in DOMAIN dst
              /\ ~ToDst(t) => e \in DOMAIN space
            BY <1>2, <1>9, ElementIsInItsArray
        <2>3. e - local_off(t) = x
            <3>1. \A l \in Nat : l + x - l = x
                BY <1>9
            <3> QED
                BY <2>1, <3>1
        <2>4. Element(t, x)' = Sum(<<old, {<<job, row>>}>>)
            <3>1. \A mem : Partial(t, mem, e) =
                     Sum(<<IF FirstRow(t) THEN {} ELSE mem[e], {<<job, row>>}>>)
                BY <2>3 DEF Partial, JobAt
            <3>2. Element(t, x)' = IF ToDst(t) THEN dst'[e] ELSE space'[e]
                BY <1>4 DEF Element
            <3>3. Element(t, x) = IF ToDst(t) THEN dst[e] ELSE space[e]
                BY DEF Element
            <3> HIDE DEF e, job, row
            <3>4. CASE ToDst(t)
                <4>1. dst'[e] = Partial(t, dst, e)
                    BY <1>7, <2>1, <2>2, <3>4
                <4> QED
                    BY <3>1, <3>2, <3>3, <3>4, <4>1
            <3>5. CASE ~ToDst(t)
                <4>1. space'[e] = Partial(t, space, e)
                    BY <1>7, <2>1, <2>2, <3>5
                <4> QED
                    BY <3>1, <3>2, <3>3, <3>5, <4>1
            <3> QED
                BY <3>4, <3>5
        <2>5. old = {job} \X (FirstOf(t)..(row - 1))
            <3>1. FirstRow(t) <=> row = FirstOf(t)
                BY DEF FirstRow, FirstOf, Team
            <3>2. CASE row = FirstOf(t)
                <4>1. FirstOf(t)..(row - 1) = {}
                    BY <1>3, <3>2
                <4> QED
                    BY <3>1, <3>2, <4>1
            <3>3. CASE row # FirstOf(t)
                <4>1. row > FirstOf(t)
                    BY <1>3, <3>3
                <4>2. ~Finished(group_id(t), x)
                    BY <1>2, ComputingIsNotFinished
                <4> QED
                    BY <1>1, <1>2, <1>9, <3>1, <3>3, <4>1, <4>2 DEF DataInv
            <3> QED
                BY <3>2, <3>3
        <2> HIDE DEF old, job, row
        <2>6. old \cap {<<job, row>>} = {}
            BY <1>3, <2>5
        <2>7. FirstOf(t)..row = (FirstOf(t)..(row - 1)) \cup {row}
            BY <1>3
        <2>8. Element(t, x)' = old \cup {<<job, row>>}
            BY <2>4, <2>6, SumOfTwo
        <2>9. Element(t, x)' = {job} \X (FirstOf(t)..row)
            BY <2>5, <2>7, <2>8
        <2> QED
            BY <2>9 DEF job, row
    <1>10. ASSUME NEW u \in Tids, Working(u), thr'[u].pc \notin {"out", "start"},
                  NEW x \in 0..(Size(group_id(u)) - 1)
           PROVE  IF ToDst(u) /\ Finished(group_id(u), x)
                  THEN Element(u, x)' = {JobAt(u, x)} \X (0..(call.reduction_size - 1))
                  ELSE thr'[u].row > FirstOf(u) =>
                           Element(u, x)' = {JobAt(u, x)} \X (FirstOf(u)..(thr'[u].row - 1))
        <2>1. CASE u = t
            <3>1. ~Finished(group_id(t), x)
                BY <1>2, ComputingIsNotFinished
            <3>2. thr'[t].row - 1 = row
                BY <1>3, <1>5
            <3> QED
                BY <1>9, <1>10, <2>1, <3>1, <3>2
        <2>2. CASE u # t
            BY <1>5, <1>8, <1>10, <2>2 DEF DataInv
        <2> QED
            BY <2>1, <2>2
    <1> QED
        BY <1>4, <1>6, <1>10 DEF DataInv

\* A sum of one value per member of a group, each of its own rows.
LEMMA SumOfAllRows ==
    ASSUME BalancerInv, NEW g \in 0..(NGroups - 1), NEW job, NEW f,
           DOMAIN f = 0..(Team - 1),
           \A k \in 0..(Team - 1) :
               f[k] = {job} \X (FirstOf(Member(g, k))..(EndOf(Member(g, k)) - 1))
    PROVE  Sum(f) = {job} \X (0..(call.reduction_size - 1))
    <1> DEFINE F(k) == FirstOf(Member(g, k))
               E(k) == EndOf(Member(g, k))
               R == call.reduction_size
    <1>1. \A k \in 0..(Team - 1) : F(k) \in Nat /\ E(k) \in 0..R
        BY MemberIsAThread, RowsDivide
    <1>2. \A i, j \in 0..(Team - 1) : i < j => E(i) <= F(j)
        BY MemberIsAThread, RowsDivide
    <1>3. \A r \in 0..(R - 1) : \E k \in 0..(Team - 1) : r \in F(k)..(E(k) - 1)
        BY EveryRowHasAMember
    <1>4. R \in Nat /\ Team \in Nat
        BY DivisionNumbers
    <1>5. \A k \in 0..(Team - 1) : f[k] = {job} \X (F(k)..(E(k) - 1))
        OBVIOUS
    <1> HIDE DEF F, E, R
    <1>6. ASSUME NEW i \in 0..(Team - 1), NEW j \in 0..(Team - 1), i # j
          PROVE  f[i] \cap f[j] = {}
        <2>1. i < j \/ j < i
            BY <1>6
        <2>2. ASSUME NEW r \in F(i)..(E(i) - 1), r \in F(j)..(E(j) - 1)
              PROVE  FALSE
            <3>1. F(i) \in Nat /\ E(i) \in Nat /\ F(j) \in Nat /\ E(j) \in Nat
                BY <1>1, <1>4
            <3>2. E(i) <= F(j) \/ E(j) <= F(i)
                BY <1>2, <2>1
            <3> QED
                BY <2>2, <3>1, <3>2
        <2> QED
            BY <1>5, <2>2
    <1>7. UNION {f[k] : k \in 0..(Team - 1)} = {job} \X (0..(R - 1))
        <2>1. ASSUME NEW k \in 0..(Team - 1)
              PROVE  f[k] \subseteq {job} \X (0..(R - 1))
            <3>1. F(k)..(E(k) - 1) \subseteq 0..(R - 1)
                BY <1>1, <1>4
            <3> QED
                BY <1>5, <3>1
        <2>2. ASSUME NEW r \in 0..(R - 1)
              PROVE  \E k \in 0..(Team - 1) : <<job, r>> \in f[k]
            <3>1. PICK k \in 0..(Team - 1) : r \in F(k)..(E(k) - 1)
                BY <1>3
            <3>2. <<job, r>> \in f[k]
                BY <1>5, <3>1
            <3> QED
                BY <3>2
        <2> QED
            BY <2>1, <2>2
    <1> QED
        BY <1>6, <1>7 DEF Sum, R

\* What the generated driver finds is complete: the sum is that of all rows.
LEMMA AccumulatedIsComplete ==
    ASSUME BalancerInv, ControlInv, ProgressInv, DataInv,
           NEW t \in Tids, thr[t].pc = "reduce", NEW x \in Slice(t)
    PROVE  Accumulated(t, x) = {JobAt(t, x)} \X (0..(call.reduction_size - 1))
    <1> DEFINE g == group_id(t)
               job == JobAt(t, x)
               f == [k \in 0..(Team - 1) |->
                       IF k = 0 THEN dst[local_off(Master(t)) + x] ELSE space[Source(t, k, x)]]
    <1>1. Working(t) /\ g \in 0..(NGroups - 1) /\ GroupSummed(t)
        BY WorkerFacts DEF ControlInv, PhaseInv
    <1>2. x \in 0..(Size(g) - 1) /\ x \in Int
        BY <1>1, SlicesDivide
    <1>3. ~Finished(g, x)
        <2>1. SUFFICES ASSUME NEW u \in Tids, group_id(u) = g, thr[u].pc = "done", x \in Slice(u)
                       PROVE  FALSE
            BY DEF Finished
        <2>2. u # t
            BY <2>1
        <2> QED
            BY <1>1, <2>1, <2>2, SlicesDivide
    <1>4. /\ local_off(Master(t)) = Base(g, 0)
          /\ \A k \in 1..(Team - 1) : Source(t, k, x) = Base(g, k) + x
        BY <1>1, <1>2, AreasOfThreads
    <1>5. Team \in Nat \ {0}
        BY DivisionNumbers
    <1>6. ASSUME NEW k \in 0..(Team - 1)
          PROVE  f[k] = {job} \X (FirstOf(Member(g, k))..(EndOf(Member(g, k)) - 1))
        <2> DEFINE m == Member(g, k)
        <2>1. m \in Tids /\ group_id(m) = g /\ id_in_group(m) = k
            BY <1>1, MemberIsAThread
        <2> HIDE DEF m
        <2>2. Working(m) /\ Summed(m) /\ thr[m].pc # "out"
            BY <1>1, <2>1, InTheRegion DEF GroupSummed, Working
        <2>3. thr[m].pc \notin {"out", "start"}
            BY <2>2 DEF Summed
        <2>4. thr[m].row = EndOf(m)
            BY <2>1, <2>2, <2>3 DEF ProgressInv
        <2>5. EndOf(m) > FirstOf(m)
            <3>1. FirstOf(m) \in Nat /\ EndOf(m) \in 0..call.reduction_size /\ FirstOf(m) < EndOf(m)
                BY <2>1, RowsDivide
            <3> QED
                BY <3>1, DivisionNumbers
        <2>6. Element(m, x) = {JobAt(m, x)} \X (FirstOf(m)..(EndOf(m) - 1))
            BY <1>2, <1>3, <2>1, <2>2, <2>3, <2>4, <2>5 DEF DataInv
        <2>7. JobAt(m, x) = job
            BY <2>1 DEF JobAt, ithr_job_off
        <2>8. local_off(m) = Base(g, k)
            BY <2>1, <2>2, AreasOfThreads
        <2>9. f[k] = Element(m, x)
            <3>1. CASE k = 0
                BY <1>4, <2>1, <2>8, <3>1 DEF Element, ToDst
            <3>2. CASE k # 0
                <4>1. k \in 1..(Team - 1)
                    BY <1>5, <3>2
                <4>2. f[k] = space[Base(g, k) + x]
                    BY <1>4, <3>2, <4>1
                <4> QED
                    BY <2>1, <2>8, <3>2, <4>2 DEF Element, ToDst
            <3> QED
                BY <3>1, <3>2
        <2> QED
            BY <2>6, <2>7, <2>9 DEF m
    <1>7. DOMAIN f = 0..(Team - 1)
        OBVIOUS
    <1>8. Accumulated(t, x) = Sum(f)
        BY DEF Accumulated, Team
    <1> HIDE DEF f, job
    <1>9. Sum(f) = {job} \X (0..(call.reduction_size - 1))
        BY <1>1, <1>6, <1>7, SumOfAllRows
    <1> QED
        BY <1>8, <1>9 DEF job

\* The destination gets the sums of all the rows where the thread adds, and
\* stays as it is everywhere else.
LEMMA ReduceNolockKeepsData ==
    ASSUME BalancerInv, ControlInv, ProgressInv, DataInv, NEW t \in Tids, ReduceNolock(t)
    PROVE  DataInv'
    <1> DEFINE g == group_id(t)
               off == local_off(Master(t))
    <1>1. /\ thr[t].pc = "reduce" /\ UNCHANGED built /\ UNCHANGED space
          /\ thr' = [thr EXCEPT ![t].pc = "done"]
          /\ dst' = [e \in DOMAIN dst |->
                       IF e - off \in Slice(t) THEN Accumulated(t, e - off) ELSE dst[e]]
          /\ thr \in [Tids -> [pc : Pcs, row : Nat, end : Nat]]
        BY DEF ReduceNolock, ControlInv, TypeInv
    <1>2. /\ Working(t) /\ g \in 0..(NGroups - 1) /\ Team > 1
          /\ DOMAIN dst = 0..(call.njobs * call.job_size - 1)
        BY <1>1, WorkerFacts, InTheRegion DEF ControlInv, WorkInv
    <1>3. off = Base(g, 0)
        BY <1>2, AreasOfThreads
    <1>4. /\ Tids' = Tids /\ Team' = Team /\ call' = call
          /\ \A h : Size(h)' = Size(h)
          /\ \A u : /\ group_id(u)' = group_id(u) /\ (Working(u)' <=> Working(u))
                    /\ (ToDst(u)' <=> ToDst(u)) /\ Slice(u)' = Slice(u)
                    /\ local_off(u)' = local_off(u)
                    /\ FirstOf(u)' = FirstOf(u)
          /\ \A u, x : JobAt(u, x)' = JobAt(u, x)
        BY <1>1, DivisionStays
    <1>5. \A u \in Tids : /\ thr'[u].pc = IF u = t THEN "done" ELSE thr[u].pc
                          /\ thr'[u].row = thr[u].row
        BY <1>1
    <1>6. \A h, x : Finished(h, x)' <=> Finished(h, x) \/ (h = g /\ x \in Slice(t))
        <2>1. SUFFICES ASSUME NEW h, NEW x
                       PROVE  Finished(h, x)' <=> Finished(h, x) \/ (h = g /\ x \in Slice(t))
            OBVIOUS
        <2>2. Finished(h, x)' <=>
                  Team > 1 /\ \E u \in Tids :
                      group_id(u) = h /\ thr'[u].pc = "done" /\ x \in Slice(u)
            BY <1>4 DEF Finished
        <2>3. \A u \in Tids : thr'[u].pc = "done" <=> (u = t \/ thr[u].pc = "done")
            BY <1>5
        <2> QED
            BY <1>2, <2>2, <2>3 DEF Finished
    <1>7. ASSUME NEW u \in Tids, Working(u), NEW x \in 0..(Size(group_id(u)) - 1),
                 ~(ToDst(u) /\ group_id(u) = g /\ x \in Slice(t))
          PROVE  Element(u, x)' = Element(u, x)
        <2>1. CASE ~ToDst(u)
            BY <1>1, <1>4, <2>1 DEF Element
        <2>2. CASE ToDst(u)
            <3> DEFINE h == group_id(u)
            <3>1. h \in 0..(NGroups - 1) /\ local_off(u) = Base(h, 0)
                BY <1>7, <2>2, AreasOfThreads DEF ToDst
            <3>2. local_off(u) + x \in DOMAIN dst
                BY <1>2, <1>7, <2>2, ElementIsInItsArray
            <3>3. Base(g, 0) \in Nat /\ Base(h, 0) \in Nat /\ Size(g) \in Nat /\ Size(h) \in Nat
                  /\ Team \in Nat
                <4> HIDE DEF g, h
                <4>1. Team \in Nat /\ 0 \in 0..(Team - 1)
                    BY <1>2, DivisionNumbers
                <4>2. Base(g, 0) \in Nat /\ Size(g) \in Nat
                    BY <1>2, <4>1, AreasFit
                <4>3. Base(h, 0) \in Nat /\ Size(h) \in Nat
                    BY <1>2, <3>1, <4>1, AreasFit
                <4> QED
                    BY <4>1, <4>2, <4>3
            <3> HIDE DEF h, off, g
            <3>4. (local_off(u) + x) - off \notin Slice(t)
                <4>1. SUFFICES ASSUME NEW y \in Slice(t), y = (Base(h, 0) + x) - Base(g, 0)
                               PROVE  FALSE
                    BY <1>3, <3>1
                <4>2. y \in 0..(Size(g) - 1)
                    BY <1>2, SlicesDivide DEF g
                <4>3. x \in 0..(Size(h) - 1)
                    BY DEF h
                <4>4. Base(h, 0) + x = Base(g, 0) + y
                    BY <3>3, <4>1, <4>2, <4>3
                <4>5. h = g
                    <5>1. SUFFICES ASSUME h # g PROVE FALSE
                        OBVIOUS
                    <5>2. 0 \in 0..(Team - 1)
                        BY <1>2, <3>3
                    <5> QED
                        BY <1>2, <3>1, <4>2, <4>3, <4>4, <5>1, <5>2, AreasAreDisjoint
                <4>6. x = y
                    BY <3>3, <4>2, <4>3, <4>4, <4>5
                <4> QED
                    BY <1>7, <2>2, <4>1, <4>5, <4>6 DEF h
            <3>5. dst'[local_off(u) + x] = dst[local_off(u) + x]
                BY <1>1, <3>2, <3>4
            <3> QED
                BY <1>4, <2>2, <3>5 DEF Element
        <2> QED
            BY <2>1, <2>2
    <1>8. ASSUME NEW u \in Tids, Working(u), NEW x \in 0..(Size(group_id(u)) - 1),
                 ToDst(u), group_id(u) = g, x \in Slice(t)
          PROVE  Element(u, x)' = {JobAt(u, x)} \X (0..(call.reduction_size - 1))
        <2>1. local_off(u) = off
            BY <1>3, <1>8, AreasOfThreads DEF ToDst
        <2>2. local_off(u) + x \in DOMAIN dst /\ local_off(u) \in Nat
            BY <1>2, <1>8, ElementIsInItsArray
        <2> HIDE DEF off
        <2>3. (local_off(u) + x) - off = x
            <3>1. \A l \in Nat : (l + x) - l = x
                BY <1>8
            <3> QED
                BY <2>1, <2>2, <3>1
        <2>4. dst'[local_off(u) + x] = Accumulated(t, x)
            BY <1>1, <1>8, <2>2, <2>3
        <2>5. JobAt(u, x) = JobAt(t, x)
            BY <1>8 DEF JobAt, ithr_job_off
        <2>6. Accumulated(t, x) = {JobAt(t, x)} \X (0..(call.reduction_size - 1))
            BY <1>1, <1>8, AccumulatedIsComplete
        <2>7. Element(u, x)' = dst'[local_off(u) + x]
            BY <1>4, <1>8 DEF Element
        <2> QED
            BY <2>4, <2>5, <2>6, <2>7
    <1>9. ASSUME NEW u \in Tids, Working(u), thr'[u].pc \notin {"out", "start"},
                 NEW x \in 0..(Size(group_id(u)) - 1)
          PROVE  IF ToDst(u) /\ (Finished(group_id(u), x) \/ (group_id(u) = g /\ x \in Slice(t)))
                 THEN Element(u, x)' = {JobAt(u, x)} \X (0..(call.reduction_size - 1))
                 ELSE thr[u].row > FirstOf(u) =>
                          Element(u, x)' = {JobAt(u, x)} \X (FirstOf(u)..(thr[u].row - 1))
        <2>1. thr[u].pc \notin {"out", "start"}
            BY <1>1, <1>5, <1>9
        <2>2. CASE ToDst(u) /\ group_id(u) = g /\ x \in Slice(t)
            BY <1>8, <1>9, <2>2
        <2>3. CASE ~(ToDst(u) /\ group_id(u) = g /\ x \in Slice(t))
            <3>1. Element(u, x)' = Element(u, x)
                BY <1>7, <1>9, <2>3
            <3> QED
                BY <1>9, <2>1, <2>3, <3>1 DEF DataInv
        <2> QED
            BY <2>2, <2>3
    <1>10. ASSUME NEW u \in Tids, Working(u)', thr'[u].pc \notin {"out", "start"},
                  NEW x \in 0..(Size(group_id(u)) - 1)'
           PROVE  IF ToDst(u)' /\ Finished(group_id(u), x)'
                  THEN Element(u, x)' = {JobAt(u, x)'} \X (0..(call.reduction_size - 1))
                  ELSE thr'[u].row > FirstOf(u)' =>
                           Element(u, x)' = {JobAt(u, x)'} \X (FirstOf(u)'..(thr'[u].row - 1))
        BY <1>4, <1>5, <1>6, <1>9, <1>10
    <1> QED
        BY <1>4, <1>10 DEF DataInv

-----------------------------------------------------------------------------
(* The invariant is kept by every action. *)

\* Outside of the region there is nothing to say.
LEMMA OutsideHolds == TypeInv /\ AllOut => ControlInv /\ ProgressInv /\ DataInv
    BY DEF ControlInv, RegionInv, WorkInv, BarrierInv, PhaseInv, ProgressInv, DataInv, AllOut

\* At first nobody is in the region.
LEMMA ReducerInitHolds == Init => ReducerInv
    <1> SUFFICES ASSUME Init PROVE ReducerInv
        OBVIOUS
    <1>1. BalancerInv
        BY BalancerInitHolds DEF Init
    <1>2. thr = [t \in Tids |-> Out]
        BY DEF Init
    <1>3. TypeInv
        BY <1>2 DEF TypeInv, Out, Pcs
    <1>4. AllOut
        BY <1>2 DEF AllOut, Out
    <1> QED
        BY <1>1, <1>3, <1>4, OutsideHolds DEF ReducerInv

\* The balancer works before the first execution.
LEMMA BalanceKeepsInv ==
    ASSUME ReducerInv, Balance
    PROVE  ReducerInv'
    <1>1. BalancerInv /\ ControlInv /\ TryCandidate /\ thr' = thr /\ call' = call
        BY DEF ReducerInv, Balance, TryCandidate
    <1>2. BalancerInv'
        BY <1>1, TryCandidateKeepsBalancerInv
    <1>3. ~Balanced
        <2>1. call.njobs \in Nat /\ c_njobs_per_group \in Nat
            BY <1>1, DivisionNumbers DEF BalancerInv
        <2> QED
            BY <1>1, <2>1 DEF TryCandidate, Balanced
    <1>4. AllOut /\ TypeInv
        BY <1>1, <1>3 DEF ControlInv, RegionInv
    <1>5. AllOut' /\ TypeInv'
        BY <1>1, <1>4 DEF AllOut, TypeInv, Tids, nthr
    <1>6. (ControlInv /\ ProgressInv /\ DataInv)'
        BY <1>5, OutsideHolds, PTL
    <1> QED
        BY <1>2, <1>6 DEF ReducerInv

\* An execution starts.
LEMMA ExecuteKeepsInv ==
    ASSUME ReducerInv, Execute
    PROVE  ReducerInv'
    <1>1. BalancerInv /\ Balanced /\ UNCHANGED built
        BY DEF ReducerInv, Execute
    <1>2. /\ BalancerInv' /\ Tids' = Tids /\ NGroups' = NGroups /\ call' = call
          /\ space_size' = space_size /\ Balanced' /\ Team' = Team
        BY <1>1, DivisionStays
    <1>3. /\ thr' = [t \in Tids |-> [Out EXCEPT !.pc = "start"]]
          /\ arrived' = [g \in 0..(NGroups - 1) |-> {}]
          /\ dst' = [e \in 0..(call.njobs * call.job_size - 1) |-> {Garbage}]
          /\ space' = [e \in 0..(space_size - 1) |-> {Garbage}]
        BY DEF Execute, NGroups
    <1>4. \A t \in Tids : thr'[t] = [pc |-> "start", row |-> 0, end |-> 0]
        BY <1>3 DEF Out
    <1>5. TypeInv'
        BY <1>2, <1>3, <1>4 DEF TypeInv, Pcs
    <1>6. RegionInv'
        BY <1>2, <1>3, <1>4 DEF RegionInv
    <1>7. WorkInv' /\ PhaseInv' /\ ProgressInv' /\ DataInv'
        BY <1>2, <1>4 DEF WorkInv, PhaseInv, ProgressInv, DataInv
    <1>8. BarrierInv'
        <2>1. \A u \in Tids : ~Summed(u)'
            BY <1>4 DEF Summed
        <2>2. SUFFICES ASSUME NEW g \in 0..(NGroups - 1)
                       PROVE  arrived'[g] = {u \in Tids : group_id(u)' = g /\ Summed(u)'}
            BY <1>2 DEF BarrierInv
        <2> QED
            BY <1>3, <2>1
    <1> QED
        BY <1>2, <1>5, <1>6, <1>7, <1>8 DEF ReducerInv, ControlInv

\* An execution ends.
LEMMA ReturnKeepsInv ==
    ASSUME ReducerInv, Return
    PROVE  ReducerInv'
    <1>1. BalancerInv /\ UNCHANGED built /\ thr' = [t \in Tids |-> Out]
        BY DEF ReducerInv, Return
    <1>2. BalancerInv' /\ Tids' = Tids
        BY <1>1, DivisionStays
    <1>3. AllOut' /\ TypeInv'
        BY <1>1, <1>2 DEF AllOut, TypeInv, Out, Pcs
    <1>4. (ControlInv /\ ProgressInv /\ DataInv)'
        BY <1>3, OutsideHolds, PTL
    <1> QED
        BY <1>2, <1>4 DEF ReducerInv

\* A thread starts.
LEMMA StartKeepsInv ==
    ASSUME ReducerInv, NEW t \in Tids, Start(t)
    PROVE  ReducerInv'
    <1>1. BalancerInv /\ ControlInv /\ ProgressInv /\ DataInv
        BY DEF ReducerInv
    <1>2. /\ thr[t].pc = "start" /\ thr \in [Tids -> [pc : Pcs, row : Nat, end : Nat]]
          /\ UNCHANGED <<built, arrived, dst, space>>
        BY <1>1 DEF Start, ControlInv, TypeInv
    <1>3. ControlInv' /\ BalancerInv'
        BY <1>1, <1>2, StartKeepsControl, DivisionStays
    <1>4. PICK q \in [pc : Pcs, row : Nat, end : Nat] :
              /\ thr' = [thr EXCEPT ![t] = q]
              /\ ~Working(t) => q.pc = "done"
              /\ Working(t) => q.pc = "compute" /\ q.row = FirstOf(t) /\ q.end = EndOf(t)
        <2>1. CASE ithr_njobs(t) = 0
            <3> DEFINE q == [thr[t] EXCEPT !.pc = "done"]
            <3>1. q \in [pc : Pcs, row : Nat, end : Nat] /\ q.pc = "done"
                BY <1>2 DEF Pcs
            <3>2. thr' = [thr EXCEPT ![t] = q]
                BY <2>1 DEF Start
            <3>3. ~Working(t)
                BY <1>1, <2>1, WorkersHaveJobs
            <3> HIDE DEF q
            <3> QED
                BY <3>1, <3>2, <3>3
        <2>2. CASE ithr_njobs(t) # 0
            <3> DEFINE q == [pc |-> "compute", row |-> FirstOf(t), end |-> EndOf(t)]
            <3>1. q \in [pc : Pcs, row : Nat, end : Nat]
                <4>1. FirstOf(t) \in Nat /\ EndOf(t) \in Nat
                    BY <1>1, RowsDivide, DivisionNumbers
                <4> QED
                    BY <4>1 DEF Pcs
            <3>2. q.pc = "compute" /\ q.row = FirstOf(t) /\ q.end = EndOf(t)
                OBVIOUS
            <3>3. thr' = [thr EXCEPT ![t] = q]
                BY <2>2 DEF Start, FirstOf, EndOf, Team
            <3>4. Working(t)
                BY <1>1, <2>2, WorkersHaveJobs
            <3> HIDE DEF q
            <3> QED
                BY <3>1, <3>2, <3>3, <3>4
        <2> QED
            BY <2>1, <2>2
    <1>5. FirstOf(t) \in FirstOf(t)..EndOf(t)
        BY <1>1, RowsDivide, DivisionNumbers
    <1>6. ProgressInv'
        BY <1>1, <1>2, <1>4, <1>5, ThreadStepKeepsProgress
    <1>7. DataInv'
        BY <1>1, <1>2, <1>4, ThreadStepKeepsData
    <1> QED
        BY <1>3, <1>6, <1>7 DEF ReducerInv

\* A thread computes a row.
LEMMA ComputeRowKeepsInv ==
    ASSUME ReducerInv, NEW t \in Tids, ComputeRow(t)
    PROVE  ReducerInv'
    <1>1. BalancerInv /\ ControlInv /\ ProgressInv /\ DataInv
        BY DEF ReducerInv
    <1>2. /\ thr[t].pc = "compute" /\ thr[t].row < thr[t].end
          /\ thr \in [Tids -> [pc : Pcs, row : Nat, end : Nat]]
          /\ UNCHANGED built
        BY <1>1 DEF ComputeRow, ControlInv, TypeInv
    <1>3. ControlInv' /\ BalancerInv' /\ DataInv'
        BY <1>1, <1>2, ComputeRowKeepsControl, ComputeRowKeepsData, DivisionStays
    <1> DEFINE q == [thr[t] EXCEPT !.row = @ + 1]
    <1>4. /\ q \in [pc : Pcs, row : Nat, end : Nat] /\ q.pc = "compute"
          /\ q.row = thr[t].row + 1 /\ q.end = thr[t].end
        BY <1>2
    <1>5. thr' = [thr EXCEPT ![t] = q]
        BY DEF ComputeRow
    <1>6. /\ thr[t].end = EndOf(t) /\ thr[t].row \in FirstOf(t)..EndOf(t)
        BY <1>1, <1>2, WorkerFacts DEF ProgressInv
    <1>7. thr[t].row + 1 \in FirstOf(t)..EndOf(t)
        <2>1. FirstOf(t) \in Nat /\ EndOf(t) \in Nat
            BY <1>1, RowsDivide, DivisionNumbers
        <2> QED
            BY <1>2, <1>6, <2>1
    <1> HIDE DEF q
    <1>8. ProgressInv'
        BY <1>1, <1>2, <1>4, <1>5, <1>6, <1>7, ThreadStepKeepsProgress
    <1> QED
        BY <1>3, <1>8 DEF ReducerInv

\* A thread has summed its rows.
LEMMA ReduceKeepsInv ==
    ASSUME ReducerInv, NEW t \in Tids, Reduce(t)
    PROVE  ReducerInv'
    <1>1. BalancerInv /\ ControlInv /\ ProgressInv /\ DataInv
        BY DEF ReducerInv
    <1>2. /\ thr[t].pc = "compute" /\ thr[t].row >= thr[t].end
          /\ thr \in [Tids -> [pc : Pcs, row : Nat, end : Nat]]
          /\ UNCHANGED <<built, dst, space>>
        BY <1>1 DEF Reduce, ControlInv, TypeInv
    <1>3. ControlInv' /\ BalancerInv'
        BY <1>1, <1>2, ReduceKeepsControl, DivisionStays
    <1>4. Working(t) /\ ~idle(t)
        BY <1>1, <1>2, WorkerFacts, WorkersHaveJobs
    <1>5. PICK q \in [pc : Pcs, row : Nat, end : Nat] :
              /\ thr' = [thr EXCEPT ![t] = q]
              /\ q.pc = "done" => ~(Team > 1)
              /\ q.row = thr[t].row /\ q.end = thr[t].end
        <2>1. CASE Team = 1
            <3> DEFINE q == [thr[t] EXCEPT !.pc = "done"]
            <3>1. /\ q \in [pc : Pcs, row : Nat, end : Nat]
                  /\ q.row = thr[t].row /\ q.end = thr[t].end
                BY <1>2 DEF Pcs
            <3>2. thr' = [thr EXCEPT ![t] = q]
                BY <2>1 DEF Reduce, Team
            <3>3. ~(Team > 1)
                BY <2>1
            <3> HIDE DEF q
            <3> QED
                BY <3>1, <3>2, <3>3
        <2>2. CASE Team # 1
            <3> DEFINE q == [thr[t] EXCEPT !.pc = "barrier"]
            <3>1. /\ q \in [pc : Pcs, row : Nat, end : Nat] /\ q.pc = "barrier"
                  /\ q.row = thr[t].row /\ q.end = thr[t].end
                BY <1>2 DEF Pcs
            <3>2. thr' = [thr EXCEPT ![t] = q]
                BY <1>4, <2>2 DEF Reduce, Team
            <3> HIDE DEF q
            <3> QED
                BY <3>1, <3>2
        <2> QED
            BY <2>1, <2>2
    <1>6. thr[t].end = EndOf(t) /\ thr[t].row \in FirstOf(t)..EndOf(t)
        BY <1>1, <1>2, <1>4 DEF ProgressInv
    <1>7. thr[t].row = EndOf(t)
        <2>1. FirstOf(t) \in Nat /\ EndOf(t) \in Nat
            BY <1>1, RowsDivide, DivisionNumbers
        <2> QED
            BY <1>2, <1>6, <2>1
    <1>8. ProgressInv'
        BY <1>1, <1>2, <1>5, <1>6, <1>7, ThreadStepKeepsProgress
    <1>9. DataInv'
        BY <1>1, <1>2, <1>5, ThreadStepKeepsData
    <1> QED
        BY <1>3, <1>8, <1>9 DEF ReducerInv

\* A thread passes the barrier.
LEMMA PassBarrierKeepsInv ==
    ASSUME ReducerInv, NEW t \in Tids, PassBarrier(t)
    PROVE  ReducerInv'
    <1>1. BalancerInv /\ ControlInv /\ ProgressInv /\ DataInv
        BY DEF ReducerInv
    <1>2. /\ thr[t].pc = "barrier" /\ thr \in [Tids -> [pc : Pcs, row : Nat, end : Nat]]
          /\ UNCHANGED <<built, arrived, dst, space>>
        BY <1>1 DEF PassBarrier, ControlInv, TypeInv
    <1>3. ControlInv' /\ BalancerInv'
        BY <1>1, <1>2, PassBarrierKeepsControl, DivisionStays
    <1> DEFINE q == [thr[t] EXCEPT !.pc = "reduce"]
    <1>4. /\ q \in [pc : Pcs, row : Nat, end : Nat] /\ q.pc = "reduce"
          /\ q.row = thr[t].row /\ q.end = thr[t].end
        BY <1>2 DEF Pcs
    <1>5. thr' = [thr EXCEPT ![t] = q]
        BY DEF PassBarrier
    <1>6. Working(t) /\ Summed(t)
        BY <1>1, <1>2, WorkerFacts DEF Summed
    <1>7. /\ thr[t].end = EndOf(t) /\ thr[t].row \in FirstOf(t)..EndOf(t)
          /\ thr[t].row = EndOf(t)
        BY <1>1, <1>2, <1>6 DEF ProgressInv
    <1> HIDE DEF q
    <1>8. ProgressInv'
        BY <1>1, <1>2, <1>4, <1>5, <1>7, ThreadStepKeepsProgress
    <1>9. DataInv'
        BY <1>1, <1>2, <1>4, <1>5, ThreadStepKeepsData
    <1> QED
        BY <1>3, <1>8, <1>9 DEF ReducerInv

\* A thread has added its elements.
LEMMA ReduceNolockKeepsInv ==
    ASSUME ReducerInv, NEW t \in Tids, ReduceNolock(t)
    PROVE  ReducerInv'
    <1>1. BalancerInv /\ ControlInv /\ ProgressInv /\ DataInv
        BY DEF ReducerInv
    <1>2. /\ thr[t].pc = "reduce" /\ thr \in [Tids -> [pc : Pcs, row : Nat, end : Nat]]
          /\ UNCHANGED built
        BY <1>1 DEF ReduceNolock, ControlInv, TypeInv
    <1>3. ControlInv' /\ BalancerInv' /\ DataInv'
        BY <1>1, <1>2, ReduceNolockKeepsControl, ReduceNolockKeepsData, DivisionStays
    <1> DEFINE q == [thr[t] EXCEPT !.pc = "done"]
    <1>4. /\ q \in [pc : Pcs, row : Nat, end : Nat] /\ q.pc = "done"
          /\ q.row = thr[t].row /\ q.end = thr[t].end
        BY <1>2 DEF Pcs
    <1>5. thr' = [thr EXCEPT ![t] = q]
        BY DEF ReduceNolock
    <1>6. Working(t) /\ Summed(t)
        BY <1>1, <1>2, WorkerFacts DEF Summed
    <1>7. /\ thr[t].end = EndOf(t) /\ thr[t].row \in FirstOf(t)..EndOf(t)
          /\ thr[t].row = EndOf(t)
        BY <1>1, <1>2, <1>6 DEF ProgressInv
    <1> HIDE DEF q
    <1>8. ProgressInv'
        BY <1>1, <1>2, <1>4, <1>5, <1>7, ThreadStepKeepsProgress
    <1> QED
        BY <1>3, <1>8 DEF ReducerInv

\* Nothing happens.
LEMMA StutteringKeepsInv ==
    ASSUME ReducerInv, UNCHANGED vars
    PROVE  ReducerInv'
    <1>1. /\ UNCHANGED built /\ thr' = thr /\ arrived' = arrived /\ dst' = dst /\ space' = space
          /\ BalancerInv /\ ControlInv /\ ProgressInv /\ DataInv
        BY DEF vars, ReducerInv
    <1>2. /\ NGroups' = NGroups /\ Team' = Team /\ Tids' = Tids /\ call' = call
          /\ space_size' = space_size /\ (Balanced' <=> Balanced)
          /\ \A g : Size(g)' = Size(g)
          /\ \A t : /\ group_id(t)' = group_id(t)
                    /\ (Working(t)' <=> Working(t)) /\ (ToDst(t)' <=> ToDst(t))
                    /\ local_off(t)' = local_off(t) /\ Slice(t)' = Slice(t)
                    /\ FirstOf(t)' = FirstOf(t) /\ EndOf(t)' = EndOf(t)
          /\ \A t, x : JobAt(t, x)' = JobAt(t, x)
          /\ BalancerInv'
        BY <1>1, DivisionStays
    <1>3. /\ \A t : Summed(t)' <=> Summed(t)
          /\ \A t : GroupSummed(t)' <=> GroupSummed(t)
        BY <1>1, <1>2 DEF Summed, GroupSummed
    <1>4. ControlInv'
        <2>1. TypeInv'
            BY <1>1, <1>2 DEF ControlInv, TypeInv
        <2>2. RegionInv'
            BY <1>1, <1>2 DEF ControlInv, RegionInv, AllOut
        <2>3. WorkInv' /\ PhaseInv'
            BY <1>1, <1>2, <1>3 DEF ControlInv, WorkInv, PhaseInv
        <2>4. BarrierInv'
            BY <1>1, <1>2, <1>3 DEF ControlInv, BarrierInv, AllOut
        <2> QED
            BY <2>1, <2>2, <2>3, <2>4 DEF ControlInv
    <1>5. ProgressInv'
        BY <1>1, <1>2, <1>3 DEF ProgressInv
    <1>6. DataInv'
        <2>1. \A g, x : Finished(g, x)' <=> Finished(g, x)
            BY <1>1, <1>2 DEF Finished
        <2>2. \A t, x : Element(t, x)' = Element(t, x)
            BY <1>1, <1>2 DEF Element
        <2> QED
            BY <1>1, <1>2, <2>1, <2>2 DEF DataInv
    <1> QED
        BY <1>2, <1>4, <1>5, <1>6 DEF ReducerInv

\* The invariant holds in every state of every execution: only a thread with
\* all its sums passes a barrier, and what it has summed stays in its area
\* until it is in the destination.
THEOREM ReducerInvHolds == Spec => []ReducerInv
    <1>1. ReducerInv /\ [Next]_vars => ReducerInv'
        <2> SUFFICES ASSUME ReducerInv, [Next]_vars PROVE ReducerInv'
            OBVIOUS
        <2>1. CASE Balance
            BY <2>1, BalanceKeepsInv
        <2>2. CASE Execute
            BY <2>2, ExecuteKeepsInv
        <2>3. ASSUME NEW t \in Tids, Step(t) PROVE ReducerInv'
            <3>1. CASE Start(t)
                BY <3>1, StartKeepsInv
            <3>2. CASE ComputeRow(t)
                BY <3>2, ComputeRowKeepsInv
            <3>3. CASE Reduce(t)
                BY <3>3, ReduceKeepsInv
            <3>4. CASE PassBarrier(t)
                BY <3>4, PassBarrierKeepsInv
            <3>5. CASE Spin(t)
                BY <3>5, StutteringKeepsInv DEF Spin
            <3>6. CASE ReduceNolock(t)
                BY <3>6, ReduceNolockKeepsInv
            <3> QED
                BY <2>3, <3>1, <3>2, <3>3, <3>4, <3>5, <3>6 DEF Step
        <2>4. CASE Return
            BY <2>4, ReturnKeepsInv
        <2>5. CASE UNCHANGED vars
            BY <2>5, StutteringKeepsInv
        <2> QED
            BY <2>1, <2>2, <2>3, <2>4, <2>5 DEF Next
    <1> QED
        BY <1>1, ReducerInitHolds, PTL DEF Spec

-----------------------------------------------------------------------------
(* What follows from the invariant. *)

\* The cell of the arrays at offset x of member i of group g.
Cell(g, i, x) == <<IF i = 0 THEN "dst" ELSE "space", Base(g, i) + x>>

\* Every cell is in its array, and belongs to one member at one offset.
LEMMA CellFacts ==
    ASSUME ReducerInv, ~AllOut, NEW g \in 0..(NGroups - 1), NEW i \in 0..(Team - 1),
           NEW x \in 0..(Size(g) - 1)
    PROVE  /\ Cell(g, i, x) \in Elements
           /\ \A h \in 0..(NGroups - 1), j \in 0..(Team - 1) : \A y \in 0..(Size(h) - 1) :
                 Cell(g, i, x) = Cell(h, j, y) => g = h /\ i = j /\ x = y
    <1>1. BalancerInv /\ DOMAIN dst = 0..(call.njobs * call.job_size - 1)
          /\ DOMAIN space = 0..(space_size - 1)
        BY DEF ReducerInv, ControlInv, RegionInv
    <1>2. /\ Base(g, i) \in Nat /\ Size(g) \in Nat
          /\ i = 0 => Base(g, i) + Size(g) <= call.njobs * call.job_size
          /\ i # 0 => Base(g, i) + Size(g) <= space_size
          /\ call.njobs * call.job_size \in Nat /\ space_size \in Nat
        BY <1>1, AreasFit
    <1>3. /\ i = 0 => Base(g, i) + x \in DOMAIN dst
          /\ i # 0 => Base(g, i) + x \in DOMAIN space
        BY <1>1, <1>2
    <1>4. Cell(g, i, x) \in Elements
        BY <1>3 DEF Cell, Elements
    <1>5. ASSUME NEW h \in 0..(NGroups - 1), NEW j \in 0..(Team - 1),
                 NEW y \in 0..(Size(h) - 1), Cell(g, i, x) = Cell(h, j, y)
          PROVE  g = h /\ i = j /\ x = y
        <2>1. (i = 0 <=> j = 0) /\ Base(g, i) + x = Base(h, j) + y
            BY <1>5 DEF Cell
        <2>2. g = h /\ i = j
            BY <1>1, <2>1, AreasAreDisjoint
        <2>3. x = y
            BY <1>2, <2>1, <2>2
        <2> QED
            BY <2>2, <2>3
    <1> QED
        BY <1>4, <1>5

\* A thread that computes writes its own area; one that adds up writes, at the
\* offsets of its slice, the destination, and reads the areas of the others.
LEMMA AccessesAreInCells ==
    ASSUME ReducerInv, NEW t \in Tids, NEW p
    PROVE  /\ p \in Writes(t) =>
                 /\ Working(t) /\ ~AllOut
                 /\ \E i \in 0..(Team - 1) : \E x \in 0..(Size(group_id(t)) - 1) :
                       /\ p = Cell(group_id(t), i, x)
                       /\ \/ Computes(t) /\ i = id_in_group(t)
                          \/ Reduces(t) /\ i = 0 /\ x \in Slice(t)
           /\ p \in Reads(t) =>
                 /\ Working(t) /\ ~AllOut /\ Reduces(t)
                 /\ \E i \in 1..(Team - 1) : \E x \in Slice(t) : p = Cell(group_id(t), i, x)
    <1> DEFINE g == group_id(t)
    <1>1. BalancerInv /\ ControlInv
        BY DEF ReducerInv
    <1>2. Team \in Nat \ {0}
        BY <1>1, DivisionNumbers
    <1>3. ASSUME p \in Writes(t), Computes(t)
          PROVE  /\ Working(t) /\ ~AllOut
                 /\ \E x \in 0..(Size(g) - 1) : p = Cell(g, id_in_group(t), x)
        <2>1. Working(t) /\ ~AllOut
            BY <1>1, <1>3, WorkerFacts, InTheRegion DEF Computes
        <2> DEFINE i == id_in_group(t)
        <2>2. /\ g \in 0..(NGroups - 1) /\ i \in 0..(Team - 1)
              /\ Local(t) = Base(g, i)..(Base(g, i) + Size(g) - 1)
            BY <1>1, <2>1, AreasOfThreads
        <2>3. p \in {IF i = 0 THEN "dst" ELSE "space"} \X Local(t)
            <3>1. ~Reduces(t)
                BY <1>3 DEF Computes, Reduces
            <3>2. Writes(t) = {IF ToDst(t) THEN "dst" ELSE "space"} \X Local(t)
                BY <1>3, <3>1 DEF Writes
            <3> QED
                BY <1>3, <3>2 DEF ToDst
        <2>4. Base(g, i) \in Nat /\ Size(g) \in Nat
            BY <1>1, <2>2, AreasFit
        <2> HIDE DEF i, g
        <2>5. PICK e \in Local(t) : p = <<IF i = 0 THEN "dst" ELSE "space", e>>
            BY <2>3
        <2>6. e - Base(g, i) \in 0..(Size(g) - 1) /\ Base(g, i) + (e - Base(g, i)) = e
            BY <2>2, <2>4
        <2>7. p = Cell(g, i, e - Base(g, i))
            BY <2>5, <2>6 DEF Cell
        <2> QED
            BY <2>1, <2>6, <2>7 DEF i
    <1>4. ASSUME Reduces(t)
          PROVE  /\ Working(t) /\ ~AllOut /\ ~Computes(t)
                 /\ Slice(t) \subseteq 0..(Size(g) - 1)
                 /\ p \in Writes(t) => \E x \in Slice(t) : p = Cell(g, 0, x)
                 /\ p \in Reads(t) =>
                       \E i \in 1..(Team - 1) : \E x \in Slice(t) : p = Cell(g, i, x)
        <2>1. Working(t) /\ ~AllOut /\ ~Computes(t)
            BY <1>1, <1>4, WorkerFacts, InTheRegion DEF Reduces, Computes
        <2>2. Slice(t) \subseteq 0..(Size(g) - 1)
            BY <1>1, <2>1, SlicesDivide
        <2>3. /\ local_off(Master(t)) = Base(g, 0)
              /\ \A k \in 1..(Team - 1), e \in Int : Source(t, k, e) = Base(g, k) + e
            BY <1>1, <2>1, AreasOfThreads
        <2> HIDE DEF g
        <2>4. ASSUME p \in Writes(t) PROVE \E x \in Slice(t) : p = Cell(g, 0, x)
            <3>1. PICK x \in Slice(t) : p = <<"dst", local_off(Master(t)) + x>>
                BY <1>4, <2>1, <2>4 DEF Writes
            <3> QED
                BY <2>3, <3>1 DEF Cell
        <2>5. ASSUME p \in Reads(t)
              PROVE  \E i \in 1..(Team - 1) : \E x \in Slice(t) : p = Cell(g, i, x)
            <3>1. PICK x \in Slice(t) : \E e \in Sources(t, x) : p = <<"space", e>>
                BY <1>4, <2>5 DEF Reads
            <3>2. PICK i \in 1..(Team - 1) : p = <<"space", Source(t, i, x)>>
                BY <3>1 DEF Sources, Team
            <3>3. x \in Int /\ i # 0
                BY <1>2, <2>2
            <3>4. p = Cell(g, i, x)
                BY <2>3, <3>2, <3>3 DEF Cell
            <3> QED
                BY <3>4
        <2> QED
            BY <2>1, <2>2, <2>4, <2>5
    <1>5. p \in Writes(t) => Computes(t) \/ Reduces(t)
        BY DEF Writes
    <1>6. p \in Reads(t) => Reduces(t)
        BY DEF Reads
    <1>7. id_in_group(t) \in 0..(Team - 1) /\ 0 \in 0..(Team - 1)
        BY <1>1, <1>2, ThreadIsAMember
    <1> QED
        BY <1>3, <1>4, <1>5, <1>6, <1>7

\* No access leaves its array.
LEMMA InvIsInBounds == ReducerInv => InBounds
    <1> SUFFICES ASSUME ReducerInv, NEW t \in Tids, NEW p, p \in Writes(t) \cup Reads(t)
                 PROVE  p \in Elements
        BY DEF InBounds
    <1>1. BalancerInv
        BY DEF ReducerInv
    <1>2. Working(t) /\ ~AllOut
        BY AccessesAreInCells
    <1>3. /\ group_id(t) \in 0..(NGroups - 1) /\ Team \in Nat
          /\ Slice(t) \subseteq 0..(Size(group_id(t)) - 1)
        BY <1>1, <1>2, WorkersHaveJobs, SlicesDivide, DivisionNumbers
    <1>4. \E i \in 0..(Team - 1) : \E x \in 0..(Size(group_id(t)) - 1) :
             p = Cell(group_id(t), i, x)
        <2>1. CASE p \in Writes(t)
            BY <2>1, AccessesAreInCells
        <2>2. CASE p \in Reads(t)
            <3>1. PICK i \in 1..(Team - 1) : \E x \in Slice(t) : p = Cell(group_id(t), i, x)
                BY <2>2, AccessesAreInCells
            <3>2. i \in 0..(Team - 1)
                BY <1>3
            <3> QED
                BY <1>3, <3>1, <3>2
        <2> QED
            BY <2>1, <2>2
    <1> QED
        BY <1>2, <1>3, <1>4, CellFacts

\* What one thread writes the other does not touch: they are in different
\* groups, or they compute in different areas, or they add up different slices.
LEMMA InvIsRaceFree == ReducerInv => NoDataRace
    <1> SUFFICES ASSUME ReducerInv, NEW t \in Tids, NEW u \in Tids, t # u,
                        NEW p, p \in Writes(t), p \in Writes(u) \cup Reads(u)
                 PROVE  FALSE
        BY DEF NoDataRace
    <1> DEFINE g == group_id(t)
               h == group_id(u)
    <1>1. BalancerInv /\ ControlInv
        BY DEF ReducerInv
    <1>2. Working(t) /\ Working(u) /\ ~AllOut
        BY AccessesAreInCells
    <1>3. /\ g \in 0..(NGroups - 1) /\ h \in 0..(NGroups - 1) /\ Team \in Nat
          /\ Slice(u) \subseteq 0..(Size(h) - 1)
        BY <1>1, <1>2, WorkersHaveJobs, SlicesDivide, DivisionNumbers
    <1>4. PICK i \in 0..(Team - 1), x \in 0..(Size(g) - 1) :
              /\ p = Cell(g, i, x)
              /\ \/ Computes(t) /\ i = id_in_group(t)
                 \/ Reduces(t) /\ i = 0 /\ x \in Slice(t)
        BY AccessesAreInCells
    <1>5. PICK j \in 0..(Team - 1), y \in 0..(Size(h) - 1) :
              /\ p = Cell(h, j, y)
              /\ \/ Computes(u) /\ j = id_in_group(u)
                 \/ Reduces(u) /\ j = 0 /\ y \in Slice(u)
                 \/ Reduces(u) /\ j # 0
        <2>1. CASE p \in Writes(u)
            <3>1. \E j \in 0..(Team - 1) : \E y \in 0..(Size(h) - 1) :
                      /\ p = Cell(h, j, y)
                      /\ \/ Computes(u) /\ j = id_in_group(u)
                         \/ Reduces(u) /\ j = 0 /\ y \in Slice(u)
                BY <2>1, AccessesAreInCells
            <3> QED
                BY <3>1
        <2>2. CASE p \in Reads(u)
            <3>1. PICK j \in 1..(Team - 1) : \E y \in Slice(u) : p = Cell(h, j, y)
                BY <2>2, AccessesAreInCells
            <3>2. Reduces(u)
                BY <2>2, AccessesAreInCells
            <3>3. j \in 0..(Team - 1) /\ j # 0
                BY <1>3
            <3> QED
                BY <1>3, <3>1, <3>2, <3>3
        <2> QED
            BY <2>1, <2>2
    <1>6. g = h /\ i = j /\ x = y
        <2>1. Cell(g, i, x) = Cell(h, j, y)
            BY <1>4, <1>5
        <2> HIDE DEF g, h
        <2> QED
            BY <1>2, <1>3, <2>1, CellFacts
    <1>7. /\ Reduces(t) => GroupSummed(t)
          /\ Reduces(u) => GroupSummed(u)
        BY <1>1 DEF ControlInv, PhaseInv, Reduces
    <1>8. /\ Computes(t) => ~Summed(t)
          /\ Computes(u) => ~Summed(u)
        BY DEF Computes, Summed
    <1>9. ~(Computes(t) /\ Reduces(u)) /\ ~(Reduces(t) /\ Computes(u))
        BY <1>6, <1>7, <1>8 DEF GroupSummed
    <1>10. CASE Computes(t) /\ Computes(u)
        <2>1. id_in_group(t) = id_in_group(u)
            BY <1>4, <1>5, <1>6, <1>10 DEF Computes, Reduces
        <2> QED
            BY <1>1, <1>6, <2>1, ThreadIsAMember
    <1>11. CASE Reduces(t) /\ Reduces(u)
        <2>1. x \in Slice(t) /\ x \in Slice(u)
            BY <1>4, <1>5, <1>6, <1>11 DEF Computes, Reduces
        <2> QED
            BY <1>1, <1>2, <1>6, <2>1, SlicesDivide
    <1> QED
        BY <1>4, <1>5, <1>9, <1>10, <1>11

\* When everybody is done everything has been added.
LEMMA InvIsComplete == ReducerInv => ResultIsComplete
    <1> SUFFICES ASSUME ReducerInv, AllDone, NEW e \in DOMAIN dst
                 PROVE  dst[e] = {e \div call.job_size} \X (0..(call.reduction_size - 1))
        BY DEF ResultIsComplete
    <1>1. BalancerInv /\ ControlInv /\ DataInv /\ ProgressInv
        BY DEF ReducerInv
    <1>2. \A t \in Tids : thr[t].pc = "done"
        BY DEF AllDone
    <1>3. e \in 0..(call.njobs * call.job_size - 1)
        <2>1. nthr \in Nat \ {0}
            BY <1>1, DivisionNumbers
        <2>2. 0 \in Tids
            BY <2>1 DEF Tids
        <2> QED
            BY <1>1, <1>2, <2>2, InTheRegion
    <1>4. PICK g \in 0..(NGroups - 1) : \E x \in 0..(Size(g) - 1) :
              /\ e = Base(g, 0) + x
              /\ e \div call.job_size = grp_job_off(g) + (x \div call.job_size)
        BY <1>1, <1>3, EveryElementHasAGroup
    <1>5. PICK x \in 0..(Size(g) - 1) :
              /\ e = Base(g, 0) + x
              /\ e \div call.job_size = grp_job_off(g) + (x \div call.job_size)
        BY <1>4
    <1> DEFINE m == Member(g, 0)
               R == call.reduction_size
    <1>6. Team \in Nat \ {0} /\ R \in Nat \ {0}
        BY <1>1, DivisionNumbers
    <1>7. m \in Tids /\ group_id(m) = g /\ id_in_group(m) = 0
        BY <1>1, <1>6, MemberIsAThread
    <1> HIDE DEF m
    <1>8. Working(m) /\ ToDst(m) /\ thr[m].pc = "done"
        BY <1>1, <1>2, <1>7, WorkersHaveJobs DEF ToDst
    <1>9. Element(m, x) = dst[e]
        <2>1. local_off(m) = Base(g, 0)
            BY <1>1, <1>7, <1>8, AreasOfThreads
        <2> QED
            BY <1>5, <1>8, <2>1 DEF Element
    <1>10. JobAt(m, x) = e \div call.job_size
        BY <1>5, <1>7 DEF JobAt, ithr_job_off
    <1>11. Element(m, x) = {JobAt(m, x)} \X (0..(R - 1))
        <2>1. CASE Team > 1
            <3>1. PICK u \in Tids : group_id(u) = g /\ x \in Slice(u)
                BY <1>1, <1>7, <1>8, SlicesDivide
            <3>2. Finished(g, x)
                BY <1>2, <2>1, <3>1 DEF Finished
            <3> QED
                BY <1>1, <1>7, <1>8, <3>2 DEF DataInv
        <2>2. CASE Team = 1
            <3>1. FirstOf(m) = 0 /\ EndOf(m) = R
                <4>1. NotDivided(R, 1)
                    BY DEF NotDivided
                <4>2. \A i : balance211_start(R, 1, i) = 0 /\ balance211_size(R, 1, i) = R
                    BY <4>1 DEF balance211_start, balance211_size
                <4>3. \A i : balance211_end(R, 1, i) = R
                    BY <1>6, <4>2 DEF balance211_end
                <4> QED
                    BY <2>2, <4>2, <4>3 DEF FirstOf, EndOf
            <3>2. thr[m].row = R
                BY <1>1, <1>7, <1>8, <3>1 DEF ProgressInv, Summed
            <3>3. ~Finished(g, x)
                BY <2>2 DEF Finished
            <3>4. thr[m].row > FirstOf(m)
                BY <1>6, <3>1, <3>2
            <3> QED
                BY <1>1, <1>7, <1>8, <3>1, <3>2, <3>3, <3>4 DEF DataInv
        <2> QED
            BY <1>6, <2>1, <2>2
    <1> QED
        BY <1>9, <1>10, <1>11 DEF R

\* No thread reaches beyond the destination or the booked space, whatever the
\* sizes.
THEOREM AccessesAreAlwaysInBounds == Spec => []InBounds
    BY ReducerInvHolds, InvIsInBounds, PTL

\* No thread writes what another one writes or reads at the same time.
THEOREM NeverADataRace == Spec => []NoDataRace
    BY ReducerInvHolds, InvIsRaceFree, PTL

\* Every execution ends with every term of every job added exactly once.
THEOREM ResultIsAlwaysComplete == Spec => []ResultIsComplete
    BY ReducerInvHolds, InvIsComplete, PTL
=============================================================================
