---------------------- MODULE ConvBwdWeights1x1Proofs ----------------------
(***************************************************************************)
(* Whichever division of the team balance() chooses, it fits the team, and *)
(* the gradient of the weights is computed without a data race and         *)
(* completely.  The convolution's model uses of a barrier only what it     *)
(* promises; the last part proves that the barrier of cpu_barrier.cpp, on  *)
(* which its threads wait, keeps that promise.                             *)
(***************************************************************************)
EXTENDS ConvBwdWeights1x1, SimpleBarrier, Balance211Proofs, FiniteSetTheorems, TLAPS

-----------------------------------------------------------------------------
(* The invariant. *)

Pcs == {"out", "loop", "wait_free", "transpose", "wait_ready", "multiply",
        "wait_sums", "sum", "done"}

Ended == {"wait_sums", "sum", "done"}

\* Two threads transpose the source together.
Mates(t, u) == ithr_but_oc(t) = ithr_but_oc(u)

First(t) == mb_sp_b_range(t)[1]
Last(t) == mb_sp_b_range(t)[2]

JcpInv == shape \in Shapes /\ jcp \in Divisions(shape)

Places == [pc : Pcs, mb_sp_b : Nat, g : Nat, ic_b : Nat]

TypeInv == thr \in [Tids -> Places]

RegionInv ==
    \/ AllOut
    \/ /\ \A t \in Tids : thr[t].pc # "out"
       /\ phase \in [Tids -> Nat]
       /\ DOMAIN tr_src = (0..(jcp.nthr_mb - 1)) \X (0..(shape.ngroups * shape.nb_ic - 1))
                              \X (0..(shape.sp_nb - 1))
       /\ DOMAIN wei = 0..(jcp.nthr_mb - 1)

\* A thread is within its ranges, at their starts when it has passed them all,
\* and only where the settings lead.
PlaceIsRight(t, r) ==
    /\ r.mb_sp_b \in First(t)..Last(t)
    /\ r.g \in In(g_range(t)) /\ r.ic_b \in In(ic_b_range(t))
    /\ r.pc \in {"wait_free", "transpose", "wait_ready", "multiply"} => r.mb_sp_b < Last(t)
    /\ r.mb_sp_b = Last(t) => r.g = g_range(t)[1] /\ r.ic_b = ic_b_range(t)[1]
    /\ r.pc \in {"wait_free", "transpose", "wait_ready"} => shape.transpose_src
    /\ r.pc \in {"wait_free", "wait_ready"} => Shared
    /\ r.pc \in Ended => r.mb_sp_b = Last(t)
    /\ r.pc \in {"wait_sums", "sum"} => jcp.nthr_mb > 1

PlaceInv == \A t \in Tids : thr[t].pc # "out" => PlaceIsRight(t, thr[t])

\* Whoever adds up has seen everybody at the reduction barrier.
SumsInv ==
    \A t \in Tids :
        thr[t].pc = "sum" \/ (thr[t].pc = "done" /\ jcp.nthr_mb > 1) => AllSummed(t)

ControlInv == JcpInv /\ TypeInv /\ RegionInv /\ PlaceInv /\ SumsInv

\* A place in the loops, without what the thread does there.
PlaceOf(r) == <<r.mb_sp_b, r.g, r.ic_b>>
Place(t) == PlaceOf(thr[t])
NextPlace(t) == PlaceOf(NextStep(t))

\* The place whose step the thread has not begun to multiply for its mates.
Coming(t) == IF thr[t].pc \in {"wait_ready", "multiply"} THEN NextPlace(t) ELSE Place(t)

Odd(t) == thr[t].pc \in {"wait_free", "transpose"}
Waits(t) == thr[t].pc \in {"wait_free", "wait_ready"}

\* Mates are never more than one arrival apart, and in the same step or, with
\* as many arrivals, about to come to the same one.
ParityInv ==
    \A t \in Tids : thr[t].pc # "out" => \E n \in 0..phase[t] :
        phase[t] = 2 * n + (IF Odd(t) THEN 1 ELSE 0)

BehindInv ==
    \A t, u \in Tids : thr[t].pc # "out" /\ Mates(t, u) =>
        phase[u] >= phase[t] - (IF Waits(t) THEN 1 ELSE 0)

StepInv ==
    \A t, u \in Tids : thr[t].pc # "out" /\ Mates(t, u) =>
        /\ phase[t] = phase[u] => Coming(t) = Coming(u)
        /\ phase[t] = phase[u] + 1 => IF Odd(t) THEN Coming(t) = Coming(u) ELSE Place(t) = Place(u)

LockInv == shape.transpose_src /\ Shared => ParityInv /\ BehindInv /\ StepInv

\* Input block k of thread u's step has been transposed.
IsTransposed(u, k) ==
    \A sp \in StepSp(u) :
        tr_src[TrPlace(u, k, sp)] = <<img(u), thr[u].g, thr[u].ic_b + k, sp>>

\* What the mates that have arrived have transposed for a thread's step is
\* there until the thread has multiplied.
SourceInv ==
    \A t, u \in Tids :
        /\ thr[u].pc \in {"wait_ready", "multiply"}
        /\ shape.transpose_src
        /\ Mates(t, u) /\ phase[t] >= phase[u]
        => \A k \in Piece(bcast_step(u), jcp.nthr_oc_b, ithr_oc_b(t)) : IsTransposed(u, k)

\* The terms of the places from a to b - 1.
TermsOf(a, b) == {<<k \div shape.sp_nb, k % shape.sp_nb>> : k \in a..(b - 1)}

AllTerms == TermsOf(0, shape.mb * shape.sp_nb)

Area(t) == In(g_range(t)) \X In(oc_b_range(t)) \X In(ic_b_range(t))

\* How far thread t is with element e.
Upto(t, e) ==
    IF e[1] < thr[t].g \/ (e[1] = thr[t].g /\ e[3] < thr[t].ic_b)
    THEN thr[t].mb_sp_b + sp_b_step(t) ELSE thr[t].mb_sp_b

IsSummed(e) ==
    jcp.nthr_mb > 1 /\ \E t \in Tids : thr[t].pc = "done" /\ e \in SumWrites(t)

\* Every element holds the terms its thread has come past; in diff_weights it
\* holds all of them once it was added up.
WeightsInv ==
    \A t \in Tids : thr[t].pc # "out" =>
        \A e \in Area(t) :
            IF ithr_mb(t) = 0 /\ IsSummed(e) THEN wei[0][e] = AllTerms
            ELSE Upto(t, e) > First(t) => wei[ithr_mb(t)][e] = TermsOf(First(t), Upto(t, e))

ConvInv == ControlInv /\ LockInv /\ SourceInv /\ WeightsInv
-----------------------------------------------------------------------------
(* The division of the team. *)

\* A problem is made of positive numbers.
LEMMA ShapeNumbers ==
    ASSUME JcpInv
    PROVE  /\ shape.nthreads \in Nat \ {0} /\ shape.mb \in Nat \ {0}
           /\ shape.ngroups \in Nat \ {0} /\ shape.nb_oc \in Nat \ {0}
           /\ shape.nb_ic \in Nat \ {0} /\ shape.sp_nb \in Nat \ {0}
           /\ shape.nb_reduce_blocking \in Nat \ {0} /\ shape.nb_reduce_blocking_max \in Nat
           /\ shape.nb_bcast_blocking \in Nat \ {0} /\ shape.nb_bcast_blocking_max \in Nat
           /\ shape.nb_reduce_blocking <= shape.nb_reduce_blocking_max
           /\ shape.nb_bcast_blocking <= shape.nb_bcast_blocking_max
           /\ shape.mb * shape.sp_nb \in Nat \ {0}
    <1>1. shape \in Shapes
        BY DEF JcpInv
    <1>2. /\ shape.nthreads \in Nat \ {0} /\ shape.mb \in Nat \ {0}
          /\ shape.ngroups \in Nat \ {0} /\ shape.nb_oc \in Nat \ {0}
          /\ shape.nb_ic \in Nat \ {0} /\ shape.sp_nb \in Nat \ {0}
          /\ shape.nb_reduce_blocking \in Nat \ {0} /\ shape.nb_reduce_blocking_max \in Nat
          /\ shape.nb_bcast_blocking \in Nat \ {0} /\ shape.nb_bcast_blocking_max \in Nat
          /\ shape.nb_reduce_blocking <= shape.nb_reduce_blocking_max
          /\ shape.nb_bcast_blocking <= shape.nb_bcast_blocking_max
        BY <1>1, ShapesAssumption
    <1>3. shape.mb * shape.sp_nb \in Nat \ {0}
        BY <1>2, ProductIsPositive
    <1> QED
        BY <1>2, <1>3

\* The candidates of balance() share out no more threads than there are.
LEMMA CandidateNumbers ==
    ASSUME JcpInv, ~(shape.nthreads < shape.ngroups), NEW c \in Candidates(shape)
    PROVE  \E n \in 1..(shape.mb * shape.sp_nb), o \in 1..shape.nb_oc, i \in 1..shape.nb_ic :
              /\ c = [nthr_mb |-> n, nthr_g |-> shape.ngroups, nthr_oc_b |-> o, nthr_ic_b |-> i]
              /\ n * (o * i) <= shape.nthreads \div shape.ngroups
              /\ n <= shape.nthreads \div shape.ngroups
              /\ shape.ngroups * (shape.nthreads \div shape.ngroups) <= shape.nthreads
              /\ shape.nthreads \div shape.ngroups \in Nat
    <1> DEFINE N == shape.nthreads
               G == shape.ngroups
               nt == N \div G
               W == shape.mb * shape.sp_nb
    <1>1. /\ N \in Nat \ {0} /\ G \in Nat \ {0} /\ W \in Nat \ {0} /\ G <= N
          /\ shape.nb_oc \in Nat \ {0} /\ shape.nb_ic \in Nat \ {0}
        BY ShapeNumbers
    <1>2. nt \in Nat \ {0} /\ nt * G <= N
        BY <1>1, QuotientIsPositive
    <1>3. PICK n \in 1..Least(nt, W) :
              \E o \in 1..Least(nt \div n, shape.nb_oc) :
                  c = [nthr_mb |-> n, nthr_g |-> G, nthr_oc_b |-> o,
                       nthr_ic_b |-> Least((nt \div n) \div o, shape.nb_ic)]
        BY DEF Candidates
    <1> HIDE DEF nt, W, N, G
    <1>4. n \in 1..W /\ n <= nt /\ n \in Nat \ {0}
        BY <1>1, <1>2, <1>3 DEF Least
    <1> DEFINE q == nt \div n
    <1>5. q \in Nat \ {0} /\ q * n <= nt
        BY <1>2, <1>4, QuotientIsPositive
    <1>6. PICK o \in 1..Least(q, shape.nb_oc) :
              c = [nthr_mb |-> n, nthr_g |-> G, nthr_oc_b |-> o,
                   nthr_ic_b |-> Least(q \div o, shape.nb_ic)]
        BY <1>3
    <1> HIDE DEF q
    <1>7. o \in 1..shape.nb_oc /\ o <= q /\ o \in Nat \ {0}
        BY <1>1, <1>5, <1>6 DEF Least
    <1> DEFINE i == Least(q \div o, shape.nb_ic)
    <1>8. q \div o \in Nat \ {0} /\ (q \div o) * o <= q
        BY <1>5, <1>7, QuotientIsPositive
    <1>9. i \in 1..shape.nb_ic /\ i <= q \div o /\ i \in Nat
        BY <1>1, <1>8 DEF Least
    <1>10. c = [nthr_mb |-> n, nthr_g |-> G, nthr_oc_b |-> o, nthr_ic_b |-> i]
        BY <1>6
    <1> HIDE DEF i
    <1>11. o * i <= q
        <2> DEFINE p == q \div o
        <2>1. p \in Nat /\ i <= p /\ p * o <= q
            BY <1>8, <1>9
        <2> HIDE DEF p
        <2>2. i * o <= p * o /\ i * o = o * i
            BY <1>7, <1>9, <2>1, ProductMonotone
        <2>3. p * o \in Nat /\ o * i \in Nat
            BY <1>7, <1>9, <2>1
        <2> QED
            BY <1>5, <2>1, <2>2, <2>3
    <1>12. n * (o * i) <= nt
        <2> DEFINE x == o * i
        <2>1. x \in Nat /\ x <= q
            BY <1>7, <1>9, <1>11
        <2> HIDE DEF x
        <2>2. x * n <= q * n /\ x * n = n * x /\ q * n \in Nat /\ x * n \in Nat
            BY <1>4, <1>5, <2>1, ProductMonotone
        <2>3. n * x <= nt
            BY <1>2, <1>5, <2>2
        <2> QED
            BY <2>3 DEF x
    <1>13. G * nt <= N
        <2>1. G * nt = nt * G
            BY <1>1, <1>2
        <2> QED
            BY <1>2, <2>1
    <1> QED
        BY <1>2, <1>4, <1>7, <1>9, <1>10, <1>12, <1>13 DEF nt, G, N, W

\* The numbers of threads for images, groups and blocks.
LEMMA JcpNumbers ==
    ASSUME JcpInv
    PROVE  /\ jcp.nthr_mb \in 1..(shape.mb * shape.sp_nb)
           /\ jcp.nthr_g \in 1..shape.ngroups
           /\ jcp.nthr_oc_b \in 1..shape.nb_oc
           /\ jcp.nthr_ic_b \in 1..shape.nb_ic
           /\ nthr <= shape.nthreads
    <1> DEFINE N == shape.nthreads
               G == shape.ngroups
               W == shape.mb * shape.sp_nb
               nt == N \div G
    <1>1. /\ N \in Nat \ {0} /\ G \in Nat \ {0} /\ W \in Nat \ {0} /\ shape.mb \in Nat \ {0}
          /\ shape.sp_nb \in Nat \ {0} /\ shape.nb_oc \in Nat \ {0} /\ shape.nb_ic \in Nat \ {0}
        BY ShapeNumbers
    <1>2. CASE N < G
        <2>1. jcp = OneThread
            BY <1>2 DEF JcpInv, Divisions
        <2> QED
            BY <1>1, <2>1 DEF OneThread, nthr
    <1>3. CASE ~(N < G)
        <2>1. PICK c \in Candidates(shape) : jcp = Adjusted(shape, c)
            BY <1>3 DEF JcpInv, Divisions
        <2>2. PICK n \in 1..W, o \in 1..shape.nb_oc, i \in 1..shape.nb_ic :
                  /\ c = [nthr_mb |-> n, nthr_g |-> G, nthr_oc_b |-> o, nthr_ic_b |-> i]
                  /\ n * (o * i) <= nt /\ n <= nt /\ G * nt <= N /\ nt \in Nat
            BY <1>3, CandidateNumbers
        <2>3. n \in Nat \ {0} /\ o \in Nat \ {0} /\ i \in Nat \ {0}
            BY <1>1, <2>2
        <2>4. CASE jcp = c
            <3>1. /\ jcp.nthr_mb = n /\ jcp.nthr_g = G /\ jcp.nthr_oc_b = o /\ jcp.nthr_ic_b = i
                BY <2>2, <2>4
            <3>2. ((n * G) * o) * i = (n * (o * i)) * G
                BY <1>1, <2>3
            <3> DEFINE x == n * (o * i)
            <3>3. x \in Nat /\ x <= nt
                BY <2>2, <2>3
            <3> HIDE DEF x, nt
            <3>4. x * G <= nt * G /\ nt * G = G * nt /\ x * G \in Nat /\ G * nt \in Nat
                BY <1>1, <2>2, <3>3, ProductMonotone
            <3>5. x * G <= N
                BY <1>1, <2>2, <3>4
            <3>6. nthr <= N
                BY <3>1, <3>2, <3>5 DEF nthr, x
            <3> QED
                BY <1>1, <2>2, <3>1, <3>6
        <2>5. CASE jcp # c
            <3>1. /\ n > N \div 2 /\ n < N
                  /\ jcp = [c EXCEPT !.nthr_mb = Least(shape.mb, N)]
                BY <2>1, <2>2, <2>5 DEF Adjusted
            <3> DEFINE l == Least(shape.mb, N)
            <3>2. /\ jcp.nthr_mb = l /\ jcp.nthr_g = G /\ jcp.nthr_oc_b = o /\ jcp.nthr_ic_b = i
                BY <2>2, <3>1
            <3>3. n + n > N
                BY <1>1, <2>3, <3>1
            <3> HIDE DEF nt
            <3>4. G = 1
                <4>1. G >= 2 => 2 * nt <= G * nt
                    BY <1>1, <2>2, ProductMonotone
                <4>2. ~(2 * nt <= N)
                    BY <1>1, <2>2, <2>3, <3>3
                <4> DEFINE x == G * nt
                <4>3. x \in Int /\ x <= N
                    BY <1>1, <2>2
                <4> HIDE DEF x
                <4>4. ~(2 * nt <= x)
                    BY <1>1, <2>2, <4>2, <4>3
                <4>5. ~(G >= 2)
                    BY <4>1, <4>4 DEF x
                <4> HIDE DEF G
                <4> QED
                    BY <1>1, <4>5
            <3>5. o * i = 1
                <4> DEFINE x == o * i
                <4>1. x \in Nat \ {0}
                    BY <2>3, ProductIsPositive
                <4> HIDE DEF x
                <4>2. x >= 2 => 2 * n <= x * n
                    BY <2>3, <4>1, ProductMonotone
                <4>3. x * n = n * x /\ n * x \in Nat
                    BY <2>3, <4>1
                <4>4. n * x <= nt /\ nt <= N
                    <5>1. G * nt = nt
                        BY <2>2, <3>4
                    <5> QED
                        BY <2>2, <5>1 DEF x
                <4>5. x = 1
                    BY <1>1, <2>2, <2>3, <3>3, <4>1, <4>2, <4>3, <4>4
                <4> QED
                    BY <4>5 DEF x
            <3>6. l \in 1..shape.mb /\ l <= N
                BY <1>1 DEF Least
            <3>7. shape.mb <= W
                <4>1. 1 * shape.mb <= shape.sp_nb * shape.mb
                    BY <1>1, ProductMonotone
                <4> QED
                    BY <1>1, <4>1
            <3> HIDE DEF l, W
            <3>8. l \in 1..W
                BY <1>1, <3>6, <3>7
            <3>9. nthr <= N
                <4>1. l \in Nat
                    BY <1>1, <3>6
                <4>2. ((l * 1) * o) * i = l * (o * i) /\ l * 1 = l
                    BY <2>3, <4>1
                <4> QED
                    BY <3>2, <3>4, <3>5, <3>6, <4>1, <4>2 DEF nthr
            <3> QED
                BY <1>1, <2>2, <3>2, <3>8, <3>9 DEF W
        <2> QED
            BY <2>4, <2>5
    <1> QED
        BY <1>2, <1>3

-----------------------------------------------------------------------------
(* A thread is its place in the division, and its ranges. *)

ThreadAt(m, g, o, i) == ((m * jcp.nthr_g + g) * jcp.nthr_oc_b + o) * jcp.nthr_ic_b + i

\* A division has a thread in each of its dimensions.
LEMMA JcpIsPositive ==
    ASSUME JcpInv
    PROVE  /\ jcp.nthr_mb \in Nat \ {0} /\ jcp.nthr_g \in Nat \ {0}
           /\ jcp.nthr_oc_b \in Nat \ {0} /\ jcp.nthr_ic_b \in Nat \ {0}
           /\ jcp.nthr_mb * jcp.nthr_g \in Nat \ {0}
           /\ (jcp.nthr_mb * jcp.nthr_g) * jcp.nthr_oc_b \in Nat \ {0}
           /\ nthr \in Nat \ {0}
    <1>1. /\ jcp.nthr_mb \in Nat \ {0} /\ jcp.nthr_g \in Nat \ {0}
          /\ jcp.nthr_oc_b \in Nat \ {0} /\ jcp.nthr_ic_b \in Nat \ {0}
        BY JcpNumbers, ShapeNumbers
    <1>2. jcp.nthr_mb * jcp.nthr_g \in Nat \ {0}
        BY <1>1, ProductIsPositive
    <1>3. (jcp.nthr_mb * jcp.nthr_g) * jcp.nthr_oc_b \in Nat \ {0}
        BY <1>1, <1>2, ProductIsPositive
    <1>4. nthr \in Nat \ {0}
        BY <1>1, <1>3, ProductIsPositive DEF nthr
    <1> QED
        BY <1>1, <1>2, <1>3, <1>4

\* A thread has its place in each dimension of the team, and the four give it back.
LEMMA PlaceOfAThread ==
    ASSUME JcpInv, NEW t \in Tids
    PROVE  /\ ithr_mb(t) \in 0..(jcp.nthr_mb - 1) /\ ithr_g(t) \in 0..(jcp.nthr_g - 1)
           /\ ithr_oc_b(t) \in 0..(jcp.nthr_oc_b - 1)
           /\ ithr_ic_b(t) \in 0..(jcp.nthr_ic_b - 1)
           /\ t = ThreadAt(ithr_mb(t), ithr_g(t), ithr_oc_b(t), ithr_ic_b(t))
    <1> DEFINE M == jcp.nthr_mb
               G == jcp.nthr_g
               O == jcp.nthr_oc_b
               I == jcp.nthr_ic_b
               x == t \div I
               y == x \div O
    <1>1. /\ M \in Nat \ {0} /\ G \in Nat \ {0} /\ O \in Nat \ {0} /\ I \in Nat \ {0}
          /\ M * G \in Nat \ {0} /\ (M * G) * O \in Nat \ {0}
        BY JcpIsPositive
    <1>2. t \in 0..(((M * G) * O) * I - 1)
        BY DEF Tids, nthr
    <1>3. /\ ithr_mb(t) = y \div G /\ ithr_g(t) = y % G
          /\ ithr_oc_b(t) = x % O /\ ithr_ic_b(t) = t % I
        BY DEF ithr_mb, ithr_g, ithr_oc_b, ithr_ic_b
    <1> HIDE DEF M, G, O, I
    <1>4. x \in 0..((M * G) * O - 1) /\ t % I \in 0..(I - 1) /\ t = x * I + (t % I)
        BY <1>1, <1>2, PairsOfANumber
    <1> HIDE DEF x
    <1>5. y \in 0..(M * G - 1) /\ x % O \in 0..(O - 1) /\ x = y * O + (x % O)
        BY <1>1, <1>4, PairsOfANumber
    <1> HIDE DEF y
    <1>6. y \div G \in 0..(M - 1) /\ y % G \in 0..(G - 1) /\ y = (y \div G) * G + (y % G)
        BY <1>1, <1>5, PairsOfANumber
    <1> QED
        BY <1>3, <1>4, <1>5, <1>6 DEF ThreadAt, M, G, O, I

\* Each place of the team has its thread.
LEMMA ThreadOfAPlace ==
    ASSUME JcpInv, NEW m \in 0..(jcp.nthr_mb - 1), NEW g \in 0..(jcp.nthr_g - 1),
           NEW o \in 0..(jcp.nthr_oc_b - 1), NEW i \in 0..(jcp.nthr_ic_b - 1)
    PROVE  LET t == ThreadAt(m, g, o, i)
           IN  /\ t \in Tids
               /\ ithr_mb(t) = m /\ ithr_g(t) = g /\ ithr_oc_b(t) = o /\ ithr_ic_b(t) = i
    <1> DEFINE M == jcp.nthr_mb
               G == jcp.nthr_g
               O == jcp.nthr_oc_b
               I == jcp.nthr_ic_b
               y == m * G + g
               x == y * O + o
               t == x * I + i
    <1>1. /\ M \in Nat \ {0} /\ G \in Nat \ {0} /\ O \in Nat \ {0} /\ I \in Nat \ {0}
          /\ M * G \in Nat \ {0} /\ (M * G) * O \in Nat \ {0}
        BY JcpIsPositive
    <1>2. ThreadAt(m, g, o, i) = t
        BY DEF ThreadAt
    <1>3. m \in 0..(M - 1) /\ g \in 0..(G - 1) /\ o \in 0..(O - 1) /\ i \in 0..(I - 1)
        OBVIOUS
    <1>4. Tids = 0..(((M * G) * O) * I - 1)
        BY DEF Tids, nthr
    <1>5. /\ ithr_mb(t) = ((t \div I) \div O) \div G /\ ithr_g(t) = ((t \div I) \div O) % G
          /\ ithr_oc_b(t) = (t \div I) % O /\ ithr_ic_b(t) = t % I
        BY DEF ithr_mb, ithr_g, ithr_oc_b, ithr_ic_b
    <1> HIDE DEF M, G, O, I
    <1>6. y \in 0..(M * G - 1) /\ y \div G = m /\ y % G = g
        BY <1>1, <1>3, NumberOfAPair
    <1> HIDE DEF y
    <1>7. x \in 0..((M * G) * O - 1) /\ x \div O = y /\ x % O = o
        BY <1>1, <1>3, <1>6, NumberOfAPair
    <1> HIDE DEF x
    <1>8. t \in 0..(((M * G) * O) * I - 1) /\ t \div I = x /\ t % I = i
        BY <1>1, <1>3, <1>7, NumberOfAPair
    <1> HIDE DEF t
    <1> QED
        BY <1>2, <1>4, <1>5, <1>6, <1>7, <1>8

\* The number of a barrier says everything but the output blocks.
LEMMA MatesAgree ==
    ASSUME JcpInv, NEW t \in Tids, NEW u \in Tids
    PROVE  Mates(t, u) <=> /\ ithr_mb(t) = ithr_mb(u) /\ ithr_g(t) = ithr_g(u)
                           /\ ithr_ic_b(t) = ithr_ic_b(u)
    <1> DEFINE G == jcp.nthr_g
               I == jcp.nthr_ic_b
    <1>1. jcp.nthr_mb \in Nat \ {0} /\ G \in Nat \ {0} /\ I \in Nat \ {0}
          /\ jcp.nthr_mb * G \in Nat \ {0}
        BY JcpIsPositive
    <1>2. ASSUME NEW w \in Tids
          PROVE  /\ ithr_but_oc(w) \div I = ithr_mb(w) * G + ithr_g(w)
                 /\ ithr_but_oc(w) % I = ithr_ic_b(w)
                 /\ (ithr_mb(w) * G + ithr_g(w)) \div G = ithr_mb(w)
                 /\ (ithr_mb(w) * G + ithr_g(w)) % G = ithr_g(w)
        <2> DEFINE m == ithr_mb(w)
                   g == ithr_g(w)
                   i == ithr_ic_b(w)
                   y == m * G + g
        <2>1. m \in 0..(jcp.nthr_mb - 1) /\ g \in 0..(G - 1) /\ i \in 0..(I - 1)
            BY PlaceOfAThread
        <2>2. ithr_but_oc(w) = y * I + i
            BY DEF ithr_but_oc
        <2> HIDE DEF m, g, i, G, I
        <2>3. y \in 0..(jcp.nthr_mb * G - 1) /\ y \div G = m /\ y % G = g
            BY <1>1, <2>1, NumberOfAPair
        <2> HIDE DEF y
        <2>4. (y * I + i) \div I = y /\ (y * I + i) % I = i
            BY <1>1, <2>1, <2>3, NumberOfAPair
        <2> QED
            BY <2>2, <2>3, <2>4 DEF y, m, g, i
    <1>3. Mates(t, u) => /\ ithr_mb(t) = ithr_mb(u) /\ ithr_g(t) = ithr_g(u)
                         /\ ithr_ic_b(t) = ithr_ic_b(u)
        <2> HIDE DEF G, I
        <2> SUFFICES ASSUME ithr_but_oc(t) = ithr_but_oc(u)
                     PROVE  /\ ithr_mb(t) = ithr_mb(u) /\ ithr_g(t) = ithr_g(u)
                            /\ ithr_ic_b(t) = ithr_ic_b(u)
            BY DEF Mates
        <2>1. ithr_mb(t) * G + ithr_g(t) = ithr_mb(u) * G + ithr_g(u)
            BY <1>2
        <2> QED
            BY <1>2, <2>1
    <1> QED
        BY <1>3 DEF Mates, ithr_but_oc

\* To share a transposed source is an equivalence.
LEMMA MatesAreEqual ==
    ASSUME NEW t, NEW u, NEW v
    PROVE  /\ Mates(t, t) /\ (Mates(t, u) <=> Mates(u, t))
           /\ Mates(t, u) /\ Mates(u, v) => Mates(t, v)
    BY DEF Mates

\* Threads in the same place are the same, and mates differ in their output
\* blocks.
LEMMA PlacesDiffer ==
    ASSUME JcpInv, NEW t \in Tids, NEW u \in Tids, Mates(t, u), ithr_oc_b(t) = ithr_oc_b(u)
    PROVE  t = u
    <1>1. /\ ithr_mb(t) = ithr_mb(u) /\ ithr_g(t) = ithr_g(u) /\ ithr_ic_b(t) = ithr_ic_b(u)
        BY MatesAgree
    <1>2. /\ t = ThreadAt(ithr_mb(t), ithr_g(t), ithr_oc_b(t), ithr_ic_b(t))
          /\ u = ThreadAt(ithr_mb(u), ithr_g(u), ithr_oc_b(u), ithr_ic_b(u))
        BY PlaceOfAThread
    <1> QED
        BY <1>1, <1>2

\* A thread has a mate for every share of the output blocks.
LEMMA EveryMateExists ==
    ASSUME JcpInv, NEW t \in Tids, NEW o \in 0..(jcp.nthr_oc_b - 1)
    PROVE  \E u \in Tids : Mates(t, u) /\ ithr_oc_b(u) = o
    <1> DEFINE u == ThreadAt(ithr_mb(t), ithr_g(t), o, ithr_ic_b(t))
    <1>1. /\ ithr_mb(t) \in 0..(jcp.nthr_mb - 1) /\ ithr_g(t) \in 0..(jcp.nthr_g - 1)
          /\ ithr_ic_b(t) \in 0..(jcp.nthr_ic_b - 1)
        BY PlaceOfAThread
    <1>2. /\ u \in Tids /\ ithr_mb(u) = ithr_mb(t) /\ ithr_g(u) = ithr_g(t)
          /\ ithr_oc_b(u) = o /\ ithr_ic_b(u) = ithr_ic_b(t)
        BY <1>1, ThreadOfAPlace
    <1> HIDE DEF u
    <1> QED
        BY <1>2, MatesAgree

-----------------------------------------------------------------------------
(* Ranges *)

\* With no more threads than items balance211 leaves nobody without one.
LEMMA RangeFacts ==
    ASSUME NEW n \in Nat \ {0}, NEW team \in 1..n, NEW j \in 0..(team - 1)
    PROVE  LET r == Range211(n, team, j)
           IN  /\ r[1] \in Nat /\ r[2] \in Nat /\ r[1] < r[2] /\ r[2] <= n
               /\ In(r) = Piece(n, team, j)
               /\ In(r) \subseteq 0..(n - 1)
    <1> DEFINE a == balance211_start(n, team, j)
               b == balance211_end(n, team, j)
    <1>1. a \in Nat /\ b \in 0..n /\ a < b
        BY PieceBounds, PiecesAreNotEmpty
    <1>2. Range211(n, team, j)[1] = a /\ Range211(n, team, j)[2] = b
        BY DEF Range211
    <1>3. In(Range211(n, team, j)) = a..(b - 1) /\ Piece(n, team, j) = a..(b - 1)
        BY <1>2 DEF In, Piece
    <1> HIDE DEF a, b
    <1> QED
        BY <1>1, <1>2, <1>3

\* No item is in the pieces of two threads.
LEMMA PiecesAreDisjoint ==
    ASSUME NEW n \in Nat, NEW team \in Nat \ {0}, NEW j \in 0..(team - 1), NEW k \in 0..(team - 1),
           NEW x \in Piece(n, team, j), x \in Piece(n, team, k)
    PROVE  j = k
    <1> DEFINE a(i) == balance211_start(n, team, i)
               b(i) == balance211_end(n, team, i)
    <1>1. a(j) \in Nat /\ b(j) \in Nat /\ a(k) \in Nat /\ b(k) \in Nat
        BY PieceBounds
    <1>2. j < k => b(j) <= a(k)
        BY PiecesAreOrdered
    <1>3. k < j => b(k) <= a(j)
        BY PiecesAreOrdered
    <1>4. x \in a(j)..(b(j) - 1) /\ x \in a(k)..(b(k) - 1)
        BY DEF Piece
    <1> HIDE DEF a, b
    <1> QED
        BY <1>1, <1>2, <1>3, <1>4

\* The groups and blocks of a thread.
LEMMA BlocksOfAThread ==
    ASSUME JcpInv, NEW t \in Tids
    PROVE  /\ \A r \in {g_range(t), oc_b_range(t), ic_b_range(t)} :
                 r[1] \in Nat /\ r[2] \in Nat /\ r[1] < r[2]
           /\ g_range(t)[2] <= shape.ngroups /\ oc_b_range(t)[2] <= shape.nb_oc
           /\ ic_b_range(t)[2] <= shape.nb_ic
           /\ In(g_range(t)) = Piece(shape.ngroups, jcp.nthr_g, ithr_g(t))
           /\ In(oc_b_range(t)) = Piece(shape.nb_oc, jcp.nthr_oc_b, ithr_oc_b(t))
           /\ In(ic_b_range(t)) = Piece(shape.nb_ic, jcp.nthr_ic_b, ithr_ic_b(t))
           /\ Area(t) \subseteq Elements
    <1>1. /\ ithr_g(t) \in 0..(jcp.nthr_g - 1) /\ ithr_oc_b(t) \in 0..(jcp.nthr_oc_b - 1)
          /\ ithr_ic_b(t) \in 0..(jcp.nthr_ic_b - 1)
        BY PlaceOfAThread
    <1>2. /\ jcp.nthr_g \in 1..shape.ngroups /\ jcp.nthr_oc_b \in 1..shape.nb_oc
          /\ jcp.nthr_ic_b \in 1..shape.nb_ic
        BY JcpNumbers
    <1>3. shape.ngroups \in Nat \ {0} /\ shape.nb_oc \in Nat \ {0} /\ shape.nb_ic \in Nat \ {0}
        BY ShapeNumbers
    <1>4. LET r == g_range(t)
          IN  /\ r[1] \in Nat /\ r[2] \in Nat /\ r[1] < r[2] /\ r[2] <= shape.ngroups
              /\ In(r) = Piece(shape.ngroups, jcp.nthr_g, ithr_g(t))
              /\ In(r) \subseteq 0..(shape.ngroups - 1)
        BY <1>1, <1>2, <1>3, RangeFacts DEF g_range
    <1>5. LET r == oc_b_range(t)
          IN  /\ r[1] \in Nat /\ r[2] \in Nat /\ r[1] < r[2] /\ r[2] <= shape.nb_oc
              /\ In(r) = Piece(shape.nb_oc, jcp.nthr_oc_b, ithr_oc_b(t))
              /\ In(r) \subseteq 0..(shape.nb_oc - 1)
        BY <1>1, <1>2, <1>3, RangeFacts DEF oc_b_range
    <1>6. LET r == ic_b_range(t)
          IN  /\ r[1] \in Nat /\ r[2] \in Nat /\ r[1] < r[2] /\ r[2] <= shape.nb_ic
              /\ In(r) = Piece(shape.nb_ic, jcp.nthr_ic_b, ithr_ic_b(t))
              /\ In(r) \subseteq 0..(shape.nb_ic - 1)
        BY <1>1, <1>2, <1>3, RangeFacts DEF ic_b_range
    <1>7. Area(t) \subseteq Elements
        BY <1>4, <1>5, <1>6 DEF Area, Elements
    <1> QED
        BY <1>4, <1>5, <1>6, <1>7

\* Areas that meet are those of threads with the same blocks.
LEMMA AreasAreDisjoint ==
    ASSUME JcpInv, NEW t \in Tids, NEW u \in Tids
    PROVE  /\ \A x : x \in In(g_range(t)) /\ x \in In(g_range(u)) => ithr_g(t) = ithr_g(u)
           /\ \A x : x \in In(oc_b_range(t)) /\ x \in In(oc_b_range(u))
                         => ithr_oc_b(t) = ithr_oc_b(u)
           /\ \A x : x \in In(ic_b_range(t)) /\ x \in In(ic_b_range(u))
                         => ithr_ic_b(t) = ithr_ic_b(u)
           /\ \A e : e \in Area(t) /\ e \in Area(u) =>
                  /\ ithr_g(t) = ithr_g(u) /\ ithr_oc_b(t) = ithr_oc_b(u)
                  /\ ithr_ic_b(t) = ithr_ic_b(u)
    <1>1. \A w \in Tids :
              /\ ithr_g(w) \in 0..(jcp.nthr_g - 1) /\ ithr_oc_b(w) \in 0..(jcp.nthr_oc_b - 1)
              /\ ithr_ic_b(w) \in 0..(jcp.nthr_ic_b - 1)
              /\ In(g_range(w)) = Piece(shape.ngroups, jcp.nthr_g, ithr_g(w))
              /\ In(oc_b_range(w)) = Piece(shape.nb_oc, jcp.nthr_oc_b, ithr_oc_b(w))
              /\ In(ic_b_range(w)) = Piece(shape.nb_ic, jcp.nthr_ic_b, ithr_ic_b(w))
        BY PlaceOfAThread, BlocksOfAThread
    <1>2. /\ shape.ngroups \in Nat /\ shape.nb_oc \in Nat /\ shape.nb_ic \in Nat
          /\ jcp.nthr_g \in Nat \ {0} /\ jcp.nthr_oc_b \in Nat \ {0} /\ jcp.nthr_ic_b \in Nat \ {0}
        BY ShapeNumbers, JcpIsPositive
    <1>3. \A x : x \in In(g_range(t)) /\ x \in In(g_range(u)) => ithr_g(t) = ithr_g(u)
        BY <1>1, <1>2, PiecesAreDisjoint
    <1>4. \A x : x \in In(oc_b_range(t)) /\ x \in In(oc_b_range(u))
                     => ithr_oc_b(t) = ithr_oc_b(u)
        BY <1>1, <1>2, PiecesAreDisjoint
    <1>5. \A x : x \in In(ic_b_range(t)) /\ x \in In(ic_b_range(u))
                     => ithr_ic_b(t) = ithr_ic_b(u)
        BY <1>1, <1>2, PiecesAreDisjoint
    <1>6. \A e, w : e \in Area(w) =>
              e[1] \in In(g_range(w)) /\ e[2] \in In(oc_b_range(w)) /\ e[3] \in In(ic_b_range(w))
        BY DEF Area
    <1> QED
        BY <1>3, <1>4, <1>5, <1>6

\* Every element is in the area of some thread for the images of m.
LEMMA AreasCover ==
    ASSUME JcpInv, NEW e \in Elements, NEW m \in 0..(jcp.nthr_mb - 1)
    PROVE  \E t \in Tids : ithr_mb(t) = m /\ e \in Area(t)
    <1>1. /\ shape.ngroups \in Nat /\ shape.nb_oc \in Nat /\ shape.nb_ic \in Nat
          /\ jcp.nthr_g \in Nat \ {0} /\ jcp.nthr_oc_b \in Nat \ {0} /\ jcp.nthr_ic_b \in Nat \ {0}
        BY ShapeNumbers, JcpIsPositive
    <1>2. /\ e = <<e[1], e[2], e[3]>> /\ e[1] \in 0..(shape.ngroups - 1)
          /\ e[2] \in 0..(shape.nb_oc - 1) /\ e[3] \in 0..(shape.nb_ic - 1)
        BY DEF Elements
    <1>3. PICK g \in 0..(jcp.nthr_g - 1) : e[1] \in Piece(shape.ngroups, jcp.nthr_g, g)
        BY <1>1, <1>2, EveryItemHasAThread
    <1>4. PICK o \in 0..(jcp.nthr_oc_b - 1) : e[2] \in Piece(shape.nb_oc, jcp.nthr_oc_b, o)
        BY <1>1, <1>2, EveryItemHasAThread
    <1>5. PICK i \in 0..(jcp.nthr_ic_b - 1) : e[3] \in Piece(shape.nb_ic, jcp.nthr_ic_b, i)
        BY <1>1, <1>2, EveryItemHasAThread
    <1> DEFINE t == ThreadAt(m, g, o, i)
    <1>6. t \in Tids /\ ithr_mb(t) = m /\ ithr_g(t) = g /\ ithr_oc_b(t) = o /\ ithr_ic_b(t) = i
        BY ThreadOfAPlace
    <1> HIDE DEF t
    <1>7. e \in Area(t)
        BY <1>2, <1>3, <1>4, <1>5, <1>6, BlocksOfAThread DEF Area
    <1> QED
        BY <1>6, <1>7

-----------------------------------------------------------------------------
(* Images and terms *)

\* The places of the images that the threads at m have.
Images(m) ==
    IF shape.transpose_src /\ jcp.nthr_mb < shape.mb \div 2
    THEN LET r == Range211(shape.mb, jcp.nthr_mb, m)
         IN  <<r[1] * shape.sp_nb, r[2] * shape.sp_nb>>
    ELSE Range211(shape.mb * shape.sp_nb, jcp.nthr_mb, m)

\* A thread has the images of its place in the team.
LEMMA ImagesOfAThread == \A t : mb_sp_b_range(t) = Images(ithr_mb(t))
    BY DEF mb_sp_b_range, Images

\* They are in order, and cover all.
LEMMA ImagesDivide ==
    ASSUME JcpInv, NEW m \in 0..(jcp.nthr_mb - 1)
    PROVE  /\ Images(m)[1] \in Nat /\ Images(m)[2] \in Nat
           /\ Images(m)[1] < Images(m)[2] /\ Images(m)[2] <= shape.mb * shape.sp_nb
           /\ \A k \in 0..(jcp.nthr_mb - 1) : m < k => Images(m)[2] <= Images(k)[1]
    <1> DEFINE M == jcp.nthr_mb
               S == shape.sp_nb
               B == shape.mb
    <1>1. /\ B \in Nat \ {0} /\ S \in Nat \ {0} /\ B * S \in Nat \ {0}
          /\ M \in 1..(B * S) /\ M \in Nat \ {0}
        BY ShapeNumbers, JcpNumbers, JcpIsPositive
    <1>2. CASE ~(shape.transpose_src /\ M < B \div 2)
        <2>1. \A k : Images(k) = Range211(B * S, M, k)
            BY <1>2 DEF Images
        <2> DEFINE W == B * S
        <2>2. W \in Nat \ {0} /\ M \in 1..W
            BY <1>1
        <2> HIDE DEF W, M
        <2>3. \A k \in 0..(M - 1) : LET r == Range211(W, M, k)
                                    IN  r[1] \in Nat /\ r[2] \in Nat /\ r[1] < r[2] /\ r[2] <= W
            BY <2>2, RangeFacts
        <2>4. \A k \in 0..(M - 1) : m < k => Range211(W, M, m)[2] <= Range211(W, M, k)[1]
            BY <1>1, <2>2, PiecesAreOrdered DEF Range211, M
        <2> QED
            BY <2>1, <2>3, <2>4 DEF W, M
    <1>3. CASE shape.transpose_src /\ M < B \div 2
        <2> DEFINE r(k) == Range211(B, M, k)
        <2>1. \A k : Images(k) = <<r(k)[1] * S, r(k)[2] * S>>
            BY <1>3 DEF Images
        <2>2. M \in 1..B
            BY <1>1, <1>3
        <2>3. \A k \in 0..(M - 1) : /\ r(k)[1] \in Nat /\ r(k)[2] \in Nat
                                    /\ r(k)[1] < r(k)[2] /\ r(k)[2] <= B
            BY <1>1, <2>2, RangeFacts
        <2>4. \A k \in 0..(M - 1) : m < k => r(m)[2] <= r(k)[1]
            BY <1>1, PiecesAreOrdered DEF Range211
        <2> DEFINE a == r(m)[1]
                   b == r(m)[2]
        <2>5. a \in Nat /\ b \in Nat /\ a < b /\ b <= B
            BY <2>3
        <2>6. Images(m) = <<a * S, b * S>>
            BY <2>1
        <2> HIDE DEF r, a, b, B, S, M
        <2>7. /\ a * S \in Nat /\ b * S \in Nat /\ a * S < b * S /\ b * S <= B * S
            <3>1. (a + 1) * S <= b * S /\ b * S <= B * S
                BY <1>1, <2>5, ProductMonotone
            <3>2. (a + 1) * S = a * S + S /\ a * S \in Nat /\ b * S \in Nat
                BY <1>1, <2>5
            <3> QED
                BY <1>1, <3>1, <3>2
        <2>8. ASSUME NEW k \in 0..(M - 1), m < k PROVE Images(m)[2] <= Images(k)[1]
            <3> DEFINE c == r(k)[1]
            <3>1. b <= c /\ c \in Nat
                BY <2>3, <2>4, <2>8 DEF b
            <3>2. Images(k)[1] = c * S
                BY <2>1
            <3> HIDE DEF c
            <3>3. b * S <= c * S
                BY <1>1, <2>5, <3>1, ProductMonotone
            <3> QED
                BY <2>6, <3>2, <3>3
        <2> QED
            BY <2>6, <2>7, <2>8 DEF B, S, M
    <1> QED
        BY <1>2, <1>3

\* Each step of each image has its threads.
LEMMA ImagesCover ==
    ASSUME JcpInv, NEW x \in 0..(shape.mb * shape.sp_nb - 1)
    PROVE  \E m \in 0..(jcp.nthr_mb - 1) : x \in In(Images(m))
    <1> DEFINE M == jcp.nthr_mb
               S == shape.sp_nb
               B == shape.mb
    <1>1. /\ B \in Nat \ {0} /\ S \in Nat \ {0} /\ B * S \in Nat \ {0}
          /\ M \in 1..(B * S) /\ M \in Nat \ {0}
        BY ShapeNumbers, JcpNumbers, JcpIsPositive
    <1>2. CASE ~(shape.transpose_src /\ M < B \div 2)
        <2>1. \A k : Images(k) = Range211(B * S, M, k)
            BY <1>2 DEF Images
        <2>2. PICK m \in 0..(M - 1) : x \in Piece(B * S, M, m)
            BY <1>1, EveryItemHasAThread
        <2>3. In(Range211(B * S, M, m)) = Piece(B * S, M, m)
            BY <1>1, RangeFacts
        <2> QED
            BY <2>1, <2>2, <2>3
    <1>3. CASE shape.transpose_src /\ M < B \div 2
        <2>1. \A k : Images(k) = <<Range211(B, M, k)[1] * S, Range211(B, M, k)[2] * S>>
            BY <1>3 DEF Images
        <2>2. M \in 1..B
            BY <1>1, <1>3
        <2> DEFINE q == x \div S
        <2>3. q \in 0..(B - 1) /\ x % S \in 0..(S - 1) /\ x = q * S + (x % S)
            BY <1>1, PairsOfANumber
        <2> HIDE DEF q
        <2>4. PICK m \in 0..(M - 1) : q \in Piece(B, M, m)
            BY <1>1, <2>3, EveryItemHasAThread
        <2> DEFINE a == Range211(B, M, m)[1]
                   b == Range211(B, M, m)[2]
        <2>5. q \in In(Range211(B, M, m)) /\ a \in Nat /\ b \in Nat
            BY <1>1, <2>2, <2>4, RangeFacts
        <2>6. Images(m) = <<a * S, b * S>> /\ q \in a..(b - 1)
            BY <2>1, <2>5 DEF In
        <2> HIDE DEF a, b, B, S, M
        <2>7. a * S <= q * S /\ (q + 1) * S <= b * S
            BY <1>1, <2>5, <2>6, ProductMonotone
        <2>8. (q + 1) * S = q * S + S /\ a * S \in Nat /\ b * S \in Nat /\ q * S \in Nat
            BY <1>1, <2>5, <2>6
        <2>9. x \in (a * S)..(b * S - 1)
            BY <1>1, <2>3, <2>7, <2>8
        <2> QED
            BY <2>6, <2>9 DEF In, M
    <1> QED
        BY <1>2, <1>3

\* Threads that divide no images have all of them.
LEMMA ImagesOfOne ==
    ASSUME JcpInv, jcp.nthr_mb = 1
    PROVE  Images(0) = <<0, shape.mb * shape.sp_nb>>
    <1> DEFINE W == shape.mb * shape.sp_nb
    <1>1. W \in Nat \ {0}
        BY ShapeNumbers
    <1>2. /\ Images(0)[1] \in Nat /\ Images(0)[2] \in Nat /\ Images(0)[2] <= W
        BY ImagesDivide
    <1>3. 0 \in In(Images(0)) /\ W - 1 \in In(Images(0))
        <2>1. 0 \in 0..(W - 1) /\ W - 1 \in 0..(W - 1)
            BY <1>1
        <2>2. \A x \in 0..(W - 1) : x \in In(Images(0))
            BY ImagesCover
        <2> QED
            BY <2>1, <2>2
    <1> HIDE DEF W
    <1>4. Images(0)[1] = 0 /\ Images(0)[2] = W
        BY <1>1, <1>2, <1>3 DEF In
    <1>5. Images(0) = <<Images(0)[1], Images(0)[2]>>
        BY DEF Images, Range211
    <1> QED
        BY <1>4, <1>5 DEF W

\* A term says which place it is of.
LEMMA TermsAreDistinct ==
    ASSUME JcpInv, NEW x \in Nat, NEW y \in Nat,
           <<x \div shape.sp_nb, x % shape.sp_nb>> = <<y \div shape.sp_nb, y % shape.sp_nb>>
    PROVE  x = y
    <1> DEFINE S == shape.sp_nb
    <1>1. S \in Nat \ {0}
        BY ShapeNumbers
    <1>2. x = S * (x \div S) + (x % S) /\ y = S * (y \div S) + (y % S)
        BY <1>1, DivisionFacts
    <1>3. x \div S = y \div S /\ x % S = y % S
        OBVIOUS
    <1> QED
        BY <1>2, <1>3

\* The terms of two consecutive runs of places are those of the whole, each once.
LEMMA TermsAdd ==
    ASSUME JcpInv, NEW a \in Nat, NEW b \in Nat, NEW c \in Nat, a <= b, b <= c
    PROVE  /\ TermsOf(a, b) \cap TermsOf(b, c) = {}
           /\ TermsOf(a, b) \cup TermsOf(b, c) = TermsOf(a, c)
    <1>1. TermsOf(a, b) \cap TermsOf(b, c) = {}
        <2> SUFFICES ASSUME NEW x \in a..(b - 1), NEW y \in b..(c - 1),
                            <<x \div shape.sp_nb, x % shape.sp_nb>>
                                = <<y \div shape.sp_nb, y % shape.sp_nb>>
                     PROVE  FALSE
            BY DEF TermsOf
        <2>1. x \in Nat /\ y \in Nat /\ x < y
            OBVIOUS
        <2> QED
            BY <2>1, TermsAreDistinct
    <1>2. a..(c - 1) = (a..(b - 1)) \cup (b..(c - 1))
        OBVIOUS
    <1>3. TermsOf(a, b) \cup TermsOf(b, c) = TermsOf(a, c)
        BY <1>2, Zenon DEF TermsOf
    <1> QED
        BY <1>1, <1>3

\* The terms of all places are those of all steps of all images.
LEMMA AllTermsAreAll ==
    ASSUME JcpInv
    PROVE  AllTerms = (0..(shape.mb - 1)) \X (0..(shape.sp_nb - 1))
    <1> DEFINE S == shape.sp_nb
               B == shape.mb
    <1>1. S \in Nat \ {0} /\ B \in Nat \ {0} /\ B * S \in Nat
        BY ShapeNumbers
    <1>2. AllTerms = {<<x \div S, x % S>> : x \in 0..(B * S - 1)}
        BY DEF AllTerms, TermsOf
    <1> HIDE DEF S, B
    <1>3. \A x \in 0..(B * S - 1) : <<x \div S, x % S>> \in (0..(B - 1)) \X (0..(S - 1))
        BY <1>1, PairsOfANumber
    <1>4. ASSUME NEW q \in 0..(B - 1), NEW r \in 0..(S - 1)
          PROVE  \E x \in 0..(B * S - 1) : <<q, r>> = <<x \div S, x % S>>
        <2> DEFINE x == q * S + r
        <2>1. x \in 0..(B * S - 1) /\ x \div S = q /\ x % S = r
            BY <1>1, NumberOfAPair
        <2> HIDE DEF x
        <2> QED
            BY <2>1
    <1>5. AllTerms = (0..(B - 1)) \X (0..(S - 1))
        BY <1>2, <1>3, <1>4
    <1> QED
        BY <1>5 DEF B, S

-----------------------------------------------------------------------------
(* The steps of a thread in its loops *)

\* A step is not empty and goes no further than what remains.
LEMMA StepIsBounded ==
    ASSUME NEW default \in Nat \ {0}, NEW tail \in Nat, default <= tail, NEW remaining \in Nat \ {0}
    PROVE  step(default, remaining, tail) \in 1..remaining
    BY DEF step

\* A thread in the region is in its ranges.
LEMMA PlaceNumbers ==
    ASSUME ControlInv, NEW t \in Tids, thr[t].pc # "out"
    PROVE  /\ thr[t] \in Places
           /\ First(t) \in Nat /\ Last(t) \in Nat /\ First(t) < Last(t)
           /\ Last(t) <= shape.mb * shape.sp_nb
           /\ thr[t].mb_sp_b \in First(t)..Last(t)
           /\ thr[t].g \in In(g_range(t)) /\ thr[t].ic_b \in In(ic_b_range(t))
           /\ More(t) <=> thr[t].mb_sp_b < Last(t)
           /\ ~More(t) => thr[t].g = g_range(t)[1] /\ thr[t].ic_b = ic_b_range(t)[1]
    <1>1. JcpInv /\ TypeInv /\ PlaceInv
        BY DEF ControlInv
    <1>2. ithr_mb(t) \in 0..(jcp.nthr_mb - 1)
        BY <1>1, PlaceOfAThread
    <1>3. /\ First(t) \in Nat /\ Last(t) \in Nat /\ First(t) < Last(t)
          /\ Last(t) <= shape.mb * shape.sp_nb
        BY <1>1, <1>2, ImagesDivide, ImagesOfAThread DEF First, Last
    <1>4. More(t) <=> thr[t].mb_sp_b < Last(t)
        BY DEF More, Last
    <1>5. thr[t] \in Places /\ PlaceIsRight(t, thr[t])
        BY <1>1 DEF TypeInv, PlaceInv
    <1>6. thr[t].mb_sp_b \in First(t)..Last(t)
        BY <1>5 DEF PlaceIsRight
    <1> QED
        BY <1>3, <1>4, <1>5, <1>6 DEF PlaceIsRight

\* A step stays in its image and its ranges, and multiplies consecutive places.
LEMMA StepNumbers ==
    ASSUME ControlInv, NEW t \in Tids, thr[t].pc # "out", More(t)
    PROVE  /\ img(t) = thr[t].mb_sp_b \div shape.sp_nb /\ sp_b(t) = thr[t].mb_sp_b % shape.sp_nb
           /\ img(t) \in 0..(shape.mb - 1) /\ sp_b(t) \in 0..(shape.sp_nb - 1)
           /\ sp_b_step(t) \in 1..(shape.sp_nb - sp_b(t))
           /\ thr[t].mb_sp_b + sp_b_step(t) <= Last(t)
           /\ bcast_step(t) \in 1..(ic_b_range(t)[2] - thr[t].ic_b)
           /\ StepSp(t) \subseteq 0..(shape.sp_nb - 1)
           /\ {<<img(t), sp>> : sp \in StepSp(t)}
                  = TermsOf(thr[t].mb_sp_b, thr[t].mb_sp_b + sp_b_step(t))
    <1> DEFINE x == thr[t].mb_sp_b
               S == shape.sp_nb
               B == shape.mb
    <1>1. /\ S \in Nat \ {0} /\ B \in Nat \ {0}
          /\ shape.nb_reduce_blocking \in Nat \ {0} /\ shape.nb_reduce_blocking_max \in Nat
          /\ shape.nb_bcast_blocking \in Nat \ {0} /\ shape.nb_bcast_blocking_max \in Nat
          /\ shape.nb_reduce_blocking <= shape.nb_reduce_blocking_max
          /\ shape.nb_bcast_blocking <= shape.nb_bcast_blocking_max
        BY ShapeNumbers DEF ControlInv
    <1>2. /\ x \in Nat /\ x < Last(t) /\ Last(t) \in Nat /\ Last(t) <= B * S
          /\ thr[t].ic_b \in In(ic_b_range(t))
        BY PlaceNumbers
    <1>3. x \in 0..(B * S - 1)
        BY <1>1, <1>2
    <1>4. img(t) = (x \div S) % B /\ sp_b(t) = x % S
        BY DEF img, sp_b, img_sp, nd_iterator_init
    <1>5. ic_b_range(t)[1] \in Nat /\ ic_b_range(t)[2] \in Nat
        BY BlocksOfAThread DEF ControlInv
    <1>6. bcast_step(t) \in 1..(ic_b_range(t)[2] - thr[t].ic_b)
        <2>1. ic_b_range(t)[2] - thr[t].ic_b \in Nat \ {0}
            BY <1>2, <1>5 DEF In
        <2> QED
            BY <1>1, <2>1, StepIsBounded DEF bcast_step
    <1>7. sp_b_step(t) = step(shape.nb_reduce_blocking, Least(S - sp_b(t), Last(t) - x),
                              shape.nb_reduce_blocking_max)
        BY DEF sp_b_step, Last
    <1>8. StepSp(t) = sp_b(t)..(sp_b(t) + sp_b_step(t) - 1)
        BY DEF StepSp
    <1> DEFINE q == x \div S
               r == x % S
               n == sp_b_step(t)
    <1> HIDE DEF S, B, x
    <1>10. q \in 0..(B - 1) /\ r \in 0..(S - 1) /\ x = q * S + r
        BY <1>1, <1>3, PairsOfANumber
    <1> HIDE DEF q, r
    <1>11. q % B = q
        <2>1. q \in Nat /\ q = B * 0 + q
            BY <1>1, <1>10
        <2>2. B \in Nat \ {0} /\ 0 \in Nat /\ q \in 0..(B - 1)
            BY <1>1, <1>10
        <2> QED
            BY <2>1, <2>2, DivisionIsUnique
    <1>12. img(t) = q /\ sp_b(t) = r
        BY <1>4, <1>11 DEF q, r
    <1>13. Least(S - r, Last(t) - x) \in Nat \ {0}
        BY <1>1, <1>2, <1>10 DEF Least
    <1>14. n \in 1..Least(S - r, Last(t) - x)
        BY <1>1, <1>7, <1>12, <1>13, StepIsBounded
    <1> HIDE DEF n
    <1>15. n \in 1..(S - r) /\ x + n <= Last(t)
        BY <1>1, <1>2, <1>10, <1>13, <1>14 DEF Least
    <1>16. \A d \in 0..(n - 1) : (x + d) \div S = q /\ (x + d) % S = r + d
        <2> TAKE d \in 0..(n - 1)
        <2>1. q \in Nat /\ r + d \in 0..(S - 1)
            BY <1>1, <1>10, <1>15
        <2>2. x + d = S * q + (r + d) /\ x + d \in Nat
            BY <1>1, <1>2, <1>10, <2>1
        <2> QED
            BY <1>1, <2>1, <2>2, DivisionIsUnique
    <1>17. {<<q, sp>> : sp \in r..(r + n - 1)} = {<<y \div S, y % S>> : y \in x..((x + n) - 1)}
        <2>1. ASSUME NEW sp \in r..(r + n - 1)
              PROVE  \E y \in x..((x + n) - 1) : <<q, sp>> = <<y \div S, y % S>>
            <3>1. sp - r \in 0..(n - 1) /\ r + (sp - r) = sp /\ x + (sp - r) \in x..((x + n) - 1)
                BY <1>2, <1>10, <1>15
            <3> QED
                BY <1>16, <3>1
        <2>2. ASSUME NEW y \in x..((x + n) - 1)
              PROVE  \E sp \in r..(r + n - 1) : <<q, sp>> = <<y \div S, y % S>>
            <3>1. y - x \in 0..(n - 1) /\ x + (y - x) = y /\ r + (y - x) \in r..(r + n - 1)
                BY <1>2, <1>10, <1>15
            <3> QED
                BY <1>16, <3>1
        <2> QED
            BY <2>1, <2>2
    <1>18. r..(r + n - 1) \subseteq 0..(S - 1)
        BY <1>1, <1>10, <1>15
    <1>19. {<<img(t), sp>> : sp \in StepSp(t)} = TermsOf(x, x + n)
        <2>1. StepSp(t) = r..(r + n - 1)
            BY <1>8, <1>12 DEF n
        <2>2. {<<img(t), sp>> : sp \in StepSp(t)} = {<<q, sp>> : sp \in r..(r + n - 1)}
            BY <1>12, <2>1, Zenon
        <2>3. TermsOf(x, x + n) = {<<y \div S, y % S>> : y \in x..((x + n) - 1)}
            BY Zenon DEF TermsOf, S
        <2> QED
            BY <1>17, <2>2, <2>3, Zenon
    <1>20. /\ img(t) = x \div S /\ sp_b(t) = x % S
           /\ img(t) \in 0..(B - 1) /\ sp_b(t) \in 0..(S - 1)
        <2>1. q \in 0..(B - 1) /\ r \in 0..(S - 1)
            BY <1>10
        <2> QED
            BY <1>12, <2>1 DEF q, r
    <1>21. n \in 1..(S - sp_b(t)) /\ StepSp(t) \subseteq 0..(S - 1)
        BY <1>8, <1>12, <1>15, <1>18 DEF n
    <1> QED
        BY <1>6, <1>15, <1>19, <1>20, <1>21 DEF n, S, B, x

\* The next place: one more input block, the next group, or the next places.
LEMMA NextNumbers ==
    ASSUME ControlInv, NEW t \in Tids, thr[t].pc # "out", More(t)
    PROVE  LET q == NextStep(t)
               r == thr[t]
           IN  /\ q \in Places /\ q.pc = r.pc
               /\ q.mb_sp_b \in First(t)..Last(t)
               /\ q.g \in In(g_range(t)) /\ q.ic_b \in In(ic_b_range(t))
               /\ q.mb_sp_b = Last(t) => q.g = g_range(t)[1] /\ q.ic_b = ic_b_range(t)[1]
               /\ \/ /\ q.mb_sp_b = r.mb_sp_b /\ q.g = r.g /\ q.ic_b = r.ic_b + bcast_step(t)
                     /\ r.ic_b + bcast_step(t) < ic_b_range(t)[2]
                  \/ /\ q.mb_sp_b = r.mb_sp_b /\ q.g = r.g + 1 /\ q.ic_b = ic_b_range(t)[1]
                     /\ r.ic_b + bcast_step(t) = ic_b_range(t)[2] /\ r.g + 1 < g_range(t)[2]
                  \/ /\ q.mb_sp_b = r.mb_sp_b + sp_b_step(t)
                     /\ q.g = g_range(t)[1] /\ q.ic_b = ic_b_range(t)[1]
                     /\ r.ic_b + bcast_step(t) = ic_b_range(t)[2] /\ r.g + 1 = g_range(t)[2]
    <1> DEFINE q == NextStep(t)
               r == thr[t]
               n == sp_b_step(t)
               b == bcast_step(t)
               i0 == ic_b_range(t)[1]
               i1 == ic_b_range(t)[2]
               g0 == g_range(t)[1]
               g1 == g_range(t)[2]
    <1>1. /\ r \in Places
          /\ r.mb_sp_b \in First(t)..Last(t) /\ First(t) \in Nat /\ Last(t) \in Nat
          /\ r.mb_sp_b < Last(t) /\ r.g \in In(g_range(t)) /\ r.ic_b \in In(ic_b_range(t))
        BY PlaceNumbers
    <1>2. /\ i0 \in Nat /\ i1 \in Nat /\ i0 < i1 /\ g0 \in Nat /\ g1 \in Nat /\ g0 < g1
        BY BlocksOfAThread DEF ControlInv
    <1>3. b \in 1..(i1 - r.ic_b) /\ r.mb_sp_b + n <= Last(t) /\ n \in Nat \ {0}
        <2>1. /\ b \in 1..(i1 - r.ic_b) /\ r.mb_sp_b + n <= Last(t)
              /\ n \in 1..(shape.sp_nb - sp_b(t)) /\ sp_b(t) \in 0..(shape.sp_nb - 1)
            BY StepNumbers
        <2>2. shape.sp_nb \in Nat
            BY ShapeNumbers DEF ControlInv
        <2> HIDE DEF n, b
        <2> QED
            BY <2>1, <2>2
    <1>4. In(g_range(t)) = g0..(g1 - 1) /\ In(ic_b_range(t)) = i0..(i1 - 1)
        BY DEF In
    <1>5. q = CASE r.ic_b + b < i1 -> [r EXCEPT !.ic_b = r.ic_b + b]
                [] ~(r.ic_b + b < i1) /\ ~(r.g + 1 = g1)
                     -> [r EXCEPT !.ic_b = i0, !.g = r.g + 1]
                [] OTHER -> [r EXCEPT !.ic_b = i0, !.g = g0, !.mb_sp_b = r.mb_sp_b + n]
        BY <1>1 DEF NextStep, Places
    <1> DEFINE R == [pc : Pcs, mb_sp_b : Nat, g : Nat, ic_b : Nat]
    <1> HIDE DEF q, r, n, b, i0, i1, g0, g1
    <1>9. /\ r \in R /\ r.mb_sp_b \in Nat /\ r.g \in Nat /\ r.ic_b \in Nat
          /\ r.mb_sp_b + n \in Nat /\ r.g + 1 \in Nat /\ r.ic_b + b \in Nat
        BY <1>1, <1>2, <1>3 DEF Places
    <1>10. r.ic_b + b <= i1 /\ r.g + 1 <= g1
        <2>1. r.g \in g0..(g1 - 1)
            BY <1>1, <1>4
        <2>2. r.g + 1 <= g1
            BY <2>1, <1>2
        <2>3. r.ic_b + b <= i1
            BY <1>2, <1>3, <1>9
        <2> QED
            BY <2>2, <2>3
    <1>11. /\ g0 \in In(g_range(t)) /\ i0 \in In(ic_b_range(t))
           /\ r.g + 1 < g1 => r.g + 1 \in In(g_range(t))
        BY <1>1, <1>2, <1>4, <1>9
    <1>6. CASE r.ic_b + b < i1
        <2>1. q = [r EXCEPT !.ic_b = r.ic_b + b]
            BY <1>5, <1>6
        <2>2. /\ q.pc = r.pc /\ q.mb_sp_b = r.mb_sp_b /\ q.g = r.g /\ q.ic_b = r.ic_b + b
              /\ q \in R
            BY <1>9, <2>1
        <2>3. q.ic_b \in In(ic_b_range(t)) /\ q.mb_sp_b # Last(t)
            <3>1. q.mb_sp_b # Last(t)
                BY <1>1, <1>9, <2>2
            <3>2. r.ic_b \in i0..(i1 - 1) /\ b \in Nat
                BY <1>1, <1>2, <1>3, <1>4
            <3>3. r.ic_b + b \in i0..(i1 - 1)
                BY <1>2, <1>6, <1>9, <3>2
            <3> QED
                BY <1>4, <2>2, <3>1, <3>3
        <2> QED
            BY <1>1, <1>6, <2>2, <2>3 DEF q, r, n, b, i0, i1, g0, g1, Places
    <1>7. CASE ~(r.ic_b + b < i1) /\ ~(r.g + 1 = g1)
        <2>1. q = [r EXCEPT !.ic_b = i0, !.g = r.g + 1]
            BY <1>5, <1>7
        <2>2. /\ q.pc = r.pc /\ q.mb_sp_b = r.mb_sp_b /\ q.g = r.g + 1 /\ q.ic_b = i0
              /\ q \in R
            BY <1>2, <1>9, <2>1
        <2>3. /\ r.ic_b + b = i1 /\ r.g + 1 < g1 /\ q.mb_sp_b # Last(t)
              /\ q.g \in In(g_range(t)) /\ q.ic_b \in In(ic_b_range(t))
            BY <1>1, <1>2, <1>7, <1>9, <1>10, <1>11, <2>2
        <2> QED
            BY <1>1, <2>2, <2>3 DEF q, r, n, b, i0, i1, g0, g1, Places
    <1>8. CASE ~(r.ic_b + b < i1) /\ r.g + 1 = g1
        <2>1. q = [r EXCEPT !.ic_b = i0, !.g = g0, !.mb_sp_b = r.mb_sp_b + n]
            BY <1>5, <1>8
        <2>2. /\ q.pc = r.pc /\ q.mb_sp_b = r.mb_sp_b + n /\ q.g = g0 /\ q.ic_b = i0
              /\ q \in R
            BY <1>2, <1>9, <2>1
        <2>3. /\ r.ic_b + b = i1 /\ q.mb_sp_b \in First(t)..Last(t)
              /\ q.g \in In(g_range(t)) /\ q.ic_b \in In(ic_b_range(t))
            <3>1. r.ic_b + b = i1
                BY <1>2, <1>8, <1>9, <1>10
            <3>2. r.mb_sp_b + n \in First(t)..Last(t)
                BY <1>1, <1>3, <1>9
            <3> QED
                BY <1>11, <2>2, <3>1, <3>2
        <2> QED
            BY <1>8, <2>2, <2>3 DEF q, r, n, b, i0, i1, g0, g1, Places
    <1> QED
        BY <1>6, <1>7, <1>8

\* The same without the record.
NextPlaceForm(t) ==
    IF thr[t].ic_b + bcast_step(t) < ic_b_range(t)[2]
    THEN <<thr[t].mb_sp_b, thr[t].g, thr[t].ic_b + bcast_step(t)>>
    ELSE IF thr[t].g + 1 = g_range(t)[2]
    THEN <<thr[t].mb_sp_b + sp_b_step(t), g_range(t)[1], ic_b_range(t)[1]>>
    ELSE <<thr[t].mb_sp_b, thr[t].g + 1, ic_b_range(t)[1]>>

\* That is where NextStep leads.
LEMMA NextPlaceIs == \A t : thr[t] \in Places => NextPlace(t) = NextPlaceForm(t)
    <1> SUFFICES ASSUME NEW t, thr[t] \in Places PROVE NextPlace(t) = NextPlaceForm(t)
        OBVIOUS
    <1> DEFINE r == thr[t]
               n == sp_b_step(t)
               b == bcast_step(t)
               i0 == ic_b_range(t)[1]
               i1 == ic_b_range(t)[2]
               g0 == g_range(t)[1]
               g1 == g_range(t)[2]
               q == NextStep(t)
    <1>1. r \in [pc : Pcs, mb_sp_b : Nat, g : Nat, ic_b : Nat]
        BY DEF Places
    <1>2. q = CASE r.ic_b + b < i1 -> [r EXCEPT !.ic_b = r.ic_b + b]
                [] ~(r.ic_b + b < i1) /\ ~(r.g + 1 = g1)
                     -> [r EXCEPT !.ic_b = i0, !.g = r.g + 1]
                [] OTHER -> [r EXCEPT !.ic_b = i0, !.g = g0, !.mb_sp_b = r.mb_sp_b + n]
        BY <1>1 DEF NextStep
    <1>3. NextPlace(t) = <<q.mb_sp_b, q.g, q.ic_b>>
        BY DEF NextPlace, PlaceOf
    <1> HIDE DEF q, r, n, b, i0, i1, g0, g1
    <1>4. CASE r.ic_b + b < i1
        <2>1. q.mb_sp_b = r.mb_sp_b /\ q.g = r.g /\ q.ic_b = r.ic_b + b
            BY <1>1, <1>2, <1>4
        <2> QED
            BY <1>3, <1>4, <2>1 DEF NextPlaceForm, r, n, b, i0, i1, g0, g1
    <1>5. CASE ~(r.ic_b + b < i1) /\ ~(r.g + 1 = g1)
        <2>1. q.mb_sp_b = r.mb_sp_b /\ q.g = r.g + 1 /\ q.ic_b = i0
            BY <1>1, <1>2, <1>5
        <2> QED
            BY <1>3, <1>5, <2>1 DEF NextPlaceForm, r, n, b, i0, i1, g0, g1
    <1>6. CASE ~(r.ic_b + b < i1) /\ r.g + 1 = g1
        <2>1. q.mb_sp_b = r.mb_sp_b + n /\ q.g = g0 /\ q.ic_b = i0
            BY <1>1, <1>2, <1>6
        <2> QED
            BY <1>3, <1>6, <2>1 DEF NextPlaceForm, r, n, b, i0, i1, g0, g1
    <1> QED
        BY <1>4, <1>5, <1>6

\* Mates have the same ranges but for the output blocks, and the same step in
\* the same place.
LEMMA MatesHaveTheSameRanges ==
    ASSUME JcpInv, NEW t \in Tids, NEW u \in Tids, Mates(t, u)
    PROVE  /\ mb_sp_b_range(t) = mb_sp_b_range(u) /\ First(t) = First(u) /\ Last(t) = Last(u)
           /\ g_range(t) = g_range(u) /\ ic_b_range(t) = ic_b_range(u)
           /\ ithr_mb(t) = ithr_mb(u)
    <1>1. ithr_mb(t) = ithr_mb(u) /\ ithr_g(t) = ithr_g(u) /\ ithr_ic_b(t) = ithr_ic_b(u)
        BY MatesAgree
    <1> QED
        BY <1>1 DEF mb_sp_b_range, g_range, ic_b_range, First, Last

\* Mates in one place make the same step.
LEMMA SamePlaceSameStep ==
    ASSUME ControlInv, NEW t \in Tids, NEW u \in Tids, Mates(t, u), Place(t) = Place(u),
           thr[t].pc # "out", thr[u].pc # "out"
    PROVE  /\ img(t) = img(u) /\ sp_b(t) = sp_b(u) /\ sp_b_step(t) = sp_b_step(u)
           /\ bcast_step(t) = bcast_step(u) /\ StepSp(t) = StepSp(u)
           /\ More(t) <=> More(u)
           /\ \A k, sp : TrPlace(t, k, sp) = TrPlace(u, k, sp)
           /\ NextPlace(t) = NextPlace(u)
           /\ thr[t].mb_sp_b = thr[u].mb_sp_b /\ thr[t].g = thr[u].g /\ thr[t].ic_b = thr[u].ic_b
    <1>1. thr[t].mb_sp_b = thr[u].mb_sp_b /\ thr[t].g = thr[u].g /\ thr[t].ic_b = thr[u].ic_b
        BY DEF Place, PlaceOf
    <1>2. /\ mb_sp_b_range(t) = mb_sp_b_range(u) /\ Last(t) = Last(u)
          /\ g_range(t) = g_range(u) /\ ic_b_range(t) = ic_b_range(u) /\ ithr_mb(t) = ithr_mb(u)
        BY MatesHaveTheSameRanges DEF ControlInv
    <1>3. img(t) = img(u) /\ sp_b(t) = sp_b(u)
        BY <1>1 DEF img, sp_b, img_sp
    <1>4. sp_b_step(t) = sp_b_step(u) /\ bcast_step(t) = bcast_step(u)
        BY <1>1, <1>2, <1>3 DEF sp_b_step, bcast_step
    <1>5. StepSp(t) = StepSp(u) /\ (More(t) <=> More(u))
          /\ \A k, sp : TrPlace(t, k, sp) = TrPlace(u, k, sp)
        BY <1>1, <1>2, <1>3, <1>4 DEF StepSp, More, TrPlace
    <1>6. NextPlace(t) = NextPlace(u)
        <2>1. thr[t] \in Places /\ thr[u] \in Places
            BY PlaceNumbers
        <2> QED
            BY <1>1, <1>2, <1>4, <2>1, NextPlaceIs DEF NextPlaceForm
    <1> QED
        BY <1>1, <1>3, <1>4, <1>5, <1>6

-----------------------------------------------------------------------------
(* What does not change. *)

\* What follows from the problem and the division stays with them.
LEMMA DivisionStays ==
    ASSUME UNCHANGED <<shape, jcp>>
    PROVE  /\ Tids' = Tids /\ Elements' = Elements /\ (JcpInv' <=> JcpInv) /\ (Shared' <=> Shared)
           /\ AllTerms' = AllTerms
           /\ \A a, b : TermsOf(a, b)' = TermsOf(a, b)
           /\ \A u, v : Mates(u, v)' <=> Mates(u, v)
           /\ \A u : /\ ithr_mb(u)' = ithr_mb(u) /\ ithr_oc_b(u)' = ithr_oc_b(u)
                     /\ mb_sp_b_range(u)' = mb_sp_b_range(u)
                     /\ g_range(u)' = g_range(u) /\ ic_b_range(u)' = ic_b_range(u)
                     /\ First(u)' = First(u) /\ Last(u)' = Last(u)
                     /\ Area(u)' = Area(u) /\ SumWrites(u)' = SumWrites(u)
    <1>1. Tids' = Tids /\ Elements' = Elements /\ (JcpInv' <=> JcpInv) /\ (Shared' <=> Shared)
        BY DEF Tids, nthr, Elements, JcpInv, Shared
    <1>2. AllTerms' = AllTerms /\ \A a, b : TermsOf(a, b)' = TermsOf(a, b)
        BY DEF AllTerms, TermsOf
    <1>3. \A u : /\ ithr_mb(u)' = ithr_mb(u) /\ ithr_oc_b(u)' = ithr_oc_b(u)
                 /\ ithr_g(u)' = ithr_g(u) /\ ithr_ic_b(u)' = ithr_ic_b(u)
        BY DEF ithr_mb, ithr_oc_b, ithr_g, ithr_ic_b
    <1>4. \A u, v : Mates(u, v)' <=> Mates(u, v)
        BY <1>3 DEF Mates, ithr_but_oc
    <1>5. \A u : /\ mb_sp_b_range(u)' = mb_sp_b_range(u)
                 /\ g_range(u)' = g_range(u) /\ ic_b_range(u)' = ic_b_range(u)
                 /\ oc_b_range(u)' = oc_b_range(u)
        BY <1>3 DEF mb_sp_b_range, g_range, ic_b_range, oc_b_range
    <1>6. \A u : First(u)' = First(u) /\ Last(u)' = Last(u) /\ Area(u)' = Area(u)
        BY <1>5 DEF First, Last, Area
    <1>7. \A u : MySum(u)' = MySum(u)
        BY <1>3, <1>5 DEF MySum
    <1>8. \A u : SumWrites(u)' = SumWrites(u)
        BY <1>5, <1>7 DEF SumWrites
    <1> QED
        BY <1>1, <1>2, <1>3, <1>4, <1>5, <1>6, <1>8

\* A thread that stays in its place stays in its step.
LEMMA StepStays ==
    ASSUME UNCHANGED <<shape, jcp>>, NEW u, thr'[u].mb_sp_b = thr[u].mb_sp_b,
           thr'[u].g = thr[u].g, thr'[u].ic_b = thr[u].ic_b
    PROVE  /\ Place(u)' = Place(u) /\ (More(u)' <=> More(u))
           /\ img(u)' = img(u) /\ sp_b(u)' = sp_b(u) /\ sp_b_step(u)' = sp_b_step(u)
           /\ bcast_step(u)' = bcast_step(u) /\ StepSp(u)' = StepSp(u)
           /\ \A k, sp : TrPlace(u, k, sp)' = TrPlace(u, k, sp)
           /\ \A e : Upto(u, e)' = Upto(u, e)
           /\ thr[u] \in Places /\ thr'[u] \in Places => NextPlace(u)' = NextPlace(u)
    <1>1. /\ mb_sp_b_range(u)' = mb_sp_b_range(u) /\ g_range(u)' = g_range(u)
          /\ ic_b_range(u)' = ic_b_range(u) /\ ithr_mb(u)' = ithr_mb(u)
        BY DivisionStays
    <1>2. img(u)' = img(u) /\ sp_b(u)' = sp_b(u) /\ Place(u)' = Place(u)
          /\ (More(u)' <=> More(u))
        BY <1>1 DEF img, sp_b, img_sp, Place, PlaceOf, More
    <1>3. sp_b_step(u)' = sp_b_step(u) /\ bcast_step(u)' = bcast_step(u)
        BY <1>1, <1>2 DEF sp_b_step, bcast_step
    <1>4. StepSp(u)' = StepSp(u) /\ (\A k, sp : TrPlace(u, k, sp)' = TrPlace(u, k, sp))
          /\ \A e : Upto(u, e)' = Upto(u, e)
        BY <1>1, <1>2, <1>3 DEF StepSp, TrPlace, Upto
    <1>5. ASSUME thr[u] \in Places, thr'[u] \in Places PROVE NextPlace(u)' = NextPlace(u)
        <2>1. (\A t : thr[t] \in Places => NextPlace(t) = NextPlaceForm(t))'
            BY NextPlaceIs, PTL
        <2>2. NextPlace(u)' = NextPlaceForm(u)'
            BY <1>5, <2>1 DEF Places, Pcs
        <2>3. NextPlaceForm(u)' = NextPlaceForm(u)
            BY <1>1, <1>3 DEF NextPlaceForm
        <2> QED
            BY <1>5, <2>2, <2>3, NextPlaceIs
    <1> QED
        BY <1>2, <1>3, <1>4, <1>5


-----------------------------------------------------------------------------
(* Before, at the start of, and after the region *)

\* Outside the region the invariant says only what the threads are.
LEMMA AllOutSuffices ==
    ASSUME JcpInv, TypeInv, AllOut
    PROVE  ConvInv
    <1>1. \A t \in Tids : thr[t].pc = "out"
        BY DEF AllOut, At
    <1>2. ControlInv
        BY <1>1 DEF ControlInv, RegionInv, PlaceInv, SumsInv
    <1>3. LockInv
        BY <1>1 DEF LockInv, ParityInv, BehindInv, StepInv
    <1>4. SourceInv
        BY <1>1 DEF SourceInv
    <1>5. WeightsInv
        BY <1>1 DEF WeightsInv
    <1> QED
        BY <1>2, <1>3, <1>4, <1>5 DEF ConvInv

\* Being outside the region is a place.
LEMMA OutIsAPlace == Out \in Places
    BY DEF Out, Places, Pcs

\* At the start of the region every thread is at the start of its ranges.
LEMMA ExecuteKeepsInv ==
    ASSUME ControlInv, Execute
    PROVE  ConvInv'
    <1>1. /\ Tids' = Tids /\ (JcpInv' <=> JcpInv) /\ (Shared' <=> Shared)
          /\ \A u, v : Mates(u, v)' <=> Mates(u, v)
          /\ \A u : /\ g_range(u)' = g_range(u) /\ ic_b_range(u)' = ic_b_range(u)
                    /\ First(u)' = First(u) /\ Last(u)' = Last(u) /\ Area(u)' = Area(u)
        BY DivisionStays DEF Execute
    <1>2. JcpInv
        BY DEF ControlInv
    <1>3. \A t \in Tids :
              /\ thr'[t] = [pc |-> "loop", mb_sp_b |-> First(t), g |-> g_range(t)[1],
                            ic_b |-> ic_b_range(t)[1]]
              /\ thr'[t].pc = "loop" /\ thr'[t].mb_sp_b = First(t)
              /\ thr'[t].g = g_range(t)[1] /\ thr'[t].ic_b = ic_b_range(t)[1]
        BY DEF Execute, First
    <1>4. \A t \in Tids : /\ First(t) \in Nat /\ Last(t) \in Nat /\ First(t) < Last(t)
                          /\ g_range(t)[1] \in Nat /\ ic_b_range(t)[1] \in Nat
                          /\ g_range(t)[1] \in In(g_range(t))
                          /\ ic_b_range(t)[1] \in In(ic_b_range(t))
        <2> TAKE t \in Tids
        <2>1. First(t) \in Nat /\ Last(t) \in Nat /\ First(t) < Last(t)
            BY <1>2, PlaceOfAThread, ImagesDivide, ImagesOfAThread DEF First, Last
        <2>2. \A r \in {g_range(t), ic_b_range(t)} : r[1] \in Nat /\ r[2] \in Nat /\ r[1] < r[2]
            BY <1>2, BlocksOfAThread
        <2>3. \A r \in {g_range(t), ic_b_range(t)} : r[1] \in In(r)
            BY <2>2 DEF In
        <2> QED
            BY <2>1, <2>2, <2>3
    <1>5. /\ phase' \in [Tids -> Nat] /\ \A t \in Tids : phase'[t] = 0
          /\ thr' \in [Tids -> Places]
        <2>1. phase' \in [Tids -> Nat] /\ \A t \in Tids : phase'[t] = 0
            BY DEF Execute
        <2>2. \A t \in Tids : thr'[t] \in Places
            <3> SUFFICES ASSUME NEW t \in Tids PROVE thr'[t] \in Places
                OBVIOUS
            <3> DEFINE a == First(t)
                       b == g_range(t)[1]
                       c == ic_b_range(t)[1]
            <3>1. thr'[t] = [pc |-> "loop", mb_sp_b |-> a, g |-> b, ic_b |-> c]
                BY <1>3
            <3>2. a \in Nat /\ b \in Nat /\ c \in Nat
                BY <1>4
            <3> HIDE DEF a, b, c
            <3> QED
                BY <3>1, <3>2 DEF Places, Pcs
        <2>3. thr' \in [Tids -> Places]
            BY <2>2 DEF Execute
        <2> QED
            BY <2>1, <2>3
    <1>6. ControlInv'
        <2>1. JcpInv'
            BY <1>1, <1>2
        <2>2. TypeInv'
            BY <1>1, <1>5 DEF TypeInv
        <2>3. RegionInv'
            <3>1. (\A t \in Tids : thr[t].pc # "out")'
                BY <1>1, <1>3
            <3>2. (phase \in [Tids -> Nat])'
                BY <1>1, <1>5
            <3>3. (/\ DOMAIN tr_src = (0..(jcp.nthr_mb - 1)) \X (0..(shape.ngroups * shape.nb_ic - 1))
                                          \X (0..(shape.sp_nb - 1))
                   /\ DOMAIN wei = 0..(jcp.nthr_mb - 1))'
                BY DEF Execute
            <3> QED
                BY <3>1, <3>2, <3>3 DEF RegionInv
        <2>4. PlaceInv'
            <3> SUFFICES ASSUME NEW t \in Tids PROVE PlaceIsRight(t, thr[t])'
                BY <1>1 DEF PlaceInv
            <3>1. /\ thr'[t].mb_sp_b = First(t) /\ thr'[t].g = g_range(t)[1]
                  /\ thr'[t].ic_b = ic_b_range(t)[1] /\ thr'[t].pc = "loop"
                BY <1>3
            <3>2. First(t) \in First(t)..Last(t) /\ First(t) < Last(t)
                BY <1>4
            <3> QED
                BY <1>1, <1>4, <3>1, <3>2 DEF PlaceIsRight, Ended
        <2>5. SumsInv'
            BY <1>1, <1>3 DEF SumsInv
        <2> QED
            BY <2>1, <2>2, <2>3, <2>4, <2>5 DEF ControlInv
    <1>7. LockInv'
        <2>1. \A t \in Tids : ~Odd(t)' /\ ~Waits(t)' /\ Coming(t)' = Place(t)'
            <3> TAKE t \in Tids
            <3>1. thr'[t].pc = "loop"
                BY <1>3
            <3> QED
                BY <3>1 DEF Odd, Waits, Coming
        <2>2. ParityInv'
            <3> SUFFICES ASSUME NEW t \in Tids
                         PROVE  \E n \in 0..phase'[t] : phase'[t] = 2 * n + (IF Odd(t)' THEN 1 ELSE 0)
                BY <1>1 DEF ParityInv
            <3>1. phase'[t] = 2 * 0 + (IF Odd(t)' THEN 1 ELSE 0) /\ 0 \in 0..phase'[t]
                BY <1>5, <2>1
            <3> QED
                BY <3>1
        <2>3. BehindInv'
            <3> SUFFICES ASSUME NEW t \in Tids, NEW u \in Tids
                         PROVE  phase'[u] >= phase'[t] - (IF Waits(t)' THEN 1 ELSE 0)
                BY <1>1 DEF BehindInv
            <3> QED
                BY <1>5, <2>1
        <2>4. StepInv'
            <3> SUFFICES ASSUME NEW t \in Tids, NEW u \in Tids, Mates(t, u)
                         PROVE  Place(t)' = Place(u)' /\ Coming(t)' = Coming(u)'
                BY <1>1 DEF StepInv
            <3>1. First(t) = First(u) /\ g_range(t) = g_range(u) /\ ic_b_range(t) = ic_b_range(u)
                BY <1>2, MatesHaveTheSameRanges
            <3>2. Place(t)' = Place(u)'
                BY <1>3, <3>1 DEF Place, PlaceOf
            <3> QED
                BY <2>1, <3>2
        <2> QED
            BY <2>2, <2>3, <2>4 DEF LockInv
    <1>8. SourceInv'
        BY <1>1, <1>3 DEF SourceInv
    <1>9. WeightsInv'
        <2> SUFFICES ASSUME NEW t \in Tids, NEW e \in Area(t)
                     PROVE  ~IsSummed(e)' /\ Upto(t, e)' = First(t)
            BY <1>1, <1>4 DEF WeightsInv
        <2>1. ~IsSummed(e)'
            BY <1>1, <1>3 DEF IsSummed
        <2>2. e[1] \in In(g_range(t)) /\ e[3] \in In(ic_b_range(t))
            BY DEF Area
        <2>3. ~(e[1] < g_range(t)[1]) /\ ~(e[3] < ic_b_range(t)[1])
            <3>1. \A r \in {g_range(t), ic_b_range(t)} : r[1] \in Nat /\ r[2] \in Nat
                BY <1>2, BlocksOfAThread
            <3> QED
                BY <2>2, <3>1 DEF In
        <2>4. Upto(t, e)' = First(t)
            BY <1>3, <2>3 DEF Upto
        <2> QED
            BY <2>1, <2>4
    <1> QED
        BY <1>6, <1>7, <1>8, <1>9 DEF ConvInv

-----------------------------------------------------------------------------
(* What a thread's step keeps *)

\* If one thread is in the region, all are.
LEMMA InTheRegion ==
    ASSUME ControlInv, NEW t \in Tids, thr[t].pc # "out"
    PROVE  /\ \A u \in Tids : thr[u].pc # "out"
           /\ phase \in [Tids -> Nat] /\ thr \in [Tids -> Places]
           /\ DOMAIN tr_src = (0..(jcp.nthr_mb - 1)) \X (0..(shape.ngroups * shape.nb_ic - 1))
                                  \X (0..(shape.sp_nb - 1))
           /\ DOMAIN wei = 0..(jcp.nthr_mb - 1)
    BY DEF ControlInv, RegionInv, TypeInv, AllOut, At

\* A thread that only goes on in its step.
LEMMA GotoFacts ==
    ASSUME thr \in [Tids -> Places], NEW t \in Tids, NEW p \in Pcs, Goto(t, p)
    PROVE  /\ thr' \in [Tids -> Places]
           /\ thr'[t].pc = p
           /\ thr'[t] = [thr[t] EXCEPT !.pc = p]
           /\ \A u \in Tids : u # t => thr'[u] = thr[u]
           /\ \A u \in Tids : /\ thr'[u].mb_sp_b = thr[u].mb_sp_b /\ thr'[u].g = thr[u].g
                              /\ thr'[u].ic_b = thr[u].ic_b
    BY DEF Goto, Places

\* What the place of one thread has to be for the invariant to stay.
LEMMA StepKeepsControl ==
    ASSUME ControlInv, NEW t \in Tids, thr[t].pc # "out",
           UNCHANGED <<shape, jcp>>, phase' \in [Tids -> Nat],
           DOMAIN tr_src' = DOMAIN tr_src, DOMAIN wei' = DOMAIN wei,
           thr' \in [Tids -> Places], \A u \in Tids : u # t => thr'[u] = thr[u],
           thr'[t].pc # "out", PlaceIsRight(t, thr'[t]),
           thr[t].pc \in Ended => thr'[t].pc \in Ended,
           thr'[t].pc = "sum" \/ (thr'[t].pc = "done" /\ jcp.nthr_mb > 1) => AllSummed(t)
    PROVE  ControlInv'
    <1>1. /\ Tids' = Tids /\ (JcpInv' <=> JcpInv) /\ (Shared' <=> Shared)
          /\ \A u : /\ g_range(u)' = g_range(u) /\ ic_b_range(u)' = ic_b_range(u)
                    /\ First(u)' = First(u) /\ Last(u)' = Last(u)
        BY DivisionStays
    <1>2. /\ \A u \in Tids : thr[u].pc # "out"
          /\ DOMAIN tr_src = (0..(jcp.nthr_mb - 1)) \X (0..(shape.ngroups * shape.nb_ic - 1))
                                 \X (0..(shape.sp_nb - 1))
          /\ DOMAIN wei = 0..(jcp.nthr_mb - 1)
        BY InTheRegion
    <1>3. JcpInv' /\ TypeInv'
        BY <1>1 DEF ControlInv, TypeInv
    <1>4. \A u \in Tids : thr'[u].pc # "out"
        BY <1>2
    <1>5. RegionInv'
        BY <1>1, <1>2, <1>4 DEF RegionInv
    <1>6. PlaceInv'
        <2>1. \A u, r : PlaceIsRight(u, r)' <=> PlaceIsRight(u, r)
            BY <1>1 DEF PlaceIsRight
        <2>2. \A u \in Tids : PlaceIsRight(u, thr'[u])
            BY <1>2 DEF ControlInv, PlaceInv
        <2>3. \A u \in Tids : PlaceIsRight(u, thr[u])'
            <3> TAKE u \in Tids
            <3>1. PlaceIsRight(u, thr'[u])
                BY <2>2
            <3> QED
                BY <1>1, <3>1 DEF PlaceIsRight
        <2> QED
            BY <1>1, <2>3 DEF PlaceInv
    <1>7. SumsInv'
        <2> SUFFICES ASSUME NEW w \in Tids,
                            thr'[w].pc = "sum" \/ (thr'[w].pc = "done" /\ jcp.nthr_mb > 1),
                            NEW u \in Tids
                     PROVE  thr'[u].pc \in Ended
            BY <1>1 DEF SumsInv, AllSummed, Ended
        <2>1. CASE w = t
            <3>1. \A v \in Tids : thr[v].pc \in Ended
                BY <2>1 DEF AllSummed, Ended
            <3> QED
                BY <2>1, <3>1
        <2>2. CASE w # t
            <3>1. AllSummed(w)
                BY <2>2 DEF ControlInv, SumsInv
            <3>2. \A v \in Tids : thr[v].pc \in Ended
                BY <3>1 DEF AllSummed, Ended
            <3> QED
                BY <3>2
        <2> QED
            BY <2>1, <2>2
    <1> QED
        BY <1>3, <1>5, <1>6, <1>7 DEF ControlInv

-----------------------------------------------------------------------------
(* The barriers of the mates *)

\* Who passes has seen all mates arrive as often.
LEMMA PassingSeesAll ==
    ASSUME JcpInv, NEW t \in Tids, phase \in [Tids -> Nat], MayPass(t),
           NEW w \in Tids, Mates(t, w)
    PROVE  phase[w] >= phase[t]
    <1> SUFFICES ASSUME ~(phase[w] >= phase[t])
                 PROVE  FALSE
        OBVIOUS
    <1> DEFINE S == {u \in Tids : ithr_but_oc(u) = ithr_but_oc(t) /\ phase[u] >= phase[t]}
               n == jcp.nthr_oc_b
               R == 0..(n - 1)
               x == ithr_oc_b(w)
               T == R \ {x}
               f == [u \in S |-> ithr_oc_b(u)]
    <1>1. n \in Nat \ {0} /\ x \in R
        BY JcpIsPositive, PlaceOfAThread
    <1>2. \A u \in S : u \in Tids /\ Mates(u, w) /\ ithr_oc_b(u) \in R /\ u # w
        BY PlaceOfAThread DEF Mates
    <1>3. \A u \in S : ithr_oc_b(u) \in T
        BY <1>2, PlacesDiffer
    <1>4. \A u, v \in S : ithr_oc_b(u) = ithr_oc_b(v) => u = v
        <2> TAKE u, v \in S
        <2>1. u \in Tids /\ v \in Tids /\ Mates(u, v)
            BY DEF Mates
        <2> QED
            BY <2>1, PlacesDiffer
    <1>5. f \in Injection(S, T)
        <2>1. f \in [S -> T]
            BY <1>3
        <2>2. \A u, v \in S : f[u] = f[v] => u = v
            BY <1>4
        <2> HIDE DEF f, S, T
        <2> QED
            BY <2>1, <2>2 DEF Injection, IsInjective
    <1>6. IsFiniteSet(R) /\ Cardinality(R) = n
        <2> HIDE DEF n, x
        <2>1. 0 \in Int /\ n - 1 \in Int /\ ~(0 > n - 1) /\ (n - 1) - 0 + 1 = n
            BY <1>1
        <2>2. IsFiniteSet(0..(n - 1)) /\ Cardinality(0..(n - 1)) = n
            BY <2>1, FS_Interval
        <2> QED
            BY <2>2
    <1>7. IsFiniteSet(T) /\ Cardinality(T) = n - 1
        <2> HIDE DEF R, x, n
        <2> QED
            BY <1>1, <1>6, FS_RemoveElement
    <1>8. IsFiniteSet(S) /\ Cardinality(S) <= Cardinality(T)
        <2> HIDE DEF S, T, f
        <2> QED
            BY <1>5, <1>7, FS_Injection
    <1>9. Cardinality(S) \in Nat
        BY <1>8, FS_CardinalityType
    <1>10. Cardinality(S) >= n
        BY DEF MayPass
    <1> HIDE DEF S, T, n
    <1> QED
        BY <1>1, <1>7, <1>8, <1>9, <1>10

\* Mates have arrived as often and at the same barrier, or one of them waits
\* for the other at the next one.
LEMMA MatesAreClose ==
    ASSUME ControlInv, LockInv, shape.transpose_src, Shared,
           NEW t \in Tids, NEW u \in Tids, Mates(t, u), thr[t].pc # "out"
    PROVE  /\ phase[t] \in Nat /\ phase[u] \in Nat
           /\ \/ /\ phase[u] = phase[t] /\ (Odd(t) <=> Odd(u)) /\ Coming(t) = Coming(u)
              \/ /\ phase[u] = phase[t] + 1 /\ ~(Odd(t) <=> Odd(u)) /\ Waits(u)
                 /\ Odd(u) => Coming(u) = Coming(t)
                 /\ ~Odd(u) => Place(u) = Place(t)
              \/ /\ phase[t] = phase[u] + 1 /\ ~(Odd(t) <=> Odd(u)) /\ Waits(t)
                 /\ Odd(t) => Coming(t) = Coming(u)
                 /\ ~Odd(t) => Place(t) = Place(u)
    <1>1. /\ thr[u].pc # "out" /\ phase[t] \in Nat /\ phase[u] \in Nat /\ Mates(u, t)
        BY InTheRegion DEF Mates
    <1>2. /\ phase[u] >= phase[t] - (IF Waits(t) THEN 1 ELSE 0)
          /\ phase[t] >= phase[u] - (IF Waits(u) THEN 1 ELSE 0)
        BY <1>1 DEF LockInv, BehindInv
    <1>3. /\ \E n \in 0..phase[t] : phase[t] = 2 * n + (IF Odd(t) THEN 1 ELSE 0)
          /\ \E n \in 0..phase[u] : phase[u] = 2 * n + (IF Odd(u) THEN 1 ELSE 0)
        BY <1>1 DEF LockInv, ParityInv
    <1>4. /\ phase[t] = phase[u] => Coming(t) = Coming(u)
          /\ phase[t] = phase[u] + 1 =>
                 IF Odd(t) THEN Coming(t) = Coming(u) ELSE Place(t) = Place(u)
          /\ phase[u] = phase[t] + 1 =>
                 IF Odd(u) THEN Coming(u) = Coming(t) ELSE Place(u) = Place(t)
        BY <1>1 DEF LockInv, StepInv
    <1>5. PICK m \in 0..phase[t] : phase[t] = 2 * m + (IF Odd(t) THEN 1 ELSE 0)
        BY <1>3
    <1>6. PICK n \in 0..phase[u] : phase[u] = 2 * n + (IF Odd(u) THEN 1 ELSE 0)
        BY <1>3
    <1>7. \/ phase[u] = phase[t]
          \/ phase[u] = phase[t] + 1 /\ Waits(u)
          \/ phase[t] = phase[u] + 1 /\ Waits(t)
        BY <1>1, <1>2
    <1>8. phase[u] = phase[t] <=> (Odd(t) <=> Odd(u))
        <2>1. m \in Nat /\ n \in Nat
            BY <1>1, <1>5, <1>6
        <2> QED
            BY <1>1, <1>5, <1>6, <1>7, <2>1
    <1>9. phase[u] = phase[t] + 1 => phase[u] # phase[t]
        BY <1>1
    <1>10. phase[t] = phase[u] + 1 => phase[u] # phase[t]
        BY <1>1
    <1> QED
        BY <1>1, <1>4, <1>7, <1>8, <1>9, <1>10, Zenon

\* A step in which no thread arrives anywhere.
LEMMA LockStays ==
    ASSUME ControlInv, LockInv, UNCHANGED <<shape, jcp, phase>>, shape.transpose_src, Shared,
           NEW t \in Tids, thr[t].pc # "out",
           \A u \in Tids : thr'[u].pc # "out" => thr[u].pc # "out",
           \A u \in Tids : (Odd(u)' <=> Odd(u)) /\ Coming(u)' = Coming(u),
           \A u \in Tids : u # t => Place(u)' = Place(u) /\ (Waits(u)' <=> Waits(u)),
           Place(t)' = Place(t) \/ (~Odd(t) /\ ~Waits(t)),
           Waits(t) => Waits(t)' \/ \A w \in Tids : Mates(t, w) => phase[w] >= phase[t]
    PROVE  LockInv'
    <1>1. Tids' = Tids /\ \A u, v : Mates(u, v)' <=> Mates(u, v)
        BY DivisionStays
    <1>2. \A u \in Tids : thr[u].pc # "out" /\ phase[u] \in Nat
        BY InTheRegion
    <1>3. ParityInv'
        BY <1>1, <1>2 DEF LockInv, ParityInv
    <1>4. BehindInv'
        <2> SUFFICES ASSUME NEW v \in Tids, NEW u \in Tids, Mates(v, u)
                     PROVE  phase[u] >= phase[v] - (IF Waits(v)' THEN 1 ELSE 0)
            BY <1>1 DEF BehindInv
        <2>1. phase[u] >= phase[v] - (IF Waits(v) THEN 1 ELSE 0)
            BY <1>2 DEF LockInv, BehindInv
        <2>2. phase[u] \in Nat /\ phase[v] \in Nat
            BY <1>2
        <2>3. CASE Waits(v) => Waits(v)'
            BY <2>1, <2>2, <2>3
        <2>4. CASE ~(Waits(v) => Waits(v)')
            <3>1. phase[u] >= phase[v]
                BY <2>4
            <3> QED
                BY <2>2, <3>1
        <2> QED
            BY <2>3, <2>4
    <1>5. StepInv'
        <2> SUFFICES ASSUME NEW v \in Tids, NEW u \in Tids, Mates(v, u)
                     PROVE  /\ phase[v] = phase[u] => Coming(v) = Coming(u)
                            /\ phase[v] = phase[u] + 1 =>
                                   IF Odd(v) THEN Coming(v) = Coming(u) ELSE Place(v)' = Place(u)'
            BY <1>1 DEF StepInv
        <2>1. /\ phase[v] = phase[u] => Coming(v) = Coming(u)
              /\ phase[v] = phase[u] + 1 =>
                     IF Odd(v) THEN Coming(v) = Coming(u) ELSE Place(v) = Place(u)
            BY <1>2 DEF LockInv, StepInv
        <2>2. ASSUME phase[v] = phase[u] + 1, ~Odd(v)
              PROVE  Place(v)' = Place(v) /\ Place(u)' = Place(u)
            <3>1. phase[u] \in Nat
                BY <1>2
            <3>2. phase[u] # phase[v] /\ phase[u] # phase[v] + 1
                BY <2>2, <3>1
            <3>3. Waits(v) /\ ~(Odd(v) <=> Odd(u))
                BY <1>2, <3>2, MatesAreClose, Zenon
            <3> QED
                BY <2>2, <3>3
        <2> QED
            BY <2>1, <2>2
    <1> QED
        BY <1>3, <1>4, <1>5 DEF LockInv

\* A thread arrives at a barrier that no mate has left before it.
LEMMA ArrivalKeepsLock ==
    ASSUME ControlInv, LockInv, UNCHANGED <<shape, jcp>>, shape.transpose_src, Shared,
           NEW t \in Tids, thr[t].pc # "out", ~Waits(t), Arrives(t),
           \A u \in Tids : thr'[u].pc # "out" => thr[u].pc # "out",
           \A u \in Tids : u # t => /\ (Odd(u)' <=> Odd(u)) /\ (Waits(u)' <=> Waits(u))
                                    /\ Coming(u)' = Coming(u) /\ Place(u)' = Place(u),
           Waits(t)', Odd(t)' <=> ~Odd(t), Place(t)' = Place(t),
           Coming(t)' = (IF Odd(t) THEN NextPlace(t) ELSE Coming(t))
    PROVE  LockInv'
    <1>1. Tids' = Tids /\ \A u, v : Mates(u, v)' <=> Mates(u, v)
        BY DivisionStays
    <1>2. \A u \in Tids : thr[u].pc # "out" /\ phase[u] \in Nat
        BY InTheRegion
    <1>3. \A u \in Tids : phase'[u] = (IF u = t THEN phase[u] + 1 ELSE phase[u])
        BY InTheRegion DEF Arrives
    <1>4. ASSUME NEW u \in Tids, Mates(t, u), u # t
          PROVE  \/ phase[u] = phase[t] /\ IF Odd(t)' THEN Coming(t)' = Coming(u)'
                                           ELSE Place(t)' = Place(u)'
                 \/ phase[u] = phase[t] + 1 /\ Coming(t)' = Coming(u)'
        <2>1. CASE phase[u] = phase[t] /\ (Odd(t) <=> Odd(u)) /\ Coming(t) = Coming(u)
            <3>1. CASE Odd(t)
                <4>1. Coming(t) = Place(t) /\ Coming(u) = Place(u)
                    BY <2>1, <3>1 DEF Odd, Coming
                <4> QED
                    BY <1>4, <2>1, <3>1, <4>1
            <3>2. CASE ~Odd(t)
                BY <1>4, <2>1, <3>2
            <3> QED
                BY <3>1, <3>2
        <2>2. CASE /\ phase[u] = phase[t] + 1 /\ ~(Odd(t) <=> Odd(u)) /\ Waits(u)
                   /\ Odd(u) => Coming(u) = Coming(t)
                   /\ ~Odd(u) => Place(u) = Place(t)
            <3>1. CASE ~Odd(t)
                BY <1>4, <2>2, <3>1
            <3>2. CASE Odd(t)
                <4>1. Place(t) = Place(u) /\ thr[u].pc = "wait_ready"
                    BY <2>2, <3>2 DEF Odd, Waits
                <4>2. Coming(u) = NextPlace(u)
                    BY <4>1 DEF Coming
                <4>3. NextPlace(t) = NextPlace(u)
                    BY <1>2, <1>4, <4>1, SamePlaceSameStep
                <4> QED
                    BY <1>4, <2>2, <3>2, <4>2, <4>3
            <3> QED
                BY <3>1, <3>2
        <2> QED
            BY <1>2, <1>4, <2>1, <2>2, MatesAreClose, Zenon
    <1>5. ParityInv'
        <2> SUFFICES ASSUME NEW u \in Tids
                     PROVE  \E n \in 0..phase'[u] :
                                phase'[u] = 2 * n + (IF Odd(u)' THEN 1 ELSE 0)
            BY <1>1 DEF ParityInv
        <2>1. PICK n \in 0..phase[u] : phase[u] = 2 * n + (IF Odd(u) THEN 1 ELSE 0)
            BY <1>2 DEF LockInv, ParityInv
        <2>2. CASE u # t
            BY <1>3, <2>1, <2>2
        <2>3. CASE u = t /\ ~Odd(t)
            <3>1. phase'[u] = 2 * n + 1 /\ n \in 0..phase'[u]
                BY <1>2, <1>3, <2>1, <2>3
            <3> QED
                BY <2>3, <3>1
        <2>4. CASE u = t /\ Odd(t)
            <3>1. phase'[u] = 2 * (n + 1) + 0 /\ n + 1 \in 0..phase'[u]
                BY <1>2, <1>3, <2>1, <2>4
            <3> QED
                BY <2>4, <3>1
        <2> QED
            BY <2>2, <2>3, <2>4
    <1>6. BehindInv'
        <2> SUFFICES ASSUME NEW v \in Tids, NEW u \in Tids, Mates(v, u)
                     PROVE  phase'[u] >= phase'[v] - (IF Waits(v)' THEN 1 ELSE 0)
            BY <1>1 DEF BehindInv
        <2>1. phase[u] >= phase[v] - (IF Waits(v) THEN 1 ELSE 0)
            BY <1>2 DEF LockInv, BehindInv
        <2>2. phase[u] \in Nat /\ phase[v] \in Nat
            BY <1>2
        <2>3. CASE v = t
            <3>1. phase[u] >= phase[v]
                BY <2>1, <2>2, <2>3
            <3> QED
                BY <1>3, <2>2, <2>3, <3>1
        <2>4. CASE v # t
            BY <1>3, <2>1, <2>2, <2>4
        <2> QED
            BY <2>3, <2>4
    <1>7. StepInv'
        <2> SUFFICES ASSUME NEW v \in Tids, NEW u \in Tids, Mates(v, u)
                     PROVE  /\ phase'[v] = phase'[u] => Coming(v)' = Coming(u)'
                            /\ phase'[v] = phase'[u] + 1 =>
                                   IF Odd(v)' THEN Coming(v)' = Coming(u)'
                                   ELSE Place(v)' = Place(u)'
            BY <1>1 DEF StepInv
        <2>1. phase[u] \in Nat /\ phase[v] \in Nat
            BY <1>2
        <2>2. CASE v = u
            BY <1>3, <2>1, <2>2
        <2>3. CASE v # u /\ v = t
            <3>1. \/ phase[u] = phase[t] /\ IF Odd(t)' THEN Coming(t)' = Coming(u)'
                                            ELSE Place(t)' = Place(u)'
                  \/ phase[u] = phase[t] + 1 /\ Coming(t)' = Coming(u)'
                BY <1>4, <2>3
            <3>2. phase'[v] = phase[t] + 1 /\ phase'[u] = phase[u]
                BY <1>3, <2>3
            <3> QED
                BY <2>1, <2>3, <3>1, <3>2
        <2>4. CASE v # u /\ u = t
            <3>1. Mates(t, v)
                BY <2>4 DEF Mates
            <3>2. \/ phase[v] = phase[t] /\ IF Odd(t)' THEN Coming(t)' = Coming(v)'
                                            ELSE Place(t)' = Place(v)'
                  \/ phase[v] = phase[t] + 1 /\ Coming(t)' = Coming(v)'
                BY <1>4, <2>4, <3>1
            <3>3. phase'[u] = phase[t] + 1 /\ phase'[v] = phase[v]
                BY <1>3, <2>4
            <3> QED
                BY <2>1, <2>4, <3>2, <3>3
        <2>5. CASE v # t /\ u # t
            <3>1. /\ phase[v] = phase[u] => Coming(v) = Coming(u)
                  /\ phase[v] = phase[u] + 1 =>
                         IF Odd(v) THEN Coming(v) = Coming(u) ELSE Place(v) = Place(u)
                BY <1>2 DEF LockInv, StepInv
            <3>2. phase'[u] = phase[u] /\ phase'[v] = phase[v]
                BY <1>3, <2>5
            <3>3. /\ Coming(u)' = Coming(u) /\ Coming(v)' = Coming(v) /\ (Odd(v)' <=> Odd(v))
                  /\ Place(u)' = Place(u) /\ Place(v)' = Place(v)
                BY <2>5
            <3> QED
                BY <3>1, <3>2, <3>3
        <2> QED
            BY <2>2, <2>3, <2>4, <2>5
    <1> QED
        BY <1>5, <1>6, <1>7 DEF LockInv

-----------------------------------------------------------------------------
(* The transposed source *)

\* Threads that are no mates have their steps' places for themselves.
LEMMA SourcesAreDisjoint ==
    ASSUME ControlInv, NEW t \in Tids, NEW u \in Tids, ~Mates(t, u),
           thr[t].pc # "out", thr[u].pc # "out", More(t), More(u),
           NEW k \in 0..(bcast_step(t) - 1), NEW l \in 0..(bcast_step(u) - 1), NEW x, NEW y
    PROVE  TrPlace(t, k, x) # TrPlace(u, l, y)
    <1> DEFINE a(v, n) == ic_b_range(v)[1] + n
               I == shape.nb_ic
               G == shape.ngroups
    <1>1. I \in Nat \ {0} /\ G \in Nat \ {0}
        BY ShapeNumbers DEF ControlInv
    <1>2. ASSUME NEW v \in Tids, More(v), thr[v].pc # "out", NEW n \in 0..(bcast_step(v) - 1)
          PROVE  /\ a(v, n) \in In(ic_b_range(v)) /\ a(v, n) \in 0..(I - 1)
                 /\ thr[v].g \in In(g_range(v)) /\ thr[v].g \in 0..(G - 1)
        <2>1. /\ ic_b_range(v)[1] \in Nat /\ ic_b_range(v)[2] \in Nat /\ ic_b_range(v)[2] <= I
              /\ g_range(v)[1] \in Nat /\ g_range(v)[2] \in Nat /\ g_range(v)[2] <= G
            BY BlocksOfAThread DEF ControlInv
        <2>2. thr[v].g \in In(g_range(v)) /\ thr[v].ic_b \in In(ic_b_range(v))
            BY <1>2, PlaceNumbers
        <2>3. bcast_step(v) \in 1..(ic_b_range(v)[2] - thr[v].ic_b)
            BY <1>2, StepNumbers
        <2>4. a(v, n) \in ic_b_range(v)[1]..(ic_b_range(v)[2] - 1)
            BY <1>2, <2>1, <2>2, <2>3 DEF In
        <2> QED
            BY <1>1, <2>1, <2>2, <2>4 DEF In
    <1> SUFFICES ASSUME TrPlace(t, k, x) = TrPlace(u, l, y) PROVE FALSE
        OBVIOUS
    <1>3. ithr_mb(t) = ithr_mb(u) /\ thr[t].g * I + ic_b_range(t)[1] + k
                                       = thr[u].g * I + ic_b_range(u)[1] + l
        BY DEF TrPlace
    <1>4. /\ a(t, k) \in In(ic_b_range(t)) /\ a(t, k) \in 0..(I - 1)
          /\ a(u, l) \in In(ic_b_range(u)) /\ a(u, l) \in 0..(I - 1)
          /\ thr[t].g \in In(g_range(t)) /\ thr[t].g \in 0..(G - 1)
          /\ thr[u].g \in In(g_range(u)) /\ thr[u].g \in 0..(G - 1)
        BY <1>2
    <1>5. ic_b_range(t)[1] \in Nat /\ ic_b_range(u)[1] \in Nat
        BY BlocksOfAThread DEF ControlInv
    <1>6. bcast_step(t) \in Nat /\ bcast_step(u) \in Nat /\ k \in Nat /\ l \in Nat
        <2>1. \A v \in {t, u} : bcast_step(v) \in 1..(ic_b_range(v)[2] - thr[v].ic_b)
            BY StepNumbers
        <2>2. bcast_step(t) \in Int /\ bcast_step(u) \in Int
            BY <2>1
        <2> QED
            BY <2>1, <2>2
    <1>7. thr[t].g = thr[u].g /\ a(t, k) = a(u, l)
        <2> DEFINE p == thr[t].g
                   q == thr[u].g
                   m == a(t, k)
                   n == a(u, l)
        <2>1. p * I + m = q * I + n
            <3>1. p \in Nat /\ q \in Nat
                BY <1>1, <1>4
            <3> HIDE DEF I, p, q
            <3> QED
                BY <1>1, <1>3, <1>5, <1>6, <3>1 DEF p, q
        <2>2. p \in 0..(G - 1) /\ q \in 0..(G - 1) /\ m \in 0..(I - 1) /\ n \in 0..(I - 1)
            BY <1>4
        <2> HIDE DEF p, q, m, n, I, G
        <2>3. (p * I + m) \div I = p /\ (p * I + m) % I = m
            BY <1>1, <2>2, NumberOfAPair
        <2>4. (q * I + n) \div I = q /\ (q * I + n) % I = n
            BY <1>1, <2>2, NumberOfAPair
        <2>5. p = q /\ m = n
            BY <2>1, <2>3, <2>4
        <2> QED
            BY <2>5 DEF p, q, m, n
    <1>8. ithr_g(t) = ithr_g(u) /\ ithr_ic_b(t) = ithr_ic_b(u)
        BY <1>4, <1>7, AreasAreDisjoint DEF ControlInv
    <1> QED
        BY <1>3, <1>8, MatesAgree DEF ControlInv

\* Within a step they have different blocks.
LEMMA BlocksDiffer ==
    ASSUME ControlInv, NEW t \in Tids, thr[t].pc # "out", NEW k \in Nat, NEW l \in Nat,
           NEW x, NEW y, TrPlace(t, k, x) = TrPlace(t, l, y)
    PROVE  k = l /\ x = y
    <1> DEFINE a == thr[t].g * shape.nb_ic
               b == ic_b_range(t)[1]
    <1>1. thr[t].g \in Nat /\ shape.nb_ic \in Nat
        BY PlaceNumbers, ShapeNumbers DEF Places, ControlInv
    <1>2. a \in Nat /\ b \in Nat
        BY <1>1, BlocksOfAThread DEF ControlInv
    <1>3. a + b + k = a + b + l /\ x = y
        BY DEF TrPlace
    <1> HIDE DEF a, b
    <1> QED
        BY <1>2, <1>3

\* A thread whose source is not shared has no mates but itself.
LEMMA AloneUnlessShared ==
    ASSUME JcpInv, ~Shared, NEW t \in Tids, NEW u \in Tids, Mates(t, u)
    PROVE  t = u
    <1>1. ithr_oc_b(t) \in 0..(jcp.nthr_oc_b - 1) /\ ithr_oc_b(u) \in 0..(jcp.nthr_oc_b - 1)
        BY PlaceOfAThread
    <1>2. jcp.nthr_oc_b = 1
        BY JcpIsPositive DEF Shared
    <1>3. ithr_oc_b(t) = ithr_oc_b(u)
        BY <1>1, <1>2
    <1> QED
        BY <1>3, PlacesDiffer

\* The blocks of a step are divided among the mates.
LEMMA PieceOfAStep ==
    ASSUME ControlInv, NEW u \in Tids, thr[u].pc # "out", More(u), NEW t \in Tids,
           NEW k \in Piece(bcast_step(u), jcp.nthr_oc_b, ithr_oc_b(t))
    PROVE  k \in 0..(bcast_step(u) - 1)
    <1> DEFINE n == bcast_step(u)
               m == jcp.nthr_oc_b
               j == ithr_oc_b(t)
               a == balance211_start(n, m, j)
               b == balance211_end(n, m, j)
    <1>1. m \in Nat \ {0} /\ j \in 0..(m - 1)
        BY JcpIsPositive, PlaceOfAThread DEF ControlInv
    <1>2. n \in Nat
        <2>1. ic_b_range(u)[2] \in Nat /\ thr[u].ic_b \in Nat
            BY BlocksOfAThread, PlaceNumbers DEF ControlInv, Places
        <2>2. n \in 1..(ic_b_range(u)[2] - thr[u].ic_b)
            BY StepNumbers
        <2> HIDE DEF n
        <2> QED
            BY <2>1, <2>2
    <1>3. k \in a..(b - 1)
        BY DEF Piece
    <1> HIDE DEF n, m, j
    <1>4. a \in Nat /\ b \in 0..n
        BY <1>1, <1>2, PieceBounds
    <1> HIDE DEF a, b
    <1>5. k \in 0..(n - 1)
        BY <1>2, <1>3, <1>4
    <1> QED
        BY <1>5 DEF n

\* The places that a step transposes are places of the array.
LEMMA SourceHasThePlace ==
    ASSUME ControlInv, NEW t \in Tids, thr[t].pc # "out", More(t),
           NEW k \in 0..(bcast_step(t) - 1), NEW sp \in StepSp(t)
    PROVE  TrPlace(t, k, sp) \in DOMAIN tr_src
    <1> DEFINE G == shape.ngroups
               I == shape.nb_ic
               g == thr[t].g
               a == ic_b_range(t)[1]
               b == ic_b_range(t)[2]
               n == bcast_step(t)
    <1>1. G \in Nat \ {0} /\ I \in Nat \ {0}
        BY ShapeNumbers DEF ControlInv
    <1>2. /\ a \in Nat /\ b \in Nat /\ b <= I
          /\ g_range(t)[1] \in Nat /\ g_range(t)[2] \in Nat /\ g_range(t)[2] <= G
        BY BlocksOfAThread DEF ControlInv
    <1>3. g \in In(g_range(t)) /\ thr[t].ic_b \in In(ic_b_range(t))
        BY PlaceNumbers
    <1>4. n \in 1..(b - thr[t].ic_b) /\ sp \in 0..(shape.sp_nb - 1)
        BY StepNumbers
    <1>5. thr[t].ic_b \in a..(b - 1) /\ g \in 0..(G - 1)
        BY <1>1, <1>2, <1>3 DEF In
    <1> HIDE DEF G, I, a, b, n, g
    <1>6. a + k \in 0..(I - 1) /\ k \in Nat
        BY <1>1, <1>2, <1>4, <1>5 DEF n
    <1>7. g * I + (a + k) \in 0..(G * I - 1)
        BY <1>1, <1>5, <1>6, NumberOfAPair
    <1>8. g * I + a + k = g * I + (a + k)
        BY <1>1, <1>2, <1>5, <1>6
    <1>9. ithr_mb(t) \in 0..(jcp.nthr_mb - 1)
        BY PlaceOfAThread DEF ControlInv
    <1>10. TrPlace(t, k, sp) = <<ithr_mb(t), g * I + a + k, sp>>
        BY DEF TrPlace, g, I, a
    <1>11. DOMAIN tr_src = (0..(jcp.nthr_mb - 1)) \X (0..(G * I - 1)) \X (0..(shape.sp_nb - 1))
        BY InTheRegion DEF G, I
    <1> QED
        BY <1>4, <1>7, <1>8, <1>9, <1>10, <1>11

\* Mates of a thread that transposes: those that read or have arrived are
\* waiting for it, in the same step.
LEMMA ReadersWait ==
    ASSUME ControlInv, LockInv, shape.transpose_src, NEW w \in Tids, thr[w].pc = "transpose",
           NEW u \in Tids, Mates(w, u), u # w,
           thr[u].pc \in {"wait_ready", "multiply"} \/ phase[u] > phase[w]
    PROVE  /\ Shared /\ phase[u] = phase[w] + 1 /\ thr[u].pc = "wait_ready"
           /\ Place(w) = Place(u)
    <1>1. Shared
        BY AloneUnlessShared DEF ControlInv
    <1>2. thr[w].pc # "out" /\ Odd(w) /\ ~Waits(w)
        BY DEF Odd, Waits
    <1>3. phase[w] \in Nat /\ phase[u] \in Nat
        BY <1>1, <1>2, MatesAreClose
    <1>4. \/ phase[u] = phase[w] /\ Odd(u)
          \/ /\ phase[u] = phase[w] + 1 /\ ~Odd(u) /\ Waits(u) /\ Place(u) = Place(w)
        BY <1>1, <1>2, MatesAreClose, Zenon
    <1>5. ~(phase[u] = phase[w] /\ Odd(u))
        <2>1. phase[u] = phase[w] => ~(phase[u] > phase[w])
            BY <1>3
        <2> QED
            BY <2>1 DEF Odd
    <1>6. thr[u].pc = "wait_ready"
        BY <1>4, <1>5 DEF Odd, Waits
    <1> QED
        BY <1>1, <1>4, <1>5, <1>6

\* Where tr_src and the steps that use it stay, what is known of them does.
LEMMA SourceStays ==
    ASSUME ControlInv, SourceInv, UNCHANGED <<shape, jcp, tr_src>>,
           \A u \in Tids : shape.transpose_src /\ thr'[u].pc \in {"wait_ready", "multiply"} =>
               /\ thr[u].pc \in {"wait_ready", "multiply"}
               /\ thr'[u].mb_sp_b = thr[u].mb_sp_b /\ thr'[u].g = thr[u].g
               /\ thr'[u].ic_b = thr[u].ic_b
               /\ \A t \in Tids : Mates(t, u) /\ phase'[t] >= phase'[u] => phase[t] >= phase[u]
    PROVE  SourceInv'
    <1>1. /\ Tids' = Tids /\ \A u, v : Mates(u, v)' <=> Mates(u, v)
          /\ \A u : ithr_oc_b(u)' = ithr_oc_b(u)
        BY DivisionStays
    <1> SUFFICES ASSUME NEW t \in Tids, NEW u \in Tids,
                        thr'[u].pc \in {"wait_ready", "multiply"}, shape.transpose_src,
                        Mates(t, u), phase'[t] >= phase'[u],
                        NEW k \in Piece(bcast_step(u)', jcp.nthr_oc_b, ithr_oc_b(t))
                 PROVE  IsTransposed(u, k)'
        BY <1>1 DEF SourceInv
    <1>2. /\ bcast_step(u)' = bcast_step(u) /\ img(u)' = img(u) /\ StepSp(u)' = StepSp(u)
          /\ \A l, sp : TrPlace(u, l, sp)' = TrPlace(u, l, sp)
        BY StepStays
    <1>3. IsTransposed(u, k)
        BY <1>2 DEF SourceInv
    <1> QED
        BY <1>2, <1>3 DEF IsTransposed

\* A transposition disturbs no step that is still to be multiplied.
LEMMA TransposeKeepsSource ==
    ASSUME ControlInv, LockInv, SourceInv, NEW w \in Tids, Transpose(w)
    PROVE  SourceInv'
    <1>1. /\ Tids' = Tids /\ \A u, v : Mates(u, v)' <=> Mates(u, v)
          /\ \A u : ithr_oc_b(u)' = ithr_oc_b(u)
        BY DivisionStays DEF Transpose
    <1> DEFINE p == IF Shared THEN "wait_ready" ELSE "multiply"
    <1>2. thr[w].pc = "transpose" /\ shape.transpose_src /\ More(w)
        <2>1. thr[w].pc = "transpose"
            BY DEF Transpose, At
        <2>2. PlaceIsRight(w, thr[w])
            BY <2>1 DEF ControlInv, PlaceInv
        <2> QED
            BY <2>1, <2>2, PlaceNumbers DEF PlaceIsRight
    <1>3. /\ \A u \in Tids : thr[u].pc # "out"
          /\ thr \in [Tids -> Places] /\ phase \in [Tids -> Nat]
        BY <1>2, InTheRegion
    <1>4. /\ \A u \in Tids : u # w => thr'[u] = thr[u]
          /\ \A u \in Tids : /\ thr'[u].mb_sp_b = thr[u].mb_sp_b /\ thr'[u].g = thr[u].g
                             /\ thr'[u].ic_b = thr[u].ic_b
        <2>1. Goto(w, p) /\ p \in Pcs
            BY DEF Transpose, Pcs
        <2> HIDE DEF p
        <2> QED
            BY <1>3, <2>1, GotoFacts
    <1>5. /\ \A u \in Tids : u # w => phase'[u] = phase[u]
          /\ Shared => phase'[w] = phase[w] + 1
        BY <1>3 DEF Transpose, Arrives
    <1>6. ASSUME NEW k \in MyTrans(w), NEW sp \in StepSp(w)
          PROVE  tr_src'[TrPlace(w, k, sp)] = <<img(w), thr[w].g, thr[w].ic_b + k, sp>>
        <2>1. k \in 0..(bcast_step(w) - 1) /\ k \in Nat
            BY <1>2, <1>3, PieceOfAStep DEF MyTrans
        <2>2. TrPlace(w, k, sp) \in DOMAIN tr_src
            BY <1>2, <1>3, <2>1, SourceHasThePlace
        <2>3. TrPlace(w, k, sp) \in TransWrites(w)
            BY DEF TransWrites
        <2>4. tr_src'[TrPlace(w, k, sp)]
                  = <<img(w), thr[w].g,
                      thr[w].ic_b + (TrPlace(w, k, sp)[2] - TrPlace(w, 0, 0)[2]),
                      TrPlace(w, k, sp)[3]>>
            BY <2>2, <2>3 DEF Transpose
        <2>5. TrPlace(w, k, sp)[2] - TrPlace(w, 0, 0)[2] = k /\ TrPlace(w, k, sp)[3] = sp
            <3> DEFINE a == thr[w].g * shape.nb_ic
                       b == ic_b_range(w)[1]
            <3>1. thr[w].g \in Nat /\ shape.nb_ic \in Nat /\ b \in Nat
                BY <1>3, PlaceNumbers, ShapeNumbers, BlocksOfAThread DEF Places, ControlInv
            <3>2. a \in Nat
                BY <3>1
            <3>3. TrPlace(w, k, sp)[2] = a + b + k /\ TrPlace(w, 0, 0)[2] = a + b + 0
                  /\ TrPlace(w, k, sp)[3] = sp
                BY DEF TrPlace
            <3> HIDE DEF a, b
            <3> QED
                BY <2>1, <3>1, <3>2, <3>3
        <2> QED
            BY <2>4, <2>5
    <1>7. \A q \in DOMAIN tr_src : q \notin TransWrites(w) => tr_src'[q] = tr_src[q]
        BY DEF Transpose
    <1> SUFFICES ASSUME NEW t \in Tids, NEW u \in Tids,
                        thr'[u].pc \in {"wait_ready", "multiply"},
                        Mates(t, u), phase'[t] >= phase'[u],
                        NEW k \in Piece(bcast_step(u)', jcp.nthr_oc_b, ithr_oc_b(t))
                 PROVE  IsTransposed(u, k)'
        <2>1. jcp' = jcp
            BY DEF Transpose
        <2> QED
            BY <1>1, <2>1 DEF SourceInv
    <1> SUFFICES ASSUME NEW sp \in StepSp(u)'
                 PROVE  tr_src'[TrPlace(u, k, sp)']
                            = <<img(u)', thr'[u].g, thr'[u].ic_b + k, sp>>
        BY DEF IsTransposed
    <1>8. /\ bcast_step(u)' = bcast_step(u) /\ img(u)' = img(u) /\ StepSp(u)' = StepSp(u)
          /\ TrPlace(u, k, sp)' = TrPlace(u, k, sp)
        BY <1>4, StepStays DEF Transpose
    <1>9. CASE ~Mates(w, u)
        <2>1. u # w /\ t # w
            BY <1>9 DEF Mates
        <2>2. /\ thr[u].pc \in {"wait_ready", "multiply"} /\ phase[t] >= phase[u]
              /\ k \in Piece(bcast_step(u), jcp.nthr_oc_b, ithr_oc_b(t)) /\ sp \in StepSp(u)
            BY <1>4, <1>5, <1>8, <2>1
        <2>3. tr_src[TrPlace(u, k, sp)] = <<img(u), thr[u].g, thr[u].ic_b + k, sp>>
            BY <1>2, <2>2 DEF SourceInv, IsTransposed
        <2>4. More(u)
            <3>1. PlaceIsRight(u, thr[u])
                BY <1>3 DEF ControlInv, PlaceInv
            <3> QED
                BY <1>3, <2>2, <3>1, PlaceNumbers DEF PlaceIsRight
        <2>5. k \in 0..(bcast_step(u) - 1)
            BY <1>3, <2>2, <2>4, PieceOfAStep
        <2>6. TrPlace(u, k, sp) \in DOMAIN tr_src
            BY <1>3, <2>2, <2>4, <2>5, SourceHasThePlace
        <2>7. TrPlace(u, k, sp) \notin TransWrites(w)
            <3> SUFFICES ASSUME NEW l \in MyTrans(w), NEW y
                         PROVE  TrPlace(u, k, sp) # TrPlace(w, l, y)
                BY DEF TransWrites
            <3>1. l \in 0..(bcast_step(w) - 1)
                BY <1>2, <1>3, PieceOfAStep DEF MyTrans
            <3>2. TrPlace(w, l, y) # TrPlace(u, k, sp)
                BY <1>2, <1>3, <1>9, <2>4, <2>5, <3>1, SourcesAreDisjoint
            <3> QED
                BY <3>2
        <2> QED
            BY <1>4, <1>7, <1>8, <2>3, <2>6, <2>7
    <1>10. CASE Mates(w, u)
        <2>1. Place(w) = Place(u)
            <3>1. CASE u = w
                BY <3>1
            <3>2. CASE u # w
                <4>1. thr[u].pc \in {"wait_ready", "multiply"}
                    BY <1>4, <3>2
                <4> QED
                    BY <1>2, <1>10, <3>2, <4>1, ReadersWait
            <3> QED
                BY <3>1, <3>2
        <2>2. /\ img(w) = img(u) /\ bcast_step(w) = bcast_step(u) /\ StepSp(w) = StepSp(u)
              /\ \A l, y : TrPlace(w, l, y) = TrPlace(u, l, y)
              /\ thr[w].g = thr[u].g /\ thr[w].ic_b = thr[u].ic_b
            BY <1>3, <1>10, <2>1, SamePlaceSameStep
        <2>3. CASE t = w
            <3>1. k \in MyTrans(w) /\ sp \in StepSp(w)
                BY <1>8, <2>2, <2>3 DEF MyTrans
            <3> QED
                BY <1>4, <1>6, <1>8, <2>2, <3>1
        <2>4. CASE t # w
            <3>1. Mates(w, t)
                BY <1>10 DEF Mates
            <3>2. Shared
                BY <2>4, <3>1, AloneUnlessShared DEF ControlInv
            <3>3. phase[w] \in Nat /\ phase[t] \in Nat /\ phase[u] \in Nat
                BY <1>3
            <3>4. phase'[u] = phase[w] + 1
                <4>1. CASE u = w
                    BY <1>5, <3>2, <4>1
                <4>2. CASE u # w
                    <5>1. thr[u].pc \in {"wait_ready", "multiply"}
                        BY <1>4, <4>2
                    <5>2. phase[u] = phase[w] + 1
                        BY <1>2, <1>10, <4>2, <5>1, ReadersWait
                    <5> QED
                        BY <1>5, <4>2, <5>2
                <4> QED
                    BY <4>1, <4>2
            <3>5. phase[t] > phase[w]
                BY <1>5, <2>4, <3>3, <3>4
            <3>6. thr[t].pc = "wait_ready" /\ Place(w) = Place(t)
                BY <1>2, <2>4, <3>1, <3>5, ReadersWait
            <3>7. /\ img(w) = img(t) /\ bcast_step(w) = bcast_step(t) /\ StepSp(w) = StepSp(t)
                  /\ \A l, y : TrPlace(w, l, y) = TrPlace(t, l, y)
                  /\ thr[w].g = thr[t].g /\ thr[w].ic_b = thr[t].ic_b
                BY <1>3, <3>1, <3>6, SamePlaceSameStep
            <3>8. k \in Piece(bcast_step(w), jcp.nthr_oc_b, ithr_oc_b(t)) /\ sp \in StepSp(w)
                BY <1>8, <2>2
            <3>9. Mates(t, t) /\ phase[t] >= phase[t]
                BY <3>3 DEF Mates
            <3>10. IsTransposed(t, k)
                BY <1>2, <3>6, <3>7, <3>8, <3>9 DEF SourceInv
            <3>11. tr_src[TrPlace(w, k, sp)] = <<img(w), thr[w].g, thr[w].ic_b + k, sp>>
                BY <3>7, <3>8, <3>10 DEF IsTransposed
            <3>12. k \in 0..(bcast_step(w) - 1) /\ k \in Nat
                BY <1>2, <1>3, <3>8, PieceOfAStep
            <3>13. TrPlace(w, k, sp) \in DOMAIN tr_src
                BY <1>2, <1>3, <3>8, <3>12, SourceHasThePlace
            <3>14. TrPlace(w, k, sp) \notin TransWrites(w)
                <4> SUFFICES ASSUME NEW l \in MyTrans(w), NEW y,
                                    TrPlace(w, k, sp) = TrPlace(w, l, y)
                             PROVE  FALSE
                    BY DEF TransWrites
                <4>1. l \in 0..(bcast_step(w) - 1) /\ l \in Nat
                    BY <1>2, <1>3, PieceOfAStep DEF MyTrans
                <4>2. k = l
                    BY <1>2, <1>3, <3>12, <4>1, BlocksDiffer
                <4>3. jcp.nthr_oc_b \in Nat \ {0} /\ bcast_step(w) \in Nat
                      /\ ithr_oc_b(t) \in 0..(jcp.nthr_oc_b - 1)
                      /\ ithr_oc_b(w) \in 0..(jcp.nthr_oc_b - 1)
                    <5>1. bcast_step(w) \in 1..(ic_b_range(w)[2] - thr[w].ic_b)
                        BY <1>2, <1>3, StepNumbers
                    <5>2. bcast_step(w) \in Nat
                        BY <5>1
                    <5> QED
                        BY <5>2, JcpIsPositive, PlaceOfAThread DEF ControlInv
                <4>4. k \in Piece(bcast_step(w), jcp.nthr_oc_b, ithr_oc_b(w))
                    BY <4>2 DEF MyTrans
                <4>5. ithr_oc_b(t) = ithr_oc_b(w)
                    BY <3>8, <4>3, <4>4, PiecesAreDisjoint
                <4> QED
                    BY <2>4, <3>1, <4>5, PlacesDiffer DEF ControlInv
            <3> QED
                BY <1>4, <1>7, <1>8, <2>2, <3>11, <3>13, <3>14
        <2> QED
            BY <2>3, <2>4
    <1> QED
        BY <1>9, <1>10

\* Who multiplies finds the step's blocks transposed.
LEMMA MultiplyTerms ==
    ASSUME ControlInv, LockInv, SourceInv, NEW t \in Tids, thr[t].pc = "multiply",
           NEW ic \in StepIc(t)
    PROVE  Terms(t, ic) = TermsOf(thr[t].mb_sp_b, thr[t].mb_sp_b + sp_b_step(t))
    <1>1. PlaceIsRight(t, thr[t]) /\ thr[t].pc # "out"
        BY DEF ControlInv, PlaceInv
    <1>2. More(t)
        BY <1>1, PlaceNumbers DEF PlaceIsRight
    <1>3. bcast_step(t) \in 1..(ic_b_range(t)[2] - thr[t].ic_b)
        BY <1>1, <1>2, StepNumbers
    <1>4. thr[t].ic_b \in Nat /\ ic_b_range(t)[2] \in Nat
        BY <1>1, PlaceNumbers, BlocksOfAThread DEF Places, ControlInv
    <1>5. bcast_step(t) \in Nat
        BY <1>3, <1>4
    <1>6. ic - thr[t].ic_b \in 0..(bcast_step(t) - 1) /\ thr[t].ic_b + (ic - thr[t].ic_b) = ic
        <2> DEFINE n == bcast_step(t)
                   i == thr[t].ic_b
        <2>1. ic \in i..(i + n - 1) /\ i \in Nat /\ n \in Nat
            BY <1>4, <1>5 DEF StepIc
        <2> HIDE DEF n, i
        <2>2. ic - i \in 0..(n - 1) /\ i + (ic - i) = ic
            BY <2>1
        <2> QED
            BY <2>2 DEF n, i
    <1>7. ASSUME NEW sp \in StepSp(t)
          PROVE  BlockRead(t, ic, sp) = <<img(t), thr[t].g, ic, sp>>
        <2>1. CASE ~shape.transpose_src
            BY <2>1 DEF BlockRead
        <2>2. CASE shape.transpose_src
            <3> DEFINE k == ic - thr[t].ic_b
            <3>1. jcp.nthr_oc_b \in Nat \ {0}
                BY JcpIsPositive DEF ControlInv
            <3>2. PICK o \in 0..(jcp.nthr_oc_b - 1) : k \in Piece(bcast_step(t), jcp.nthr_oc_b, o)
                BY <1>5, <1>6, <3>1, EveryItemHasAThread
            <3>3. PICK u \in Tids : Mates(t, u) /\ ithr_oc_b(u) = o
                BY EveryMateExists DEF ControlInv
            <3>4. phase[u] >= phase[t]
                <4>1. phase[t] \in Nat
                    BY <1>1, InTheRegion
                <4>2. CASE Shared
                    <5>1. ~Waits(t)
                        BY DEF Waits
                    <5>2. phase[u] >= phase[t] - 0
                        BY <1>1, <2>2, <3>3, <4>2, <5>1 DEF LockInv, BehindInv
                    <5> QED
                        BY <4>1, <5>2
                <4>3. CASE ~Shared
                    <5>1. u = t
                        BY <3>3, <4>3, AloneUnlessShared DEF ControlInv
                    <5> QED
                        BY <4>1, <5>1
                <4> QED
                    BY <4>2, <4>3
            <3>5. IsTransposed(t, k)
                <4>1. Mates(u, t)
                    BY <3>3 DEF Mates
                <4> HIDE DEF k
                <4> QED
                    BY <2>2, <3>2, <3>3, <3>4, <4>1 DEF SourceInv
            <3>6. tr_src[TrPlace(t, k, sp)] = <<img(t), thr[t].g, thr[t].ic_b + k, sp>>
                BY <3>5 DEF IsTransposed
            <3> QED
                BY <1>6, <2>2, <3>6 DEF BlockRead
        <2> QED
            BY <2>1, <2>2
    <1>8. Terms(t, ic) = {<<img(t), sp>> : sp \in StepSp(t)}
        BY <1>7 DEF Terms
    <1> QED
        BY <1>1, <1>2, <1>8, StepNumbers

-----------------------------------------------------------------------------
(* The sums *)

\* A multiplication writes elements of its thread only.
LEMMA MultiplyWritesItsArea ==
    ASSUME ControlInv, NEW t \in Tids, thr[t].pc = "multiply"
    PROVE  MultiplyWrites(t) \subseteq Area(t)
    <1>1. PlaceIsRight(t, thr[t]) /\ thr[t].pc # "out"
        BY DEF ControlInv, PlaceInv
    <1>2. More(t)
        BY <1>1, PlaceNumbers DEF PlaceIsRight
    <1> DEFINE n == bcast_step(t)
               i == thr[t].ic_b
               a == ic_b_range(t)[1]
               b == ic_b_range(t)[2]
    <1>3. n \in 1..(b - i)
        BY <1>1, <1>2, StepNumbers
    <1>4. /\ i \in Nat /\ b \in Nat /\ a \in Nat /\ thr[t].g \in In(g_range(t))
          /\ i \in In(ic_b_range(t))
        BY <1>1, PlaceNumbers, BlocksOfAThread DEF Places, ControlInv
    <1>5. StepIc(t) = i..(i + n - 1) /\ In(ic_b_range(t)) = a..(b - 1)
        BY DEF StepIc, In
    <1> HIDE DEF n, i, a, b
    <1>6. StepIc(t) \subseteq In(ic_b_range(t))
        BY <1>3, <1>4, <1>5
    <1> QED
        BY <1>4, <1>6 DEF MultiplyWrites, Area

\* Threads for the same images have areas of their own.
LEMMA AreasAreOwn ==
    ASSUME JcpInv, NEW t \in Tids, NEW u \in Tids, ithr_mb(t) = ithr_mb(u),
           NEW e, e \in Area(t), e \in Area(u)
    PROVE  t = u
    <1>1. /\ ithr_g(t) = ithr_g(u) /\ ithr_oc_b(t) = ithr_oc_b(u)
          /\ ithr_ic_b(t) = ithr_ic_b(u)
        BY AreasAreDisjoint
    <1> QED
        BY <1>1, MatesAgree, PlacesDiffer

\* A step of the loops is done with exactly the elements it multiplies.
LEMMA UptoAfterAStep ==
    ASSUME ControlInv, NEW t \in Tids, thr[t].pc = "multiply",
           UNCHANGED <<shape, jcp>>, thr'[t] = [NextStep(t) EXCEPT !.pc = "loop"],
           NEW e \in Area(t)
    PROVE  /\ e \in MultiplyWrites(t) => /\ Upto(t, e) = thr[t].mb_sp_b
                                         /\ Upto(t, e)' = thr[t].mb_sp_b + sp_b_step(t)
           /\ e \notin MultiplyWrites(t) => Upto(t, e)' = Upto(t, e)
    <1>1. PlaceIsRight(t, thr[t]) /\ thr[t].pc # "out"
        BY DEF ControlInv, PlaceInv
    <1>2. More(t)
        BY <1>1, PlaceNumbers DEF PlaceIsRight
    <1> DEFINE b == bcast_step(t)
               n == sp_b_step(t)
               a == thr[t].mb_sp_b
               g == thr[t].g
               i == thr[t].ic_b
               i0 == ic_b_range(t)[1]
               i1 == ic_b_range(t)[2]
               g0 == g_range(t)[1]
               g1 == g_range(t)[2]
               x == thr'[t].mb_sp_b
               y == thr'[t].g
               z == thr'[t].ic_b
               m == sp_b_step(t)'
    <1>3. /\ a \in Nat /\ g \in Nat /\ i \in Nat /\ i \in In(ic_b_range(t))
          /\ g \in In(g_range(t))
        BY <1>1, PlaceNumbers DEF Places
    <1>4. i0 \in Nat /\ i1 \in Nat /\ g0 \in Nat /\ g1 \in Nat
        BY BlocksOfAThread DEF ControlInv
    <1>5. b \in 1..(i1 - i)
        BY <1>1, <1>2, StepNumbers
    <1>6. e[1] \in In(g_range(t)) /\ e[2] \in In(oc_b_range(t)) /\ e[3] \in In(ic_b_range(t))
          /\ e = <<e[1], e[2], e[3]>>
        BY DEF Area
    <1>7. \/ x = a /\ y = g /\ z = i + b /\ i + b < i1
          \/ x = a /\ y = g + 1 /\ z = i0 /\ i + b = i1 /\ g + 1 < g1
          \/ x = a + n /\ y = g0 /\ z = i0 /\ i + b = i1 /\ g + 1 = g1
        <2> DEFINE q == NextStep(t)
        <2>1. /\ q \in Places
              /\ \/ q.mb_sp_b = a /\ q.g = g /\ q.ic_b = i + b /\ i + b < i1
                 \/ q.mb_sp_b = a /\ q.g = g + 1 /\ q.ic_b = i0 /\ i + b = i1 /\ g + 1 < g1
                 \/ q.mb_sp_b = a + n /\ q.g = g0 /\ q.ic_b = i0 /\ i + b = i1 /\ g + 1 = g1
            BY <1>1, <1>2, NextNumbers
        <2> HIDE DEF q
        <2>2. thr'[t] = [q EXCEPT !.pc = "loop"]
            BY DEF q
        <2>3. x = q.mb_sp_b /\ y = q.g /\ z = q.ic_b
            BY <2>1, <2>2 DEF Places
        <2> QED
            BY <2>1, <2>3
    <1>8. x = a => m = n
        <2>1. mb_sp_b_range(t)' = mb_sp_b_range(t)
            BY DivisionStays
        <2> QED
            BY <2>1 DEF sp_b_step, sp_b, img_sp
    <1>9. e \in MultiplyWrites(t) <=> e[1] = g /\ e[3] \in i..(i + b - 1)
        BY <1>6 DEF MultiplyWrites, StepIc
    <1>10. Upto(t, e) = IF e[1] < g \/ (e[1] = g /\ e[3] < i) THEN a + n ELSE a
        BY DEF Upto
    <1>11. Upto(t, e)' = IF e[1] < y \/ (e[1] = y /\ e[3] < z) THEN x + m ELSE x
        BY DEF Upto
    <1>12. e[1] \in g0..(g1 - 1) /\ e[3] \in i0..(i1 - 1) /\ i \in i0..(i1 - 1)
           /\ g \in g0..(g1 - 1)
        BY <1>3, <1>6 DEF In
    <1> HIDE DEF b, n, a, g, i, i0, i1, g0, g1, x, y, z, m
    <1>13. b \in Nat /\ b > 0
        BY <1>3, <1>4, <1>5
    <1>14. CASE x = a /\ y = g /\ z = i + b /\ i + b < i1
        <2>1. e \in MultiplyWrites(t) => e[1] = g /\ ~(e[3] < i) /\ e[3] < i + b
            BY <1>3, <1>4, <1>9, <1>12, <1>13
        <2>2. e \notin MultiplyWrites(t) => e[1] # g \/ e[3] < i \/ ~(e[3] < i + b)
            BY <1>3, <1>4, <1>9, <1>12, <1>13
        <2>3. ~(e[3] < i + b) => ~(e[3] < i)
            BY <1>3, <1>4, <1>12, <1>13
        <2>4. e[3] < i => e[3] < i + b
            BY <1>3, <1>4, <1>12, <1>13
        <2>5. e[1] = g => ~(e[1] < g)
            BY <1>3
        <2> QED
            BY <1>8, <1>10, <1>11, <1>14, <2>1, <2>2, <2>3, <2>4, <2>5 DEF a, n
    <1>15. CASE x = a /\ y = g + 1 /\ z = i0 /\ i + b = i1 /\ g + 1 < g1
        <2>1. ~(e[3] < z)
            BY <1>4, <1>12, <1>15
        <2>2. e[1] < y <=> e[1] < g \/ e[1] = g
            BY <1>3, <1>4, <1>12, <1>15
        <2>3. e \in MultiplyWrites(t) <=> e[1] = g /\ ~(e[3] < i)
            BY <1>3, <1>4, <1>9, <1>12, <1>13, <1>15
        <2>4. e[1] = g => ~(e[1] < g)
            BY <1>3
        <2> QED
            BY <1>8, <1>10, <1>11, <1>15, <2>1, <2>2, <2>3, <2>4 DEF a, n
    <1>16. CASE x = a + n /\ y = g0 /\ z = i0 /\ i + b = i1 /\ g + 1 = g1
        <2>1. ~(e[3] < z) /\ ~(e[1] < y)
            BY <1>4, <1>12, <1>16
        <2>2. e[1] < g \/ e[1] = g
            BY <1>3, <1>4, <1>12, <1>16
        <2>3. e \in MultiplyWrites(t) <=> e[1] = g /\ ~(e[3] < i)
            BY <1>3, <1>4, <1>9, <1>12, <1>13, <1>16
        <2>4. e[1] = g => ~(e[1] < g)
            BY <1>3
        <2> QED
            BY <1>10, <1>11, <1>16, <2>1, <2>2, <2>3, <2>4 DEF a, n
    <1> QED
        BY <1>7, <1>14, <1>15, <1>16

\* Two sums without a common term add up to both.
LEMMA TotalOfTwo ==
    ASSUME NEW A, NEW B, A \cap B = {}
    PROVE  Total(<<A, B>>) = A \cup B
    <1> DEFINE f == <<A, B>>
    <1>1. DOMAIN f = {1, 2} /\ f[1] = A /\ f[2] = B
        OBVIOUS
    <1> HIDE DEF f
    <1>2. \A i, j \in DOMAIN f : i # j => f[i] \cap f[j] = {}
        BY <1>1
    <1>3. UNION {f[i] : i \in DOMAIN f} = A \cup B
        BY <1>1
    <1> QED
        BY <1>2, <1>3 DEF Total, f

\* While a thread is in its loops, nothing has been added up.
LEMMA NothingIsSummed ==
    ASSUME ControlInv, NEW t \in Tids, thr[t].pc \notin Ended, NEW e
    PROVE  ~IsSummed(e)
    <1> SUFFICES ASSUME NEW u \in Tids, thr[u].pc = "done", jcp.nthr_mb > 1
                 PROVE  FALSE
        BY DEF IsSummed
    <1>1. AllSummed(u)
        BY DEF ControlInv, SumsInv
    <1> QED
        BY <1>1 DEF AllSummed, Ended

\* A multiplication adds the terms of its step to the elements of its block.
LEMMA MultiplyKeepsWeights ==
    ASSUME ControlInv, LockInv, SourceInv, WeightsInv, NEW w \in Tids, Multiply(w),
           \A u \in Tids : u # w => thr'[u] = thr[u], thr'[w].pc = "loop"
    PROVE  WeightsInv'
    <1>1. /\ Tids' = Tids /\ \A u : Area(u)' = Area(u) /\ First(u)' = First(u)
          /\ \A u : ithr_mb(u)' = ithr_mb(u) /\ SumWrites(u)' = SumWrites(u)
          /\ \A a, b : TermsOf(a, b)' = TermsOf(a, b)
        BY DivisionStays DEF Multiply
    <1>2. UNCHANGED <<shape, jcp>> /\ thr[w].pc = "multiply"
        BY DEF Multiply, At
    <1>3. \A u \in Tids : thr[u].pc # "out"
        BY <1>2, InTheRegion
    <1>4. ithr_mb(w) \in DOMAIN wei
        BY <1>2, InTheRegion, PlaceOfAThread DEF ControlInv
    <1>5. \A e : ~IsSummed(e) /\ ~IsSummed(e)'
        <2> TAKE e
        <2>1. thr[w].pc \notin Ended
            BY <1>2 DEF Ended
        <2>2. ~IsSummed(e)
            BY <2>1, NothingIsSummed
        <2>3. ~IsSummed(e)'
            <3>1. \A u \in Tids : thr'[u].pc = "done" => thr[u].pc = "done"
                OBVIOUS
            <3> QED
                BY <1>1, <1>2, <2>2, <3>1 DEF IsSummed
        <2> QED
            BY <2>2, <2>3
    <1> DEFINE Sum(e) == Total(<<IF ReduceFirst(w) THEN {} ELSE wei[ithr_mb(w)][e],
                                 Terms(w, e[3])>>)
    <1>6. /\ \A m \in DOMAIN wei : m # ithr_mb(w) => wei'[m] = wei[m]
          /\ \A e \in Elements :
                 wei'[ithr_mb(w)][e] = IF e \in MultiplyWrites(w) THEN Sum(e)
                                       ELSE wei[ithr_mb(w)][e]
        <2> HIDE DEF Sum
        <2>1. wei' = [wei EXCEPT ![ithr_mb(w)] =
                        [e \in Elements |-> IF e \in MultiplyWrites(w) THEN Sum(e)
                                            ELSE wei[ithr_mb(w)][e]]]
            BY DEF Multiply, Sum
        <2> QED
            BY <1>4, <2>1
    <1> SUFFICES ASSUME NEW t \in Tids, NEW e \in Area(t), Upto(t, e)' > First(t)
                 PROVE  wei'[ithr_mb(t)][e] = TermsOf(First(t), Upto(t, e)')
        BY <1>1, <1>5 DEF WeightsInv
    <1>7. /\ ithr_mb(t) \in DOMAIN wei /\ e \in Elements
          /\ Upto(t, e) > First(t) => wei[ithr_mb(t)][e] = TermsOf(First(t), Upto(t, e))
        <2>1. ithr_mb(t) \in DOMAIN wei /\ e \in Elements
            BY <1>3, InTheRegion, PlaceOfAThread, BlocksOfAThread DEF ControlInv
        <2> QED
            BY <1>3, <1>5, <2>1 DEF WeightsInv
    <1>8. CASE t # w
        <2>1. Upto(t, e)' = Upto(t, e)
            BY <1>2, <1>8, StepStays
        <2>2. wei'[ithr_mb(t)][e] = wei[ithr_mb(t)][e]
            <3>1. CASE ithr_mb(t) # ithr_mb(w)
                BY <1>6, <1>7, <3>1
            <3>2. CASE ithr_mb(t) = ithr_mb(w)
                <4>1. e \notin MultiplyWrites(w)
                    BY <1>2, <1>8, <3>2, MultiplyWritesItsArea, AreasAreOwn DEF ControlInv
                <4> QED
                    BY <1>6, <1>7, <3>2, <4>1
            <3> QED
                BY <3>1, <3>2
        <2> QED
            BY <1>7, <2>1, <2>2
    <1>9. CASE t = w
        <2> DEFINE a == thr[w].mb_sp_b
                   n == sp_b_step(w)
        <2>1. /\ e \in MultiplyWrites(w) => Upto(w, e) = a /\ Upto(w, e)' = a + n
              /\ e \notin MultiplyWrites(w) => Upto(w, e)' = Upto(w, e)
            <3>1. thr'[w] = [NextStep(w) EXCEPT !.pc = "loop"]
                BY <1>3, <1>2, InTheRegion DEF Multiply
            <3> QED
                BY <1>2, <1>9, <3>1, UptoAfterAStep
        <2>2. CASE e \notin MultiplyWrites(w)
            BY <1>6, <1>7, <1>9, <2>1, <2>2
        <2>3. CASE e \in MultiplyWrites(w)
            <3>1. PlaceIsRight(w, thr[w])
                BY <1>3 DEF ControlInv, PlaceInv
            <3>2. More(w)
                BY <1>2, <1>3, <3>1, PlaceNumbers DEF PlaceIsRight
            <3>3. /\ First(w) \in Nat /\ Last(w) \in Nat /\ a \in First(w)..Last(w)
                BY <1>3, PlaceNumbers
            <3>4. n \in Nat \ {0}
                <4>1. n \in 1..(shape.sp_nb - sp_b(w)) /\ sp_b(w) \in 0..(shape.sp_nb - 1)
                    BY <1>3, <3>2, StepNumbers
                <4>2. shape.sp_nb \in Nat
                    BY ShapeNumbers DEF ControlInv
                <4> HIDE DEF n
                <4> QED
                    BY <4>1, <4>2
            <3>5. Terms(w, e[3]) = TermsOf(a, a + n)
                <4>1. e[3] \in StepIc(w)
                    BY <2>3 DEF MultiplyWrites
                <4> QED
                    BY <1>2, <4>1, MultiplyTerms
            <3>6. ReduceFirst(w) <=> a = First(w)
                BY DEF ReduceFirst, First
            <3> HIDE DEF a, n
            <3>7. a \in Nat /\ a + n \in Nat /\ First(w) <= a /\ a <= a + n
                BY <3>3, <3>4
            <3>8. Sum(e) = TermsOf(First(w), a + n)
                <4>1. CASE a = First(w)
                    <5>1. {} \cap TermsOf(a, a + n) = {}
                        OBVIOUS
                    <5>2. Sum(e) = Total(<<{}, TermsOf(a, a + n)>>)
                        BY <3>5, <3>6, <4>1
                    <5>3. Sum(e) = {} \cup TermsOf(a, a + n)
                        BY <5>1, <5>2, TotalOfTwo
                    <5> QED
                        BY <4>1, <5>3
                <4>2. CASE a # First(w)
                    <5>1. a > First(w)
                        BY <3>3, <3>7, <4>2
                    <5>2. wei[ithr_mb(w)][e] = TermsOf(First(w), a)
                        BY <1>7, <1>9, <2>1, <2>3, <5>1
                    <5>3. Sum(e) = Total(<<TermsOf(First(w), a), TermsOf(a, a + n)>>)
                        BY <3>5, <3>6, <4>2, <5>2
                    <5>4. /\ TermsOf(First(w), a) \cap TermsOf(a, a + n) = {}
                          /\ TermsOf(First(w), a) \cup TermsOf(a, a + n)
                                 = TermsOf(First(w), a + n)
                        BY <3>3, <3>7, TermsAdd DEF ControlInv
                    <5> HIDE DEF Sum
                    <5> QED
                        BY <5>3, <5>4, TotalOfTwo
                <4> QED
                    BY <4>1, <4>2
            <3> HIDE DEF Sum
            <3> QED
                BY <1>6, <1>7, <1>9, <2>1, <2>3, <3>8
        <2> QED
            BY <2>2, <2>3
    <1> QED
        BY <1>8, <1>9

\* Where the sums and the places stay, what is known of the sums does.
LEMMA WeightsStay ==
    ASSUME ControlInv, WeightsInv, UNCHANGED <<shape, jcp, wei>>, NEW t \in Tids,
           thr[t].pc # "out",
           \A u \in Tids : /\ thr'[u].mb_sp_b = thr[u].mb_sp_b /\ thr'[u].g = thr[u].g
                           /\ thr'[u].ic_b = thr[u].ic_b
                           /\ jcp.nthr_mb > 1 => (thr'[u].pc = "done" <=> thr[u].pc = "done")
    PROVE  WeightsInv'
    <1>1. /\ Tids' = Tids /\ AllTerms' = AllTerms
          /\ \A u : Area(u)' = Area(u) /\ First(u)' = First(u)
          /\ \A u : ithr_mb(u)' = ithr_mb(u) /\ SumWrites(u)' = SumWrites(u)
          /\ \A a, b : TermsOf(a, b)' = TermsOf(a, b)
        BY DivisionStays
    <1>2. \A u \in Tids : thr[u].pc # "out"
        BY InTheRegion
    <1> SUFFICES ASSUME NEW u \in Tids, NEW e \in Area(u)
                 PROVE  IF ithr_mb(u) = 0 /\ IsSummed(e)' THEN wei[0][e] = AllTerms
                        ELSE Upto(u, e)' > First(u)
                                 => wei[ithr_mb(u)][e] = TermsOf(First(u), Upto(u, e)')
        BY <1>1 DEF WeightsInv
    <1>3. Upto(u, e)' = Upto(u, e)
        BY StepStays
    <1>4. IsSummed(e)' <=> IsSummed(e)
        BY <1>1 DEF IsSummed
    <1>5. IF ithr_mb(u) = 0 /\ IsSummed(e) THEN wei[0][e] = AllTerms
          ELSE Upto(u, e) > First(u) => wei[ithr_mb(u)][e] = TermsOf(First(u), Upto(u, e))
        BY <1>2 DEF WeightsInv
    <1> QED
        BY <1>3, <1>4, <1>5

-----------------------------------------------------------------------------
(* Adding up *)

\* The number of an element in the area of a thread.
Index(t, e) ==
    ((e[1] - g_range(t)[1]) * Work(oc_b_range(t)) + (e[2] - oc_b_range(t)[1]))
        * Work(ic_b_range(t)) + (e[3] - ic_b_range(t)[1])

AreaSize(t) == Work(g_range(t)) * Work(oc_b_range(t)) * Work(ic_b_range(t))

\* An element of an area has an index there, and the index decides who adds it up.
LEMMA SumIndex ==
    ASSUME JcpInv, NEW t \in Tids
    PROVE  /\ AreaSize(t) \in Nat
           /\ \A e \in Area(t) : Index(t, e) \in 0..(AreaSize(t) - 1)
           /\ \A e : e \in SumWrites(t) <=> e \in Area(t) /\ Index(t, e) \in MySum(t)
    <1> DEFINE g0 == g_range(t)[1]
               o0 == oc_b_range(t)[1]
               i0 == ic_b_range(t)[1]
               G == Work(g_range(t))
               O == Work(oc_b_range(t))
               I == Work(ic_b_range(t))
    <1>1. \A r \in {g_range(t), oc_b_range(t), ic_b_range(t)} :
              r[1] \in Nat /\ r[2] \in Nat /\ r[1] < r[2]
        BY BlocksOfAThread
    <1>2. /\ g0 \in Nat /\ o0 \in Nat /\ i0 \in Nat
          /\ G \in Nat \ {0} /\ O \in Nat \ {0} /\ I \in Nat \ {0}
          /\ In(g_range(t)) = g0..(g0 + G - 1) /\ In(oc_b_range(t)) = o0..(o0 + O - 1)
          /\ In(ic_b_range(t)) = i0..(i0 + I - 1)
        <2>1. \A r \in {g_range(t), oc_b_range(t), ic_b_range(t)} :
                  Work(r) \in Nat \ {0} /\ In(r) = r[1]..(r[1] + Work(r) - 1)
            <3> TAKE r \in {g_range(t), oc_b_range(t), ic_b_range(t)}
            <3> DEFINE a == r[1]
                       b == r[2]
            <3>1. a \in Nat /\ b \in Nat /\ a < b
                BY <1>1
            <3>2. Work(r) = b - a /\ In(r) = a..(b - 1)
                BY DEF Work, In
            <3> HIDE DEF a, b
            <3>3. b - a \in Nat \ {0} /\ b - 1 = a + (b - a - 1)
                BY <3>1
            <3>4. b - 1 = a + (Work(r) - 1)
                BY <3>1, <3>2
            <3>5. In(r) = a..(a + Work(r) - 1)
                BY <3>2, <3>4
            <3> QED
                BY <3>2, <3>3, <3>5 DEF a
        <2> QED
            BY <1>1, <2>1
    <1>3. Area(t) = (g0..(g0 + G - 1)) \X (o0..(o0 + O - 1)) \X (i0..(i0 + I - 1))
        BY <1>2 DEF Area
    <1>4. \A e : Index(t, e) = ((e[1] - g0) * O + (e[2] - o0)) * I + (e[3] - i0)
        BY DEF Index
    <1>5. AreaSize(t) = G * O * I
        BY DEF AreaSize
    <1>6. SumWrites(t) = {<<g0 + ((w \div I) \div O), o0 + ((w \div I) % O), i0 + (w % I)>> :
                             w \in MySum(t)}
        BY DEF SumWrites
    <1>7. MySum(t) = Piece(G * O * I, jcp.nthr_mb, ithr_mb(t))
        BY DEF MySum
    <1>8. jcp.nthr_mb \in Nat \ {0} /\ ithr_mb(t) \in 0..(jcp.nthr_mb - 1)
        BY JcpIsPositive, PlaceOfAThread
    <1> HIDE DEF g0, o0, i0, G, O, I
    <1> DEFINE Positive == G \in Nat \ {0} /\ O \in Nat \ {0} /\ I \in Nat \ {0}
               Starts == g0 \in Nat /\ o0 \in Nat /\ i0 \in Nat
    <1>8a. Positive /\ Starts
        BY <1>2
    <1>9. G * O \in Nat \ {0} /\ G * O * I \in Nat \ {0}
        <2>1. G * O \in Nat \ {0}
            BY <1>2, ProductIsPositive
        <2> QED
            BY <1>2, <2>1, ProductIsPositive
    <1>10. ASSUME NEW e \in Area(t)
           PROVE  LET w == Index(t, e)
                  IN  /\ w \in 0..(G * O * I - 1)
                      /\ e = <<g0 + ((w \div I) \div O), o0 + ((w \div I) % O), i0 + (w % I)>>
        <2> DEFINE a == e[1] - g0
                   b == e[2] - o0
                   c == e[3] - i0
                   y == a * O + b
                   w == y * I + c
        <2>1. /\ e = <<e[1], e[2], e[3]>> /\ e[1] \in g0..(g0 + G - 1)
              /\ e[2] \in o0..(o0 + O - 1) /\ e[3] \in i0..(i0 + I - 1)
            BY <1>3
        <2>2. /\ a \in 0..(G - 1) /\ b \in 0..(O - 1) /\ c \in 0..(I - 1)
              /\ e[1] = g0 + a /\ e[2] = o0 + b /\ e[3] = i0 + c
            <3> DEFINE e1 == e[1]
                       e2 == e[2]
                       e3 == e[3]
            <3>1. e1 \in g0..(g0 + G - 1) /\ e2 \in o0..(o0 + O - 1) /\ e3 \in i0..(i0 + I - 1)
                BY <2>1
            <3> HIDE DEF e1, e2, e3
            <3>2. e1 - g0 \in 0..(G - 1) /\ e1 = g0 + (e1 - g0)
                BY <1>8a, <3>1
            <3>3. e2 - o0 \in 0..(O - 1) /\ e2 = o0 + (e2 - o0)
                BY <1>8a, <3>1
            <3>4. e3 - i0 \in 0..(I - 1) /\ e3 = i0 + (e3 - i0)
                BY <1>8a, <3>1
            <3> QED
                BY <3>2, <3>3, <3>4 DEF e1, e2, e3
        <2>3. Index(t, e) = w
            BY <1>4
        <2> HIDE DEF a, b, c
        <2>4. y \in 0..(G * O - 1) /\ y \div O = a /\ y % O = b
            <3>1. /\ G \in Nat \ {0} /\ O \in Nat \ {0} /\ a \in 0..(G - 1) /\ b \in 0..(O - 1)
                BY <1>8a, <2>2
            <3> QED
                BY <3>1, NumberOfAPair
        <2> HIDE DEF y
        <2>5. w \in 0..((G * O) * I - 1) /\ w \div I = y /\ w % I = c
            <3> DEFINE K == G * O
            <3>1. K \in Nat \ {0} /\ I \in Nat \ {0} /\ y \in 0..(K - 1) /\ c \in 0..(I - 1)
                BY <1>8a, <1>9, <2>2, <2>4
            <3> HIDE DEF K
            <3>2. w \in 0..(K * I - 1) /\ w \div I = y /\ w % I = c
                BY <3>1, NumberOfAPair
            <3> QED
                BY <3>2 DEF K
        <2> HIDE DEF w
        <2>6. e = <<g0 + ((w \div I) \div O), o0 + ((w \div I) % O), i0 + (w % I)>>
            BY <2>1, <2>2, <2>4, <2>5
        <2> QED
            BY <2>3, <2>5, <2>6
    <1>11. ASSUME NEW w \in MySum(t)
           PROVE  LET e == <<g0 + ((w \div I) \div O), o0 + ((w \div I) % O), i0 + (w % I)>>
                  IN  e \in Area(t) /\ Index(t, e) = w
        <2> DEFINE N == G * O * I
                   s == balance211_start(N, jcp.nthr_mb, ithr_mb(t))
                   f == balance211_end(N, jcp.nthr_mb, ithr_mb(t))
        <2>1. w \in s..(f - 1)
            BY <1>7 DEF Piece
        <2>2. s \in Nat /\ f \in 0..N
            BY <1>8, <1>9, PieceBounds
        <2> HIDE DEF s, f
        <2>3. w \in 0..(N - 1)
            BY <1>9, <2>1, <2>2
        <2> DEFINE y == w \div I
                   c == w % I
        <2>4. y \in 0..(G * O - 1) /\ c \in 0..(I - 1) /\ w = y * I + c
            BY <1>2, <1>9, <2>3, PairsOfANumber
        <2> HIDE DEF y, c
        <2> DEFINE a == y \div O
                   b == y % O
        <2>5. a \in 0..(G - 1) /\ b \in 0..(O - 1) /\ y = a * O + b
            BY <1>2, <2>4, PairsOfANumber
        <2> HIDE DEF a, b
        <2> DEFINE e == <<g0 + a, o0 + b, i0 + c>>
        <2>6. /\ e[1] = g0 + a /\ e[2] = o0 + b /\ e[3] = i0 + c
              /\ e = <<e[1], e[2], e[3]>>
            OBVIOUS
        <2>7. e \in Area(t)
            BY <1>2, <1>3, <2>4, <2>5
        <2>8. e[1] - g0 = a /\ e[2] - o0 = b /\ e[3] - i0 = c
            BY <1>2, <2>4, <2>5, <2>6
        <2> HIDE DEF e
        <2>9. Index(t, e) = w
            BY <1>4, <2>4, <2>5, <2>8
        <2> QED
            BY <2>7, <2>9 DEF e, a, b, y, c
    <1>12. \A e : e \in SumWrites(t) <=> e \in Area(t) /\ Index(t, e) \in MySum(t)
        <2> TAKE e
        <2>1. ASSUME e \in SumWrites(t) PROVE e \in Area(t) /\ Index(t, e) \in MySum(t)
            <3>1. PICK w \in MySum(t) :
                      e = <<g0 + ((w \div I) \div O), o0 + ((w \div I) % O), i0 + (w % I)>>
                BY <1>6, <2>1
            <3> QED
                BY <1>11, <3>1
        <2>2. ASSUME e \in Area(t), Index(t, e) \in MySum(t) PROVE e \in SumWrites(t)
            BY <1>6, <1>10, <2>2
        <2> QED
            BY <2>1, <2>2
    <1> QED
        BY <1>5, <1>9, <1>10, <1>12

\* No element is added up by two threads.
LEMMA SumsAreOwn ==
    ASSUME JcpInv, NEW t \in Tids, NEW u \in Tids, NEW e, e \in SumWrites(t), e \in SumWrites(u)
    PROVE  t = u
    <1>1. /\ e \in Area(t) /\ Index(t, e) \in MySum(t)
          /\ e \in Area(u) /\ Index(u, e) \in MySum(u)
        BY SumIndex
    <1>2. /\ ithr_g(t) = ithr_g(u) /\ ithr_oc_b(t) = ithr_oc_b(u)
          /\ ithr_ic_b(t) = ithr_ic_b(u)
        BY <1>1, AreasAreDisjoint
    <1>3. g_range(t) = g_range(u) /\ oc_b_range(t) = oc_b_range(u) /\ ic_b_range(t) = ic_b_range(u)
        BY <1>2 DEF g_range, oc_b_range, ic_b_range
    <1>4. Index(t, e) = Index(u, e) /\ AreaSize(t) = AreaSize(u)
        BY <1>3 DEF Index, AreaSize
    <1>5. /\ MySum(t) = Piece(AreaSize(t), jcp.nthr_mb, ithr_mb(t))
          /\ MySum(u) = Piece(AreaSize(u), jcp.nthr_mb, ithr_mb(u))
        BY DEF MySum, AreaSize
    <1>6. /\ AreaSize(t) \in Nat /\ jcp.nthr_mb \in Nat \ {0}
          /\ ithr_mb(t) \in 0..(jcp.nthr_mb - 1) /\ ithr_mb(u) \in 0..(jcp.nthr_mb - 1)
        BY SumIndex, JcpIsPositive, PlaceOfAThread
    <1>7. ithr_mb(t) = ithr_mb(u)
        <2> DEFINE x == Index(t, e)
                   n == AreaSize(t)
                   m == jcp.nthr_mb
        <2>1. x \in Piece(n, m, ithr_mb(t)) /\ x \in Piece(n, m, ithr_mb(u))
            BY <1>1, <1>4, <1>5
        <2>2. n \in Nat /\ m \in Nat \ {0} /\ ithr_mb(t) \in 0..(m - 1) /\ ithr_mb(u) \in 0..(m - 1)
            BY <1>6
        <2> HIDE DEF x, n, m
        <2> QED
            BY <2>1, <2>2, PiecesAreDisjoint
    <1> QED
        BY <1>1, <1>7, AreasAreOwn

\* And every one by some thread.
LEMMA EverythingIsSummed ==
    ASSUME JcpInv, NEW e \in Elements
    PROVE  \E t \in Tids : e \in SumWrites(t)
    <1>1. jcp.nthr_mb \in Nat \ {0}
        BY JcpIsPositive
    <1>2. PICK t \in Tids : ithr_mb(t) = 0 /\ e \in Area(t)
        <2>1. 0 \in 0..(jcp.nthr_mb - 1)
            BY <1>1
        <2> QED
            BY <2>1, AreasCover
    <1>3. AreaSize(t) \in Nat /\ Index(t, e) \in 0..(AreaSize(t) - 1)
        BY <1>2, SumIndex
    <1>4. PICK m \in 0..(jcp.nthr_mb - 1) : Index(t, e) \in Piece(AreaSize(t), jcp.nthr_mb, m)
        BY <1>1, <1>3, EveryItemHasAThread
    <1> DEFINE u == ThreadAt(m, ithr_g(t), ithr_oc_b(t), ithr_ic_b(t))
    <1>5. /\ ithr_g(t) \in 0..(jcp.nthr_g - 1) /\ ithr_oc_b(t) \in 0..(jcp.nthr_oc_b - 1)
          /\ ithr_ic_b(t) \in 0..(jcp.nthr_ic_b - 1)
        BY PlaceOfAThread
    <1>6. /\ u \in Tids /\ ithr_mb(u) = m /\ ithr_g(u) = ithr_g(t)
          /\ ithr_oc_b(u) = ithr_oc_b(t) /\ ithr_ic_b(u) = ithr_ic_b(t)
        BY <1>5, ThreadOfAPlace
    <1> HIDE DEF u
    <1>7. g_range(t) = g_range(u) /\ oc_b_range(t) = oc_b_range(u) /\ ic_b_range(t) = ic_b_range(u)
        BY <1>6 DEF g_range, oc_b_range, ic_b_range
    <1>8. Index(t, e) = Index(u, e) /\ AreaSize(t) = AreaSize(u) /\ e \in Area(u)
        BY <1>2, <1>7 DEF Index, AreaSize, Area
    <1>9. Index(u, e) \in MySum(u)
        BY <1>4, <1>6, <1>8 DEF MySum, AreaSize
    <1> QED
        BY <1>6, <1>8, <1>9, SumIndex

\* The images' terms are all terms, each once.
LEMMA ImagesAddUp ==
    ASSUME JcpInv
    PROVE  Total([m \in 0..(jcp.nthr_mb - 1) |-> TermsOf(Images(m)[1], Images(m)[2])]) = AllTerms
    <1> DEFINE M == 0..(jcp.nthr_mb - 1)
               W == shape.mb * shape.sp_nb
               T(m) == TermsOf(Images(m)[1], Images(m)[2])
               f == [m \in M |-> T(m)]
    <1>1. M \subseteq Nat /\ W \in Nat
        BY JcpIsPositive, ShapeNumbers
    <1>2. \A m \in M : /\ Images(m)[1] \in Nat /\ Images(m)[2] \in Nat
                       /\ Images(m)[1] < Images(m)[2] /\ Images(m)[2] <= W
                       /\ \A k \in M : m < k => Images(m)[2] <= Images(k)[1]
        BY ImagesDivide
    <1>3. ASSUME NEW i \in M, NEW j \in M, i < j
          PROVE  T(i) \cap T(j) = {}
        <2> SUFFICES ASSUME NEW x \in In(Images(i)), NEW y \in In(Images(j)),
                            <<x \div shape.sp_nb, x % shape.sp_nb>>
                                = <<y \div shape.sp_nb, y % shape.sp_nb>>
                     PROVE  FALSE
            BY DEF TermsOf, In
        <2>1. Images(i)[2] <= Images(j)[1]
            BY <1>2, <1>3
        <2> DEFINE a == Images(i)[1]
                   b == Images(i)[2]
                   c == Images(j)[1]
                   d == Images(j)[2]
        <2>2. x \in a..(b - 1) /\ y \in c..(d - 1)
            BY DEF In
        <2>3. a \in Nat /\ b \in Nat /\ c \in Nat /\ d \in Nat
            BY <1>2
        <2>4. b <= c
            BY <2>1
        <2> HIDE DEF a, b, c, d
        <2>5. x \in Nat /\ y \in Nat /\ x < y
            BY <2>2, <2>3, <2>4
        <2> QED
            BY <2>5, TermsAreDistinct
    <1>4. DOMAIN f = M /\ \A m \in M : f[m] = T(m)
        OBVIOUS
    <1>5. \A i, j \in DOMAIN f : i # j => f[i] \cap f[j] = {}
        <2> SUFFICES ASSUME NEW i \in M, NEW j \in M, i # j PROVE T(i) \cap T(j) = {}
            BY <1>4
        <2>1. i \in Nat /\ j \in Nat
            BY <1>1
        <2>2. i < j \/ j < i
            BY <2>1
        <2> QED
            BY <1>3, <2>2
    <1>6. UNION {f[m] : m \in DOMAIN f} = AllTerms
        <2>1. UNION {f[m] : m \in DOMAIN f} = UNION {T(m) : m \in M}
            BY <1>4
        <2>2. ASSUME NEW m \in M, NEW v \in T(m) PROVE v \in AllTerms
            <3>1. PICK x \in Images(m)[1]..(Images(m)[2] - 1) :
                      v = <<x \div shape.sp_nb, x % shape.sp_nb>>
                BY DEF TermsOf
            <3> DEFINE a == Images(m)[1]
                       b == Images(m)[2]
            <3>2. a \in Nat /\ b \in Nat /\ b <= W /\ x \in a..(b - 1)
                BY <1>2
            <3> HIDE DEF a, b, W
            <3>3. x \in 0..(W - 1)
                BY <1>1, <3>2
            <3> QED
                BY <3>1, <3>3 DEF AllTerms, TermsOf, W
        <2>3. ASSUME NEW v \in AllTerms PROVE \E m \in M : v \in T(m)
            <3>1. PICK x \in 0..(W - 1) : v = <<x \div shape.sp_nb, x % shape.sp_nb>>
                BY DEF AllTerms, TermsOf
            <3>2. PICK m \in M : x \in In(Images(m))
                BY ImagesCover
            <3>3. v \in T(m)
                BY <3>1, <3>2 DEF TermsOf, In
            <3> QED
                BY <3>3
        <2> HIDE DEF M, T, f
        <2>4. UNION {T(m) : m \in M} = AllTerms
            BY <2>2, <2>3
        <2> QED
            BY <2>1, <2>4
    <1> HIDE DEF f
    <1>7. Total(f) = AllTerms
        BY <1>5, <1>6 DEF Total
    <1> QED
        BY <1>7 DEF f

\* A thread past its loops has come past all of its places with each element.
LEMMA EndedIsAtTheEnd ==
    ASSUME ControlInv, NEW t \in Tids, thr[t].pc \in Ended, NEW e \in Area(t)
    PROVE  Upto(t, e) = Last(t) /\ Upto(t, e) > First(t)
    <1>1. thr[t].pc # "out"
        BY DEF Ended
    <1>2. PlaceIsRight(t, thr[t])
        BY <1>1 DEF ControlInv, PlaceInv
    <1>3. thr[t].mb_sp_b = Last(t) /\ thr[t].g = g_range(t)[1] /\ thr[t].ic_b = ic_b_range(t)[1]
        BY <1>2 DEF PlaceIsRight
    <1>4. e[1] \in In(g_range(t)) /\ e[3] \in In(ic_b_range(t))
        BY DEF Area
    <1>5. \A r \in {g_range(t), ic_b_range(t)} : r[1] \in Nat /\ r[2] \in Nat
        BY BlocksOfAThread DEF ControlInv
    <1>6. ~(e[1] < g_range(t)[1]) /\ ~(e[3] < ic_b_range(t)[1])
        BY <1>4, <1>5 DEF In
    <1>7. First(t) \in Nat /\ Last(t) \in Nat /\ First(t) < Last(t)
        BY <1>1, PlaceNumbers
    <1>8. Upto(t, e) = Last(t)
        BY <1>3, <1>6 DEF Upto
    <1> QED
        BY <1>7, <1>8

\* Adding up makes complete what the thread adds up, and nothing else changes.
LEMMA SumUpKeepsWeights ==
    ASSUME ControlInv, WeightsInv, NEW w \in Tids, SumUp(w),
           \A u \in Tids : u # w => thr'[u] = thr[u], thr'[w].pc = "done",
           \A u \in Tids : /\ thr'[u].mb_sp_b = thr[u].mb_sp_b /\ thr'[u].g = thr[u].g
                           /\ thr'[u].ic_b = thr[u].ic_b
    PROVE  WeightsInv'
    <1>1. /\ Tids' = Tids /\ AllTerms' = AllTerms
          /\ \A u : Area(u)' = Area(u) /\ First(u)' = First(u)
          /\ \A u : ithr_mb(u)' = ithr_mb(u) /\ SumWrites(u)' = SumWrites(u)
          /\ \A a, b : TermsOf(a, b)' = TermsOf(a, b)
        BY DivisionStays DEF SumUp
    <1>2. UNCHANGED <<shape, jcp>> /\ thr[w].pc = "sum"
        BY DEF SumUp, At
    <1>3. \A u \in Tids : thr[u].pc \in Ended
        <2>1. AllSummed(w)
            BY <1>2 DEF ControlInv, SumsInv
        <2> QED
            BY <2>1 DEF AllSummed, Ended
    <1>4. jcp.nthr_mb > 1 /\ jcp.nthr_mb \in Nat
        <2>1. PlaceIsRight(w, thr[w])
            BY <1>2 DEF ControlInv, PlaceInv
        <2> QED
            BY <1>2, <2>1, JcpIsPositive DEF PlaceIsRight, ControlInv
    <1>5. DOMAIN wei = 0..(jcp.nthr_mb - 1) /\ 0 \in DOMAIN wei
        <2>1. DOMAIN wei = 0..(jcp.nthr_mb - 1)
            BY <1>2, InTheRegion
        <2> QED
            BY <1>4, <2>1
    <1> DEFINE Sum(e) == Total([m \in 0..(jcp.nthr_mb - 1) |-> wei[m][e]])
    <1>6. /\ \A m \in DOMAIN wei : m # 0 => wei'[m] = wei[m]
          /\ \A e \in Elements : wei'[0][e] = IF e \in SumWrites(w) THEN Sum(e) ELSE wei[0][e]
        <2> HIDE DEF Sum
        <2>1. wei' = [wei EXCEPT ![0] =
                        [e \in Elements |-> IF e \in SumWrites(w) THEN Sum(e) ELSE wei[0][e]]]
            BY DEF SumUp, Sum
        <2> QED
            BY <1>5, <2>1
    <1>7. \A e : IsSummed(e)' <=> IsSummed(e) \/ e \in SumWrites(w)
        <2> TAKE e
        <2>1. \A u \in Tids : thr'[u].pc = "done" <=> thr[u].pc = "done" \/ u = w
            BY <1>2
        <2> QED
            BY <1>1, <1>2, <1>4, <2>1 DEF IsSummed
    <1>8. \A u \in Tids : \A e \in Area(u) :
              IF ithr_mb(u) = 0 /\ IsSummed(e) THEN wei[0][e] = AllTerms
              ELSE wei[ithr_mb(u)][e] = TermsOf(First(u), Last(u))
        <2> SUFFICES ASSUME NEW u \in Tids, NEW e \in Area(u)
                     PROVE  IF ithr_mb(u) = 0 /\ IsSummed(e) THEN wei[0][e] = AllTerms
                            ELSE wei[ithr_mb(u)][e] = TermsOf(First(u), Last(u))
            OBVIOUS
        <2>1. Upto(u, e) = Last(u) /\ Upto(u, e) > First(u)
            BY <1>3, EndedIsAtTheEnd
        <2>2. thr[u].pc # "out"
            BY <1>3 DEF Ended
        <2> QED
            BY <2>1, <2>2 DEF WeightsInv
    <1>9. ASSUME NEW e \in SumWrites(w) PROVE Sum(e) = AllTerms
        <2>1. ~IsSummed(e)
            BY <1>2, <1>9, SumsAreOwn DEF IsSummed, ControlInv
        <2>2. e \in Elements
            BY SumIndex, BlocksOfAThread DEF ControlInv
        <2>3. ASSUME NEW m \in 0..(jcp.nthr_mb - 1)
              PROVE  wei[m][e] = TermsOf(Images(m)[1], Images(m)[2])
            <3>1. PICK u \in Tids : ithr_mb(u) = m /\ e \in Area(u)
                BY <2>2, AreasCover DEF ControlInv
            <3>2. wei[m][e] = TermsOf(First(u), Last(u))
                BY <1>8, <2>1, <3>1
            <3>3. First(u) = Images(m)[1] /\ Last(u) = Images(m)[2]
                BY <3>1, ImagesOfAThread DEF First, Last
            <3> QED
                BY <3>2, <3>3
        <2>4. [m \in 0..(jcp.nthr_mb - 1) |-> wei[m][e]]
                  = [m \in 0..(jcp.nthr_mb - 1) |-> TermsOf(Images(m)[1], Images(m)[2])]
            BY <2>3
        <2> QED
            BY <2>4, ImagesAddUp DEF ControlInv
    <1> SUFFICES ASSUME NEW t \in Tids, NEW e \in Area(t)
                 PROVE  IF ithr_mb(t) = 0 /\ IsSummed(e)' THEN wei'[0][e] = AllTerms
                        ELSE Upto(t, e)' > First(t)
                                 => wei'[ithr_mb(t)][e] = TermsOf(First(t), Upto(t, e)')
        BY <1>1 DEF WeightsInv
    <1>10. Upto(t, e)' = Last(t)
        <2>1. Upto(t, e)' = Upto(t, e)
            BY <1>2, StepStays
        <2> QED
            BY <1>3, <2>1, EndedIsAtTheEnd
    <1>11. e \in Elements /\ ithr_mb(t) \in DOMAIN wei
        BY <1>5, BlocksOfAThread, PlaceOfAThread DEF ControlInv
    <1> HIDE DEF Sum
    <1>12. CASE ithr_mb(t) = 0 /\ IsSummed(e)'
        <2>1. CASE e \in SumWrites(w)
            BY <1>6, <1>9, <1>11, <1>12, <2>1
        <2>2. CASE e \notin SumWrites(w)
            <3>1. IsSummed(e)
                BY <1>7, <1>12, <2>2
            <3>2. wei[0][e] = AllTerms
                BY <1>8, <1>12, <3>1
            <3> QED
                BY <1>6, <1>11, <1>12, <2>2, <3>2
        <2> QED
            BY <2>1, <2>2
    <1>13. CASE ithr_mb(t) = 0 /\ ~IsSummed(e)'
        <2>1. ~IsSummed(e) /\ e \notin SumWrites(w)
            BY <1>7, <1>13
        <2>2. wei[ithr_mb(t)][e] = TermsOf(First(t), Last(t))
            BY <1>8, <2>1
        <2> QED
            BY <1>6, <1>10, <1>11, <1>13, <2>1, <2>2
    <1>14. CASE ithr_mb(t) # 0
        <2>1. wei[ithr_mb(t)][e] = TermsOf(First(t), Last(t))
            BY <1>8, <1>14
        <2> QED
            BY <1>6, <1>10, <1>11, <1>14, <2>1
    <1> QED
        BY <1>12, <1>13, <1>14

-----------------------------------------------------------------------------
(* The steps *)

\* A thread that goes on to p without leaving its place.
LEMMA GotoKeepsControl ==
    ASSUME ControlInv, NEW t \in Tids, thr[t].pc # "out", NEW p \in Pcs \ {"out"}, Goto(t, p),
           UNCHANGED <<shape, jcp>>, phase' \in [Tids -> Nat],
           DOMAIN tr_src' = DOMAIN tr_src, DOMAIN wei' = DOMAIN wei,
           p \in {"wait_free", "transpose", "wait_ready", "multiply"} => More(t),
           p \in {"wait_free", "transpose", "wait_ready"} => shape.transpose_src,
           p \in {"wait_free", "wait_ready"} => Shared,
           p \in Ended => ~More(t),
           p \in {"wait_sums", "sum"} => jcp.nthr_mb > 1,
           thr[t].pc \in Ended => p \in Ended,
           p = "sum" \/ (p = "done" /\ jcp.nthr_mb > 1) => AllSummed(t)
    PROVE  /\ ControlInv'
           /\ thr'[t].pc = p /\ \A u \in Tids : u # t => thr'[u] = thr[u]
           /\ \A u \in Tids : /\ thr'[u].mb_sp_b = thr[u].mb_sp_b /\ thr'[u].g = thr[u].g
                              /\ thr'[u].ic_b = thr[u].ic_b
           /\ \A u \in Tids : /\ Place(u)' = Place(u) /\ NextPlace(u)' = NextPlace(u)
                              /\ u # t => /\ (Odd(u)' <=> Odd(u)) /\ (Waits(u)' <=> Waits(u))
                                          /\ Coming(u)' = Coming(u)
    <1>1. thr \in [Tids -> Places]
        BY InTheRegion
    <1>2. /\ thr' \in [Tids -> Places] /\ thr'[t].pc = p
          /\ \A u \in Tids : u # t => thr'[u] = thr[u]
          /\ \A u \in Tids : /\ thr'[u].mb_sp_b = thr[u].mb_sp_b /\ thr'[u].g = thr[u].g
                             /\ thr'[u].ic_b = thr[u].ic_b
        BY <1>1, GotoFacts
    <1>3. PlaceIsRight(t, thr[t])
        BY DEF ControlInv, PlaceInv
    <1>4. PlaceIsRight(t, thr'[t])
        <2>1. /\ More(t) <=> thr[t].mb_sp_b < Last(t)
              /\ thr[t].mb_sp_b \in First(t)..Last(t) /\ First(t) \in Nat /\ Last(t) \in Nat
            BY PlaceNumbers
        <2>2. ~More(t) => thr[t].mb_sp_b = Last(t)
            BY <2>1
        <2> QED
            BY <1>2, <1>3, <2>1, <2>2 DEF PlaceIsRight
    <1>5. ControlInv'
        <2>1. thr'[t].pc # "out"
            BY <1>2
        <2>2. thr[t].pc \in Ended => thr'[t].pc \in Ended
            BY <1>2
        <2>3. thr'[t].pc = "sum" \/ (thr'[t].pc = "done" /\ jcp.nthr_mb > 1) => AllSummed(t)
            BY <1>2
        <2> QED
            BY <1>2, <1>4, <2>1, <2>2, <2>3, StepKeepsControl
    <1>6. \A u \in Tids : Place(u)' = Place(u) /\ NextPlace(u)' = NextPlace(u)
        <2> TAKE u \in Tids
        <2>1. thr[u] \in Places /\ thr'[u] \in Places
            BY <1>1, <1>2
        <2> QED
            BY <1>2, <2>1, StepStays
    <1>7. \A u \in Tids : u # t => /\ (Odd(u)' <=> Odd(u)) /\ (Waits(u)' <=> Waits(u))
                                   /\ Coming(u)' = Coming(u)
        BY <1>2, <1>6 DEF Odd, Waits, Coming
    <1> QED
        BY <1>2, <1>5, <1>6, <1>7

\* The invariant is kept by the start of a step, ...
LEMMA BeginStepKeepsInv ==
    ASSUME ConvInv, NEW t \in Tids, BeginStep(t)
    PROVE  ConvInv'
    <1> DEFINE p == IF shape.transpose_src
                    THEN IF Shared THEN "wait_free" ELSE "transpose" ELSE "multiply"
    <1>1. ControlInv /\ LockInv /\ SourceInv /\ WeightsInv
        BY DEF ConvInv
    <1>2. /\ thr[t].pc = "loop" /\ More(t) /\ Goto(t, p)
          /\ UNCHANGED <<shape, jcp, tr_src, wei>>
          /\ shape.transpose_src /\ Shared => Arrives(t)
          /\ ~(shape.transpose_src /\ Shared) => UNCHANGED phase
        BY DEF BeginStep, At
    <1>3. phase \in [Tids -> Nat] /\ \A u \in Tids : thr[u].pc # "out"
        BY <1>1, <1>2, InTheRegion
    <1>4. phase' \in [Tids -> Nat]
        BY <1>2, <1>3 DEF Arrives
    <1>5. /\ ControlInv'
          /\ thr'[t].pc = p /\ \A u \in Tids : u # t => thr'[u] = thr[u]
          /\ \A u \in Tids : /\ thr'[u].mb_sp_b = thr[u].mb_sp_b /\ thr'[u].g = thr[u].g
                             /\ thr'[u].ic_b = thr[u].ic_b
          /\ \A u \in Tids : /\ Place(u)' = Place(u)
                             /\ u # t => /\ (Odd(u)' <=> Odd(u)) /\ (Waits(u)' <=> Waits(u))
                                         /\ Coming(u)' = Coming(u)
        <2>1. /\ p \in Pcs \ {"out"} /\ p \notin Ended
              /\ p \in {"wait_free", "transpose", "wait_ready"} => shape.transpose_src
              /\ p \in {"wait_free", "wait_ready"} => Shared
            BY DEF Pcs, Ended
        <2>2. thr[t].pc \notin Ended /\ p # "sum" /\ p # "done" /\ p # "wait_sums"
            BY <1>2 DEF Ended
        <2> HIDE DEF p
        <2> QED
            BY <1>1, <1>2, <1>3, <1>4, <2>1, <2>2, GotoKeepsControl
    <1>6. LockInv'
        <2>1. CASE shape.transpose_src /\ Shared
            <3>1. ~Waits(t) /\ ~Odd(t) /\ Coming(t) = Place(t)
                BY <1>2 DEF Waits, Odd, Coming
            <3>2. Waits(t)' /\ Odd(t)' /\ Coming(t)' = Place(t)'
                BY <1>5, <2>1 DEF Waits, Odd, Coming
            <3> QED
                BY <1>1, <1>2, <1>3, <1>5, <2>1, <3>1, <3>2, ArrivalKeepsLock
        <2>2. CASE ~(shape.transpose_src /\ Shared)
            BY <1>2, <2>2, DivisionStays DEF LockInv
        <2> QED
            BY <2>1, <2>2
    <1>7. SourceInv'
        <2> SUFFICES ASSUME shape.transpose_src, NEW u \in Tids,
                            thr'[u].pc \in {"wait_ready", "multiply"}
                     PROVE  /\ thr[u].pc \in {"wait_ready", "multiply"}
                            /\ \A v \in Tids : Mates(v, u) /\ phase'[v] >= phase'[u]
                                                   => phase[v] >= phase[u]
            BY <1>1, <1>2, <1>5, SourceStays
        <2>1. u # t
            BY <1>5
        <2>2. thr[u].pc \in {"wait_ready", "multiply"}
            BY <1>5, <2>1
        <2>3. ASSUME NEW v \in Tids, Mates(v, u), phase'[v] >= phase'[u]
              PROVE  phase[v] >= phase[u]
            <3>1. CASE ~Shared
                BY <1>2, <2>3, <3>1
            <3>2. CASE Shared /\ v # t
                BY <1>2, <1>3, <2>1, <2>3, <3>2 DEF Arrives
            <3>3. CASE Shared /\ v = t
                <4>1. phase'[t] = phase[t] + 1 /\ phase'[u] = phase[u]
                    BY <1>2, <1>3, <2>1, <3>3 DEF Arrives
                <4>2. ~Odd(t) /\ ~Odd(u)
                    BY <1>2, <2>2 DEF Odd
                <4>3. phase[t] \in Nat /\ phase[u] \in Nat
                    BY <1>3
                <4>4. ~(phase[u] = phase[t] + 1)
                    <5>1. phase[u] = phase[t] + 1 => phase[u] # phase[t] /\ phase[t] # phase[u] + 1
                        BY <4>3
                    <5>2. Mates(t, u) /\ thr[t].pc # "out"
                        BY <1>3, <2>3, <3>3
                    <5> QED
                        BY <1>1, <3>3, <4>2, <5>1, <5>2, MatesAreClose, Zenon
                <4> QED
                    BY <2>3, <3>3, <4>1, <4>3, <4>4
            <3> QED
                BY <3>1, <3>2, <3>3
        <2> QED
            BY <2>2, <2>3
    <1>8. WeightsInv'
        <2>1. p # "done"
            OBVIOUS
        <2>2. \A u \in Tids : thr'[u].pc = "done" <=> thr[u].pc = "done"
            BY <1>2, <1>5, <2>1
        <2> QED
            BY <1>1, <1>2, <1>3, <1>5, <2>2, WeightsStay
    <1> QED
        BY <1>5, <1>6, <1>7, <1>8 DEF ConvInv

\* ... by a transposition, ...
LEMMA TransposeKeepsInv ==
    ASSUME ConvInv, NEW t \in Tids, Transpose(t)
    PROVE  ConvInv'
    <1> DEFINE p == IF Shared THEN "wait_ready" ELSE "multiply"
    <1>1. ControlInv /\ LockInv /\ SourceInv /\ WeightsInv
        BY DEF ConvInv
    <1>2. /\ thr[t].pc = "transpose" /\ Goto(t, p) /\ UNCHANGED <<shape, jcp, wei>>
          /\ DOMAIN tr_src' = DOMAIN tr_src
          /\ Shared => Arrives(t)
          /\ ~Shared => UNCHANGED phase
        BY DEF Transpose, At
    <1>3. phase \in [Tids -> Nat] /\ \A u \in Tids : thr[u].pc # "out"
        BY <1>1, <1>2, InTheRegion
    <1>4. phase' \in [Tids -> Nat]
        BY <1>2, <1>3 DEF Arrives
    <1>5. shape.transpose_src /\ More(t)
        <2>1. PlaceIsRight(t, thr[t])
            BY <1>1, <1>3 DEF ControlInv, PlaceInv
        <2> QED
            BY <1>1, <1>2, <1>3, <2>1, PlaceNumbers DEF PlaceIsRight
    <1>6. /\ ControlInv'
          /\ thr'[t].pc = p /\ \A u \in Tids : u # t => thr'[u] = thr[u]
          /\ \A u \in Tids : /\ thr'[u].mb_sp_b = thr[u].mb_sp_b /\ thr'[u].g = thr[u].g
                             /\ thr'[u].ic_b = thr[u].ic_b
          /\ \A u \in Tids : /\ Place(u)' = Place(u) /\ NextPlace(u)' = NextPlace(u)
                             /\ u # t => /\ (Odd(u)' <=> Odd(u)) /\ (Waits(u)' <=> Waits(u))
                                         /\ Coming(u)' = Coming(u)
        <2>1. /\ p \in Pcs \ {"out"} /\ p \notin Ended
              /\ p \in {"wait_free", "wait_ready"} => Shared
            BY DEF Pcs, Ended
        <2>2. thr[t].pc \notin Ended /\ p # "sum" /\ p # "done" /\ p # "wait_sums"
            BY <1>2 DEF Ended
        <2> HIDE DEF p
        <2> QED
            BY <1>1, <1>2, <1>3, <1>4, <1>5, <2>1, <2>2, GotoKeepsControl
    <1>7. LockInv'
        <2>1. CASE Shared
            <3>1. ~Waits(t) /\ Odd(t)
                BY <1>2 DEF Waits, Odd
            <3>2. Waits(t)' /\ ~Odd(t)' /\ Coming(t)' = NextPlace(t)'
                BY <1>6, <2>1 DEF Waits, Odd, Coming
            <3>3. Coming(t)' = (IF Odd(t) THEN NextPlace(t) ELSE Coming(t))
                BY <1>6, <3>1, <3>2
            <3> QED
                BY <1>1, <1>2, <1>3, <1>5, <1>6, <2>1, <3>1, <3>2, <3>3, ArrivalKeepsLock
        <2>2. CASE ~Shared
            BY <1>2, <2>2, DivisionStays DEF LockInv
        <2> QED
            BY <2>1, <2>2
    <1>8. SourceInv'
        BY <1>1, TransposeKeepsSource
    <1>9. WeightsInv'
        <2>1. p # "done"
            OBVIOUS
        <2>2. \A u \in Tids : thr'[u].pc = "done" <=> thr[u].pc = "done"
            BY <1>2, <1>6, <2>1
        <2> QED
            BY <1>1, <1>2, <1>3, <1>6, <2>2, WeightsStay
    <1> QED
        BY <1>6, <1>7, <1>8, <1>9 DEF ConvInv

\* ... by passing a barrier of the transposition, ...
LEMMA PassBarrierKeepsInv ==
    ASSUME ConvInv, NEW t \in Tids, PassBarrier(t)
    PROVE  ConvInv'
    <1> DEFINE p == IF thr[t].pc = "wait_free" THEN "transpose" ELSE "multiply"
    <1>1. ControlInv /\ LockInv /\ SourceInv /\ WeightsInv
        BY DEF ConvInv
    <1>2. /\ thr[t].pc \in {"wait_free", "wait_ready"} /\ MayPass(t) /\ Goto(t, p)
          /\ UNCHANGED <<shape, jcp, phase, tr_src, wei>>
        BY DEF PassBarrier, At
    <1>3. phase \in [Tids -> Nat] /\ \A u \in Tids : thr[u].pc # "out"
        BY <1>1, <1>2, InTheRegion
    <1>4. shape.transpose_src /\ Shared /\ More(t)
        <2>1. PlaceIsRight(t, thr[t])
            BY <1>1, <1>3 DEF ControlInv, PlaceInv
        <2> QED
            BY <1>1, <1>2, <1>3, <2>1, PlaceNumbers DEF PlaceIsRight
    <1>5. /\ ControlInv'
          /\ thr'[t].pc = p /\ \A u \in Tids : u # t => thr'[u] = thr[u]
          /\ \A u \in Tids : /\ thr'[u].mb_sp_b = thr[u].mb_sp_b /\ thr'[u].g = thr[u].g
                             /\ thr'[u].ic_b = thr[u].ic_b
          /\ \A u \in Tids : /\ Place(u)' = Place(u) /\ NextPlace(u)' = NextPlace(u)
                             /\ u # t => /\ (Odd(u)' <=> Odd(u)) /\ (Waits(u)' <=> Waits(u))
                                         /\ Coming(u)' = Coming(u)
        <2>1. p \in Pcs \ {"out"} /\ p \notin Ended
            BY DEF Pcs, Ended
        <2>2. thr[t].pc \notin Ended /\ p # "sum" /\ p # "done" /\ p # "wait_sums"
            BY <1>2 DEF Ended
        <2> HIDE DEF p
        <2>3. phase' \in [Tids -> Nat]
            BY <1>2, <1>3
        <2> QED
            BY <1>1, <1>2, <1>3, <1>4, <2>1, <2>2, <2>3, GotoKeepsControl
    <1>6. LockInv'
        <2>1. (Odd(t)' <=> Odd(t)) /\ Coming(t)' = Coming(t)
            BY <1>2, <1>5 DEF Odd, Coming
        <2>2. \A u \in Tids : (Odd(u)' <=> Odd(u)) /\ Coming(u)' = Coming(u)
            BY <1>5, <2>1
        <2>3. \A u \in Tids : Mates(t, u) => phase[u] >= phase[t]
            BY <1>1, <1>2, <1>3, PassingSeesAll DEF ControlInv
        <2>4. UNCHANGED <<shape, jcp, phase>>
            BY <1>2
        <2> QED
            BY <1>1, <1>3, <1>4, <1>5, <2>2, <2>3, <2>4, LockStays
    <1>7. SourceInv'
        <2>1. \A u \in Tids : thr'[u].pc \in {"wait_ready", "multiply"} =>
                  thr[u].pc \in {"wait_ready", "multiply"}
            BY <1>2, <1>5
        <2>2. UNCHANGED <<shape, jcp, tr_src>> /\ phase' = phase
            BY <1>2
        <2> QED
            BY <1>1, <1>5, <2>1, <2>2, SourceStays
    <1>8. WeightsInv'
        <2>1. p # "done"
            OBVIOUS
        <2>2. \A u \in Tids : thr'[u].pc = "done" <=> thr[u].pc = "done"
            BY <1>2, <1>5, <2>1
        <2> QED
            BY <1>1, <1>2, <1>3, <1>5, <2>2, WeightsStay
    <1> QED
        BY <1>5, <1>6, <1>7, <1>8 DEF ConvInv

\* ... by a multiplication, ...
LEMMA MultiplyKeepsInv ==
    ASSUME ConvInv, NEW t \in Tids, Multiply(t)
    PROVE  ConvInv'
    <1>1. ControlInv /\ LockInv /\ SourceInv /\ WeightsInv
        BY DEF ConvInv
    <1> DEFINE q == NextStep(t)
    <1>2. /\ thr[t].pc = "multiply" /\ UNCHANGED <<shape, jcp, phase, tr_src>>
          /\ thr' = [thr EXCEPT ![t] = [q EXCEPT !.pc = "loop"]]
          /\ DOMAIN wei' = DOMAIN wei
        BY DEF Multiply, At
    <1>3. /\ phase \in [Tids -> Nat] /\ thr \in [Tids -> Places]
          /\ \A u \in Tids : thr[u].pc # "out"
        BY <1>1, <1>2, InTheRegion
    <1>4. PlaceIsRight(t, thr[t]) /\ More(t)
        <2>1. PlaceIsRight(t, thr[t])
            BY <1>1, <1>3 DEF ControlInv, PlaceInv
        <2> QED
            BY <1>1, <1>2, <1>3, <2>1, PlaceNumbers DEF PlaceIsRight
    <1>5. /\ q \in Places /\ q.mb_sp_b \in First(t)..Last(t)
          /\ q.g \in In(g_range(t)) /\ q.ic_b \in In(ic_b_range(t))
          /\ q.mb_sp_b = Last(t) => q.g = g_range(t)[1] /\ q.ic_b = ic_b_range(t)[1]
        BY <1>1, <1>3, <1>4, NextNumbers
    <1>6. /\ thr' \in [Tids -> Places] /\ thr'[t].pc = "loop"
          /\ \A u \in Tids : u # t => thr'[u] = thr[u]
          /\ thr'[t].mb_sp_b = q.mb_sp_b /\ thr'[t].g = q.g /\ thr'[t].ic_b = q.ic_b
        <2> HIDE DEF q
        <2> QED
            BY <1>2, <1>3, <1>5 DEF Places, Pcs
    <1>7. NextPlace(t) = Place(t)'
        BY <1>6 DEF NextPlace, Place, PlaceOf
    <1> HIDE DEF q
    <1>8. ControlInv'
        <2>1. PlaceIsRight(t, thr'[t])
            BY <1>5, <1>6 DEF PlaceIsRight, Ended
        <2>2. thr'[t].pc # "out" /\ ~(thr[t].pc \in Ended)
              /\ ~(thr'[t].pc = "sum") /\ ~(thr'[t].pc = "done")
            BY <1>2, <1>6 DEF Ended
        <2>3. phase' \in [Tids -> Nat] /\ DOMAIN tr_src' = DOMAIN tr_src
            BY <1>2, <1>3
        <2> QED
            BY <1>1, <1>2, <1>3, <1>6, <2>1, <2>2, <2>3, StepKeepsControl
    <1>9. LockInv'
        <2>1. CASE shape.transpose_src /\ Shared
            <3>1. ASSUME NEW u \in Tids, u # t
                  PROVE  /\ Place(u)' = Place(u) /\ (Odd(u)' <=> Odd(u))
                         /\ (Waits(u)' <=> Waits(u)) /\ Coming(u)' = Coming(u)
                <4>1. thr'[u] = thr[u] /\ thr[u] \in Places /\ thr'[u] \in Places
                    BY <1>3, <1>6, <3>1
                <4>2. Place(u)' = Place(u) /\ NextPlace(u)' = NextPlace(u)
                    BY <1>2, <4>1, StepStays
                <4> QED
                    BY <4>1, <4>2 DEF Odd, Waits, Coming
            <3>2. /\ ~Odd(t) /\ ~Waits(t) /\ Coming(t) = NextPlace(t)
                  /\ ~Odd(t)' /\ Coming(t)' = Place(t)'
                BY <1>2, <1>6 DEF Odd, Waits, Coming
            <3>3. \A u \in Tids : (Odd(u)' <=> Odd(u)) /\ Coming(u)' = Coming(u)
                BY <1>7, <3>1, <3>2
            <3>4. UNCHANGED <<shape, jcp, phase>>
                BY <1>2
            <3> QED
                BY <1>1, <1>3, <2>1, <3>1, <3>2, <3>3, <3>4, LockStays
        <2>2. CASE ~(shape.transpose_src /\ Shared)
            BY <1>2, <2>2, DivisionStays DEF LockInv
        <2> QED
            BY <2>1, <2>2
    <1>10. SourceInv'
        <2>1. \A u \in Tids : thr'[u].pc \in {"wait_ready", "multiply"} => u # t
            BY <1>6
        <2>2. UNCHANGED <<shape, jcp, tr_src>> /\ phase' = phase
            BY <1>2
        <2> QED
            BY <1>1, <1>6, <2>1, <2>2, SourceStays
    <1>11. WeightsInv'
        BY <1>1, <1>6, MultiplyKeepsWeights
    <1> QED
        BY <1>8, <1>9, <1>10, <1>11 DEF ConvInv

\* Threads that are past their loops disturb nobody's.
LEMMA EndingKeepsLocks ==
    ASSUME ControlInv, LockInv, SourceInv, NEW t \in Tids,
           thr[t].pc \in {"loop", "wait_sums", "sum"}, thr'[t].pc \in Ended,
           UNCHANGED <<shape, jcp, phase, tr_src>>,
           \A u \in Tids : u # t => thr'[u] = thr[u],
           \A u \in Tids : /\ thr'[u].mb_sp_b = thr[u].mb_sp_b /\ thr'[u].g = thr[u].g
                           /\ thr'[u].ic_b = thr[u].ic_b,
           \A u \in Tids : /\ Place(u)' = Place(u)
                           /\ u # t => /\ (Odd(u)' <=> Odd(u)) /\ (Waits(u)' <=> Waits(u))
                                       /\ Coming(u)' = Coming(u)
    PROVE  LockInv' /\ SourceInv'
    <1>1. LockInv'
        <2>1. CASE shape.transpose_src /\ Shared
            <3>1. /\ ~Odd(t) /\ ~Waits(t) /\ Coming(t) = Place(t)
                  /\ ~Odd(t)' /\ Coming(t)' = Place(t)'
                BY DEF Odd, Waits, Coming, Ended
            <3>2. \A u \in Tids : (Odd(u)' <=> Odd(u)) /\ Coming(u)' = Coming(u)
                BY <3>1
            <3>3. thr[t].pc # "out" /\ UNCHANGED <<shape, jcp, phase>>
                OBVIOUS
            <3>4. \A u \in Tids : thr'[u].pc # "out" => thr[u].pc # "out"
                BY <3>3
            <3> QED
                BY <2>1, <3>1, <3>2, <3>3, <3>4, LockStays
        <2>2. CASE ~(shape.transpose_src /\ Shared)
            BY <2>2, DivisionStays DEF LockInv
        <2> QED
            BY <2>1, <2>2
    <1>2. SourceInv'
        <2>1. \A u \in Tids : thr'[u].pc \in {"wait_ready", "multiply"} => u # t
            BY DEF Ended
        <2>2. UNCHANGED <<shape, jcp, tr_src>> /\ phase' = phase
            OBVIOUS
        <2> QED
            BY <2>1, <2>2, SourceStays
    <1> QED
        BY <1>1, <1>2

\* ... by the end of the loops and the reduction barrier, ...
LEMMA EndLoopsKeepsInv ==
    ASSUME ConvInv, NEW t \in Tids, EndLoops(t) \/ PassReduction(t)
    PROVE  ConvInv'
    <1> DEFINE p == IF thr[t].pc = "loop"
                    THEN IF jcp.nthr_mb > 1 THEN "wait_sums" ELSE "done" ELSE "sum"
    <1>1. ControlInv /\ LockInv /\ SourceInv /\ WeightsInv
        BY DEF ConvInv
    <1>2. /\ thr[t].pc \in {"loop", "wait_sums"} /\ Goto(t, p)
          /\ UNCHANGED <<shape, jcp, phase, tr_src, wei>>
          /\ thr[t].pc = "loop" => ~More(t)
          /\ thr[t].pc = "wait_sums" => AllSummed(t)
        BY DEF EndLoops, PassReduction, At
    <1>3. phase \in [Tids -> Nat] /\ thr[t].pc # "out"
        BY <1>1, <1>2, InTheRegion
    <1>4. ~More(t) /\ (thr[t].pc = "wait_sums" => jcp.nthr_mb > 1)
        <2>1. PlaceIsRight(t, thr[t])
            BY <1>1, <1>3 DEF ControlInv, PlaceInv
        <2>2. (More(t) <=> thr[t].mb_sp_b < Last(t)) /\ Last(t) \in Nat
            BY <1>1, <1>3, PlaceNumbers
        <2>3. thr[t].mb_sp_b = Last(t) => ~More(t)
            BY <2>2
        <2> QED
            BY <1>2, <2>1, <2>3 DEF PlaceIsRight, Ended
    <1>5. /\ ControlInv'
          /\ thr'[t].pc = p /\ \A u \in Tids : u # t => thr'[u] = thr[u]
          /\ \A u \in Tids : /\ thr'[u].mb_sp_b = thr[u].mb_sp_b /\ thr'[u].g = thr[u].g
                             /\ thr'[u].ic_b = thr[u].ic_b
          /\ \A u \in Tids : /\ Place(u)' = Place(u)
                             /\ u # t => /\ (Odd(u)' <=> Odd(u)) /\ (Waits(u)' <=> Waits(u))
                                         /\ Coming(u)' = Coming(u)
        <2>1. p \in Pcs \ {"out"} /\ p \in Ended
              /\ p \notin {"wait_free", "transpose", "wait_ready", "multiply"}
            BY DEF Pcs, Ended
        <2>2. p \in {"wait_sums", "sum"} => jcp.nthr_mb > 1
            BY <1>2, <1>4
        <2>3. p = "sum" \/ (p = "done" /\ jcp.nthr_mb > 1) => AllSummed(t)
            BY <1>2
        <2> HIDE DEF p
        <2>4. phase' \in [Tids -> Nat]
            BY <1>2, <1>3
        <2> QED
            BY <1>1, <1>2, <1>3, <1>4, <2>1, <2>2, <2>3, <2>4, GotoKeepsControl
    <1>6. LockInv' /\ SourceInv'
        <2>1. thr'[t].pc \in Ended
            BY <1>5 DEF Ended
        <2> HIDE DEF p
        <2>2. thr[t].pc \in {"loop", "wait_sums", "sum"} /\ UNCHANGED <<shape, jcp, phase, tr_src>>
            BY <1>2
        <2> QED
            BY <1>1, <1>5, <2>1, <2>2, EndingKeepsLocks
    <1>7. WeightsInv'
        <2>1. jcp.nthr_mb > 1 => p # "done"
            OBVIOUS
        <2> HIDE DEF p
        <2>2. jcp.nthr_mb > 1 => \A u \in Tids : thr'[u].pc = "done" <=> thr[u].pc = "done"
            BY <1>2, <1>5, <2>1
        <2> QED
            BY <1>1, <1>2, <1>3, <1>5, <2>2, WeightsStay
    <1> QED
        BY <1>5, <1>6, <1>7 DEF ConvInv

\* ... by adding up, ...
LEMMA SumUpKeepsInv ==
    ASSUME ConvInv, NEW t \in Tids, SumUp(t)
    PROVE  ConvInv'
    <1>1. ControlInv /\ LockInv /\ SourceInv /\ WeightsInv
        BY DEF ConvInv
    <1>2. /\ thr[t].pc = "sum" /\ Goto(t, "done") /\ UNCHANGED <<shape, jcp, phase, tr_src>>
          /\ DOMAIN wei' = DOMAIN wei
        BY DEF SumUp, At
    <1>3. phase \in [Tids -> Nat] /\ thr[t].pc # "out"
        BY <1>1, <1>2, InTheRegion
    <1>4. ~More(t) /\ AllSummed(t)
        <2>1. PlaceIsRight(t, thr[t]) /\ AllSummed(t)
            BY <1>1, <1>2, <1>3 DEF ControlInv, PlaceInv, SumsInv
        <2>2. (More(t) <=> thr[t].mb_sp_b < Last(t)) /\ Last(t) \in Nat
            BY <1>1, <1>3, PlaceNumbers
        <2>3. thr[t].mb_sp_b = Last(t) => ~More(t)
            BY <2>2
        <2> QED
            BY <1>2, <2>1, <2>3 DEF PlaceIsRight, Ended
    <1>5. /\ ControlInv'
          /\ thr'[t].pc = "done" /\ \A u \in Tids : u # t => thr'[u] = thr[u]
          /\ \A u \in Tids : /\ thr'[u].mb_sp_b = thr[u].mb_sp_b /\ thr'[u].g = thr[u].g
                             /\ thr'[u].ic_b = thr[u].ic_b
          /\ \A u \in Tids : /\ Place(u)' = Place(u)
                             /\ u # t => /\ (Odd(u)' <=> Odd(u)) /\ (Waits(u)' <=> Waits(u))
                                         /\ Coming(u)' = Coming(u)
        <2>1. "done" \in Pcs \ {"out"} /\ "done" \in Ended
            BY DEF Pcs, Ended
        <2>2. phase' \in [Tids -> Nat] /\ DOMAIN tr_src' = DOMAIN tr_src
            BY <1>2, <1>3
        <2> QED
            BY <1>1, <1>2, <1>3, <1>4, <2>1, <2>2, GotoKeepsControl
    <1>6. LockInv' /\ SourceInv'
        <2>1. thr'[t].pc \in Ended /\ thr[t].pc \in {"loop", "wait_sums", "sum"}
            BY <1>2, <1>5 DEF Ended
        <2> QED
            BY <1>1, <1>2, <1>5, <2>1, EndingKeepsLocks
    <1>7. WeightsInv'
        BY <1>1, <1>5, SumUpKeepsWeights
    <1> QED
        BY <1>5, <1>6, <1>7 DEF ConvInv

\* ... by a step that changes nothing, ...
LEMMA StutterKeepsInv ==
    ASSUME ConvInv, UNCHANGED vars
    PROVE  ConvInv'
    <1>1. ControlInv /\ LockInv /\ SourceInv /\ WeightsInv
        BY DEF ConvInv
    <1>2. /\ UNCHANGED <<shape, jcp, wei>> /\ UNCHANGED <<shape, jcp, tr_src>>
          /\ UNCHANGED <<shape, jcp, phase>> /\ UNCHANGED <<shape, jcp>>
          /\ thr' = thr /\ phase' = phase /\ tr_src' = tr_src /\ wei' = wei
        BY DEF vars
    <1>3. CASE AllOut
        <2>1. JcpInv' /\ TypeInv' /\ AllOut'
            <3>1. Tids' = Tids /\ JcpInv'
                BY <1>1, <1>2, DivisionStays DEF ControlInv
            <3> QED
                BY <1>1, <1>2, <1>3, <3>1 DEF ControlInv, TypeInv, AllOut, At
        <2>2. (JcpInv /\ TypeInv /\ AllOut => ConvInv)'
            BY AllOutSuffices, PTL
        <2> QED
            BY <2>1, <2>2
    <1>4. CASE ~AllOut
        <2>1. PICK t \in Tids : thr[t].pc # "out"
            BY <1>4 DEF AllOut, At
        <2>2. phase \in [Tids -> Nat] /\ thr \in [Tids -> Places]
            BY <1>1, <2>1, InTheRegion
        <2>3. PlaceIsRight(t, thr[t])
            BY <1>1, <2>1 DEF ControlInv, PlaceInv
        <2>4. ControlInv'
            <3>1. thr[t].pc = "sum" \/ (thr[t].pc = "done" /\ jcp.nthr_mb > 1) => AllSummed(t)
                BY <1>1 DEF ControlInv, SumsInv
            <3>2. /\ thr' \in [Tids -> Places] /\ \A u \in Tids : u # t => thr'[u] = thr[u]
                  /\ thr'[t] = thr[t] /\ phase' \in [Tids -> Nat]
                  /\ DOMAIN tr_src' = DOMAIN tr_src /\ DOMAIN wei' = DOMAIN wei
                BY <1>2, <2>2
            <3> QED
                BY <1>1, <1>2, <2>1, <2>3, <3>1, <3>2, StepKeepsControl
        <2>5. ASSUME NEW u \in Tids
              PROVE  /\ Place(u)' = Place(u) /\ (Odd(u)' <=> Odd(u))
                     /\ (Waits(u)' <=> Waits(u)) /\ Coming(u)' = Coming(u)
            <3>1. thr[u] \in Places /\ thr'[u] = thr[u]
                BY <1>2, <2>2
            <3>2. Place(u)' = Place(u) /\ NextPlace(u)' = NextPlace(u)
                BY <1>2, <3>1, StepStays
            <3> QED
                BY <3>1, <3>2 DEF Odd, Waits, Coming
        <2>6. LockInv'
            <3>1. CASE shape.transpose_src /\ Shared
                BY <1>1, <1>2, <2>1, <2>5, <3>1, LockStays
            <3>2. CASE ~(shape.transpose_src /\ Shared)
                BY <1>2, <3>2, DivisionStays DEF LockInv
            <3> QED
                BY <3>1, <3>2
        <2>7. SourceInv'
            BY <1>1, <1>2, SourceStays
        <2>8. WeightsInv'
            BY <1>1, <1>2, <2>1, WeightsStay
        <2> QED
            BY <2>4, <2>6, <2>7, <2>8 DEF ConvInv
    <1> QED
        BY <1>3, <1>4

\* ... and by the end of the region, ...
LEMMA ReturnKeepsInv ==
    ASSUME ConvInv, Return
    PROVE  ConvInv'
    <1>1. Tids' = Tids /\ JcpInv'
        BY DivisionStays DEF Return, ConvInv, ControlInv
    <1>2. thr' = [t \in Tids |-> Out]
        BY DEF Return
    <1>3. TypeInv'
        BY <1>1, <1>2, OutIsAPlace DEF TypeInv
    <1>4. AllOut'
        BY <1>1, <1>2 DEF AllOut, At, Out
    <1>5. (JcpInv /\ TypeInv /\ AllOut => ConvInv)'
        BY AllOutSuffices, PTL
    <1> QED
        BY <1>1, <1>3, <1>4, <1>5

\* ... hence by every step.
LEMMA NextKeepsInv ==
    ASSUME ConvInv, [Next]_vars
    PROVE  ConvInv'
    <1>1. CASE Execute
        BY <1>1, ExecuteKeepsInv DEF ConvInv
    <1>2. ASSUME NEW t \in Tids, Step(t) PROVE ConvInv'
        <2>1. CASE BeginStep(t)
            BY <2>1, BeginStepKeepsInv
        <2>2. CASE Transpose(t)
            BY <2>2, TransposeKeepsInv
        <2>3. CASE PassBarrier(t)
            BY <2>3, PassBarrierKeepsInv
        <2>4. CASE Multiply(t)
            BY <2>4, MultiplyKeepsInv
        <2>5. CASE EndLoops(t) \/ PassReduction(t)
            BY <2>5, EndLoopsKeepsInv
        <2>6. CASE SumUp(t)
            BY <2>6, SumUpKeepsInv
        <2>7. CASE Spin(t)
            BY <2>7, StutterKeepsInv DEF Spin
        <2> QED
            BY <1>2, <2>1, <2>2, <2>3, <2>4, <2>5, <2>6, <2>7 DEF Step
    <1>3. CASE Return
        BY <1>3, ReturnKeepsInv
    <1>4. CASE UNCHANGED vars
        BY <1>4, StutterKeepsInv
    <1> QED
        BY <1>1, <1>2, <1>3, <1>4 DEF Next

\* The invariant is one of every execution.
THEOREM ConvInvHolds == Spec => []ConvInv
    <1>1. Init => ConvInv
        <2> SUFFICES ASSUME Init PROVE ConvInv
            OBVIOUS
        <2>1. JcpInv
            BY DEF Init, JcpInv
        <2>2. TypeInv /\ AllOut
            BY OutIsAPlace DEF Init, TypeInv, AllOut, At, Out
        <2> QED
            BY <2>1, <2>2, AllOutSuffices
    <1>2. ConvInv /\ [Next]_vars => ConvInv'
        BY NextKeepsInv
    <1> QED
        BY <1>1, <1>2, PTL DEF Spec

\* Whichever division balance() chooses, it asks for no more threads than the
\* team has: what the assertion at its end states.
THEOREM DivisionFitsTheTeam == Spec => []FitsTheTeam
    <1>1. ConvInv => FitsTheTeam
        BY JcpNumbers DEF ConvInv, ControlInv, FitsTheTeam
    <1> QED
        BY <1>1, ConvInvHolds, PTL

-----------------------------------------------------------------------------
(* No race *)

\* A thread transposes only while its mates transpose for the same step.
LEMMA TransposersOfAStep ==
    ASSUME ConvInv, NEW t \in Tids, NEW u \in Tids, t # u, Mates(t, u),
           thr[t].pc = "transpose", thr[u].pc \in {"transpose", "multiply"}
    PROVE  thr[u].pc = "transpose" /\ Place(t) = Place(u)
    <1>1. ControlInv /\ LockInv /\ thr[t].pc # "out"
        BY DEF ConvInv
    <1>2. shape.transpose_src
        BY <1>1 DEF ControlInv, PlaceInv, PlaceIsRight
    <1>3. Shared
        BY <1>1, AloneUnlessShared DEF ControlInv
    <1>4. Odd(t) /\ ~Waits(t) /\ ~Waits(u)
        BY DEF Odd, Waits
    <1>5. (Odd(t) <=> Odd(u)) /\ Coming(t) = Coming(u)
        BY <1>1, <1>2, <1>3, <1>4, MatesAreClose, Zenon
    <1>6. thr[u].pc = "transpose"
        BY <1>4, <1>5 DEF Odd
    <1>7. Coming(t) = Place(t) /\ Coming(u) = Place(u)
        BY <1>6 DEF Coming
    <1> QED
        BY <1>5, <1>6, <1>7

\* Nobody uses what a thread is transposing.
LEMMA TransposesAreDisjoint ==
    ASSUME ConvInv, NEW t \in Tids, NEW u \in Tids, t # u,
           thr[t].pc = "transpose", thr[u].pc \in {"transpose", "multiply"}
    PROVE  /\ thr[u].pc = "transpose" => TransWrites(t) \cap TransWrites(u) = {}
           /\ thr[u].pc = "multiply" => TransWrites(t) \cap MultiplyReads(u) = {}
    <1>1. ControlInv /\ JcpInv
        BY DEF ConvInv, ControlInv
    <1>2. \A v \in {t, u} : v \in Tids /\ thr[v].pc # "out" /\ More(v)
        <2>1. \A v \in {t, u} : v \in Tids /\ thr[v].pc # "out"
                                /\ thr[v].pc \in {"transpose", "multiply"}
            OBVIOUS
        <2>2. \A v \in {t, u} : PlaceIsRight(v, thr[v])
            BY <1>1, <2>1 DEF ControlInv, PlaceInv
        <2> QED
            BY <1>1, <2>1, <2>2, PlaceNumbers DEF PlaceIsRight
    <1>3. \A v \in {t, u} : MyTrans(v) \subseteq 0..(bcast_step(v) - 1)
        BY <1>1, <1>2, PieceOfAStep DEF MyTrans
    <1>4. CASE ~Mates(t, u)
        <2>1. \A k \in 0..(bcast_step(t) - 1), l \in 0..(bcast_step(u) - 1) :
                  \A x, y : TrPlace(t, k, x) # TrPlace(u, l, y)
            BY <1>1, <1>2, <1>4, SourcesAreDisjoint
        <2>2. ASSUME NEW k \in MyTrans(t), NEW l \in 0..(bcast_step(u) - 1), NEW x, NEW y
              PROVE  TrPlace(t, k, x) # TrPlace(u, l, y)
            <3>1. k \in 0..(bcast_step(t) - 1)
                BY <1>3
            <3> QED
                BY <2>1, <3>1
        <2>3. TransWrites(t) \cap TransWrites(u) = {}
            <3> SUFFICES ASSUME NEW k \in MyTrans(t), NEW l \in MyTrans(u), NEW x, NEW y,
                                TrPlace(t, k, x) = TrPlace(u, l, y)
                         PROVE  FALSE
                BY DEF TransWrites
            <3>1. l \in 0..(bcast_step(u) - 1)
                BY <1>3
            <3> QED
                BY <2>2, <3>1
        <2>4. TransWrites(t) \cap MultiplyReads(u) = {}
            BY <2>2 DEF TransWrites, MultiplyReads
        <2> QED
            BY <2>3, <2>4
    <1>5. CASE Mates(t, u)
        <2>1. thr[u].pc = "transpose" /\ Place(t) = Place(u)
            BY <1>5, TransposersOfAStep
        <2>2. bcast_step(t) = bcast_step(u) /\ \A k, x : TrPlace(t, k, x) = TrPlace(u, k, x)
            BY <1>1, <1>2, <1>5, <2>1, SamePlaceSameStep
        <2>3. ASSUME NEW k \in MyTrans(t), NEW l \in MyTrans(u), NEW x, NEW y,
                     TrPlace(t, k, x) = TrPlace(u, l, y)
              PROVE  FALSE
            <3>1. k \in 0..(bcast_step(t) - 1) /\ l \in 0..(bcast_step(u) - 1)
                BY <1>3
            <3>2. k \in Nat /\ l \in Nat
                BY <3>1
            <3>3. k = l
                BY <1>1, <1>2, <2>2, <2>3, <3>2, BlocksDiffer
            <3>4. /\ k \in Piece(bcast_step(t), jcp.nthr_oc_b, ithr_oc_b(t))
                  /\ k \in Piece(bcast_step(t), jcp.nthr_oc_b, ithr_oc_b(u))
                BY <2>2, <3>3 DEF MyTrans
            <3>5. bcast_step(t) \in Nat
                <4>1. bcast_step(t) \in 1..(ic_b_range(t)[2] - thr[t].ic_b)
                    BY <1>1, <1>2, StepNumbers
                <4> QED
                    BY <4>1
            <3>6. /\ jcp.nthr_oc_b \in Nat \ {0} /\ ithr_oc_b(t) \in 0..(jcp.nthr_oc_b - 1)
                  /\ ithr_oc_b(u) \in 0..(jcp.nthr_oc_b - 1)
                BY <1>1, JcpIsPositive, PlaceOfAThread
            <3>7. ithr_oc_b(t) = ithr_oc_b(u)
                BY <3>4, <3>5, <3>6, PiecesAreDisjoint
            <3> QED
                BY <1>1, <1>5, <3>7, PlacesDiffer
        <2>4. TransWrites(t) \cap TransWrites(u) = {}
            BY <2>3 DEF TransWrites
        <2> QED
            BY <2>1, <2>4
    <1> QED
        BY <1>4, <1>5

\* The invariant excludes races.
LEMMA InvIsRaceFree ==
    ASSUME ConvInv
    PROVE  NoDataRace
    <1> SUFFICES ASSUME NEW t \in Tids, NEW u \in Tids, t # u
                 PROVE  Writes(t) \cap (Writes(u) \cup Reads(u)) = {}
        BY DEF NoDataRace
    <1>1. ControlInv /\ JcpInv
        BY DEF ConvInv, ControlInv
    <1>2. "tr_src" # "wei"
        OBVIOUS
    <1>3. CASE thr[t].pc = "transpose"
        <2>1. Writes(t) = {"tr_src"} \X TransWrites(t)
            BY <1>3 DEF Writes, At
        <2>2. CASE thr[u].pc = "transpose"
            <3>1. Writes(u) = {"tr_src"} \X TransWrites(u) /\ Reads(u) = {}
                BY <2>2 DEF Writes, Reads, At
            <3>2. TransWrites(t) \cap TransWrites(u) = {}
                BY <1>3, <2>2, TransposesAreDisjoint
            <3> QED
                BY <2>1, <3>1, <3>2
        <2>3. CASE thr[u].pc = "multiply"
            <3>1. /\ Writes(u) = {<<"wei", <<ithr_mb(u), e>>>> : e \in MultiplyWrites(u)}
                  /\ Reads(u) = {"tr_src"} \X MultiplyReads(u)
                BY <2>3 DEF Writes, Reads, At
            <3>2. TransWrites(t) \cap MultiplyReads(u) = {}
                BY <1>3, <2>3, TransposesAreDisjoint
            <3> QED
                BY <1>2, <2>1, <3>1, <3>2
        <2>4. CASE thr[u].pc = "sum"
            <3>1. \A x : x \in Writes(u) \/ x \in Reads(u) => x[1] = "wei"
                BY <2>4 DEF Writes, Reads, At
            <3> QED
                BY <1>2, <2>1, <3>1
        <2>5. CASE thr[u].pc \notin {"transpose", "multiply", "sum"}
            BY <2>5 DEF Writes, Reads, At
        <2> QED
            BY <2>2, <2>3, <2>4, <2>5
    <1>4. CASE thr[t].pc = "multiply"
        <2>1. Writes(t) = {<<"wei", <<ithr_mb(t), e>>>> : e \in MultiplyWrites(t)}
            BY <1>4 DEF Writes, At
        <2>2. CASE thr[u].pc = "transpose"
            <3>1. Writes(u) = {"tr_src"} \X TransWrites(u) /\ Reads(u) = {}
                BY <2>2 DEF Writes, Reads, At
            <3> QED
                BY <1>2, <2>1, <3>1
        <2>3. CASE thr[u].pc = "multiply"
            <3>1. /\ Writes(u) = {<<"wei", <<ithr_mb(u), e>>>> : e \in MultiplyWrites(u)}
                  /\ Reads(u) = {"tr_src"} \X MultiplyReads(u)
                BY <2>3 DEF Writes, Reads, At
            <3>2. ~\E e : e \in MultiplyWrites(t) /\ e \in MultiplyWrites(u)
                              /\ ithr_mb(t) = ithr_mb(u)
                BY <1>1, <1>4, <2>3, MultiplyWritesItsArea, AreasAreOwn
            <3> QED
                BY <1>2, <2>1, <3>1, <3>2
        <2>4. CASE thr[u].pc = "sum"
            <3>1. AllSummed(u)
                BY <1>1, <2>4 DEF ControlInv, SumsInv
            <3> QED
                BY <1>4, <3>1 DEF AllSummed
        <2>5. CASE thr[u].pc \notin {"transpose", "multiply", "sum"}
            BY <2>5 DEF Writes, Reads, At
        <2> QED
            BY <2>2, <2>3, <2>4, <2>5
    <1>5. CASE thr[t].pc = "sum"
        <2>1. Writes(t) = {<<"wei", <<0, e>>>> : e \in SumWrites(t)}
            BY <1>5 DEF Writes, At
        <2>2. thr[u].pc \in Ended
            <3>1. AllSummed(t)
                BY <1>1, <1>5 DEF ControlInv, SumsInv
            <3> QED
                BY <3>1 DEF AllSummed, Ended
        <2>3. CASE thr[u].pc = "sum"
            <3>1. /\ Writes(u) = {<<"wei", <<0, e>>>> : e \in SumWrites(u)}
                  /\ Reads(u) = {<<"wei", <<m, e>>>> : m \in 1..(jcp.nthr_mb - 1), e \in SumWrites(u)}
                BY <2>3 DEF Writes, Reads, At
            <3>2. ~\E e : e \in SumWrites(t) /\ e \in SumWrites(u)
                BY <1>1, SumsAreOwn
            <3>3. 0 \notin 1..(jcp.nthr_mb - 1)
                OBVIOUS
            <3> QED
                BY <2>1, <3>1, <3>2, <3>3
        <2>4. CASE thr[u].pc # "sum"
            BY <2>2, <2>4 DEF Writes, Reads, At, Ended
        <2> QED
            BY <2>3, <2>4
    <1>6. CASE thr[t].pc \notin {"transpose", "multiply", "sum"}
        BY <1>6 DEF Writes, At
    <1> QED
        BY <1>3, <1>4, <1>5, <1>6

\* Threads that transpose the source together divide the blocks of a step, none
\* writes what a slower one still multiplies, and the parts of the weights and
\* of their sum are each one thread's own.
THEOREM ConvNeverRaces == Spec => []NoDataRace
    <1>1. ConvInv => NoDataRace
        BY InvIsRaceFree
    <1> QED
        BY <1>1, ConvInvHolds, PTL

-----------------------------------------------------------------------------
(* The result *)

\* Once all threads are done, the gradient is complete.
LEMMA InvIsComplete ==
    ASSUME ConvInv
    PROVE  ResultIsComplete
    <1> SUFFICES ASSUME AllDone, NEW e \in Elements
                 PROVE  wei[0][e] = AllTerms
        BY AllTermsAreAll DEF ResultIsComplete, ConvInv, ControlInv
    <1>1. ControlInv /\ JcpInv /\ WeightsInv
        BY DEF ConvInv, ControlInv
    <1>2. jcp.nthr_mb \in Nat \ {0} /\ 0 \in 0..(jcp.nthr_mb - 1)
        BY <1>1, JcpIsPositive
    <1>3. PICK t \in Tids : ithr_mb(t) = 0 /\ e \in Area(t)
        BY <1>1, <1>2, AreasCover
    <1>4. \A u \in Tids : thr[u].pc = "done"
        BY DEF AllDone, At
    <1>5. thr[t].pc \in Ended /\ thr[t].pc # "out"
        BY <1>4 DEF Ended
    <1>6. CASE jcp.nthr_mb > 1
        <2>1. IsSummed(e)
            BY <1>1, <1>4, <1>6, EverythingIsSummed DEF IsSummed
        <2> QED
            BY <1>1, <1>3, <1>5, <2>1 DEF WeightsInv
    <1>7. CASE ~(jcp.nthr_mb > 1)
        <2>1. ~IsSummed(e)
            BY <1>7 DEF IsSummed
        <2>2. Upto(t, e) = Last(t) /\ Upto(t, e) > First(t)
            BY <1>1, <1>3, <1>5, EndedIsAtTheEnd
        <2>3. wei[0][e] = TermsOf(First(t), Last(t))
            BY <1>1, <1>3, <1>5, <2>1, <2>2 DEF WeightsInv
        <2>4. jcp.nthr_mb = 1
            BY <1>2, <1>7
        <2>5. First(t) = 0 /\ Last(t) = shape.mb * shape.sp_nb
            BY <1>1, <1>3, <2>4, ImagesOfOne, ImagesOfAThread DEF First, Last
        <2> QED
            BY <2>3, <2>5 DEF AllTerms
    <1> QED
        BY <1>6, <1>7

\* When the region is over every element of the gradient is the sum over all
\* images and places, each added once, whatever the division, the blocking and
\* the order of the threads.
THEOREM GradientIsAlwaysComplete == Spec => []ResultIsComplete
    <1>1. ConvInv => ResultIsComplete
        BY InvIsComplete
    <1> QED
        BY <1>1, ConvInvHolds, PTL

-----------------------------------------------------------------------------
(* The barrier on which the threads wait: for any number of threads, the     *)
(* sense-reversing barrier implements the abstract one.                      *)

\* A thread that was told the sense of this round and has not been released:
\* the sense cannot have changed under it.
SavedIsCurrent ==
    \A t \in Threads : pc[t] \in {"xadd", "reset", "flip"} => saved[t] = sense

\* When one thread has found itself the last, all others wait in this round.
LastIsLast ==
    \A t, u \in Threads :
        pc[t] \in {"reset", "flip"} /\ u # t => pc[u] = "spin" /\ saved[u] = sense

SimpleInv == TypeOK /\ SavedIsCurrent /\ LastIsLast /\ CounterCounts

\* The number of threads is a positive number.
LEMMA NthrIsPositive == barrier_nthr \in Nat /\ barrier_nthr > 0
    BY ThreadsAssumption, FS_CardinalityType, FS_EmptySet DEF barrier_nthr

\* When as many have arrived as there are threads, all have.
LEMMA ArrivedIsFinite ==
    /\ IsFiniteSet(Arrived) /\ Cardinality(Arrived) \in Nat
    /\ Cardinality(Arrived) <= barrier_nthr
    /\ Cardinality(Arrived) = barrier_nthr => Arrived = Threads
<1>1. Arrived \subseteq Threads
    BY DEF Arrived
<1> QED BY <1>1, ThreadsAssumption, FS_Subset, FS_CardinalityType DEF barrier_nthr

\* Nobody is in the barrier at first.
LEMMA SimpleInitEstablishesInv == SimpleInit => SimpleInv
<1> SUFFICES ASSUME SimpleInit PROVE SimpleInv
    OBVIOUS
<1>1. TypeOK
    <2>1. ctr \in 0..barrier_nthr
        BY NthrIsPositive DEF SimpleInit
    <2> QED BY <2>1 DEF SimpleInit, TypeOK, SimplePcs
<1>2. SavedIsCurrent /\ LastIsLast
    BY DEF SimpleInit, SavedIsCurrent, LastIsLast
<1>3. Arrived = {}
    BY DEF SimpleInit, Arrived
<1>4. CounterCounts
    BY <1>3, FS_EmptySet DEF SimpleInit, CounterCounts
<1> QED BY <1>1, <1>2, <1>4 DEF SimpleInv

-----------------------------------------------------------------------------
(* One lemma per step: what it does to the counted and the released threads, *)
(* and that it keeps the invariant.                                          *)

\* Reading the sense arrives nowhere yet.
LEMMA EnterStep ==
    ASSUME SimpleInv, NEW t \in Threads, Enter(t)
    PROVE  SimpleInv' /\ Arrived' = Arrived /\ Leaving' = Leaving
<1>1. /\ pc \in [Threads -> SimplePcs] /\ saved \in [Threads -> BOOLEAN]
      /\ pc[t] = "outside" /\ UNCHANGED <<ctr, sense>>
      /\ pc' = [pc EXCEPT ![t] = "xadd"] /\ saved' = [saved EXCEPT ![t] = sense]
    BY DEF SimpleInv, TypeOK, Enter
<1>2. Arrived' = Arrived /\ Leaving' = Leaving
    BY <1>1 DEF Arrived, Leaving
<1>3. TypeOK'
    BY <1>1 DEF SimpleInv, TypeOK, SimplePcs
<1>4. SavedIsCurrent' /\ LastIsLast'
    BY <1>1 DEF SimpleInv, SavedIsCurrent, LastIsLast
<1>5. CounterCounts'
    <2>1. (\E u \in Threads : pc'[u] = "flip") <=> \E u \in Threads : pc[u] = "flip"
        BY <1>1
    <2> QED BY <1>1, <1>2, <2>1 DEF SimpleInv, CounterCounts
<1> QED BY <1>2, <1>3, <1>4, <1>5 DEF SimpleInv

\* The xadd is the arrival.
LEMMA XaddStep ==
    ASSUME SimpleInv, NEW t \in Threads, Xadd(t)
    PROVE  /\ SimpleInv' /\ t \notin Arrived \cup Leaving
           /\ Arrived' = Arrived \cup {t} /\ Leaving' = Leaving
<1> DEFINE next == IF ctr + 1 = barrier_nthr THEN "reset" ELSE "spin"
<1>1. /\ pc \in [Threads -> SimplePcs] /\ saved \in [Threads -> BOOLEAN]
      /\ pc[t] = "xadd" /\ UNCHANGED <<sense, saved>> /\ ctr' = ctr + 1
      /\ pc' = [pc EXCEPT ![t] = next] /\ saved[t] = sense
    BY DEF SimpleInv, TypeOK, Xadd, SavedIsCurrent
<1>2. /\ t \notin Arrived \cup Leaving
      /\ Arrived' = Arrived \cup {t} /\ Leaving' = Leaving
    BY <1>1 DEF Arrived, Leaving
<1>3. \A u \in Threads : pc[u] \notin {"reset", "flip"}
    BY <1>1 DEF SimpleInv, LastIsLast
<1>4. ctr = Cardinality(Arrived)
    BY <1>3 DEF SimpleInv, CounterCounts
<1>5. Cardinality(Arrived') = ctr + 1 /\ ctr' \in 0..barrier_nthr
    <2>1. Cardinality(Arrived \cup {t}) = Cardinality(Arrived) + 1
        BY <1>2, ArrivedIsFinite, FS_AddElement
    <2>2. Arrived' \subseteq Threads
        BY <1>2 DEF Arrived
    <2>3. Cardinality(Arrived') <= barrier_nthr
        BY <2>2, ThreadsAssumption, FS_Subset DEF barrier_nthr
    <2> QED BY <1>1, <1>2, <1>4, <2>1, <2>3, ArrivedIsFinite, NthrIsPositive
<1>6. TypeOK'
    BY <1>1, <1>5 DEF SimpleInv, TypeOK, SimplePcs
<1>7. SavedIsCurrent'
    BY <1>1 DEF SimpleInv, SavedIsCurrent
<1>8. LastIsLast'
    <2>1. CASE ctr + 1 = barrier_nthr
        <3>1. Arrived' = Threads
            BY <1>2, <1>5, <2>1, ThreadsAssumption, FS_Subset DEF barrier_nthr, Arrived
        <3>2. \A u \in Threads : u # t => pc[u] = "spin" /\ saved[u] = sense
            BY <1>2, <1>3, <3>1 DEF Arrived
        <3> QED BY <1>1, <1>3, <3>2 DEF LastIsLast
    <2>2. CASE ctr + 1 # barrier_nthr
        BY <1>1, <1>3, <2>2 DEF LastIsLast
    <2> QED BY <2>1, <2>2
<1>9. CounterCounts'
    <2>1. \A u \in Threads : pc'[u] # "flip"
        BY <1>1, <1>3
    <2> QED BY <1>1, <1>5, <2>1 DEF CounterCounts
<1> QED BY <1>2, <1>6, <1>7, <1>8, <1>9 DEF SimpleInv

\* The reset of the counter is the last thread's own business.
LEMMA ResetStep ==
    ASSUME SimpleInv, NEW t \in Threads, Reset(t)
    PROVE  SimpleInv' /\ Arrived' = Arrived /\ Leaving' = Leaving
<1>1. /\ pc \in [Threads -> SimplePcs] /\ saved \in [Threads -> BOOLEAN]
      /\ pc[t] = "reset" /\ UNCHANGED <<sense, saved>> /\ ctr' = 0
      /\ pc' = [pc EXCEPT ![t] = "flip"]
    BY DEF SimpleInv, TypeOK, Reset
<1>2. Arrived' = Arrived /\ Leaving' = Leaving
    BY <1>1 DEF Arrived, Leaving
<1>3. TypeOK'
    BY <1>1, NthrIsPositive DEF SimpleInv, TypeOK, SimplePcs
<1>4. SavedIsCurrent' /\ LastIsLast'
    BY <1>1 DEF SimpleInv, SavedIsCurrent, LastIsLast
<1>5. CounterCounts'
    BY <1>1 DEF CounterCounts
<1> QED BY <1>2, <1>3, <1>4, <1>5 DEF SimpleInv

\* The flip of the sense releases everybody.
LEMMA FlipStep ==
    ASSUME SimpleInv, NEW t \in Threads, Flip(t)
    PROVE  /\ SimpleInv' /\ Arrived = Threads
           /\ Arrived' = {} /\ Leaving' = Threads \ {t}
<1>1. /\ pc \in [Threads -> SimplePcs] /\ saved \in [Threads -> BOOLEAN]
      /\ pc[t] = "flip" /\ UNCHANGED <<ctr, saved>> /\ sense' = ~sense
      /\ pc' = [pc EXCEPT ![t] = "outside"]
      /\ sense \in BOOLEAN /\ ctr = 0
    BY DEF SimpleInv, TypeOK, Flip, SavedIsCurrent, CounterCounts
<1>2. \A u \in Threads : u # t => pc[u] = "spin" /\ saved[u] = sense
    BY <1>1 DEF SimpleInv, LastIsLast
<1>3. Arrived = Threads /\ Arrived' = {} /\ Leaving' = Threads \ {t}
    BY <1>1, <1>2 DEF Arrived, Leaving
<1>4. TypeOK'
    BY <1>1 DEF SimpleInv, TypeOK, SimplePcs
<1>5. SavedIsCurrent' /\ LastIsLast'
    BY <1>1, <1>2 DEF SavedIsCurrent, LastIsLast
<1>6. CounterCounts'
    BY <1>1, <1>3, FS_EmptySet DEF CounterCounts
<1> QED BY <1>3, <1>4, <1>5, <1>6 DEF SimpleInv

\* The end of the spin loop is the departure.
LEMMA SpinStep ==
    ASSUME SimpleInv, NEW t \in Threads, SpinEnds(t)
    PROVE  SimpleInv' /\ t \in Leaving /\ Arrived' = Arrived /\ Leaving' = Leaving \ {t}
<1>1. /\ pc \in [Threads -> SimplePcs] /\ saved \in [Threads -> BOOLEAN]
      /\ pc[t] = "spin" /\ saved[t] # sense /\ UNCHANGED <<ctr, sense, saved>>
      /\ pc' = [pc EXCEPT ![t] = "outside"]
    BY DEF SimpleInv, TypeOK, SpinEnds
<1>2. t \in Leaving /\ Arrived' = Arrived /\ Leaving' = Leaving \ {t}
    BY <1>1 DEF Arrived, Leaving
<1>3. \A u \in Threads : pc[u] \notin {"reset", "flip"}
    BY <1>1 DEF SimpleInv, LastIsLast
<1>4. TypeOK'
    BY <1>1 DEF SimpleInv, TypeOK, SimplePcs
<1>5. SavedIsCurrent' /\ LastIsLast'
    BY <1>1, <1>3 DEF SimpleInv, SavedIsCurrent, LastIsLast
<1>6. CounterCounts'
    <2>1. \A u \in Threads : pc[u] # "flip" /\ pc'[u] # "flip"
        BY <1>1, <1>3
    <2> QED BY <1>1, <1>2, <2>1 DEF SimpleInv, CounterCounts
<1> QED BY <1>2, <1>4, <1>5, <1>6 DEF SimpleInv

-----------------------------------------------------------------------------

\* Every step keeps the invariant and is a step of the abstract barrier.
LEMMA SimpleStepImplements ==
    ASSUME SimpleInv, [SimpleNext]_simpleVars
    PROVE  SimpleInv' /\ [Promise!BarrierNext]_(Promise!barrierVars)
<1>1. CASE UNCHANGED simpleVars
    <2>1. Arrived' = Arrived /\ Leaving' = Leaving
        BY <1>1 DEF simpleVars, Arrived, Leaving
    <2>2. SimpleInv'
        BY <1>1, <2>1 DEF simpleVars, SimpleInv, TypeOK, SavedIsCurrent, LastIsLast, CounterCounts
    <2> QED BY <2>1, <2>2 DEF Promise!barrierVars
<1>2. CASE SimpleNext /\ ~UNCHANGED simpleVars
    <2>1. PICK t \in Threads : Enter(t) \/ Xadd(t) \/ Reset(t) \/ Flip(t) \/ SpinEnds(t)
        BY <1>2 DEF SimpleNext, Inside, SpinAgain
    <2>2. CASE Enter(t)
        BY <2>2, EnterStep DEF Promise!barrierVars
    <2>3. CASE Xadd(t)
        BY <2>3, XaddStep DEF Promise!BarrierNext, Promise!Arrive
    <2>4. CASE Reset(t)
        BY <2>4, ResetStep DEF Promise!barrierVars
    <2>5. CASE Flip(t)
        BY <2>5, FlipStep DEF Promise!BarrierNext, Promise!Open
    <2>6. CASE SpinEnds(t)
        BY <2>6, SpinStep DEF Promise!BarrierNext, Promise!Leave
    <2> QED BY <2>1, <2>2, <2>3, <2>4, <2>5, <2>6
<1> QED BY <1>1, <1>2

\* In every reachable state the threads inside hold the sense of their round,
\* the last of them is alone in front of its stores, and the counter counts.
THEOREM SimpleInvHolds == SimpleSpec => []SimpleInv
<1>1. SimpleInv /\ [SimpleNext]_simpleVars => SimpleInv'
    BY SimpleStepImplements
<1> QED BY SimpleInitEstablishesInv, <1>1, PTL DEF SimpleSpec

\* The counter never exceeds the number of threads, and the other types.
THEOREM SimpleTypeCorrect == SimpleSpec => []TypeOK
<1>1. SimpleInv => TypeOK
    BY DEF SimpleInv
<1> QED BY SimpleInvHolds, <1>1, PTL

\* The counter tells how many threads wait.
THEOREM CounterAlwaysCounts == SimpleSpec => []CounterCounts
<1>1. SimpleInv => CounterCounts
    BY DEF SimpleInv
<1> QED BY SimpleInvHolds, <1>1, PTL

\* The barrier of cpu_barrier.cpp implements the abstract barrier: no thread
\* leaves a round that somebody has not arrived at.
THEOREM BarrierIsImplemented == SimpleSpec => ImplementsBarrier
<1>1. SimpleInit => Promise!BarrierInit
    BY DEF SimpleInit, Promise!BarrierInit, Arrived, Leaving
<1>2. SimpleInv /\ [SimpleNext]_simpleVars => [Promise!BarrierNext]_(Promise!barrierVars)
    BY SimpleStepImplements
<1> QED
    BY <1>1, <1>2, SimpleInvHolds, PTL DEF SimpleSpec, ImplementsBarrier, Promise!BarrierSpec
=============================================================================
