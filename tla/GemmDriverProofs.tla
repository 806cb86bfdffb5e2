--------------------------- MODULE GemmDriverProofs ---------------------------
(***************************************************************************)
(* Proofs about the gemm driver: for all sizes of the matrices, all        *)
(* numbers of threads that OpenMP may grant and all blockings, a call      *)
(* divides the product among its threads exactly and no two threads race   *)
(* for C or a buffer; where the team suffices (TeamSuffices) none race at  *)
(* all, and what is returned with success is the whole product. It goes    *)
(* through both ways a call may take:                                      *)
(*                                                                         *)
(*   - the gemm that copies nothing (GemmKSum): its partition is what the  *)
(*     loops of calc_nthr_nocopy_avx end at (PartInv), and its threads     *)
(*     add up the parts of k in turn (KInv);                               *)
(*   - the blocked gemm (ParallelGemm): its slices cover C (Sliced), its   *)
(*     threads are where the region lets them be (BControl), those that    *)
(*     share a copy of A are at most a barrier apart (BLock), the rows of  *)
(*     A that are multiplied are the current ones (BCopied), and what is   *)
(*     in C is what the threads behind it have added (BValues).            *)
(***************************************************************************)
EXTENDS GemmDriver, Balance211Proofs

\* The instance of NocopyPartition has its own names for these two.
LEMMA NocopyNames ==
    /\ \A a, b : Nocopy!div_up(a, b) = div_up(a, b)
    /\ \A a, b : Nocopy!Lesser(a, b) = Lesser(a, b)
    BY DEF div_up, Lesser, Nocopy!div_up, Nocopy!Lesser

-----------------------------------------------------------------------------
(* calc_nthr_nocopy_avx *)

\* No blocking of the copy-nothing gemm is zero.
LEMMA BlocksArePositive ==
    /\ BM \in Nat \ {0} /\ BN \in Nat \ {0} /\ BK \in Nat \ {0}
    /\ BM_SMALL \in Nat \ {0} /\ BN_SMALL \in Nat \ {0} /\ BK_SMALL \in Nat \ {0}
    BY BlocksAssumption

\* The threads the search gives to k are at least one and at most all of them.
LEMMA KThreadsAreNotTooMany ==
    ASSUME NEW m, NEW n, NEW k, NEW nthr \in Nat \ {0}
    PROVE  Nocopy!nthr_k_of(m, n, k, nthr) \in 1..nthr
<1> DEFINE blocks == Nocopy!div_up(m, BM) * Nocopy!div_up(n, BN)
           others == {o \in 1..nthr : \A i \in 1..(o - 1) : blocks * i < nthr /\ k \div (i + 1) > BK}
           kept == {1} \cup {o \in others \ {1} : 10 * ((nthr \div o) * o) > 9 * nthr}
<1>1. Nocopy!nthr_k_of(m, n, k, nthr) = CHOOSE o \in kept : \A i \in kept : i <= o
    BY Zenon DEF Nocopy!nthr_k_of
<1>2. kept \in SUBSET (1..nthr) /\ kept # {}
    <2> HIDE DEF blocks
    <2> QED OBVIOUS
<1> HIDE DEF kept
<1>3. \E o \in kept : \A i \in kept : i <= o
    <2>1. kept \in SUBSET (0..nthr)
        BY <1>2
    <2> QED BY <1>2, <2>1, GreatestNumber
<1> QED BY <1>1, <1>2, <1>3

\* Where the loop that takes threads away stops, and a step of it.
ShrunkStop(nthr) == {p \in Nat \X Nat : p[1] * p[2] <= nthr}
ShrunkStep(nthr) ==
    [p \in Nat \X Nat |-> IF p \in ShrunkStop(nthr) THEN p
                          ELSE IF p[1] > p[2] THEN <<p[1] - 1, p[2]>> ELSE <<p[1], p[2] - 1>>]

\* The loop that takes threads away from m and n ends, since each turn takes one,
\* and Shrunk is what it ends at.
LEMMA ShrunkIsALoop ==
    ASSUME NEW nthr \in Nat
    PROVE  /\ Decreases(Nat \X Nat, ShrunkStop(nthr), ShrunkStep(nthr))
           /\ IsLoop(Nocopy!Shrunk(nthr), Nat \X Nat, ShrunkStop(nthr), ShrunkStep(nthr))
<1> DEFINE D == Nat \X Nat
           Stop == ShrunkStop(nthr)
           step == ShrunkStep(nthr)
           mu == [p \in D |-> p[1] + p[2]]
<1>1. ASSUME NEW p \in D \ Stop
      PROVE  /\ p[1] \in Nat \ {0} /\ p[2] \in Nat \ {0}
             /\ step[p] = IF p[1] > p[2] THEN <<p[1] - 1, p[2]>> ELSE <<p[1], p[2] - 1>>
             /\ step[p] \in D
    <2>1. p[1] \in Nat /\ p[2] \in Nat /\ p[1] * p[2] > nthr
        BY DEF ShrunkStop
    <2>2. p[1] # 0 /\ p[2] # 0
        BY <2>1
    <2>3. step[p] = IF p[1] > p[2] THEN <<p[1] - 1, p[2]>> ELSE <<p[1], p[2] - 1>>
        BY DEF ShrunkStep
    <2> HIDE DEF step
    <2> QED BY <2>1, <2>2, <2>3
<1>2. \A p \in D \cap Stop : step[p] = p
    BY DEF ShrunkStep
<1>3. step \in [D -> D]
    <2>1. step = [p \in D |-> step[p]]
        BY DEF ShrunkStep
    <2> HIDE DEF step
    <2> QED BY <1>1, <1>2, <2>1
<1>4. mu \in [D -> Nat] /\ \A p \in D \ Stop : mu[step[p]] < mu[p]
    <2> HIDE DEF step
    <2>1. mu \in [D -> Nat]
        OBVIOUS
    <2>2. ASSUME NEW p \in D \ Stop PROVE mu[step[p]] < mu[p]
        <3>1. mu[p] = p[1] + p[2] /\ mu[step[p]] = step[p][1] + step[p][2]
            BY <1>1
        <3>2. p[1] \in Nat \ {0} /\ p[2] \in Nat \ {0}
            BY <1>1
        <3>3. CASE p[1] > p[2]
            <4>1. step[p] = <<p[1] - 1, p[2]>>
                BY <1>1, <3>3
            <4>2. mu[step[p]] = (p[1] - 1) + p[2]
                BY <3>1, <4>1
            <4> HIDE DEF mu
            <4> QED BY <3>1, <3>2, <4>2
        <3>4. CASE ~(p[1] > p[2])
            <4>1. step[p] = <<p[1], p[2] - 1>>
                BY <1>1, <3>4
            <4>2. mu[step[p]] = p[1] + (p[2] - 1)
                BY <3>1, <4>1
            <4> HIDE DEF mu
            <4> QED BY <3>1, <3>2, <4>2
        <3> QED BY <3>3, <3>4
    <2> QED BY <2>1, <2>2
<1> DEFINE Body(f) == [p \in Nat \X Nat |-> IF p[1] * p[2] <= nthr THEN p
        ELSE IF p[1] > p[2] THEN f[<<p[1] - 1, p[2]>>] ELSE f[<<p[1], p[2] - 1>>]]
<1>5. Nocopy!Shrunk(nthr) = CHOOSE f : f = Body(f)
    BY DEF Nocopy!Shrunk
<1>6. ASSUME NEW f PROVE IsLoop(f, D, Stop, step) <=> f = Body(f)
    <2>1. ASSUME NEW p \in Nat \X Nat
          PROVE  (IF p[1] * p[2] <= nthr THEN p
                  ELSE IF p[1] > p[2] THEN f[<<p[1] - 1, p[2]>>] ELSE f[<<p[1], p[2] - 1>>])
                 = (IF p \in Stop THEN p ELSE f[step[p]])
        <3>1. p \in Stop <=> p[1] * p[2] <= nthr
            BY DEF ShrunkStop
        <3> HIDE DEF step, Stop
        <3> QED BY <1>1, <3>1
    <2>2. Body(f) = [p \in D |-> IF p \in Stop THEN p ELSE f[step[p]]]
        <3> HIDE DEF step, Stop
        <3> QED BY <2>1
    <2> HIDE DEF Body, D, Stop, step
    <2> QED BY <2>2, Zenon DEF IsLoop
<1> HIDE DEF Body, D, Stop, step, mu
<1>7. Decreases(D, Stop, step)
    <2>1. Stop \in SUBSET D
        BY DEF D, Stop, ShrunkStop
    <2> QED BY <1>3, <1>4, <2>1 DEF Decreases
<1>8. IsLoop(Nocopy!Shrunk(nthr), D, Stop, step)
    BY <1>5, <1>6, <1>7, LoopExists
<1> QED BY <1>7, <1>8 DEF D, Stop, step

\* The threads left to m and n by that loop are positive and fit in nthr.
LEMMA ShrunkFacts ==
    ASSUME NEW nthr \in Nat \ {0}, NEW a \in Nat \ {0}, NEW b \in Nat \ {0}
    PROVE  LET p == Nocopy!Shrunk(nthr)[<<a, b>>]
           IN  p \in (Nat \ {0}) \X (Nat \ {0}) /\ p[1] * p[2] <= nthr
<1> DEFINE Inv == (Nat \ {0}) \X (Nat \ {0})
<1>1. ASSUME NEW p \in Inv, p \notin ShrunkStop(nthr)
      PROVE  ShrunkStep(nthr)[p] \in Inv
    <2>1. p \in Nat \X Nat /\ p[1] \in Nat \ {0} /\ p[2] \in Nat \ {0} /\ p[1] * p[2] > nthr
        BY <1>1 DEF ShrunkStop
    <2>2. ShrunkStep(nthr)[p] = IF p[1] > p[2] THEN <<p[1] - 1, p[2]>> ELSE <<p[1], p[2] - 1>>
        BY <1>1, <2>1 DEF ShrunkStep
    <2>3. CASE p[1] > p[2]
        BY <2>1, <2>2, <2>3
    <2>4. CASE ~(p[1] > p[2])
        <3>1. p[2] # 1
            BY <2>1, <2>4
        <3> QED BY <2>1, <2>2, <2>4, <3>1
    <2> QED BY <2>3, <2>4
<1>2. <<a, b>> \in Inv
    OBVIOUS
<1>3. Keeps(Inv, Nat \X Nat, ShrunkStop(nthr), ShrunkStep(nthr))
    <2>1. Inv \in SUBSET (Nat \X Nat)
        OBVIOUS
    <2> HIDE DEF Inv
    <2> QED BY <1>1, <2>1 DEF Keeps
<1> HIDE DEF Inv
<1>4. Nocopy!Shrunk(nthr)[<<a, b>>] \in Inv \cap ShrunkStop(nthr)
    BY <1>2, <1>3, ShrunkIsALoop, LoopInvariant
<1> QED BY <1>4 DEF Inv, ShrunkStop

\* Where the loop that adds threads stops, and a step of it.
GrownStop(nthr) == {p \in Nat \X Nat : p[1] * p[2] >= nthr}
GrownStep(nthr) ==
    [p \in Nat \X Nat |-> IF p[1] < p[2] THEN <<p[1] + 1, p[2]>> ELSE <<p[1], p[2] + 1>>]

\* The loop that adds threads to m and n ends, since each turn adds one, and
\* Grown is what it ends at.
LEMMA GrownIsALoop ==
    ASSUME NEW nthr \in Nat
    PROVE  /\ Decreases(Nat \X Nat, GrownStop(nthr), GrownStep(nthr))
           /\ IsLoop(Nocopy!Grown(nthr), Nat \X Nat, GrownStop(nthr), GrownStep(nthr))
<1> DEFINE D == Nat \X Nat
           Stop == GrownStop(nthr)
           step == GrownStep(nthr)
           rest(i) == IF i < nthr THEN nthr - i ELSE 0
           mu == [p \in D |-> rest(p[1]) + rest(p[2])]
<1>1. ASSUME NEW p \in D
      PROVE  step[p] = (IF p[1] < p[2] THEN <<p[1] + 1, p[2]>> ELSE <<p[1], p[2] + 1>>) /\ step[p] \in D
    BY DEF GrownStep
<1>2. step \in [D -> D]
    <2>1. step = [p \in D |-> step[p]]
        BY DEF GrownStep
    <2> HIDE DEF step
    <2> QED BY <1>1, <2>1
<1>3. mu \in [D -> Nat] /\ \A p \in D \ Stop : mu[step[p]] < mu[p]
    <2> HIDE DEF step
    <2>1. mu \in [D -> Nat]
        OBVIOUS
    <2>2. ASSUME NEW p \in D \ Stop PROVE mu[step[p]] < mu[p]
        <3>1. /\ mu[p] = rest(p[1]) + rest(p[2])
              /\ mu[step[p]] = rest(step[p][1]) + rest(step[p][2])
            BY <1>1
        <3>2. p[1] \in Nat /\ p[2] \in Nat /\ p[1] * p[2] < nthr
            BY DEF GrownStop
        <3>3. ASSUME NEW i \in Nat, NEW j \in Nat, i <= j, i * j < nthr PROVE i < nthr
            <4>1. CASE j = 0
                <5>1. i = 0 /\ i * j = 0
                    BY <3>3, <4>1
                <5> QED BY <3>3, <5>1
            <4>2. CASE j # 0
                <5>1. i * 1 <= i * j
                    <6>1. 1 * i <= j * i
                        BY <4>2, ProductMonotone
                    <6> QED BY <6>1
                <5> QED BY <3>3, <5>1
            <4> QED BY <4>1, <4>2
        <3>4. CASE p[1] < p[2]
            <4>1. step[p] = <<p[1] + 1, p[2]>>
                BY <1>1, <3>4
            <4>2. p[1] < nthr
                BY <3>2, <3>3, <3>4
            <4>3. mu[step[p]] = rest(p[1] + 1) + rest(p[2])
                BY <3>1, <4>1
            <4> HIDE DEF mu
            <4> QED BY <3>1, <3>2, <4>2, <4>3
        <3>5. CASE ~(p[1] < p[2])
            <4>1. step[p] = <<p[1], p[2] + 1>>
                BY <1>1, <3>5
            <4>2. p[2] < nthr
                <5>1. p[2] * p[1] < nthr /\ p[2] <= p[1]
                    BY <3>2, <3>5
                <5> QED BY <3>2, <3>3, <5>1
            <4>3. mu[step[p]] = rest(p[1]) + rest(p[2] + 1)
                BY <3>1, <4>1
            <4> HIDE DEF mu
            <4> QED BY <3>1, <3>2, <4>2, <4>3
        <3> QED BY <3>4, <3>5
    <2> QED BY <2>1, <2>2
<1> DEFINE Body(f) == [p \in Nat \X Nat |-> IF p[1] * p[2] >= nthr THEN p
        ELSE IF p[1] < p[2] THEN f[<<p[1] + 1, p[2]>>] ELSE f[<<p[1], p[2] + 1>>]]
<1>5. Nocopy!Grown(nthr) = CHOOSE f : f = Body(f)
    BY DEF Nocopy!Grown
<1>6. ASSUME NEW f PROVE IsLoop(f, D, Stop, step) <=> f = Body(f)
    <2>1. ASSUME NEW p \in Nat \X Nat
          PROVE  (IF p[1] * p[2] >= nthr THEN p
                  ELSE IF p[1] < p[2] THEN f[<<p[1] + 1, p[2]>>] ELSE f[<<p[1], p[2] + 1>>])
                 = (IF p \in Stop THEN p ELSE f[step[p]])
        <3>1. p \in Stop <=> p[1] * p[2] >= nthr
            BY DEF GrownStop
        <3> HIDE DEF step, Stop
        <3> QED BY <1>1, <3>1
    <2>2. Body(f) = [p \in D |-> IF p \in Stop THEN p ELSE f[step[p]]]
        <3> HIDE DEF step, Stop
        <3> QED BY <2>1
    <2> HIDE DEF Body, D, Stop, step
    <2> QED BY <2>2, Zenon DEF IsLoop
<1> HIDE DEF Body, D, Stop, step, mu
<1>7. Decreases(D, Stop, step)
    <2>1. Stop \in SUBSET D
        BY DEF D, Stop, GrownStop
    <2> QED BY <1>2, <1>3, <2>1 DEF Decreases
<1>8. IsLoop(Nocopy!Grown(nthr), D, Stop, step)
    BY <1>5, <1>6, <1>7, LoopExists
<1> QED BY <1>7, <1>8 DEF D, Stop, step

\* The loop goes beyond nthr only with more than one thread in each dimension.
LEMMA GrownFacts ==
    ASSUME NEW nthr \in Nat \ {0}, NEW a \in Nat \ {0}, NEW b \in Nat \ {0}, a * b <= nthr
    PROVE  LET p == Nocopy!Grown(nthr)[<<a, b>>]
           IN  /\ p \in (Nat \ {0}) \X (Nat \ {0})
               /\ p[1] * p[2] <= nthr \/ (p[1] > 1 /\ p[2] > 1)
<1> DEFINE Pos == (Nat \ {0}) \X (Nat \ {0})
           Inv == {p \in Pos : p[1] * p[2] <= nthr \/ (p[1] > 1 /\ p[2] > 1)}
<1>1. ASSUME NEW p \in Inv, p \notin GrownStop(nthr)
      PROVE  GrownStep(nthr)[p] \in Inv
    <2>1. p \in Nat \X Nat /\ p[1] \in Nat \ {0} /\ p[2] \in Nat \ {0} /\ p[1] * p[2] < nthr
        BY <1>1 DEF GrownStop
    <2>2. GrownStep(nthr)[p] = IF p[1] < p[2] THEN <<p[1] + 1, p[2]>> ELSE <<p[1], p[2] + 1>>
        BY <2>1 DEF GrownStep
    <2>3. CASE p[1] < p[2]
        BY <2>1, <2>2, <2>3
    <2>4. CASE ~(p[1] < p[2]) /\ p[1] # 1
        BY <2>1, <2>2, <2>4
    <2>5. CASE ~(p[1] < p[2]) /\ p[1] = 1
        <3>1. p[2] = 1 /\ 1 < nthr
            BY <2>1, <2>5
        <3>2. GrownStep(nthr)[p] = <<1, 2>>
            BY <2>2, <2>5, <3>1
        <3> QED BY <3>1, <3>2
    <2> QED BY <2>3, <2>4, <2>5
<1>2. <<a, b>> \in Inv
    OBVIOUS
<1>3. Keeps(Inv, Nat \X Nat, GrownStop(nthr), GrownStep(nthr))
    <2>1. Inv \in SUBSET (Nat \X Nat)
        OBVIOUS
    <2> HIDE DEF Inv
    <2> QED BY <1>1, <2>1 DEF Keeps
<1> HIDE DEF Inv
<1>4. Nocopy!Grown(nthr)[<<a, b>>] \in Inv \cap GrownStop(nthr)
    BY <1>2, <1>3, GrownIsALoop, LoopInvariant
<1> QED BY <1>4 DEF Inv, GrownStop

\* The square root rounded down.
LEMMA IsqrtFacts ==
    ASSUME NEW x \in Nat \ {0}
    PROVE  Nocopy!isqrt(x) \in 1..x
<1> DEFINE P(r) == r * r <= x /\ x < (r + 1) * (r + 1)
           Above == {s \in Nat : x < s * s}
<1>1. Nocopy!isqrt(x) = CHOOSE r \in 0..x : P(r)
    BY DEF Nocopy!isqrt
<1>2. x + 1 \in Above
    <2>1. 1 * (x + 1) <= (x + 1) * (x + 1)
        BY ProductMonotone
    <2> QED BY <2>1
<1>3. PICK s \in Above : \A q \in Above : s <= q
    <2>1. Above \in SUBSET Nat /\ Above # {}
        BY <1>2
    <2> HIDE DEF Above
    <2> QED BY <2>1, LeastNumber
<1>4. s \in Nat /\ x < s * s /\ s # 0
    <2>1. s \in Nat /\ x < s * s
        OBVIOUS
    <2> QED BY <2>1
<1>5. s - 1 \in 0..x /\ P(s - 1)
    <2>1. s <= x + 1
        BY <1>2, <1>3
    <2>2. s - 1 \notin Above
        BY <1>3, <1>4
    <2>3. (s - 1) * (s - 1) <= x
        <3>1. s - 1 \in Nat /\ (s - 1) * (s - 1) \in Nat
            BY <1>4
        <3> QED BY <2>2, <3>1
    <2>4. (s - 1) + 1 = s
        BY <1>4
    <2> QED BY <1>4, <2>1, <2>3, <2>4
<1> DEFINE r == Nocopy!isqrt(x)
<1>6. r \in 0..x /\ P(r)
    <2> HIDE DEF P
    <2> QED BY <1>1, <1>5
<1> HIDE DEF r
<1>7. r # 0
    BY <1>6
<1> QED BY <1>6, <1>7 DEF r

\* The divisor of nthr found by counting down from start, and the quotient by it,
\* are positive and make no more than nthr threads.
LEMMA DividedFacts ==
    ASSUME NEW nthr \in Nat \ {0}, NEW start \in 1..nthr
    PROVE  LET d == Nocopy!Divided(nthr, start)
           IN  /\ d \in Nat \ {0} /\ nthr \div d \in Nat \ {0}
               /\ d * (nthr \div d) <= nthr /\ (nthr \div d) * d <= nthr
<1> DEFINE T == {d \in 1..start : d = 1 \/ d * (nthr \div d) = nthr}
           P(d) == /\ d = 1 \/ d * (nthr \div d) = nthr
                   /\ \A e \in (d + 1)..start : e * (nthr \div e) # nthr
<1>1. Nocopy!Divided(nthr, start) = CHOOSE d \in 1..start : P(d)
    BY DEF Nocopy!Divided
<1>2. PICK d \in T : \A e \in T : e <= d
    <2>1. T \in SUBSET (0..start) /\ 1 \in T /\ start \in Nat
        OBVIOUS
    <2> HIDE DEF T
    <2> QED BY <2>1, GreatestNumber
<1>3. d \in 1..start /\ P(d)
    <2>1. d \in 1..start /\ (d = 1 \/ d * (nthr \div d) = nthr)
        OBVIOUS
    <2>2. ASSUME NEW e \in (d + 1)..start PROVE e * (nthr \div e) # nthr
        <3>1. e \notin T
            <4>1. ~(e <= d)
                BY <2>1
            <4> HIDE DEF T
            <4> QED BY <1>2, <4>1
        <3>2. e \in 1..start
            BY <2>1
        <3> QED BY <3>1, <3>2
    <2> QED BY <2>1, <2>2
<1>4. Nocopy!Divided(nthr, start) \in 1..start
    <2> HIDE DEF P
    <2> QED BY <1>1, <1>3
<1>5. ASSUME NEW f \in 1..start
      PROVE  /\ f \in Nat \ {0} /\ nthr \div f \in Nat \ {0}
             /\ f * (nthr \div f) <= nthr /\ (nthr \div f) * f <= nthr
    <2>1. f \in Nat \ {0} /\ f <= nthr
        OBVIOUS
    <2>2. nthr \div f \in Nat \ {0} /\ (nthr \div f) * f <= nthr
        BY <2>1, QuotientIsPositive
    <2>3. f * (nthr \div f) = (nthr \div f) * f
        BY <2>1, <2>2
    <2> QED BY <2>1, <2>2, <2>3
<1> QED BY <1>4, <1>5

\* The threads of m and n: at least one each, together no more than there are.
LEMMA MNThreadsAreNotTooMany ==
    ASSUME NEW m \in Nat \ {0}, NEW n \in Nat \ {0}, NEW nthr \in Nat \ {0}
    PROVE  LET p == Nocopy!nthr_mn_of(m, n, nthr)
           IN  p[1] \in Nat \ {0} /\ p[2] \in Nat \ {0} /\ p[1] * p[2] <= nthr
<1> DEFINE m0 == Nocopy!div_up(m, BM)
           n0 == Nocopy!div_up(n, BN)
           n1 == IF m0 = 1 THEN nthr ELSE n0
           m1 == IF n1 = 1 THEN nthr ELSE m0
           s == Nocopy!Shrunk(nthr)[<<m1, n1>>]
           p == Nocopy!Grown(nthr)[s]
           sm == Nocopy!Lesser(Nocopy!isqrt(nthr), Nocopy!div_up(m, BM_SMALL))
           sn == Nocopy!Lesser(Nocopy!isqrt(nthr), Nocopy!div_up(n, BN_SMALL))
           dm == Nocopy!Divided(nthr, sm)
           dn == Nocopy!Divided(nthr, sn)
           r == Nocopy!nthr_mn_of(m, n, nthr)
<1>1. r = CASE ~(p[1] * p[2] > nthr /\ p[1] > 1 /\ p[2] > 1) -> p
            [] p[1] * p[2] > nthr /\ p[1] > 1 /\ p[2] > 1 /\ p[1] <= p[2] -> <<dm, nthr \div dm>>
            [] OTHER -> <<nthr \div dn, dn>>
    BY Zenon DEF Nocopy!nthr_mn_of
<1>2. /\ m0 \in Nat \ {0} /\ n0 \in Nat \ {0}
      /\ Nocopy!div_up(m, BM_SMALL) \in Nat \ {0} /\ Nocopy!div_up(n, BN_SMALL) \in Nat \ {0}
    BY BlocksArePositive, DivUpFacts, NocopyNames
<1>3. m1 \in Nat \ {0} /\ n1 \in Nat \ {0}
    <2> HIDE DEF m0, n0
    <2> QED BY <1>2
<1> HIDE DEF m1, n1
<1>4. s \in (Nat \ {0}) \X (Nat \ {0}) /\ s[1] * s[2] <= nthr
    BY <1>3, ShrunkFacts
<1> HIDE DEF s
<1>5. /\ p[1] \in Nat \ {0} /\ p[2] \in Nat \ {0}
      /\ p[1] * p[2] <= nthr \/ (p[1] > 1 /\ p[2] > 1)
    <2>1. s = <<s[1], s[2]>> /\ s[1] \in Nat \ {0} /\ s[2] \in Nat \ {0}
        BY <1>4
    <2>2. Nocopy!Grown(nthr)[<<s[1], s[2]>>] = p
        BY <2>1
    <2> HIDE DEF p
    <2> QED BY <1>4, <2>1, <2>2, GrownFacts
<1>6. sm \in 1..nthr /\ sn \in 1..nthr
    <2>1. Nocopy!isqrt(nthr) \in 1..nthr
        BY IsqrtFacts
    <2> QED BY <1>2, <2>1 DEF Nocopy!Lesser
<1> HIDE DEF p, sm, sn
<1>7. /\ dm \in Nat \ {0} /\ nthr \div dm \in Nat \ {0} /\ dm * (nthr \div dm) <= nthr
      /\ dn \in Nat \ {0} /\ nthr \div dn \in Nat \ {0} /\ (nthr \div dn) * dn <= nthr
    BY <1>6, DividedFacts
<1> HIDE DEF dm, dn, r
<1>8. CASE ~(p[1] * p[2] > nthr /\ p[1] > 1 /\ p[2] > 1)
    <2>1. r = p
        BY <1>1, <1>8
    <2>2. p[1] * p[2] \in Nat
        BY <1>5
    <2> QED BY <1>5, <1>8, <2>1, <2>2 DEF r
<1>9. CASE p[1] * p[2] > nthr /\ p[1] > 1 /\ p[2] > 1
    <2>1. r = <<dm, nthr \div dm>> \/ r = <<nthr \div dn, dn>>
        BY <1>1, <1>9
    <2> QED BY <1>7, <2>1 DEF r
<1> QED BY <1>8, <1>9

\* The blocks of a dimension cover it, and the last is not empty.
LEMMA BlockAndUsedFacts ==
    ASSUME NEW d \in Nat \ {0}, NEW nthr \in Nat \ {0}, NEW small \in Nat \ {0}
    PROVE  LET b == Nocopy!Block(d, nthr, small)
               u == Nocopy!Used(d, nthr, b)
           IN  /\ b \in Nat \ {0} /\ u \in 1..nthr
               /\ b * u >= d /\ b * (u - 1) < d
<1> DEFINE d0 == Nocopy!div_up(d, nthr)
           x == d0 + small - 1
           b == Nocopy!Block(d, nthr, small)
           u == Nocopy!Used(d, nthr, b)
<1>1. d0 \in Nat \ {0} /\ d <= d0 * nthr /\ (d0 - 1) * nthr < d
    BY DivUpFacts, NocopyNames
<1>2. x \in Nat /\ x % small \in 0..(small - 1)
    <2>1. x \in Nat
        BY <1>1
    <2> HIDE DEF x
    <2> QED BY <2>1, DivisionFacts
<1>3. b = x - (x % small)
    BY DEF Nocopy!Block
<1> HIDE DEF b
<1>4. b \in Nat \ {0} /\ b >= d0
    <2>1. x = d0 + (small - 1)
        BY <1>1
    <2> HIDE DEF x, d0
    <2> QED BY <1>1, <1>2, <1>3, <2>1
<1>5. d <= b * nthr
    <2>1. d0 * nthr <= b * nthr
        BY <1>1, <1>4, ProductMonotone
    <2>2. d0 * nthr \in Nat /\ b * nthr \in Nat
        BY <1>1, <1>4
    <2> QED BY <1>1, <2>1, <2>2
<1>6. u = IF b * nthr > d THEN div_up(d, b) ELSE nthr
    BY NocopyNames DEF Nocopy!Used
<1> HIDE DEF u
<1>7. u \in 1..nthr /\ b * u >= d /\ b * (u - 1) < d
    BY <1>4, <1>5, <1>6, UsedFacts
<1> QED BY <1>4, <1>7 DEF b, u

\* What the copy-nothing gemm needs of a partition: threads enough for each
\* dimension and no more than there are, and blocks that cover it, none of them empty.
IsPart(p, m, n, k, most) ==
    /\ p.nthr_m \in Nat \ {0} /\ p.nthr_n \in Nat \ {0} /\ p.nthr_k \in Nat \ {0}
    /\ p.MB \in Nat \ {0} /\ p.NB \in Nat \ {0} /\ p.KB \in Nat \ {0}
    /\ (p.nthr_m * p.nthr_n) * p.nthr_k \in 1..most
    /\ p.MB * p.nthr_m >= m /\ p.MB * (p.nthr_m - 1) < m
    /\ p.NB * p.nthr_n >= n /\ p.NB * (p.nthr_n - 1) < n
    /\ p.KB * p.nthr_k >= k /\ p.KB * (p.nthr_k - 1) < k

\* What calc_nthr_nocopy_avx promises, for all sizes, threads and blockings: no more
\* threads than there are, and blocks and parts of k that cover the product, none empty.
THEOREM CalcFacts ==
    ASSUME NEW m \in Nat \ {0}, NEW n \in Nat \ {0}, NEW k \in Nat \ {0}, NEW most \in Nat \ {0}
    PROVE  IsPart(Nocopy!calc_nthr_nocopy_avx(m, n, k, most), m, n, k, most)
<1> DEFINE nk == Nocopy!nthr_k_of(m, n, k, most)
           q  == most \div nk
           mn == Nocopy!nthr_mn_of(m, n, q)
           MB == Nocopy!Block(m, mn[1], BM_SMALL)
           NB == Nocopy!Block(n, mn[2], BN_SMALL)
           KB == Nocopy!Block(k, nk, BK_SMALL)
           um == Nocopy!Used(m, mn[1], MB)
           un == Nocopy!Used(n, mn[2], NB)
           uk == Nocopy!Used(k, nk, KB)
<1>1. Nocopy!calc_nthr_nocopy_avx(m, n, k, most) =
        IF most = 1
        THEN [nthr_m |-> 1, nthr_n |-> 1, nthr_k |-> 1, MB |-> m, NB |-> n, KB |-> k]
        ELSE [nthr_m |-> um, nthr_n |-> un, nthr_k |-> uk, MB |-> MB, NB |-> NB, KB |-> KB]
    BY Zenon DEF Nocopy!calc_nthr_nocopy_avx
<1>2. nk \in Nat \ {0} /\ nk <= most
    BY KThreadsAreNotTooMany
<1> HIDE DEF nk
<1>3. q \in Nat \ {0} /\ q * nk <= most
    BY <1>2, QuotientIsPositive
<1> HIDE DEF q
<1>4. mn[1] \in Nat \ {0} /\ mn[2] \in Nat \ {0} /\ mn[1] * mn[2] <= q
    BY <1>3, MNThreadsAreNotTooMany
<1> HIDE DEF mn
<1>5. /\ MB \in Nat \ {0} /\ um \in 1..mn[1] /\ MB * um >= m /\ MB * (um - 1) < m
      /\ NB \in Nat \ {0} /\ un \in 1..mn[2] /\ NB * un >= n /\ NB * (un - 1) < n
      /\ KB \in Nat \ {0} /\ uk \in 1..nk /\ KB * uk >= k /\ KB * (uk - 1) < k
    BY <1>2, <1>4, BlocksArePositive, BlockAndUsedFacts
<1> HIDE DEF MB, NB, KB, um, un, uk
<1>6. (um * un) * uk \in 1..most
    <2>1. /\ um \in Nat \ {0} /\ un \in Nat \ {0} /\ uk \in Nat \ {0}
          /\ um <= mn[1] /\ un <= mn[2] /\ uk <= nk
        BY <1>2, <1>4, <1>5
    <2>2. um * un <= mn[1] * mn[2]
        <3>1. um * un <= mn[1] * un /\ un * mn[1] <= mn[2] * mn[1]
            BY <1>4, <2>1, ProductMonotone
        <3>2. un * mn[1] = mn[1] * un /\ mn[2] * mn[1] = mn[1] * mn[2] /\ um * un \in Nat
              /\ mn[1] * un \in Nat /\ mn[1] * mn[2] \in Nat
            BY <1>4, <2>1
        <3> QED BY <3>1, <3>2
    <2>3. um * un \in Nat \ {0}
        BY <2>1, ProductIsPositive
    <2>4. um * un <= q
        <3>1. mn[1] * mn[2] \in Nat
            BY <1>4
        <3> QED BY <1>3, <1>4, <2>2, <2>3, <3>1
    <2> DEFINE x == um * un
    <2> HIDE DEF x
    <2>5. x \in Nat \ {0} /\ x <= q
        BY <2>3, <2>4 DEF x
    <2>6. x * uk <= q * uk /\ uk * q <= nk * q
        BY <1>2, <1>3, <2>1, <2>5, ProductMonotone
    <2>7. /\ q * uk = uk * q /\ nk * q = q * nk
          /\ x * uk \in Nat /\ q * uk \in Nat /\ q * nk \in Nat
        BY <1>2, <1>3, <2>1, <2>5
    <2>8. x * uk \in Nat \ {0}
        BY <2>1, <2>5, ProductIsPositive
    <2>9. x * uk \in 1..most
        BY <1>3, <2>6, <2>7, <2>8
    <2> QED BY <2>9 DEF x
<1>7. CASE most = 1
    <2> DEFINE p == [nthr_m |-> 1, nthr_n |-> 1, nthr_k |-> 1, MB |-> m, NB |-> n, KB |-> k]
    <2>1. IsPart(p, m, n, k, most)
        BY DEF IsPart
    <2> QED BY <1>1, <1>7, <2>1
<1>8. CASE most # 1
    <2> DEFINE p == [nthr_m |-> um, nthr_n |-> un, nthr_k |-> uk, MB |-> MB, NB |-> NB, KB |-> KB]
    <2>1. IsPart(p, m, n, k, most)
        BY <1>2, <1>4, <1>5, <1>6 DEF IsPart
    <2> QED BY <1>1, <1>8, <2>1
<1> QED BY <1>7, <1>8

-----------------------------------------------------------------------------
(* How the blocked gemm divides a product *)

\* choose_blocking: the threads' places cover the dimension, the last one's too.
LEMMA ChooseBlockingFacts ==
    ASSUME NEW size \in Nat \ {0}, NEW nthr \in Nat \ {0}, NEW block \in Nat \ {0},
           NEW align \in Nat \ {0}
    PROVE  LET b == choose_blocking(size, nthr, block, align)
           IN  /\ b.thread \in Nat \ {0} /\ b.nthr \in 1..nthr
               /\ b.thread * b.nthr >= size /\ b.thread * (b.nthr - 1) < size
<1> DEFINE thread_init == div_up(size, nthr)
           num_blk     == div_up(thread_init, block)
           each        == div_up(thread_init, num_blk)
           rounded     == rnd_up(each, align)
           thread      == num_blk * rounded
           u           == IF thread * nthr > size THEN div_up(size, thread) ELSE nthr
<1>1. choose_blocking(size, nthr, block, align) = [thread |-> thread, nthr |-> u]
    BY Zenon DEF choose_blocking
<1>2. thread_init \in Nat \ {0} /\ size <= thread_init * nthr
    BY DivUpFacts
<1> HIDE DEF thread_init
<1>3. num_blk \in Nat \ {0}
    BY <1>2, DivUpFacts
<1> HIDE DEF num_blk
<1>4. each \in Nat \ {0} /\ thread_init <= each * num_blk
    BY <1>2, <1>3, DivUpFacts
<1> HIDE DEF each
<1>5. rounded \in Nat \ {0} /\ each <= rounded
    <2>1. div_up(each, align) \in Nat \ {0} /\ each <= div_up(each, align) * align
        BY <1>4, DivUpFacts
    <2> QED BY <1>4, <2>1, ProductIsPositive DEF rnd_up
<1> HIDE DEF rounded
<1>6. thread \in Nat \ {0} /\ thread_init <= thread
    <2>1. each * num_blk <= rounded * num_blk
        BY <1>3, <1>4, <1>5, ProductMonotone
    <2>2. rounded * num_blk = thread /\ thread \in Nat \ {0} /\ each * num_blk \in Nat
        BY <1>3, <1>4, <1>5, ProductIsPositive
    <2> QED BY <1>2, <1>4, <2>1, <2>2
<1> HIDE DEF thread
<1>7. thread * nthr >= size
    <2>1. thread_init * nthr <= thread * nthr
        BY <1>2, <1>6, ProductMonotone
    <2>2. thread_init * nthr \in Nat /\ thread * nthr \in Nat
        BY <1>2, <1>6
    <2> QED BY <1>2, <2>1, <2>2
<1>8. u \in 1..nthr /\ thread * u >= size /\ thread * (u - 1) < size
    BY <1>6, <1>7, UsedFacts
<1> QED BY <1>1, <1>6, <1>8

\* The fields of a problem.
IsProblem(p) ==
    /\ p \in Problem
    /\ p.m \in Nat \ {0} /\ p.n \in Nat \ {0} /\ p.k \in Nat \ {0}
    /\ p.goal \in Nat \ {0} /\ p.nthr_max \in Nat \ {0} /\ p.goal <= p.nthr_max
    /\ p.split[1] \in Nat \ {0} /\ p.split[2] \in Nat \ {0} /\ p.split[3] \in Nat \ {0}
    /\ p.split[1] * p.split[2] * p.split[3] <= p.goal

\* What the assumption on the inputs says of one input.
LEMMA ProblemsAreProblems == ASSUME NEW p \in Problems PROVE IsProblem(p)
<1>1. /\ p \in Problem /\ p.goal <= p.nthr_max
      /\ p.split[1] * p.split[2] * p.split[3] <= p.goal
    BY ProblemsAssumption
<1> QED BY <1>1 DEF IsProblem, Problem

\* The four ways a product can be divided.
RowsOnly(t) == /\ t.partition = "row_1d" /\ t.copy = "nonshared"
               /\ t.nthrs_m \in Nat \ {0} /\ t.nthrs_n = 1 /\ t.nthrs_k = 1
ColumnsOnly(t) == /\ t.partition = "col_1d" /\ t.copy \in {"nonshared", "shared_a"}
                  /\ t.nthrs_m = 1 /\ t.nthrs_n \in Nat \ {0} /\ t.nthrs_k = 1
InTwo(t, p) == /\ t.partition = "col_major_2d" /\ t.copy = "nonshared"
               /\ t.nthrs_m \in {1, 2, 4} /\ t.nthrs_n \in Nat \ {0} /\ t.nthrs_k = 1
               /\ t.nthrs_m = 4 => p.m >= 20
InThreeDims(t, p) ==
    /\ t.partition = "mnk_3d" /\ t.copy = "nonshared"
    /\ t.nthrs_m \in Nat \ {0} /\ t.nthrs_n \in Nat \ {0} /\ t.nthrs_k \in Nat \ {0}
    /\ t.thread_m \in Nat \ {0} /\ t.thread_n \in Nat \ {0} /\ t.thread_k \in Nat \ {0}
    /\ t.thread_m * t.nthrs_m >= p.m /\ t.thread_m * (t.nthrs_m - 1) < p.m
    /\ t.thread_n * t.nthrs_n >= p.n /\ t.thread_n * (t.nthrs_n - 1) < p.n
    /\ t.thread_k * t.nthrs_k >= p.k /\ t.thread_k * (t.nthrs_k - 1) < p.k

Division(t, p) == RowsOnly(t) \/ ColumnsOnly(t) \/ InTwo(t, p) \/ InThreeDims(t, p)

\* The number of slices is positive.
LEMMA SlicesAreSome ==
    ASSUME NEW t, NEW p, Division(t, p)
    PROVE  /\ t.nthrs_m \in Nat \ {0} /\ t.nthrs_n \in Nat \ {0} /\ t.nthrs_k \in Nat \ {0}
           /\ t.nthrs_m * t.nthrs_n \in Nat \ {0}
           /\ nthrs(t) \in Nat \ {0}
<1>1. t.nthrs_m \in Nat \ {0} /\ t.nthrs_n \in Nat \ {0} /\ t.nthrs_k \in Nat \ {0}
    BY DEF Division, RowsOnly, ColumnsOnly, InTwo, InThreeDims
<1>2. t.nthrs_m * t.nthrs_n \in Nat \ {0}
    BY <1>1, ProductIsPositive
<1>3. (t.nthrs_m * t.nthrs_n) * t.nthrs_k \in Nat \ {0}
    BY <1>1, <1>2, ProductIsPositive
<1> QED BY <1>1, <1>2, <1>3 DEF nthrs

\* Threading of a packed matrix: the three dimensions as choose_blocking divided
\* them, with no more slices than the packing asked for.
LEMMA PackFacts ==
    ASSUME NEW p, p.m \in Nat \ {0}, p.n \in Nat \ {0}, p.k \in Nat \ {0},
           p.split[1] \in Nat \ {0}, p.split[2] \in Nat \ {0}, p.split[3] \in Nat \ {0}
    PROVE  /\ InThreeDims(set_thread_opts_pack(p), p)
           /\ nthrs(set_thread_opts_pack(p)) <= p.split[1] * p.split[2] * p.split[3]
<1> DEFINE bm == choose_blocking(p.m, p.split[1], arg.bm, arg.um)
           bn == choose_blocking(p.n, p.split[2], arg.bn, arg.un)
           bk == choose_blocking(p.k, p.split[3], arg.bk, arg.uk)
           a == p.split[1]
           b == p.split[2]
           d == p.split[3]
<1>1. set_thread_opts_pack(p) =
        [partition |-> "mnk_3d", nthrs_m |-> bm.nthr, nthrs_n |-> bn.nthr, nthrs_k |-> bk.nthr,
         copy |-> "nonshared", thread_m |-> bm.thread, thread_n |-> bn.thread, thread_k |-> bk.thread]
    <2>1. set_thread_opts_pack(p) =
            [Threading("mnk_3d", bm.nthr, bn.nthr, bk.nthr, "nonshared") EXCEPT
               !.thread_m = bm.thread, !.thread_n = bn.thread, !.thread_k = bk.thread]
        BY Zenon DEF set_thread_opts_pack
    <2> HIDE DEF bm, bn, bk
    <2> QED BY <2>1 DEF Threading
<1>2. /\ arg.bm \in Nat \ {0} /\ arg.um \in Nat \ {0} /\ arg.bn \in Nat \ {0}
      /\ arg.un \in Nat \ {0} /\ arg.bk \in Nat \ {0} /\ arg.uk \in Nat \ {0}
    BY ArgAssumption
<1>3. /\ bm.thread \in Nat \ {0} /\ bm.nthr \in 1..a
      /\ bm.thread * bm.nthr >= p.m /\ bm.thread * (bm.nthr - 1) < p.m
    BY <1>2, ChooseBlockingFacts
<1>4. /\ bn.thread \in Nat \ {0} /\ bn.nthr \in 1..b
      /\ bn.thread * bn.nthr >= p.n /\ bn.thread * (bn.nthr - 1) < p.n
    BY <1>2, ChooseBlockingFacts
<1>5. /\ bk.thread \in Nat \ {0} /\ bk.nthr \in 1..d
      /\ bk.thread * bk.nthr >= p.k /\ bk.thread * (bk.nthr - 1) < p.k
    BY <1>2, ChooseBlockingFacts
<1> HIDE DEF bm, bn, bk
<1>6. InThreeDims(set_thread_opts_pack(p), p)
    BY <1>1, <1>3, <1>4, <1>5 DEF InThreeDims
<1>7. (bm.nthr * bn.nthr) * bk.nthr <= (a * b) * d
    <2> DEFINE x == bm.nthr
               y == bn.nthr
               z == bk.nthr
    <2>1. x \in Nat /\ y \in Nat /\ z \in Nat /\ x <= a /\ y <= b /\ z <= d
          /\ a \in Nat /\ b \in Nat /\ d \in Nat
        BY <1>3, <1>4, <1>5
    <2> HIDE DEF x, y, z, a, b, d
    <2>2. x * y <= a * y /\ y * a <= b * a
        BY <2>1, ProductMonotone
    <2>3. x * y <= a * b /\ x * y \in Nat /\ a * b \in Nat
        <3>1. y * a = a * y /\ b * a = a * b /\ x * y \in Nat /\ a * y \in Nat /\ a * b \in Nat
            BY <2>1
        <3> QED BY <2>2, <3>1
    <2> DEFINE e == x * y
               f == a * b
    <2> HIDE DEF e, f
    <2>4. e * z <= f * z /\ z * f <= d * f /\ e \in Nat /\ f \in Nat
        BY <2>1, <2>3, ProductMonotone DEF e, f
    <2>5. z * f = f * z /\ d * f = f * d /\ e * z \in Nat /\ f * z \in Nat /\ f * d \in Nat
        BY <2>1, <2>4
    <2>6. e * z <= f * d
        BY <2>4, <2>5
    <2> QED BY <2>6 DEF e, f, x, y, z
<1>8. nthrs(set_thread_opts_pack(p)) = (bm.nthr * bn.nthr) * bk.nthr
    BY <1>1 DEF nthrs
<1> QED BY <1>6, <1>7, <1>8

\* Threading with nothing packed: one of the divisions below, with no more slices
\* than threads, and only the division in three dimensions splits k.
LEMMA NopackFacts ==
    ASSUME NEW p, IsProblem(p), NEW nthr \in Nat \ {0}, NEW spawn \in Nat \ {0}
    PROVE  LET t == set_thread_opts_nopack(p, nthr, spawn)
           IN  /\ Division(t, p)
               /\ t.copy = "shared_a" <=> p.plan = "shared_a"
               /\ nthrs(t) <= IF p.plan = "shared_a" THEN spawn ELSE nthr
               /\ p.plan = "shared_a" => nthrs(t) = spawn
               /\ t.nthrs_k > 1 => p.plan = "mnk_3d"
<1> DEFINE t == set_thread_opts_nopack(p, nthr, spawn)
           nm == nthrs_m_2d(p, nthr)
<1>1. p.plan \in {"row_1d", "col_1d", "col_major_2d", "mnk_3d", "shared_a"}
    BY DEF IsProblem, Problem
<1>2. CASE p.plan = "row_1d"
    <2>1. t = Threading("row_1d", nthr, 1, 1, "nonshared")
        BY <1>2 DEF set_thread_opts_nopack
    <2> HIDE DEF t
    <2>2. RowsOnly(t) /\ nthrs(t) = nthr /\ t.copy = "nonshared" /\ t.nthrs_k = 1
        BY <2>1 DEF Threading, RowsOnly, nthrs
    <2> QED BY <1>2, <2>2 DEF Division, t
<1>3. CASE p.plan = "col_1d"
    <2>1. t = Threading("col_1d", 1, nthr, 1, "nonshared")
        BY <1>3 DEF set_thread_opts_nopack
    <2> HIDE DEF t
    <2>2. ColumnsOnly(t) /\ nthrs(t) = nthr /\ t.copy = "nonshared" /\ t.nthrs_k = 1
        BY <2>1 DEF Threading, ColumnsOnly, nthrs
    <2> QED BY <1>3, <2>2 DEF Division, t
<1>4. CASE p.plan = "shared_a"
    <2>1. t = Threading("col_1d", 1, spawn, 1, "shared_a")
        BY <1>4 DEF set_thread_opts_nopack
    <2> HIDE DEF t
    <2>2. ColumnsOnly(t) /\ nthrs(t) = spawn /\ t.copy = "shared_a" /\ t.nthrs_k = 1
        BY <2>1 DEF Threading, ColumnsOnly, nthrs
    <2> QED BY <1>4, <2>2 DEF Division, t
<1>5. CASE p.plan = "col_major_2d"
    <2>1. t = Threading("col_major_2d", nm, nthr \div nm, 1, "nonshared")
        BY <1>5, Zenon DEF set_thread_opts_nopack
    <2>2. nm \in {1, 2, 4} /\ nm <= nthr /\ (nm = 4 => p.m >= 20)
        <3> DEFINE half == nthr \div 2
        <3>1. nm \in {1, 2, 4} /\ (nm # 1 => MoreForRows(p, nthr, 1)) /\ (nm = 4 => MoreForRows(p, nthr, 2))
            BY DEF nthrs_m_2d
        <3>2. ASSUME MoreForRows(p, nthr, 1) PROVE nthr % 2 = 0
            <4>1. (nthr \div 1) % 2 = 0 /\ nthr \div 1 = nthr
                BY <3>2 DEF MoreForRows
            <4> QED BY <4>1
        <3>3. ASSUME MoreForRows(p, nthr, 2) PROVE half % 2 = 0 /\ p.m >= 20
            <4>1. half % 2 = 0 /\ p.m \div 2 >= 2 * arg.m2d_min
                BY <3>3 DEF MoreForRows
            <4>2. arg.m2d_min \in Nat /\ arg.m2d_min >= 5 /\ p.m \in Nat
                BY ArgAssumption DEF IsProblem, Problem
            <4> QED BY <4>1, <4>2
        <3>4. nthr % 2 = 0 => half \in Nat \ {0} /\ nthr = 2 * half
            OBVIOUS
        <3> HIDE DEF nm, half
        <3>5. half \in Nat \ {0} /\ half % 2 = 0 => half >= 2
            OBVIOUS
        <3> QED BY <3>1, <3>2, <3>3, <3>4, <3>5
    <2> HIDE DEF nm
    <2>3. nthr \div nm \in Nat \ {0} /\ (nthr \div nm) * nm <= nthr
        BY <2>2, QuotientIsPositive
    <2> HIDE DEF t
    <2> DEFINE q == nthr \div nm
    <2> HIDE DEF q
    <2>4. t = Threading("col_major_2d", nm, q, 1, "nonshared")
        BY <2>1 DEF q
    <2>5. InTwo(t, p) /\ nthrs(t) = nm * q /\ t.copy = "nonshared" /\ t.nthrs_k = 1
        BY <2>2, <2>3, <2>4 DEF Threading, InTwo, nthrs, q
    <2>6. nm * q <= nthr
        BY <2>2, <2>3 DEF q
    <2> QED BY <1>5, <2>5, <2>6 DEF Division, t
<1>6. CASE p.plan = "mnk_3d"
    <2> DEFINE q == [p EXCEPT !.split = <<nthr, 1, 1>>]
               r == IF p.split[1] * p.split[2] * p.split[3] <= nthr THEN p ELSE q
    <2>1. t = set_thread_opts_pack(r)
        BY <1>6, Zenon DEF set_thread_opts_nopack
    <2>2. /\ q.m = p.m /\ q.n = p.n /\ q.k = p.k
          /\ q.split[1] = nthr /\ q.split[2] = 1 /\ q.split[3] = 1
        BY DEF IsProblem, Problem
    <2> HIDE DEF q
    <2>3. /\ r.m = p.m /\ r.n = p.n /\ r.k = p.k
          /\ r.split[1] \in Nat \ {0} /\ r.split[2] \in Nat \ {0} /\ r.split[3] \in Nat \ {0}
          /\ r.split[1] * r.split[2] * r.split[3] <= nthr
        <3>1. CASE p.split[1] * p.split[2] * p.split[3] <= nthr
            BY <3>1 DEF IsProblem
        <3>2. CASE ~(p.split[1] * p.split[2] * p.split[3] <= nthr)
            <4>1. r = q
                BY <3>2
            <4> HIDE DEF r
            <4>2. nthr * 1 * 1 <= nthr
                OBVIOUS
            <4> QED BY <2>2, <4>1, <4>2
        <3> QED BY <3>1, <3>2
    <2> HIDE DEF r
    <2>4. InThreeDims(t, r) /\ nthrs(t) <= r.split[1] * r.split[2] * r.split[3]
        <3>1. r.m \in Nat \ {0} /\ r.n \in Nat \ {0} /\ r.k \in Nat \ {0}
            BY <2>3 DEF IsProblem
        <3> QED BY <2>1, <2>3, <3>1, PackFacts
    <2>5. InThreeDims(t, p)
        BY <2>3, <2>4 DEF InThreeDims
    <2> HIDE DEF t
    <2>6. nthrs(t) <= nthr
        <3>1. nthrs(t) \in Nat
            BY <2>5, SlicesAreSome DEF Division
        <3>2. r.split[1] * r.split[2] * r.split[3] \in Nat
            BY <2>3
        <3> QED BY <2>3, <2>4, <3>1, <3>2
    <2>7. t.copy = "nonshared"
        BY <2>5 DEF InThreeDims
    <2> QED BY <1>6, <2>5, <2>6, <2>7 DEF Division, t
<1> HIDE DEF t
<1> QED BY <1>1, <1>2, <1>3, <1>4, <1>5, <1>6 DEF t

\* The region and its team: with fewer threads the choice stays the same.
LEMMA CheckerIsMonotone ==
    ASSUME NEW a \in Nat \ {0}, NEW b \in Nat \ {0}, a <= b, NEW transb \in BOOLEAN,
           NEW m \in Nat \ {0}, NEW n \in Nat \ {0}, NEW k \in Nat \ {0},
           nocopy_checker_avx2(a, transb, m, n, k)
    PROVE  nocopy_checker_avx2(b, transb, m, n, k)
<1> DEFINE B == nocopy.block
           N == nocopy.n[transb]
           K == nocopy.k[transb]
           F == nocopy.n[FALSE]
<1>1. B \in Nat /\ N \in Nat /\ K \in Nat /\ F \in Nat /\ nocopy.bm \in Nat /\ nocopy.mn \in Nat
    BY NocopyAssumption
<1>2. CASE CopyIsCostly(m, n)
    BY <1>2 DEF nocopy_checker_avx2
<1>3. CASE ~CopyIsCostly(m, n)
    <2>1. /\ ~(m <= B /\ n <= B /\ k >= a * B)
          /\ ~(m >= a * B /\ k >= a * B)
          /\ \/ m <= nocopy.mn /\ n <= nocopy.mn
             \/ n <= a * N
             \/ k <= a * K
             \/ ~transb /\ m <= nocopy.bm /\ n >= a * F
        BY <1>3 DEF nocopy_checker_avx2
    <2>2. ~transb => N = F
        BY <1>1
    <2> HIDE DEF B, N, K, F
    <2>3. a * B <= b * B /\ a * N <= b * N /\ a * K <= b * K
        BY <1>1, ProductMonotone
    <2>4. /\ a * B \in Nat /\ b * B \in Nat /\ a * N \in Nat /\ b * N \in Nat
          /\ a * K \in Nat /\ b * K \in Nat /\ b * F \in Nat
        BY <1>1
    <2>5. ~(m <= B /\ n <= B /\ k >= b * B) /\ ~(m >= b * B /\ k >= b * B)
        BY <1>1, <2>1, <2>3, <2>4
    <2>6. \/ m <= nocopy.mn /\ n <= nocopy.mn
          \/ n <= b * N
          \/ k <= b * K
          \/ ~transb /\ m <= nocopy.bm /\ n >= b * F
        BY <1>1, <2>1, <2>2, <2>3, <2>4
    <2> QED BY <2>5, <2>6 DEF nocopy_checker_avx2, B, N, K, F
<1> QED BY <1>2, <1>3

\* The threads that the driver counts on.
LEMMA GoalFacts ==
    ASSUME NEW p \in Problems
    PROVE  /\ nthr_goal(p) \in Nat \ {0} /\ nthr_goal(p) <= p.goal
           /\ force_threading(p) => /\ Division(forced(p), p) /\ nthrs(forced(p)) = nthr_goal(p)
           /\ ~force_threading(p) => nthr_goal(p) = p.goal
<1>1. IsProblem(p) /\ p.goal \in Nat \ {0}
    BY ProblemsAreProblems DEF IsProblem
<1>2. /\ Division(forced(p), p) /\ nthrs(forced(p)) <= p.goal
    BY <1>1, NopackFacts DEF forced
<1>3. nthrs(forced(p)) \in Nat \ {0}
    BY <1>2, SlicesAreSome
<1> QED BY <1>1, <1>2, <1>3 DEF nthr_goal

\* A team divides the product in one of the four ways, and never finds out
\* that it should not be copied.
LEMMA ThreadingFacts ==
    ASSUME NEW p \in Problems, ~IsNocopy(p, nthr_goal(p)), NEW nthr \in Nat \ {0}
    PROVE  LET t == threading_of(p, nthr)
           IN  /\ Division(t, p)
               /\ t.copy = "shared_a" => t.nthrs_k = 1
               /\ t.copy = "shared_a" /\ p.packed = "none" => nthrs(t) = nthr
<1> DEFINE n == Lesser(p.goal, nthr)
           t == threading_of(p, nthr)
<1>1. IsProblem(p) /\ p.goal \in Nat \ {0} /\ p.packed \in {"none", "a", "b"}
    BY ProblemsAreProblems DEF IsProblem, Problem
<1>2. n \in Nat \ {0} /\ n <= p.goal
    BY <1>1 DEF Lesser
<1> HIDE DEF n
<1>3. t = CASE force_threading(p) -> forced(p)
            [] ~force_threading(p) /\ n = 1 -> Threading("row_1d", 1, 1, 1, "nonshared")
            [] OTHER -> set_thread_opts(p, n, nthr)
    BY Zenon DEF threading_of, n
<1>4. ASSUME Division(t, p), t.copy = "shared_a" PROVE t.nthrs_k = 1
    BY <1>4 DEF Division, RowsOnly, ColumnsOnly, InTwo, InThreeDims
<1> HIDE DEF t
<1>5. CASE force_threading(p)
    <2>1. t = forced(p) /\ Division(t, p)
        BY <1>3, <1>5, GoalFacts
    <2>2. p.packed = "none" => p.plan = "mnk_3d"
        BY <1>5 DEF force_threading
    <2>3. t.copy = "shared_a" => p.plan = "shared_a"
        BY <1>1, <2>1, NopackFacts DEF forced
    <2> QED BY <1>4, <2>1, <2>2, <2>3 DEF t
<1>6. CASE ~force_threading(p) /\ n = 1
    <2>1. t = Threading("row_1d", 1, 1, 1, "nonshared")
        BY <1>3, <1>6
    <2>2. RowsOnly(t)
        BY <2>1 DEF RowsOnly, Threading
    <2> QED BY <1>4, <2>2 DEF RowsOnly, Division, t
<1>7. CASE ~force_threading(p) /\ n # 1
    <2>1. t = set_thread_opts(p, n, nthr)
        BY <1>3, <1>7
    <2>2. ~IsNocopy(p, p.goal)
        BY <1>7 DEF nthr_goal
    <2>3. ~IsNocopy(p, n)
        <3> SUFFICES ASSUME p.packed = "none", nocopy_checker_avx2(n, p.transb, p.m, p.n, p.k)
                     PROVE  nocopy_checker_avx2(p.goal, p.transb, p.m, p.n, p.k)
            BY <2>2 DEF IsNocopy
        <3>1. p.transb \in BOOLEAN /\ p.m \in Nat \ {0} /\ p.n \in Nat \ {0} /\ p.k \in Nat \ {0}
            BY <1>1 DEF IsProblem, Problem
        <3> QED BY <1>1, <1>2, <3>1, CheckerIsMonotone
    <2>4. t = set_thread_opts_nopack(p, n, nthr)
        BY <2>1, <2>3 DEF set_thread_opts
    <2>5. Division(t, p) /\ (t.copy = "shared_a" => nthrs(t) = nthr)
        BY <1>1, <1>2, <2>4, NopackFacts
    <2> QED BY <1>4, <2>5 DEF t
<1> QED BY <1>5, <1>6, <1>7

-----------------------------------------------------------------------------
(* The partition of the gemm that copies nothing *)

\* The call and its partition stay what they are.
PartInv ==
    /\ prob \in Problems
    /\ Diverted =>
         /\ nocopy_prob = call_no_copy_sgemm(prob)
         /\ IsPart(nocopy_part, nocopy_prob.m, nocopy_prob.n, nocopy_prob.k, nocopy_prob.nthrs)

\* A thread's step leaves the call, its team and their threading as they are.
LEMMA StepStays ==
    ASSUME NEW t \in Team, Step(t) PROVE UNCHANGED <<prob, team, thread_info>>
    BY DEF Step, Allocate, GetMemory, Copy, Multiply, MultiplyFails, Advance, Compute,
        ComputeFails, Publish, AddOwn, AddOther, SumLater, Spin, InCall, vars

\* No step of the blocked gemm changes the call.
LEMMA CallStays ==
    ASSUME Next PROVE prob' = prob
<1>1. CASE CallAlone \/ Call \/ EndCompute \/ BeginLater \/ EndLater \/ Return
    BY <1>1 DEF CallAlone, Call, EndCompute, BeginLater, EndLater, Return
<1> QED BY <1>1, StepStays DEF Next

\* Nor does one of the gemm that copies nothing.
LEMMA NocopyStepStays ==
    ASSUME NEW t \in Nocopy!Team, Nocopy!Step(t)
    PROVE  UNCHANGED <<nocopy_prob, nocopy_part, nocopy_region, nocopy_team>>
    BY DEF Nocopy!Step, Nocopy!Compute, Nocopy!ComputeFails, Nocopy!Publish, Nocopy!AddOwn,
        Nocopy!AddOther, Nocopy!SumLater, Nocopy!Spin, Nocopy!InCall, Nocopy!vars

\* Nor does the gemm that copies nothing.
LEMMA NocopyCallStays ==
    ASSUME Nocopy!Next PROVE nocopy_prob' = nocopy_prob /\ nocopy_part' = nocopy_part
<1>1. CASE \/ Nocopy!Call \/ Nocopy!CallFails \/ Nocopy!EndCompute
          \/ Nocopy!BeginLater \/ Nocopy!EndLater \/ Nocopy!Return
    BY <1>1 DEF Nocopy!Call, Nocopy!CallFails, Nocopy!EndCompute, Nocopy!BeginLater,
        Nocopy!EndLater, Nocopy!Return
<1> QED BY <1>1, NocopyStepStays DEF Nocopy!Next

\* The partition of a call handed to the copy-nothing gemm is the one calc_nthr
\* computed for it, from beginning to end of the call.
LEMMA PartInvHolds == DriverSpec => []PartInv
<1>1. DriverInit => PartInv
    <2> SUFFICES ASSUME DriverInit PROVE PartInv
        OBVIOUS
    <2>1. prob \in Problems
        BY DEF DriverInit, Init
    <2>2. ASSUME Diverted
          PROVE  /\ nocopy_prob = call_no_copy_sgemm(prob)
                 /\ nocopy_part = Nocopy!calc_nthr_nocopy_avx(nocopy_prob.m, nocopy_prob.n,
                                                              nocopy_prob.k, nocopy_prob.nthrs)
        BY <2>2 DEF DriverInit, Nocopy!Init
    <2>3. /\ prob.m \in Nat \ {0} /\ prob.n \in Nat \ {0} /\ prob.k \in Nat \ {0}
          /\ nthr_goal(prob) \in Nat \ {0}
        BY <2>1, ProblemsAreProblems, GoalFacts DEF IsProblem
    <2>4. ASSUME Diverted
          PROVE  /\ nocopy_prob.m = prob.m /\ nocopy_prob.n = prob.n /\ nocopy_prob.k = prob.k
                 /\ nocopy_prob.nthrs = nthr_goal(prob)
        BY <2>2, <2>4 DEF call_no_copy_sgemm
    <2> QED BY <2>1, <2>2, <2>3, <2>4, CalcFacts DEF PartInv
<1>2. PartInv /\ [DriverNext]_driver_vars => PartInv'
    <2> SUFFICES ASSUME PartInv, [DriverNext]_driver_vars PROVE PartInv'
        OBVIOUS
    <2>1. prob' = prob /\ (Diverted => UNCHANGED <<nocopy_prob, nocopy_part>>)
        <3>1. CASE UNCHANGED driver_vars
            BY <3>1 DEF driver_vars, vars, nocopy_vars
        <3>2. CASE DriverNext
            BY <3>2, CallStays, NocopyCallStays DEF DriverNext, vars
        <3> QED BY <3>1, <3>2
    <2> QED BY <2>1 DEF PartInv, Diverted
<1> QED BY <1>1, <1>2, PTL DEF DriverSpec

\* An exact partition, from its numbers.
LEMMA PartIsExact ==
    ASSUME nocopy_prob.m \in Nat \ {0}, nocopy_prob.n \in Nat \ {0}, nocopy_prob.k \in Nat \ {0},
           nocopy_prob.nthrs \in Nat \ {0},
           IsPart(nocopy_part, nocopy_prob.m, nocopy_prob.n, nocopy_prob.k, nocopy_prob.nthrs)
    PROVE  Nocopy!PartitionIsExact
<1> DEFINE p == nocopy_part
           q == nocopy_prob
<1>0. /\ p.nthr_m \in Nat \ {0} /\ p.nthr_n \in Nat \ {0} /\ p.nthr_k \in Nat \ {0}
      /\ p.MB \in Nat \ {0} /\ p.NB \in Nat \ {0} /\ p.KB \in Nat \ {0}
      /\ (p.nthr_m * p.nthr_n) * p.nthr_k \in 1..q.nthrs
      /\ p.MB * p.nthr_m >= q.m /\ p.MB * (p.nthr_m - 1) < q.m
      /\ p.NB * p.nthr_n >= q.n /\ p.NB * (p.nthr_n - 1) < q.n
      /\ p.KB * p.nthr_k >= q.k /\ p.KB * (p.nthr_k - 1) < q.k
    BY DEF IsPart
\* Block i of a dimension is not empty.
<1>1. ASSUME NEW u \in Nat \ {0}, NEW b \in Nat \ {0}, NEW d \in Nat \ {0}, b * (u - 1) < d,
             NEW i \in 0..(u - 1)
      PROVE  Nocopy!BlockRange(i, b, d) # {}
    <2>1. i * b <= (u - 1) * b
        BY <1>1, ProductMonotone
    <2>2. b * i < d
        <3>1. i * b = b * i /\ (u - 1) * b = b * (u - 1) /\ b * i \in Nat
            BY <1>1
        <3> QED BY <1>1, <2>1, <3>1
    <2>3. b * i < b * (i + 1) /\ b * i \in Nat /\ b * (i + 1) \in Nat
        BY <1>1
    <2>4. b * i \in Nocopy!BlockRange(i, b, d)
        BY <2>2, <2>3 DEF Nocopy!BlockRange, Nocopy!Lesser
    <2> QED BY <2>4
<1>2. ASSUME NEW mn \in Nocopy!Blocks
      PROVE  Nocopy!MRange(mn) # {} /\ Nocopy!NRange(mn) # {}
    <2>1. mn \in 0..(p.nthr_n * p.nthr_m - 1)
        <3>1. p.nthr_m * p.nthr_n = p.nthr_n * p.nthr_m
            BY <1>0
        <3> QED BY <3>1 DEF Nocopy!Blocks, Nocopy!nthr_mn
    <2>2. mn \div p.nthr_m \in 0..(p.nthr_n - 1) /\ mn % p.nthr_m \in 0..(p.nthr_m - 1)
        BY <1>0, <2>1, PairsOfANumber
    <2> HIDE DEF p, q
    <2> QED BY <1>0, <1>1, <2>2 DEF Nocopy!MRange, Nocopy!NRange, p, q
<1>3. ASSUME NEW i \in Nocopy!Parts
      PROVE  Nocopy!BlockRange(i, p.KB, q.k) # {}
    <2>1. i \in 0..(p.nthr_k - 1)
        BY DEF Nocopy!Parts, Nocopy!nthr_k
    <2> QED BY <1>0, <1>1, <2>1
<1>4. Nocopy!nthr_to_use \in 1..q.nthrs /\ Nocopy!nthr_k = p.nthr_k
    BY <1>0 DEF Nocopy!nthr_to_use, Nocopy!nthr_mn, Nocopy!nthr_k
<1> QED BY <1>0, <1>2, <1>3, <1>4 DEF Nocopy!PartitionIsExact

\* calc_nthr_nocopy_avx divides every product among no more threads than there
\* are, in blocks and parts of k that cover it and of which none is empty.
THEOREM PartitionsAreExact == DriverSpec => []PartitionIsExact
<1>1. PartInv => PartitionIsExact
    <2> SUFFICES ASSUME PartInv, Diverted PROVE Nocopy!PartitionIsExact
        BY DEF PartitionIsExact
    <2>1. /\ prob.m \in Nat \ {0} /\ prob.n \in Nat \ {0} /\ prob.k \in Nat \ {0}
          /\ nthr_goal(prob) \in Nat \ {0}
        BY ProblemsAreProblems, GoalFacts DEF PartInv, IsProblem
    <2>2. /\ nocopy_prob.m = prob.m /\ nocopy_prob.n = prob.n /\ nocopy_prob.k = prob.k
          /\ nocopy_prob.nthrs = nthr_goal(prob)
        BY DEF PartInv, call_no_copy_sgemm
    <2> QED BY <2>1, <2>2, PartIsExact DEF PartInv
<1> QED BY <1>1, PartInvHolds, PTL

-----------------------------------------------------------------------------
(* Dimensions divided at points *)

\* partition_unit_diff gives every column to one thread.
LEMMA UnitDiffFacts ==
    ASSUME NEW N \in Nat \ {0}, NEW n \in Nat
    PROVE  /\ \A i \in 0..(N - 1) : Nocopy!t_range(i, N, n) \subseteq 0..(n - 1)
           /\ \A x \in 0..(n - 1) : \E i \in 0..(N - 1) : x \in Nocopy!t_range(i, N, n)
           /\ \A i, j \in 0..(N - 1) :
                i # j => Nocopy!t_range(i, N, n) \cap Nocopy!t_range(j, N, n) = {}
<1> DEFINE band == IF n \div N = 0 THEN 1 ELSE n \div N
           tail == IF n > band * N THEN n - band * N ELSE 0
           size(i) == IF i < tail THEN band + 1 ELSE band
           off(i) == IF i < tail THEN size(i) * i ELSE band * i + tail
           O == [i \in 0..N |-> band * i + (IF i < tail THEN i ELSE tail)]
<1>1. band \in Nat \ {0} /\ n < band * N + N
    <2>1. n \div N \in Nat /\ n % N \in 0..(N - 1) /\ n = N * (n \div N) + (n % N)
        BY DivisionFacts
    <2> DEFINE q == n \div N
    <2> HIDE DEF q
    <2>2. q \in Nat /\ n < N * q + N
        BY <2>1 DEF q
    <2>3. CASE q = 0
        BY <2>2, <2>3 DEF q
    <2>4. CASE q # 0
        <3>1. N * q = q * N /\ q * N \in Nat
            BY <2>2
        <3> QED BY <2>2, <2>4, <3>1 DEF q
    <2> QED BY <2>3, <2>4
<1> HIDE DEF band
<1>2. tail \in Nat /\ tail <= N /\ n <= band * N + tail
    <2>1. band * N \in Nat
        BY <1>1
    <2> DEFINE bn == band * N
    <2> HIDE DEF bn
    <2> QED BY <1>1, <2>1 DEF bn
<1> HIDE DEF tail
<1>3. ASSUME NEW i \in 0..(N - 1)
      PROVE  off(i) = O[i] /\ off(i) + size(i) = O[i + 1]
    <2>1. band * (i + 1) = band * i + band /\ band * i \in Nat /\ (band + 1) * i = band * i + i
        BY <1>1
    <2>2. i \in 0..N /\ i + 1 \in 0..N
        OBVIOUS
    <2> DEFINE bi == band * i
    <2>3. /\ O[i] = bi + (IF i < tail THEN i ELSE tail)
          /\ O[i + 1] = (bi + band) + (IF i + 1 < tail THEN i + 1 ELSE tail)
        BY <2>1, <2>2
    <2>4. off(i) = IF i < tail THEN bi + i ELSE bi + tail
        BY <2>1
    <2> HIDE DEF O, off, bi
    <2>5. bi \in Nat
        BY <2>1 DEF bi
    <2> QED BY <1>1, <1>2, <2>3, <2>4, <2>5
<1>4. Divides(O, N, n)
    <2>1. ASSUME NEW i \in 0..N PROVE O[i] \in Nat
        <3>1. band * i \in Nat
            BY <1>1
        <3> QED BY <1>2, <3>1
    <2>2. O[0] = 0
        BY <1>1, <1>2
    <2>3. O[N] >= n
        <3>1. O[N] = band * N + tail
            BY <1>1, <1>2
        <3> QED BY <1>2, <3>1
    <2>4. ASSUME NEW i \in 0..N, NEW j \in 0..N, i <= j PROVE O[i] <= O[j]
        <3>1. i * band <= j * band
            BY <1>1, <2>4, ProductMonotone
        <3>2. i * band = band * i /\ j * band = band * j /\ band * i \in Nat /\ band * j \in Nat
            BY <1>1
        <3> QED BY <1>2, <2>4, <3>1, <3>2
    <2> HIDE DEF O
    <2>5. O \in [0..N -> Nat]
        <3>1. O = [i \in 0..N |-> O[i]]
            BY DEF O
        <3> QED BY <2>1, <3>1
    <2> QED BY <2>2, <2>3, <2>4, <2>5 DEF Divides
<1>5. ASSUME NEW i \in 0..(N - 1) PROVE Nocopy!t_range(i, N, n) = Between(O, i, n)
    <2>1. Nocopy!t_range(i, N, n) =
            IF off(i) >= n THEN {} ELSE off(i)..(Lesser(off(i) + size(i), n) - 1)
        BY Zenon, NocopyNames DEF Nocopy!t_range, band, tail
    <2>2. O[i] \in Nat /\ O[i + 1] \in Nat
        BY <1>4, <1>5 DEF Divides
    <2> HIDE DEF off, size, O
    <2>3. Nocopy!t_range(i, N, n) = IF O[i] >= n THEN {} ELSE O[i]..(Lesser(O[i + 1], n) - 1)
        BY <1>3, <2>1
    <2>4. CASE O[i] >= n
        BY <2>2, <2>3, <2>4 DEF Between
    <2>5. CASE ~(O[i] >= n)
        BY <2>2, <2>3, <2>5 DEF Between, Lesser
    <2> QED BY <2>4, <2>5
<1> HIDE DEF O
<1>6. /\ \A x \in 0..(n - 1) : \E i \in 0..(N - 1) : x \in Between(O, i, n)
      /\ \A i, j \in 0..(N - 1) : i # j => Between(O, i, n) \cap Between(O, j, n) = {}
    BY <1>4, OnePart
<1>7. \A i \in 0..(N - 1) : Between(O, i, n) \subseteq 0..(n - 1)
    BY DEF Between
<1> QED BY <1>5, <1>6, <1>7

-----------------------------------------------------------------------------
(* The threads of a block, in the gemm that copies nothing *)

\* The instance of GemmKSum has its own name for it.
LEMMA NocopyCardinality == \A S : Nocopy!Cardinality(S) = Cardinality(S)
    BY Zenon DEF Cardinality, Nocopy!Cardinality

\* What the partition's numbers are.
LEMMA KNumbers ==
    ASSUME PartInv, Diverted
    PROVE  /\ Nocopy!nthr_mn \in Nat \ {0} /\ Nocopy!nthr_k \in Nat \ {0}
           /\ Nocopy!nthr_to_use \in Nat \ {0}
           /\ Nocopy!nthr_to_use = Nocopy!nthr_k * Nocopy!nthr_mn
           /\ nocopy_prob.nthrs \in Nat \ {0}
           /\ nocopy_prob.n \in Nat \ {0}
           /\ nocopy_part.NB \in Nat \ {0} /\ nocopy_part.nthr_m \in Nat \ {0}
<1>1. /\ nocopy_part.nthr_m \in Nat \ {0} /\ nocopy_part.nthr_n \in Nat \ {0}
      /\ nocopy_part.nthr_k \in Nat \ {0} /\ nocopy_part.NB \in Nat \ {0}
    BY DEF PartInv, IsPart
<1>2. Nocopy!nthr_mn \in Nat \ {0} /\ Nocopy!nthr_k \in Nat \ {0}
    BY <1>1, ProductIsPositive DEF Nocopy!nthr_mn, Nocopy!nthr_k
<1>3. Nocopy!nthr_to_use \in Nat \ {0} /\ Nocopy!nthr_to_use = Nocopy!nthr_k * Nocopy!nthr_mn
    BY <1>2, ProductIsPositive DEF Nocopy!nthr_to_use
<1>4. /\ nthr_goal(prob) \in Nat \ {0} /\ prob.n \in Nat \ {0}
    BY ProblemsAreProblems, GoalFacts DEF PartInv, IsProblem
<1>5. nocopy_prob.nthrs = nthr_goal(prob) /\ nocopy_prob.n = prob.n
    BY DEF PartInv, call_no_copy_sgemm
<1> QED BY <1>1, <1>2, <1>3, <1>4, <1>5

\* The threads that have a block of a partition of a region.
Owners == 0..(Nocopy!nthr_to_use - 1)

\* Every block and part of k is one thread's.
LEMMA OneThreadEach ==
    ASSUME PartInv, Diverted
    PROVE  /\ \A t \in Owners : Nocopy!Mn(t) \in Nocopy!Blocks /\ Nocopy!ithr_k(t) \in Nocopy!Parts
           /\ \A t, u \in Owners : Nocopy!Mn(t) = Nocopy!Mn(u) /\ Nocopy!ithr_k(t) = Nocopy!ithr_k(u)
                                     => t = u
           /\ \A b \in Nocopy!Blocks : \A i \in Nocopy!Parts :
                \E t \in Owners : Nocopy!Mn(t) = b /\ Nocopy!ithr_k(t) = i
<1> DEFINE K == Nocopy!nthr_k
           B == Nocopy!nthr_mn
           Swap(i) == CASE i = 0 -> K - 1 [] i # 0 /\ i = K - 1 -> 0 [] OTHER -> i
<1>1. K \in Nat \ {0} /\ B \in Nat \ {0} /\ Nocopy!nthr_to_use = K * B
    BY KNumbers
<1>2. \A t : Nocopy!Mn(t) = t % B /\ Nocopy!ithr_k(t) = Swap(t \div B)
    BY Zenon DEF Nocopy!Mn, Nocopy!ithr_k
<1>3. Nocopy!Blocks = 0..(B - 1) /\ Nocopy!Parts = 0..(K - 1) /\ Owners = 0..(K * B - 1)
    BY <1>1 DEF Nocopy!Blocks, Nocopy!Parts, Owners
<1> HIDE DEF K, B
<1>4. \A i \in 0..(K - 1) : Swap(i) \in 0..(K - 1) /\ Swap(Swap(i)) = i
    BY <1>1
<1> HIDE DEF Swap
<1>5. ASSUME NEW t \in Owners
      PROVE  /\ t \div B \in 0..(K - 1) /\ t % B \in 0..(B - 1)
             /\ t = (t \div B) * B + (t % B)
    BY <1>1, <1>3, <1>5, PairsOfANumber
<1>6. ASSUME NEW t \in Owners PROVE Nocopy!Mn(t) \in Nocopy!Blocks /\ Nocopy!ithr_k(t) \in Nocopy!Parts
    BY <1>2, <1>3, <1>4, <1>5
<1>7. ASSUME NEW t \in Owners, NEW u \in Owners,
             Nocopy!Mn(t) = Nocopy!Mn(u), Nocopy!ithr_k(t) = Nocopy!ithr_k(u)
      PROVE  t = u
    <2>1. t % B = u % B /\ Swap(t \div B) = Swap(u \div B)
        BY <1>2, <1>7
    <2>2. t \div B = u \div B
        BY <1>4, <1>5, <2>1
    <2> QED BY <1>5, <2>1, <2>2
<1>8. ASSUME NEW b \in Nocopy!Blocks, NEW i \in Nocopy!Parts
      PROVE  \E t \in Owners : Nocopy!Mn(t) = b /\ Nocopy!ithr_k(t) = i
    <2>1. b \in 0..(B - 1) /\ Swap(i) \in 0..(K - 1) /\ Swap(Swap(i)) = i
        BY <1>3, <1>4
    <2> DEFINE t == Swap(i) * B + b
    <2>2. t \in 0..(K * B - 1) /\ t \div B = Swap(i) /\ t % B = b
        <3> HIDE DEF t
        <3>1. ASSUME NEW q \in 0..(K - 1) PROVE /\ q * B + b \in 0..(K * B - 1)
                                               /\ (q * B + b) \div B = q /\ (q * B + b) % B = b
            BY <1>1, <2>1, NumberOfAPair
        <3> QED BY <2>1, <3>1 DEF t
    <2> HIDE DEF t
    <2> QED BY <1>2, <1>3, <2>1, <2>2
<1> QED BY <1>6, <1>7, <1>8

\* Every column of a block is summed by one of its threads.
LEMMA OneSummerEach ==
    ASSUME PartInv, Diverted
    PROVE  /\ \A t \in Owners : Nocopy!MyColumns(t) \subseteq Nocopy!Columns(Nocopy!Mn(t))
           /\ \A t, u \in Owners : t # u /\ Nocopy!Mn(t) = Nocopy!Mn(u)
                                     => Nocopy!MyColumns(t) \cap Nocopy!MyColumns(u) = {}
           /\ \A b \in Nocopy!Blocks : \A col \in Nocopy!Columns(b) :
                \E t \in Owners : Nocopy!Mn(t) = b /\ col \in Nocopy!MyColumns(t)
<1> DEFINE K == Nocopy!nthr_k
           n(b) == Cardinality(Nocopy!NRange(b))
<1>1. K \in Nat \ {0} /\ nocopy_prob.n \in Nat \ {0} /\ nocopy_part.NB \in Nat \ {0}
      /\ nocopy_part.nthr_m \in Nat \ {0}
    BY KNumbers
<1>2. ASSUME NEW b \in Nocopy!Blocks PROVE n(b) \in Nat
    <2>1. b \in Nat /\ b \div nocopy_part.nthr_m \in Int
        <3>1. b \in Nat
            BY KNumbers DEF Nocopy!Blocks
        <3> QED BY SMTT(30), <1>1, <3>1, DivisionFacts
    <2> DEFINE lo == nocopy_part.NB * (b \div nocopy_part.nthr_m)
               hi == Lesser(nocopy_part.NB * ((b \div nocopy_part.nthr_m) + 1), nocopy_prob.n) - 1
    <2>2. lo \in Int /\ hi \in Int
        BY <1>1, <2>1 DEF Lesser
    <2>3. Nocopy!NRange(b) = lo..hi
        BY NocopyNames DEF Nocopy!NRange, Nocopy!BlockRange
    <2> HIDE DEF lo, hi
    <2>4. IsFiniteSet(Nocopy!NRange(b))
        BY <2>2, <2>3, FS_Interval
    <2> QED BY <2>4, FS_CardinalityType
<1>3. \A t : Nocopy!MyColumns(t) = Nocopy!t_range(Nocopy!ithr_k(t), K, n(Nocopy!Mn(t)))
    BY Zenon, NocopyCardinality DEF Nocopy!MyColumns, Nocopy!myN
<1>4. Nocopy!Parts = 0..(K - 1) /\ \A b : Nocopy!Columns(b) = 0..(n(b) - 1)
    BY Zenon, NocopyCardinality DEF Nocopy!Parts, Nocopy!Columns
<1> HIDE DEF K, n
<1>5. ASSUME NEW t \in Owners PROVE Nocopy!MyColumns(t) \subseteq Nocopy!Columns(Nocopy!Mn(t))
    <2>1. Nocopy!Mn(t) \in Nocopy!Blocks /\ Nocopy!ithr_k(t) \in Nocopy!Parts
        BY OneThreadEach
    <2> QED BY <1>1, <1>2, <1>3, <1>4, <2>1, UnitDiffFacts
<1>6. ASSUME NEW t \in Owners, NEW u \in Owners, t # u, Nocopy!Mn(t) = Nocopy!Mn(u)
      PROVE  Nocopy!MyColumns(t) \cap Nocopy!MyColumns(u) = {}
    <2>1. Nocopy!Mn(t) \in Nocopy!Blocks /\ Nocopy!ithr_k(t) \in Nocopy!Parts
          /\ Nocopy!ithr_k(u) \in Nocopy!Parts /\ Nocopy!ithr_k(t) # Nocopy!ithr_k(u)
        BY <1>6, OneThreadEach
    <2>2. n(Nocopy!Mn(t)) \in Nat
        BY <1>2, <2>1
    <2> QED BY <1>1, <1>3, <1>4, <1>6, <2>1, <2>2, UnitDiffFacts
<1>7. ASSUME NEW b \in Nocopy!Blocks, NEW col \in Nocopy!Columns(b)
      PROVE  \E t \in Owners : Nocopy!Mn(t) = b /\ col \in Nocopy!MyColumns(t)
    <2>1. PICK i \in 0..(K - 1) : col \in Nocopy!t_range(i, K, n(b))
        BY <1>1, <1>2, <1>4, UnitDiffFacts
    <2>2. PICK t \in Owners : Nocopy!Mn(t) = b /\ Nocopy!ithr_k(t) = i
        BY <1>4, OneThreadEach
    <2> QED BY <1>3, <2>1, <2>2
<1> QED BY <1>5, <1>6, <1>7

\* The part after ik, or nthr_k; only the thread's own is passed over.
LEMMA NextPartFacts ==
    ASSUME PartInv, Diverted, NEW t \in Owners, NEW ik \in Nocopy!Parts
    PROVE  LET n == Nocopy!NextPart(t, ik)
           IN  /\ n \in (ik + 1)..Nocopy!nthr_k
               /\ n = Nocopy!nthr_k \/ n # Nocopy!ithr_k(t)
               /\ \A i \in (ik + 1)..(n - 1) : i = Nocopy!ithr_k(t)
<1> DEFINE K == Nocopy!nthr_k
           s == Nocopy!ithr_k(t)
           rest == {i \in (ik + 1)..(K - 1) : i # s}
           n == Nocopy!NextPart(t, ik)
<1>1. K \in Nat \ {0} /\ ik \in 0..(K - 1)
    BY KNumbers DEF Nocopy!Parts
<1>2. n = IF rest = {} THEN K ELSE CHOOSE i \in rest : \A j \in rest : i <= j
    BY Zenon DEF Nocopy!NextPart
<1> HIDE DEF K, s, n
<1>3. CASE rest = {}
    <2>1. n = K /\ \A i \in (ik + 1)..(K - 1) : i = s
        BY <1>2, <1>3
    <2> HIDE DEF rest
    <2> QED BY <1>1, <2>1 DEF n, s, K
<1>4. CASE rest # {}
    <2>1. rest \in SUBSET Nat
        BY <1>1
    <2>2. \E i \in rest : \A j \in rest : i <= j
        <3> HIDE DEF rest
        <3> QED BY <1>4, <2>1, LeastNumber
    <2>3. n \in rest /\ \A j \in rest : n <= j
        <3> HIDE DEF rest
        <3> QED BY <1>2, <1>4, <2>2
    <2>4. n \in (ik + 1)..(K - 1) /\ n # s
        BY <2>3
    <2>5. ASSUME NEW i \in (ik + 1)..(n - 1) PROVE i = s
        <3>1. i \in (ik + 1)..(K - 1) /\ ~(n <= i)
            BY <1>1, <2>4
        <3> QED BY <2>3, <3>1
    <2> QED BY <1>1, <2>4, <2>5 DEF n, s, K
<1> QED BY <1>3, <1>4

-----------------------------------------------------------------------------
(* Summing over k, in the gemm that copies nothing *)

\* The threads that have a block.
Working == {t \in Nocopy!Team : t < Nocopy!nthr_to_use}

\* What a thread of the copy-nothing gemm keeps.
KThr == [pc : {"compute", "publish", "own", "others", "later", "done"}, ik : Nat]

\* The team of the region, and the shapes of its state.
KRegion ==
    /\ nocopy_region \in {"out", "compute", "between", "later", "returned"}
    /\ nocopy_region = "out" => nocopy_team = 0
    /\ nocopy_region # "out" =>
         /\ nocopy_team \in Nat \ {0}
         /\ nocopy_thr \in [Nocopy!Team -> KThr]
         /\ ompstatus \in [Nocopy!Blocks \X Nocopy!Parts -> {0, 1}]

\* Where the threads are in each region: only those of a block work, and they
\* wait for others only if all of them are there.
KPlaces ==
    \A t \in Nocopy!Team :
        /\ nocopy_thr[t].pc # "done" => t \in Working /\ nocopy_region \in {"compute", "later"}
        /\ nocopy_thr[t].pc = "later" <=> nocopy_thr[t].pc # "done" /\ nocopy_region = "later"
        /\ nocopy_thr[t].pc \in {"own", "others"} => Nocopy!nthr_k > 1 /\ ~Nocopy!sum_later

\* A published part is computed, and nobody adds other threads' parts to C
\* before part 0 is there.
KStatus ==
    \A t \in Working :
        /\ ompstatus[<<Nocopy!Mn(t), Nocopy!ithr_k(t)>>] = 1
             => nocopy_thr[t].pc \notin {"compute", "publish"}
        /\ nocopy_thr[t].pc = "others" =>
             /\ nocopy_thr[t].ik \in 1..(Nocopy!nthr_k - 1) /\ nocopy_thr[t].ik # Nocopy!ithr_k(t)
             /\ Nocopy!ithr_k(t) = 0 \/ Nocopy!Published(t, 0)

\* The parts of k in the columns of a thread, once part 0 is in C.
Has(t) ==
    CASE nocopy_thr[t].pc \in {"compute", "publish", "own"} -> {0}
      [] nocopy_thr[t].pc = "others" -> {0, Nocopy!ithr_k(t)} \cup 1..(nocopy_thr[t].ik - 1)
      [] OTHER -> Nocopy!Parts

\* Without a failure, and with threads for all blocks and parts.
Undisturbed == nocopy_st = "success" /\ nocopy_region # "out" /\ ~Nocopy!sum_later

\* C and the buffers have the places of the blocks.
KShape ==
    /\ nocopy_region \in {"compute", "returned"}
    /\ nocopy_c = [b \in Nocopy!Blocks |-> nocopy_c[b]]
    /\ \A b \in Nocopy!Blocks : nocopy_c[b] = [col \in Nocopy!Columns(b) |-> nocopy_c[b][col]]
    /\ c_buffers = [b \in Nocopy!Blocks \X Nocopy!Parts |-> c_buffers[b]]

\* What is computed is in the buffers, and published when it is waited for.
KBuffers ==
    \A t \in Working :
        /\ nocopy_thr[t].pc # "compute" /\ Nocopy!ithr_k(t) > 0 =>
             c_buffers[<<Nocopy!Mn(t), Nocopy!ithr_k(t)>>] = Nocopy!Driven(t)
        /\ nocopy_thr[t].pc \in {"own", "others", "done"} /\ Nocopy!nthr_k > 1 =>
             ompstatus[<<Nocopy!Mn(t), Nocopy!ithr_k(t)>>] = 1

\* Thread z computes part 0 of t's block: until then nobody adds to it, and
\* then every thread's columns have the parts it has added.
KColumns ==
    \A z, t \in Working : Nocopy!ithr_k(z) = 0 /\ Nocopy!Mn(z) = Nocopy!Mn(t) =>
        /\ nocopy_thr[z].pc # "compute" =>
             \A col \in Nocopy!MyColumns(t) : nocopy_c[Nocopy!Mn(t)][col] = Has(t)
        /\ nocopy_thr[t].pc \in {"others", "done"} /\ Nocopy!nthr_k > 1 =>
             nocopy_thr[z].pc \notin {"compute", "publish"}

\* The invariant of the copy-nothing gemm.
KInv == KRegion /\ KPlaces /\ KStatus /\ (Undisturbed => KShape /\ KBuffers /\ KColumns)

\* Who works, in a region that has threads.
LEMMA WorkingFacts ==
    ASSUME PartInv, Diverted, nocopy_team \in Nat
    PROVE  /\ Working \subseteq Owners /\ Working \subseteq Nocopy!Team
           /\ ~Nocopy!sum_later => Working = Owners
    BY KNumbers DEF Working, Owners, Nocopy!Team, Nocopy!sum_later

\* What a step of a region leaves as it is.
KStays ==
    /\ Working' = Working /\ Nocopy!Team' = Nocopy!Team
    /\ Nocopy!Blocks' = Nocopy!Blocks /\ Nocopy!Parts' = Nocopy!Parts
    /\ Nocopy!nthr_k' = Nocopy!nthr_k /\ Nocopy!sum_later' = Nocopy!sum_later
    /\ \A t : /\ Nocopy!Mn(t)' = Nocopy!Mn(t) /\ Nocopy!ithr_k(t)' = Nocopy!ithr_k(t)
              /\ Nocopy!MyColumns(t)' = Nocopy!MyColumns(t)
              /\ Nocopy!Columns(t)' = Nocopy!Columns(t)
              /\ Nocopy!Driven(t)' = Nocopy!Driven(t)

\* What is defined from the arguments, the partition and the team stays while they do.
LEMMA KFrame ==
    ASSUME UNCHANGED <<nocopy_prob, nocopy_part, nocopy_team>>
    PROVE  KStays
<1>1. Nocopy!nthr_mn' = Nocopy!nthr_mn /\ Nocopy!nthr_k' = Nocopy!nthr_k
    BY DEF Nocopy!nthr_mn, Nocopy!nthr_k
<1>2. Nocopy!nthr_to_use' = Nocopy!nthr_to_use
    BY <1>1 DEF Nocopy!nthr_to_use
<1>3. \A t : Nocopy!NRange(t)' = Nocopy!NRange(t)
    BY DEF Nocopy!NRange
<1>4. \A t : Nocopy!Columns(t)' = Nocopy!Columns(t)
    BY <1>3 DEF Nocopy!Columns
<1>5. \A t : Nocopy!Mn(t)' = Nocopy!Mn(t) /\ Nocopy!ithr_k(t)' = Nocopy!ithr_k(t)
    BY <1>1 DEF Nocopy!Mn, Nocopy!ithr_k
<1>6. \A t : Nocopy!myN(t)' = Nocopy!myN(t)
    BY <1>1 DEF Nocopy!myN, Nocopy!NRange, Nocopy!Mn
<1>7. \A t : Nocopy!MyColumns(t)' = Nocopy!MyColumns(t)
    BY <1>1, <1>5, <1>6 DEF Nocopy!MyColumns
<1>8. \A t : Nocopy!Driven(t)' = Nocopy!Driven(t)
    BY <1>1 DEF Nocopy!Driven, Nocopy!Columns, Nocopy!NRange, Nocopy!Mn, Nocopy!ithr_k
<1>9. Nocopy!Team' = Nocopy!Team /\ Working' = Working
    BY <1>2 DEF Nocopy!Team, Working
<1>10. Nocopy!Blocks' = Nocopy!Blocks /\ Nocopy!Parts' = Nocopy!Parts
    BY <1>1 DEF Nocopy!Blocks, Nocopy!Parts
<1>11. Nocopy!sum_later' = Nocopy!sum_later
    BY <1>2 DEF Nocopy!sum_later
<1> QED BY <1>1, <1>4, <1>5, <1>7, <1>8, <1>9, <1>10, <1>11 DEF KStays

\* A thread of a region that goes on.
LEMMA KThread ==
    ASSUME PartInv, Diverted, KInv, NEW t \in Nocopy!Team, nocopy_thr[t].pc # "done"
    PROVE  /\ t \in Working /\ t \in Owners /\ nocopy_team \in Nat \ {0}
           /\ nocopy_region \in {"compute", "later"}
           /\ nocopy_thr[t].pc = "later" <=> nocopy_region = "later"
           /\ nocopy_thr \in [Nocopy!Team -> KThr]
           /\ ompstatus \in [Nocopy!Blocks \X Nocopy!Parts -> {0, 1}]
           /\ Nocopy!Mn(t) \in Nocopy!Blocks /\ Nocopy!ithr_k(t) \in Nocopy!Parts
<1>1. t \in Working /\ nocopy_region \in {"compute", "later"}
      /\ (nocopy_thr[t].pc = "later" <=> nocopy_region = "later")
    BY DEF KInv, KPlaces
<1>2. nocopy_team \in Nat \ {0}
      /\ nocopy_thr \in [Nocopy!Team -> KThr]
      /\ ompstatus \in [Nocopy!Blocks \X Nocopy!Parts -> {0, 1}]
    BY <1>1 DEF KInv, KRegion
<1>3. t \in Owners
    BY <1>1, <1>2, WorkingFacts
<1> QED BY <1>1, <1>2, <1>3, OneThreadEach

-----------------------------------------------------------------------------
(* Steps of a thread *)

\* A thread goes from one place to another; what it publishes is its own.
KMoves(t) ==
    /\ UNCHANGED <<nocopy_prob, nocopy_part, nocopy_team, nocopy_region>>
    /\ nocopy_thr' \in [Nocopy!Team -> KThr]
    /\ \A u \in Nocopy!Team : u # t => nocopy_thr'[u] = nocopy_thr[u]
    /\ ompstatus' \in [Nocopy!Blocks \X Nocopy!Parts -> {0, 1}]
    /\ \A b \in Nocopy!Blocks : \A i \in Nocopy!Parts :
         <<b, i>> # <<Nocopy!Mn(t), Nocopy!ithr_k(t)>> => ompstatus'[<<b, i>>] = ompstatus[<<b, i>>]

\* A step of one thread leaves every thread where the region lets it be.
LEMMA MoveKeepsPlaces ==
    ASSUME PartInv, Diverted, KInv, NEW t \in Nocopy!Team, nocopy_thr[t].pc # "done", KMoves(t),
           nocopy_thr'[t].pc # "later",
           nocopy_thr'[t].pc # "done" => nocopy_region = "compute",
           nocopy_thr'[t].pc \in {"own", "others"} => Nocopy!nthr_k > 1 /\ ~Nocopy!sum_later
    PROVE  KRegion' /\ KPlaces'
<1>1. KStays
    BY KFrame DEF KMoves
<1>2. t \in Working /\ nocopy_team \in Nat \ {0} /\ nocopy_region \in {"compute", "later"}
    BY KThread
<1>3. KRegion'
    BY <1>1, <1>2 DEF KRegion, KStays, KMoves
<1>4. KPlaces'
    <2> SUFFICES ASSUME NEW u \in Nocopy!Team
                 PROVE  /\ nocopy_thr'[u].pc # "done" => u \in Working /\ nocopy_region \in {"compute", "later"}
                        /\ nocopy_thr'[u].pc = "later" <=> nocopy_thr'[u].pc # "done" /\ nocopy_region = "later"
                        /\ nocopy_thr'[u].pc \in {"own", "others"} => Nocopy!nthr_k > 1 /\ ~Nocopy!sum_later
        BY <1>1 DEF KPlaces, KStays, KMoves
    <2>1. CASE u = t
        BY <1>2, <2>1
    <2>2. CASE u # t
        BY <2>2 DEF KInv, KPlaces, KMoves
    <2> QED BY <2>1, <2>2
<1> QED BY <1>3, <1>4

\* A step of one thread keeps the flags ompstatus in agreement with the threads,
\* provided it does for the flag of that thread.
LEMMA MoveKeepsStatus ==
    ASSUME PartInv, Diverted, KInv, NEW t \in Nocopy!Team, nocopy_thr[t].pc # "done", KMoves(t),
           ompstatus[<<Nocopy!Mn(t), Nocopy!ithr_k(t)>>] = 1
             => ompstatus'[<<Nocopy!Mn(t), Nocopy!ithr_k(t)>>] = 1,
           ompstatus'[<<Nocopy!Mn(t), Nocopy!ithr_k(t)>>] = 1
             => nocopy_thr'[t].pc \notin {"compute", "publish"},
           nocopy_thr'[t].pc = "others" =>
             /\ nocopy_thr'[t].ik \in 1..(Nocopy!nthr_k - 1) /\ nocopy_thr'[t].ik # Nocopy!ithr_k(t)
             /\ Nocopy!ithr_k(t) = 0 \/ ompstatus'[<<Nocopy!Mn(t), 0>>] = 1
    PROVE  KStatus'
<1>1. KStays
    BY KFrame DEF KMoves
<1>2. t \in Working /\ nocopy_team \in Nat \ {0} /\ t \in Owners
    BY KThread
<1>3. Working \subseteq Nocopy!Team /\ Working \subseteq Owners
    BY <1>2, WorkingFacts
<1>4. 0 \in Nocopy!Parts
    BY KNumbers DEF Nocopy!Parts
<1> SUFFICES ASSUME NEW u \in Working
             PROVE  /\ ompstatus'[<<Nocopy!Mn(u), Nocopy!ithr_k(u)>>] = 1
                         => nocopy_thr'[u].pc \notin {"compute", "publish"}
                    /\ nocopy_thr'[u].pc = "others" =>
                         /\ nocopy_thr'[u].ik \in 1..(Nocopy!nthr_k - 1)
                         /\ nocopy_thr'[u].ik # Nocopy!ithr_k(u)
                         /\ Nocopy!ithr_k(u) = 0 \/ ompstatus'[<<Nocopy!Mn(u), 0>>] = 1
    BY <1>1 DEF KStatus, Nocopy!Published, KStays
<1>5. CASE u = t
    BY <1>5
<1>6. CASE u # t
    <2>1. nocopy_thr'[u] = nocopy_thr[u]
        BY <1>3, <1>6 DEF KMoves
    <2>2. /\ Nocopy!Mn(u) \in Nocopy!Blocks /\ Nocopy!ithr_k(u) \in Nocopy!Parts
          /\ <<Nocopy!Mn(u), Nocopy!ithr_k(u)>> # <<Nocopy!Mn(t), Nocopy!ithr_k(t)>>
        BY <1>2, <1>3, <1>6, OneThreadEach
    <2>3. ompstatus'[<<Nocopy!Mn(u), Nocopy!ithr_k(u)>>] = ompstatus[<<Nocopy!Mn(u), Nocopy!ithr_k(u)>>]
        BY <2>2 DEF KMoves
    <2>4. ompstatus[<<Nocopy!Mn(u), 0>>] = 1 => ompstatus'[<<Nocopy!Mn(u), 0>>] = 1
        BY <1>4, <2>2 DEF KMoves
    <2> QED BY <2>1, <2>3, <2>4 DEF KInv, KStatus, Nocopy!Published
<1> QED BY <1>5, <1>6

\* What a thread has added so far depends on its own counter alone.
LEMMA HasStays ==
    ASSUME KStays, NEW u, nocopy_thr'[u] = nocopy_thr[u]
    PROVE  Has(u)' = Has(u)
    BY DEF Has, KStays

\* Without failure every block has its threads, and one of them computes part 0.
LEMMA KEveryThread ==
    ASSUME PartInv, Diverted, KInv, Undisturbed
    PROVE  /\ Working = Owners /\ Working \subseteq Nocopy!Team
           /\ \A t \in Working : \E z \in Working : Nocopy!ithr_k(z) = 0 /\ Nocopy!Mn(z) = Nocopy!Mn(t)
           /\ \A t \in Working : \A i \in Nocopy!Parts :
                \E w \in Working : Nocopy!ithr_k(w) = i /\ Nocopy!Mn(w) = Nocopy!Mn(t)
           /\ KShape /\ KBuffers /\ KColumns
<1>1. nocopy_team \in Nat
    BY DEF KInv, KRegion, Undisturbed
<1>2. Working = Owners /\ Working \subseteq Nocopy!Team
    BY <1>1, WorkingFacts DEF Undisturbed
<1>3. 0 \in Nocopy!Parts
    BY KNumbers DEF Nocopy!Parts
<1> QED BY <1>2, <1>3, OneThreadEach DEF KInv

\* Computing a part, into C or into a buffer, keeps the invariant.
LEMMA ComputeKeepsK ==
    ASSUME PartInv, Diverted, KInv, NEW t \in Nocopy!Team, Nocopy!Compute(t)
    PROVE  KInv'
<1> DEFINE s == Nocopy!ithr_k(t)
           b == Nocopy!Mn(t)
<1>1. nocopy_thr[t].pc = "compute"
    BY DEF Nocopy!Compute, Nocopy!At
<1>2. /\ t \in Working /\ nocopy_region = "compute" /\ b \in Nocopy!Blocks /\ s \in Nocopy!Parts
      /\ nocopy_thr \in [Nocopy!Team -> KThr]
      /\ ompstatus \in [Nocopy!Blocks \X Nocopy!Parts -> {0, 1}]
    BY <1>1, KThread
<1>3. UNCHANGED <<nocopy_prob, nocopy_part, nocopy_team, nocopy_region, ompstatus, nocopy_st>>
      /\ nocopy_thr' = [nocopy_thr EXCEPT ![t].pc = "publish"]
    BY DEF Nocopy!Compute, Nocopy!Goto, Nocopy!InCall
<1>4. KStays
    BY <1>3, KFrame
<1>5. nocopy_thr'[t].pc = "publish" /\ KMoves(t)
    BY <1>2, <1>3 DEF KMoves, KThr
<1>6. KRegion' /\ KPlaces'
    BY <1>1, <1>2, <1>5, MoveKeepsPlaces
<1>7. KStatus'
    <2>1. ompstatus[<<b, s>>] # 1
        BY <1>1, <1>2 DEF KInv, KStatus
    <2> QED BY <1>1, <1>3, <1>5, <2>1, MoveKeepsStatus
<1>8. ASSUME Undisturbed' PROVE KShape' /\ KBuffers' /\ KColumns'
    <2>1. Undisturbed
        BY <1>3, <1>4, <1>8 DEF Undisturbed, KStays
    <2>2. /\ Working = Owners /\ Working \subseteq Nocopy!Team /\ KShape /\ KBuffers /\ KColumns
          /\ \A u \in Working : \E z \in Working : Nocopy!ithr_k(z) = 0 /\ Nocopy!Mn(z) = Nocopy!Mn(u)
        BY <2>1, KEveryThread
    <2>3. \A u \in Working : u # t => nocopy_thr'[u] = nocopy_thr[u] /\ Has(u)' = Has(u)
        BY <1>4, <1>5, <2>2, HasStays DEF KMoves
    <2>4. Has(t)' = {0}
        BY <1>5 DEF Has
    <2>5. \A u \in Working : u # t =>
            <<Nocopy!Mn(u), Nocopy!ithr_k(u)>> # <<b, s>>
        BY <1>2, <2>2, OneThreadEach
    <2>6. CASE s = 0
        <3>1. nocopy_c' = [nocopy_c EXCEPT ![b] = Nocopy!Driven(t)] /\ UNCHANGED c_buffers
            BY <2>6 DEF Nocopy!Compute
        <3>2. /\ nocopy_c'[b] = [col \in Nocopy!Columns(b) |-> {0}]
              /\ \A d \in Nocopy!Blocks : d # b => nocopy_c'[d] = nocopy_c[d]
              /\ nocopy_c' = [d \in Nocopy!Blocks |-> nocopy_c'[d]]
            <4>1. Nocopy!Driven(t) = [col \in Nocopy!Columns(b) |-> {0}]
                BY <2>6 DEF Nocopy!Driven
            <4> HIDE DEF b, s
            <4> QED BY <1>2, <2>2, <3>1, <4>1 DEF KShape
        <3>3. KShape'
            <4>1. \A d \in Nocopy!Blocks : nocopy_c'[d] = [col \in Nocopy!Columns(d) |-> nocopy_c'[d][col]]
                <5> TAKE d \in Nocopy!Blocks
                <5>1. CASE d = b
                    BY <3>2, <5>1
                <5>2. CASE d # b
                    BY <2>2, <3>2, <5>2 DEF KShape
                <5> QED BY <5>1, <5>2
            <4> QED BY <1>2, <1>3, <1>4, <2>2, <3>1, <3>2, <4>1 DEF KShape, KStays
        <3>4. KBuffers'
            <4> SUFFICES ASSUME NEW u \in Working
                         PROVE  /\ nocopy_thr'[u].pc # "compute" /\ Nocopy!ithr_k(u) > 0 =>
                                     c_buffers[<<Nocopy!Mn(u), Nocopy!ithr_k(u)>>] = Nocopy!Driven(u)
                                /\ nocopy_thr'[u].pc \in {"own", "others", "done"} /\ Nocopy!nthr_k > 1 =>
                                     ompstatus[<<Nocopy!Mn(u), Nocopy!ithr_k(u)>>] = 1
                BY <1>3, <1>4, <3>1 DEF KBuffers, KStays
            <4>1. CASE u = t
                BY <1>5, <2>6, <4>1
            <4>2. CASE u # t
                BY <2>2, <2>3, <4>2 DEF KBuffers
            <4> QED BY <4>1, <4>2
        <3>5. KColumns'
            <4> SUFFICES ASSUME NEW z \in Working, NEW u \in Working,
                                Nocopy!ithr_k(z) = 0, Nocopy!Mn(z) = Nocopy!Mn(u)
                         PROVE  /\ nocopy_thr'[z].pc # "compute" =>
                                     \A col \in Nocopy!MyColumns(u) : nocopy_c'[Nocopy!Mn(u)][col] = Has(u)'
                                /\ nocopy_thr'[u].pc \in {"others", "done"} /\ Nocopy!nthr_k > 1 =>
                                     nocopy_thr'[z].pc \notin {"compute", "publish"}
                BY <1>4 DEF KColumns, KStays
            <4>1. CASE z = t
                <5>1. Nocopy!Mn(u) = b /\ Nocopy!MyColumns(u) \subseteq Nocopy!Columns(b)
                    BY <2>2, <4>1, OneSummerEach
                <5>2. nocopy_thr[u].pc \notin {"others", "done"} \/ Nocopy!nthr_k = 1
                    BY <1>1, <2>2, <4>1, KNumbers DEF KColumns
                <5>3. Has(u)' = {0} /\ (nocopy_thr'[u].pc \in {"others", "done"} => Nocopy!nthr_k = 1)
                    <6>1. CASE u = t
                        BY <2>4, <6>1, <1>5
                    <6>2. CASE u # t /\ Nocopy!nthr_k = 1
                        <7>1. Nocopy!ithr_k(u) = 0
                            BY <2>2, <6>2, OneThreadEach DEF Nocopy!Parts
                        <7> QED BY <2>2, <4>1, <5>1, <6>2, <7>1, OneThreadEach
                    <6>3. CASE u # t /\ nocopy_thr[u].pc \notin {"others", "done"}
                        <7>1. nocopy_thr[u].pc \in {"compute", "publish", "own"}
                            BY <1>2, <2>2, <6>3 DEF KThr, KInv, KPlaces
                        <7> QED BY <2>3, <6>3, <7>1 DEF Has
                    <6> QED BY <5>2, <6>1, <6>2, <6>3
                <5> QED BY <3>2, <5>1, <5>3
            <4>2. CASE z # t
                <5>1. Nocopy!Mn(u) # b /\ Nocopy!Mn(u) \in Nocopy!Blocks
                    BY <2>2, <2>5, <2>6, <4>2, OneThreadEach
                <5>2. u # t
                    BY <5>1
                <5> QED BY <2>2, <2>3, <3>2, <4>2, <5>1, <5>2 DEF KColumns
            <4> QED BY <4>1, <4>2
        <3> QED BY <3>3, <3>4, <3>5
    <2>7. CASE s # 0
        <3>1. c_buffers' = [c_buffers EXCEPT ![<<b, s>>] = Nocopy!Driven(t)] /\ UNCHANGED nocopy_c
            BY <2>7 DEF Nocopy!Compute
        <3>2. /\ c_buffers'[<<b, s>>] = Nocopy!Driven(t)
              /\ \A d \in Nocopy!Blocks \X Nocopy!Parts : d # <<b, s>> => c_buffers'[d] = c_buffers[d]
              /\ c_buffers' = [d \in Nocopy!Blocks \X Nocopy!Parts |-> c_buffers'[d]]
            <4>1. <<b, s>> \in Nocopy!Blocks \X Nocopy!Parts
                BY <1>2
            <4> DEFINE o == <<b, s>>
            <4> HIDE DEF o
            <4> QED BY <2>2, <3>1, <4>1 DEF KShape, o
        <3>3. KShape'
            BY <1>2, <1>3, <1>4, <2>2, <3>1, <3>2 DEF KShape, KStays
        <3>4. KBuffers'
            <4> SUFFICES ASSUME NEW u \in Working
                         PROVE  /\ nocopy_thr'[u].pc # "compute" /\ Nocopy!ithr_k(u) > 0 =>
                                     c_buffers'[<<Nocopy!Mn(u), Nocopy!ithr_k(u)>>] = Nocopy!Driven(u)
                                /\ nocopy_thr'[u].pc \in {"own", "others", "done"} /\ Nocopy!nthr_k > 1 =>
                                     ompstatus[<<Nocopy!Mn(u), Nocopy!ithr_k(u)>>] = 1
                BY <1>3, <1>4 DEF KBuffers, KStays
            <4>1. CASE u = t
                BY <1>5, <3>2, <4>1
            <4>2. CASE u # t
                <5>1. /\ <<Nocopy!Mn(u), Nocopy!ithr_k(u)>> # <<b, s>>
                      /\ <<Nocopy!Mn(u), Nocopy!ithr_k(u)>> \in Nocopy!Blocks \X Nocopy!Parts
                    BY <2>2, <2>5, <4>2, OneThreadEach
                <5> QED BY <2>2, <2>3, <3>2, <4>2, <5>1 DEF KBuffers
            <4> QED BY <4>1, <4>2
        <3>5. KColumns'
            <4> SUFFICES ASSUME NEW z \in Working, NEW u \in Working,
                                Nocopy!ithr_k(z) = 0, Nocopy!Mn(z) = Nocopy!Mn(u)
                         PROVE  /\ nocopy_thr'[z].pc # "compute" =>
                                     \A col \in Nocopy!MyColumns(u) : nocopy_c'[Nocopy!Mn(u)][col] = Has(u)'
                                /\ nocopy_thr'[u].pc \in {"others", "done"} /\ Nocopy!nthr_k > 1 =>
                                     nocopy_thr'[z].pc \notin {"compute", "publish"}
                BY <1>4 DEF KColumns, KStays
            <4>1. z # t /\ nocopy_thr'[z] = nocopy_thr[z]
                BY <2>3, <2>7
            <4>2. CASE u = t
                <5>1. Has(t) = {0}
                    BY <1>1 DEF Has
                <5>2. Has(u)' = {0} /\ Has(u) = {0}
                    BY <2>4, <4>2, <5>1
                <5>3. nocopy_thr[z].pc # "compute" =>
                        \A col \in Nocopy!MyColumns(u) : nocopy_c[Nocopy!Mn(u)][col] = {0}
                    BY <2>2, <5>2 DEF KColumns
                <5>4. nocopy_thr'[u].pc = "publish"
                    BY <1>5, <4>2
                <5> QED BY <3>1, <4>1, <5>2, <5>3, <5>4
            <4>3. CASE u # t
                BY <2>2, <2>3, <3>1, <4>1, <4>3 DEF KColumns
            <4> QED BY <4>2, <4>3
        <3> QED BY <3>3, <3>4, <3>5
    <2> QED BY <2>6, <2>7
<1> QED BY <1>6, <1>7, <1>8 DEF KInv

\* Setting the flag of a part keeps the invariant.
LEMMA PublishKeepsK ==
    ASSUME PartInv, Diverted, KInv, NEW t \in Nocopy!Team, Nocopy!Publish(t)
    PROVE  KInv'
<1> DEFINE s == Nocopy!ithr_k(t)
           b == Nocopy!Mn(t)
           sums == Nocopy!nthr_k > 1 /\ ~Nocopy!sum_later
<1>1. nocopy_thr[t].pc = "publish"
    BY DEF Nocopy!Publish, Nocopy!At
<1>2. /\ t \in Working /\ nocopy_region = "compute" /\ b \in Nocopy!Blocks /\ s \in Nocopy!Parts
      /\ nocopy_thr \in [Nocopy!Team -> KThr]
      /\ ompstatus \in [Nocopy!Blocks \X Nocopy!Parts -> {0, 1}]
    BY <1>1, KThread
<1>3. UNCHANGED <<nocopy_prob, nocopy_part, nocopy_team, nocopy_region, nocopy_c, c_buffers, nocopy_st>>
      /\ nocopy_thr' = [nocopy_thr EXCEPT ![t].pc = IF sums THEN "own" ELSE "done"]
      /\ ompstatus' = IF sums THEN [ompstatus EXCEPT ![<<b, s>>] = 1] ELSE ompstatus
    BY DEF Nocopy!Publish, Nocopy!Goto, Nocopy!InCall, Nocopy!AfterCompute
<1>4. KStays
    BY <1>3, KFrame
<1> HIDE DEF sums
<1>5. /\ ompstatus' \in [Nocopy!Blocks \X Nocopy!Parts -> {0, 1}]
      /\ \A o \in Nocopy!Blocks \X Nocopy!Parts : o # <<b, s>> => ompstatus'[o] = ompstatus[o]
      /\ sums => ompstatus'[<<b, s>>] = 1
      /\ ompstatus[<<b, s>>] = 1 => ompstatus'[<<b, s>>] = 1
    <2> DEFINE o == <<b, s>>
    <2>1. o \in Nocopy!Blocks \X Nocopy!Parts
        BY <1>2
    <2> HIDE DEF o, b, s
    <2>2. ompstatus' = IF sums THEN [ompstatus EXCEPT ![o] = 1] ELSE ompstatus
        BY <1>3 DEF o
    <2>3. /\ ompstatus' \in [Nocopy!Blocks \X Nocopy!Parts -> {0, 1}]
          /\ \A q \in Nocopy!Blocks \X Nocopy!Parts : q # o => ompstatus'[q] = ompstatus[q]
          /\ sums => ompstatus'[o] = 1
          /\ ompstatus[o] = 1 => ompstatus'[o] = 1
        BY <1>2, <2>1, <2>2
    <2> QED BY <2>3 DEF o
<1>6. /\ nocopy_thr' \in [Nocopy!Team -> KThr]
      /\ \A u \in Nocopy!Team : u # t => nocopy_thr'[u] = nocopy_thr[u]
      /\ nocopy_thr'[t].pc = IF sums THEN "own" ELSE "done"
    BY <1>2, <1>3 DEF KThr
<1>7. KMoves(t)
    BY <1>3, <1>5, <1>6 DEF KMoves
<1>8. KRegion' /\ KPlaces'
    BY <1>1, <1>2, <1>6, <1>7, MoveKeepsPlaces DEF sums
<1>9. KStatus'
    BY <1>1, <1>5, <1>6, <1>7, MoveKeepsStatus
<1>10. ASSUME Undisturbed' PROVE KShape' /\ KBuffers' /\ KColumns'
    <2>1. Undisturbed
        BY <1>3, <1>4, <1>10 DEF Undisturbed, KStays
    <2>2. /\ Working = Owners /\ Working \subseteq Nocopy!Team /\ KShape /\ KBuffers /\ KColumns
        BY <2>1, KEveryThread
    <2>3. \A u \in Working : u # t => nocopy_thr'[u] = nocopy_thr[u] /\ Has(u)' = Has(u)
        BY <1>4, <1>6, <2>2, HasStays
    <2>4. sums <=> Nocopy!nthr_k > 1
        BY <2>1 DEF Undisturbed, sums
    <2>5. Has(t)' = {0} /\ Has(t) = {0}
        <3>1. Has(t) = {0}
            BY <1>1 DEF Has
        <3>2. CASE sums
            BY <1>6, <3>1, <3>2 DEF Has
        <3>3. CASE ~sums
            <4>1. Nocopy!Parts = {0}
                BY <2>4, <3>3, KNumbers DEF Nocopy!Parts
            <4> QED BY <1>4, <1>6, <3>1, <3>3, <4>1 DEF Has, KStays
        <3> QED BY <3>2, <3>3
    <2>6. KShape'
        BY <1>2, <1>3, <1>4, <2>2 DEF KShape, KStays
    <2>7. KBuffers'
        <3> SUFFICES ASSUME NEW u \in Working
                     PROVE  /\ nocopy_thr'[u].pc # "compute" /\ Nocopy!ithr_k(u) > 0 =>
                                 c_buffers[<<Nocopy!Mn(u), Nocopy!ithr_k(u)>>] = Nocopy!Driven(u)
                            /\ nocopy_thr'[u].pc \in {"own", "others", "done"} /\ Nocopy!nthr_k > 1 =>
                                 ompstatus'[<<Nocopy!Mn(u), Nocopy!ithr_k(u)>>] = 1
            BY <1>3, <1>4 DEF KBuffers, KStays
        <3>1. CASE u = t
            BY <1>1, <1>5, <2>2, <2>4, <3>1 DEF KBuffers
        <3>2. CASE u # t
            <4>1. /\ <<Nocopy!Mn(u), Nocopy!ithr_k(u)>> # <<b, s>>
                  /\ <<Nocopy!Mn(u), Nocopy!ithr_k(u)>> \in Nocopy!Blocks \X Nocopy!Parts
                BY <1>2, <2>2, <3>2, OneThreadEach
            <4> QED BY <1>5, <2>2, <2>3, <3>2, <4>1 DEF KBuffers
        <3> QED BY <3>1, <3>2
    <2>8. KColumns'
        <3> SUFFICES ASSUME NEW z \in Working, NEW u \in Working,
                            Nocopy!ithr_k(z) = 0, Nocopy!Mn(z) = Nocopy!Mn(u)
                     PROVE  /\ nocopy_thr'[z].pc # "compute" =>
                                 \A col \in Nocopy!MyColumns(u) : nocopy_c[Nocopy!Mn(u)][col] = Has(u)'
                            /\ nocopy_thr'[u].pc \in {"others", "done"} /\ Nocopy!nthr_k > 1 =>
                                 nocopy_thr'[z].pc \notin {"compute", "publish"}
            BY <1>3, <1>4 DEF KColumns, KStays
        <3>1. Has(u)' = Has(u)
            <4>1. CASE u = t
                BY <2>5, <4>1
            <4>2. CASE u # t
                BY <2>3, <4>2
            <4> QED BY <4>1, <4>2
        <3>2. nocopy_thr'[z].pc # "compute" => nocopy_thr[z].pc # "compute"
            BY <1>1, <2>3
        <3>3. nocopy_thr'[u].pc \in {"others", "done"} /\ Nocopy!nthr_k > 1 =>
                nocopy_thr[u].pc \in {"others", "done"}
            BY <1>6, <2>3, <2>4
        <3>4. nocopy_thr[z].pc \notin {"compute", "publish"} =>
                nocopy_thr'[z].pc \notin {"compute", "publish"}
            BY <1>6, <2>3
        <3> QED BY <2>2, <3>1, <3>2, <3>3, <3>4 DEF KColumns
    <2> QED BY <2>6, <2>7, <2>8
<1> QED BY <1>8, <1>9, <1>10 DEF KInv

\* Where a thread goes when it has added its own part, and all before j + 1.
GoesOn(t, j) ==
    LET n == Nocopy!NextPart(t, j)
    IN  nocopy_thr' = [nocopy_thr EXCEPT ![t] =
                         [pc |-> IF n = Nocopy!nthr_k THEN "done" ELSE "others", ik |-> n]]

\* Where a thread goes after adding part j, and what it has added then.
LEMMA GoesOnFacts ==
    ASSUME PartInv, Diverted, KInv, KStays, NEW t \in Working, t \in Owners, t \in Nocopy!Team,
           nocopy_thr \in [Nocopy!Team -> KThr], NEW j \in Nocopy!Parts, GoesOn(t, j)
    PROVE  /\ nocopy_thr' \in [Nocopy!Team -> KThr]
           /\ \A u \in Nocopy!Team : u # t => nocopy_thr'[u] = nocopy_thr[u]
           /\ nocopy_thr'[t].pc \in {"others", "done"}
           /\ nocopy_thr'[t].pc = "others" =>
                nocopy_thr'[t].ik \in 1..(Nocopy!nthr_k - 1) /\ nocopy_thr'[t].ik # Nocopy!ithr_k(t)
           /\ Has(t)' = {0, Nocopy!ithr_k(t)} \cup 1..j
<1> DEFINE K == Nocopy!nthr_k
           s == Nocopy!ithr_k(t)
           n == Nocopy!NextPart(t, j)
<1>1. /\ n \in (j + 1)..K /\ (n = K \/ n # s) /\ \A i \in (j + 1)..(n - 1) : i = s
    BY NextPartFacts
<1>2. K \in Nat \ {0} /\ j \in 0..(K - 1) /\ s \in 0..(K - 1) /\ Nocopy!Parts = 0..(K - 1)
    BY KNumbers, OneThreadEach DEF Nocopy!Parts
<1>3. nocopy_thr' = [nocopy_thr EXCEPT ![t] = [pc |-> IF n = K THEN "done" ELSE "others", ik |-> n]]
    BY Zenon DEF GoesOn
<1> HIDE DEF K, s, n
<1>4. /\ nocopy_thr'[t].pc = IF n = K THEN "done" ELSE "others"
      /\ nocopy_thr'[t].ik = n
      /\ \A u \in Nocopy!Team : u # t => nocopy_thr'[u] = nocopy_thr[u]
    BY <1>3
<1>5. nocopy_thr' \in [Nocopy!Team -> KThr]
    <2>1. [pc |-> IF n = K THEN "done" ELSE "others", ik |-> n] \in KThr
        BY <1>1, <1>2 DEF KThr
    <2> QED BY <1>3, <2>1
<1>6. Has(t)' = {0, s} \cup 1..j
    <2>1. CASE n = K
        <3>1. 0..(K - 1) = {0, s} \cup 1..j
            <4>1. ASSUME NEW i \in 0..(K - 1), i \notin {0} \cup 1..j PROVE i = s
                BY <1>1, <1>2, <2>1, <4>1
            <4>2. 0 \in 0..(K - 1) /\ s \in 0..(K - 1) /\ 1..j \subseteq 0..(K - 1)
                BY <1>2
            <4> QED BY <4>1, <4>2
        <3> QED BY <1>2, <1>4, <2>1, <3>1 DEF Has, KStays, s
    <2>2. CASE n # K
        <3>1. {0, s} \cup 1..(n - 1) = {0, s} \cup 1..j
            <4>1. ASSUME NEW i \in 1..(n - 1), i \notin 1..j PROVE i = s
                BY <1>1, <1>2, <4>1
            <4>2. 1..j \subseteq 1..(n - 1)
                BY <1>1, <1>2
            <4> QED BY <4>1, <4>2
        <3>2. Has(t)' = {0, s} \cup 1..(n - 1)
            BY <1>4, <2>2 DEF Has, KStays, s
        <3> QED BY <3>1, <3>2
    <2> QED BY <2>1, <2>2
<1> QED BY <1>1, <1>2, <1>4, <1>5, <1>6 DEF K, s

\* C after a thread has given its columns the parts H.
Gets(t, H) ==
    /\ nocopy_c' = [d \in Nocopy!Blocks |-> nocopy_c'[d]]
    /\ \A d \in Nocopy!Blocks : d # Nocopy!Mn(t) => nocopy_c'[d] = nocopy_c[d]
    /\ nocopy_c'[Nocopy!Mn(t)] =
         [col \in Nocopy!Columns(Nocopy!Mn(t)) |->
            IF col \in Nocopy!MyColumns(t) THEN H ELSE nocopy_c[Nocopy!Mn(t)][col]]

\* Adding a part that is not there yet to the columns of a thread adds just it.
LEMMA AddedFacts ==
    ASSUME NEW t, Nocopy!Mn(t) \in Nocopy!Blocks, NEW i, NEW H, i \notin H, KShape,
           Nocopy!MyColumns(t) \subseteq Nocopy!Columns(Nocopy!Mn(t)),
           \A col \in Nocopy!MyColumns(t) : nocopy_c[Nocopy!Mn(t)][col] = H,
           c_buffers[<<Nocopy!Mn(t), i>>] = [col \in Nocopy!Columns(Nocopy!Mn(t)) |-> {i}],
           nocopy_c' = Nocopy!Added(t, i)
    PROVE  Gets(t, H \cup {i})
<1> DEFINE b == Nocopy!Mn(t)
           mine == Nocopy!MyColumns(t)
           old == nocopy_c[b]
           new == [col \in DOMAIN old |->
                     IF col \in mine THEN Nocopy!Add(old[col], c_buffers[<<b, i>>][col]) ELSE old[col]]
<1>1. nocopy_c' = [nocopy_c EXCEPT ![b] = new]
    BY Zenon DEF Nocopy!Added
<1>2. DOMAIN old = Nocopy!Columns(b)
    BY DEF KShape
<1>3. new = [col \in Nocopy!Columns(b) |-> IF col \in mine THEN H \cup {i} ELSE old[col]]
    <2>1. \A col \in mine : Nocopy!Add(old[col], c_buffers[<<b, i>>][col]) = H \cup {i}
        <3> TAKE col \in mine
        <3>1. old[col] = H /\ c_buffers[<<b, i>>][col] = {i}
            OBVIOUS
        <3> QED BY <3>1 DEF Nocopy!Add
    <2> HIDE DEF b, mine, old
    <2> QED BY <1>2, <2>1
<1>4. nocopy_c = [d \in Nocopy!Blocks |-> nocopy_c[d]] /\ b \in Nocopy!Blocks
    BY DEF KShape
<1> HIDE DEF new
<1>5. /\ nocopy_c' = [d \in Nocopy!Blocks |-> nocopy_c'[d]]
      /\ \A d \in Nocopy!Blocks : d # b => nocopy_c'[d] = nocopy_c[d]
      /\ nocopy_c'[b] = new
    <2> HIDE DEF b
    <2> QED BY <1>1, <1>4
<1> QED BY <1>3, <1>5 DEF Gets

\* Adding any part, when the flags allow it, keeps the invariant.
LEMMA AddsKeepK ==
    ASSUME PartInv, Diverted, KInv, NEW t \in Nocopy!Team, nocopy_thr[t].pc \in {"own", "others"},
           NEW j \in Nocopy!Parts, GoesOn(t, j),
           UNCHANGED <<nocopy_prob, nocopy_part, nocopy_region, nocopy_team, ompstatus, c_buffers, nocopy_st>>,
           Nocopy!ithr_k(t) = 0 \/ Nocopy!Published(t, 0),
           Undisturbed => Gets(t, {0, Nocopy!ithr_k(t)} \cup 1..j)
    PROVE  KInv'
<1> DEFINE s == Nocopy!ithr_k(t)
           b == Nocopy!Mn(t)
           H == {0, s} \cup 1..j
<1>1. /\ t \in Working /\ t \in Owners /\ b \in Nocopy!Blocks /\ s \in Nocopy!Parts
      /\ nocopy_thr \in [Nocopy!Team -> KThr]
      /\ ompstatus \in [Nocopy!Blocks \X Nocopy!Parts -> {0, 1}]
      /\ nocopy_region \in {"compute", "later"}
      /\ (nocopy_thr[t].pc = "later" <=> nocopy_region = "later")
    BY KThread
<1>2. nocopy_region = "compute" /\ Nocopy!nthr_k > 1 /\ ~Nocopy!sum_later
    BY <1>1 DEF KInv, KPlaces
<1>3. KStays
    BY KFrame
<1>4. /\ nocopy_thr' \in [Nocopy!Team -> KThr]
      /\ \A u \in Nocopy!Team : u # t => nocopy_thr'[u] = nocopy_thr[u]
      /\ nocopy_thr'[t].pc \in {"others", "done"}
      /\ nocopy_thr'[t].pc = "others" =>
           nocopy_thr'[t].ik \in 1..(Nocopy!nthr_k - 1) /\ nocopy_thr'[t].ik # s
      /\ Has(t)' = H
    BY <1>1, <1>3, GoesOnFacts
<1>5. KMoves(t)
    BY <1>1, <1>4 DEF KMoves
<1>6. KRegion' /\ KPlaces'
    BY <1>2, <1>4, <1>5, MoveKeepsPlaces
<1>7. KStatus'
    BY <1>4, <1>5, MoveKeepsStatus DEF Nocopy!Published
<1>8. ASSUME Undisturbed' PROVE KShape' /\ KBuffers' /\ KColumns'
    <2>1. Undisturbed
        BY <1>3, <1>8 DEF Undisturbed, KStays
    <2>2. /\ Working = Owners /\ Working \subseteq Nocopy!Team /\ KShape /\ KBuffers /\ KColumns
        BY <2>1, KEveryThread
    <2>3. \A u \in Working : u # t => nocopy_thr'[u] = nocopy_thr[u] /\ Has(u)' = Has(u)
        BY <1>3, <1>4, <2>2, HasStays
    <2>4. /\ nocopy_c' = [d \in Nocopy!Blocks |-> nocopy_c'[d]]
          /\ \A d \in Nocopy!Blocks : d # b => nocopy_c'[d] = nocopy_c[d]
          /\ nocopy_c'[b] = [col \in Nocopy!Columns(b) |->
                               IF col \in Nocopy!MyColumns(t) THEN H ELSE nocopy_c[b][col]]
        BY <2>1 DEF Gets
    <2> HIDE DEF H
    <2>5. KShape'
        <3>1. \A d \in Nocopy!Blocks : nocopy_c'[d] = [col \in Nocopy!Columns(d) |-> nocopy_c'[d][col]]
            <4> TAKE d \in Nocopy!Blocks
            <4>1. CASE d = b
                BY <2>4, <4>1
            <4>2. CASE d # b
                BY <2>2, <2>4, <4>2 DEF KShape
            <4> QED BY <4>1, <4>2
        <3> QED BY <1>3, <2>2, <2>4, <3>1 DEF KShape, KStays
    <2>6. KBuffers'
        <3> SUFFICES ASSUME NEW u \in Working
                     PROVE  /\ nocopy_thr'[u].pc # "compute" /\ Nocopy!ithr_k(u) > 0 =>
                                 c_buffers[<<Nocopy!Mn(u), Nocopy!ithr_k(u)>>] = Nocopy!Driven(u)
                            /\ nocopy_thr'[u].pc \in {"own", "others", "done"} /\ Nocopy!nthr_k > 1 =>
                                 ompstatus[<<Nocopy!Mn(u), Nocopy!ithr_k(u)>>] = 1
            BY <1>3 DEF KBuffers, KStays
        <3>1. CASE u = t
            BY <2>2, <3>1 DEF KBuffers
        <3>2. CASE u # t
            BY <2>2, <2>3, <3>2 DEF KBuffers
        <3> QED BY <3>1, <3>2
    <2>7. KColumns'
        <3> SUFFICES ASSUME NEW z \in Working, NEW u \in Working,
                            Nocopy!ithr_k(z) = 0, Nocopy!Mn(z) = Nocopy!Mn(u)
                     PROVE  /\ nocopy_thr'[z].pc # "compute" =>
                                 \A col \in Nocopy!MyColumns(u) : nocopy_c'[Nocopy!Mn(u)][col] = Has(u)'
                            /\ nocopy_thr'[u].pc \in {"others", "done"} /\ Nocopy!nthr_k > 1 =>
                                 nocopy_thr'[z].pc \notin {"compute", "publish"}
            BY <1>3 DEF KColumns, KStays
        <3>1. Nocopy!MyColumns(u) \subseteq Nocopy!Columns(Nocopy!Mn(u)) /\ Nocopy!Mn(u) \in Nocopy!Blocks
            BY <2>2, OneSummerEach, OneThreadEach
        <3>2. nocopy_thr'[z].pc # "compute" => nocopy_thr[z].pc # "compute"
            BY <2>3
        <3>3. CASE u = t
            <4>1. nocopy_thr[z].pc \notin {"compute", "publish"}
                <5>1. CASE s = 0
                    <6>1. z = t
                        BY <2>2, <3>3, <5>1, OneThreadEach
                    <6> QED BY <6>1
                <5>2. CASE Nocopy!Published(t, 0)
                    BY <3>3, <5>2 DEF KInv, KStatus, Nocopy!Published
                <5> QED BY <5>1, <5>2
            <4>2. nocopy_thr'[z].pc \notin {"compute", "publish"}
                BY <1>4, <2>3, <4>1
            <4>3. \A col \in Nocopy!MyColumns(u) : nocopy_c'[Nocopy!Mn(u)][col] = H
                BY <2>4, <3>1, <3>3
            <4>4. Has(u)' = H
                BY <1>4, <3>3
            <4> QED BY <4>2, <4>3, <4>4
        <3>4. CASE u # t
            <4>1. \A col \in Nocopy!MyColumns(u) :
                    nocopy_c'[Nocopy!Mn(u)][col] = nocopy_c[Nocopy!Mn(u)][col]
                <5>1. CASE Nocopy!Mn(u) # b
                    BY <2>4, <3>1, <5>1
                <5>2. CASE Nocopy!Mn(u) = b
                    <6>1. Nocopy!MyColumns(u) \cap Nocopy!MyColumns(t) = {}
                        BY <1>1, <2>2, <3>4, <5>2, OneSummerEach
                    <6> QED BY <2>4, <3>1, <5>2, <6>1
                <5> QED BY <5>1, <5>2
            <4>2. /\ nocopy_thr[z].pc # "compute" =>
                       \A col \in Nocopy!MyColumns(u) : nocopy_c[Nocopy!Mn(u)][col] = Has(u)
                  /\ nocopy_thr[u].pc \in {"others", "done"} /\ Nocopy!nthr_k > 1 =>
                       nocopy_thr[z].pc \notin {"compute", "publish"}
                BY <2>2 DEF KColumns
            <4>3. nocopy_thr[z].pc \notin {"compute", "publish"} =>
                    nocopy_thr'[z].pc \notin {"compute", "publish"}
                BY <1>4, <2>3
            <4> QED BY <2>3, <3>2, <3>4, <4>1, <4>2, <4>3
        <3> QED BY <3>3, <3>4
    <2> QED BY <2>5, <2>6, <2>7
<1> QED BY <1>6, <1>7, <1>8 DEF KInv

\* A thread adding its own part to its columns keeps the invariant.
LEMMA AddOwnKeepsK ==
    ASSUME PartInv, Diverted, KInv, NEW t \in Nocopy!Team, Nocopy!AddOwn(t)
    PROVE  KInv'
<1> DEFINE s == Nocopy!ithr_k(t)
           b == Nocopy!Mn(t)
<1>1. nocopy_thr[t].pc = "own" /\ (s > 0 => Nocopy!Published(t, 0))
    BY DEF Nocopy!AddOwn, Nocopy!MayAddOwn, Nocopy!At
<1>2. /\ UNCHANGED <<nocopy_prob, nocopy_part, nocopy_region, nocopy_team, ompstatus, c_buffers, nocopy_st>>
      /\ GoesOn(t, 0)
      /\ nocopy_c' = IF s > 0 THEN Nocopy!Added(t, s) ELSE nocopy_c
    BY DEF Nocopy!AddOwn, Nocopy!InCall, Nocopy!GoOn, GoesOn
<1>3. /\ t \in Working /\ t \in Owners /\ b \in Nocopy!Blocks /\ s \in Nocopy!Parts
    BY <1>1, KThread
<1>4. 0 \in Nocopy!Parts /\ s \in Nat
    BY <1>3, KNumbers DEF Nocopy!Parts
<1>5. ASSUME Undisturbed PROVE Gets(t, {0, s} \cup 1..0)
    <2>1. /\ Working = Owners /\ Working \subseteq Nocopy!Team /\ KShape /\ KBuffers /\ KColumns
        BY <1>5, KEveryThread
    <2>2. PICK z \in Working : Nocopy!ithr_k(z) = 0 /\ Nocopy!Mn(z) = b
        BY <1>3, <1>5, KEveryThread
    <2>3. nocopy_thr[z].pc # "compute"
        <3>1. CASE s = 0
            <4>1. z = t
                BY <1>3, <2>1, <2>2, <3>1, OneThreadEach
            <4> QED BY <1>1, <4>1
        <3>2. CASE s > 0
            BY <1>1, <2>2, <3>2 DEF KInv, KStatus, Nocopy!Published
        <3> QED BY <1>4, <3>1, <3>2
    <2>4. \A col \in Nocopy!MyColumns(t) : nocopy_c[b][col] = {0}
        <3>1. Has(t) = {0}
            BY <1>1 DEF Has
        <3> QED BY <1>3, <2>1, <2>2, <2>3, <3>1 DEF KColumns
    <2>5. Nocopy!MyColumns(t) \subseteq Nocopy!Columns(b)
        BY <1>3, OneSummerEach
    <2>6. CASE s = 0
        <3>1. nocopy_c' = nocopy_c /\ {0, s} \cup 1..0 = {0}
            BY <1>2, <2>6
        <3>2. /\ nocopy_c = [d \in Nocopy!Blocks |-> nocopy_c[d]]
              /\ nocopy_c[b] = [col \in Nocopy!Columns(b) |-> nocopy_c[b][col]]
            BY <1>3, <2>1 DEF KShape
        <3>3. nocopy_c[b] = [col \in Nocopy!Columns(b) |->
                               IF col \in Nocopy!MyColumns(t) THEN {0} ELSE nocopy_c[b][col]]
            BY <2>4, <3>2
        <3> QED BY <3>1, <3>2, <3>3 DEF Gets
    <2>7. CASE s > 0
        <3>1. c_buffers[<<b, s>>] = [col \in Nocopy!Columns(b) |-> {s}]
            BY <1>1, <1>3, <2>1, <2>7 DEF KBuffers, Nocopy!Driven
        <3>2. s \notin {0} /\ {0} \cup {s} = {0, s} \cup 1..0
            BY <1>4, <2>7
        <3>3. nocopy_c' = Nocopy!Added(t, s)
            BY <1>2, <2>7
        <3>4. Gets(t, {0} \cup {s})
            BY <1>3, <2>1, <2>4, <2>5, <3>1, <3>2, <3>3, AddedFacts
        <3> QED BY <3>2, <3>4
    <2> QED BY <1>4, <2>6, <2>7
<1>6. s = 0 \/ Nocopy!Published(t, 0)
    BY <1>1, <1>4
<1> QED BY <1>1, <1>2, <1>4, <1>5, <1>6, AddsKeepK

\* A thread adding the part of another to its columns keeps the invariant.
LEMMA AddOtherKeepsK ==
    ASSUME PartInv, Diverted, KInv, NEW t \in Nocopy!Team, Nocopy!AddOther(t)
    PROVE  KInv'
<1> DEFINE s == Nocopy!ithr_k(t)
           b == Nocopy!Mn(t)
           j == nocopy_thr[t].ik
           H == {0, s} \cup 1..(j - 1)
<1>1. nocopy_thr[t].pc = "others" /\ Nocopy!Published(t, j)
    BY DEF Nocopy!AddOther, Nocopy!MayAddOther, Nocopy!At
<1>2. /\ UNCHANGED <<nocopy_prob, nocopy_part, nocopy_region, nocopy_team, ompstatus, c_buffers, nocopy_st>>
      /\ GoesOn(t, j)
      /\ nocopy_c' = Nocopy!Added(t, j)
    BY DEF Nocopy!AddOther, Nocopy!InCall, Nocopy!GoOn, GoesOn
<1>3. /\ t \in Working /\ t \in Owners /\ b \in Nocopy!Blocks /\ s \in Nocopy!Parts
    BY <1>1, KThread
<1>4. j \in 1..(Nocopy!nthr_k - 1) /\ j # s /\ (s = 0 \/ Nocopy!Published(t, 0))
    BY <1>1, <1>3 DEF KInv, KStatus
<1>5. j \in Nocopy!Parts /\ j \in Nat \ {0} /\ s \in Nat
    BY <1>3, <1>4, KNumbers DEF Nocopy!Parts
<1> HIDE DEF j, s, b
<1>6. H \cup {j} = {0, s} \cup 1..j /\ j \notin H
    BY <1>4, <1>5
<1>7. ASSUME Undisturbed PROVE Gets(t, H \cup {j})
    <2>1. /\ Working = Owners /\ Working \subseteq Nocopy!Team /\ KShape /\ KBuffers /\ KColumns
        BY <1>7, KEveryThread
    <2>2. PICK z \in Working : Nocopy!ithr_k(z) = 0 /\ Nocopy!Mn(z) = b
        BY <1>3, <1>7, KEveryThread DEF b
    <2>3. nocopy_thr[z].pc # "compute"
        <3>1. CASE s = 0
            <4>1. z = t
                BY <1>3, <2>1, <2>2, <3>1, OneThreadEach DEF b, s
            <4> QED BY <1>1, <4>1
        <3>2. CASE Nocopy!Published(t, 0)
            BY <2>2, <3>2 DEF KInv, KStatus, Nocopy!Published, b
        <3> QED BY <1>4, <3>1, <3>2
    <2>4. \A col \in Nocopy!MyColumns(t) : nocopy_c[b][col] = H
        <3>1. Has(t) = H
            BY <1>1 DEF Has, j, s
        <3> QED BY <1>3, <2>1, <2>2, <2>3, <3>1 DEF KColumns, b
    <2>5. Nocopy!MyColumns(t) \subseteq Nocopy!Columns(b)
        BY <1>3, OneSummerEach DEF b
    <2>6. PICK w \in Working : Nocopy!ithr_k(w) = j /\ Nocopy!Mn(w) = b
        BY <1>3, <1>5, <1>7, KEveryThread DEF b
    <2>7. nocopy_thr[w].pc # "compute"
        BY <1>1, <2>6 DEF KInv, KStatus, Nocopy!Published, b
    <2>8. c_buffers[<<b, j>>] = [col \in Nocopy!Columns(b) |-> {j}]
        BY <1>5, <2>1, <2>6, <2>7 DEF KBuffers, Nocopy!Driven
    <2> HIDE DEF H
    <2> QED BY <1>2, <1>3, <1>6, <2>1, <2>4, <2>5, <2>8, AddedFacts DEF b
<1>8. Undisturbed => Gets(t, {0, s} \cup 1..j)
    BY <1>6, <1>7
<1> QED BY <1>1, <1>2, <1>4, <1>5, <1>8, AddsKeepK DEF s

\* After a failure, or without threads enough, nothing is promised of C.
LEMMA LeavesKeepK ==
    ASSUME PartInv, Diverted, KInv, NEW t \in Nocopy!Team,
           nocopy_thr[t].pc # "done", nocopy_thr' = [nocopy_thr EXCEPT ![t].pc = "done"],
           UNCHANGED <<nocopy_prob, nocopy_part, nocopy_region, nocopy_team, ompstatus>>,
           ~Undisturbed'
    PROVE  KInv'
<1>1. /\ nocopy_thr \in [Nocopy!Team -> KThr]
      /\ ompstatus \in [Nocopy!Blocks \X Nocopy!Parts -> {0, 1}]
    BY KThread
<1>2. KMoves(t) /\ nocopy_thr'[t].pc = "done"
    BY <1>1 DEF KMoves, KThr
<1>3. KRegion' /\ KPlaces'
    BY <1>2, MoveKeepsPlaces
<1>4. KStatus'
    BY <1>2, MoveKeepsStatus
<1> QED BY <1>3, <1>4 DEF KInv

\* A kernel that fails keeps the invariant: the status records the failure.
LEMMA ComputeFailsKeepsK ==
    ASSUME PartInv, Diverted, KInv, NEW t \in Nocopy!Team, Nocopy!ComputeFails(t)
    PROVE  KInv'
<1>1. nocopy_thr[t].pc = "compute" /\ nocopy_thr' = [nocopy_thr EXCEPT ![t].pc = "done"]
      /\ UNCHANGED <<nocopy_prob, nocopy_part, nocopy_region, nocopy_team, ompstatus>>
      /\ nocopy_st' = "error"
    BY DEF Nocopy!ComputeFails, Nocopy!At, Nocopy!Goto, Nocopy!InCall
<1>2. ~Undisturbed'
    BY <1>1 DEF Undisturbed
<1> QED BY <1>1, <1>2, LeavesKeepK

\* Summing in the second region keeps the invariant.
LEMMA SumLaterKeepsK ==
    ASSUME PartInv, Diverted, KInv, NEW t \in Nocopy!Team, Nocopy!SumLater(t)
    PROVE  KInv'
<1>1. nocopy_thr[t].pc = "later" /\ nocopy_thr' = [nocopy_thr EXCEPT ![t].pc = "done"]
      /\ UNCHANGED <<nocopy_prob, nocopy_part, nocopy_region, nocopy_team, ompstatus, nocopy_st>>
    BY DEF Nocopy!SumLater, Nocopy!At, Nocopy!Goto, Nocopy!InCall
<1>2. ~Undisturbed
    <2>1. nocopy_region = "later"
        BY <1>1, KThread
    <2> QED BY <2>1 DEF KInv, KShape
<1>3. ~Undisturbed'
    BY <1>1, <1>2, KFrame DEF Undisturbed, KStays
<1> QED BY <1>1, <1>3, LeavesKeepK

\* A step that does not touch the copy-nothing gemm keeps its invariant.
LEMMA StutterKeepsK ==
    ASSUME KInv, UNCHANGED nocopy_vars
    PROVE  KInv'
<1>1. KStays
    BY KFrame DEF nocopy_vars
<1>2. UNCHANGED <<nocopy_region, nocopy_team, nocopy_thr, ompstatus, nocopy_c, c_buffers, nocopy_st>>
    BY DEF nocopy_vars
<1>3. KRegion'
    BY <1>1, <1>2 DEF KInv, KRegion, KStays
<1>4. KPlaces'
    BY <1>1, <1>2 DEF KInv, KPlaces, KStays
<1>5. KStatus'
    BY <1>1, <1>2 DEF KInv, KStatus, KStays, Nocopy!Published
<1>6. ASSUME Undisturbed' PROVE KShape' /\ KBuffers' /\ KColumns'
    <2>1. Undisturbed
        BY <1>1, <1>2, <1>6 DEF Undisturbed, KStays
    <2>2. KShape /\ KBuffers /\ KColumns
        BY <2>1 DEF KInv
    <2>3. KShape'
        BY <1>1, <1>2, <2>2 DEF KShape, KStays
    <2>4. KBuffers'
        BY <1>1, <1>2, <2>2 DEF KBuffers, KStays
    <2>5. KColumns'
        <3>1. \A u : Has(u)' = Has(u)
            BY <1>1, <1>2, HasStays
        <3> QED BY <1>1, <1>2, <2>2, <3>1 DEF KColumns, KStays
    <2> QED BY <2>3, <2>4, <2>5
<1> QED BY <1>3, <1>4, <1>5, <1>6 DEF KInv

-----------------------------------------------------------------------------
(* Steps of the call *)

\* Before the call the invariant holds.
LEMMA InitHasK ==
    ASSUME Diverted, Nocopy!NotCalled
    PROVE  KInv
<1>1. nocopy_region = "out" /\ nocopy_team = 0
    BY DEF Nocopy!NotCalled
<1>2. Nocopy!Team = {} /\ Working = {}
    BY <1>1 DEF Nocopy!Team, Working
<1> QED BY <1>1, <1>2 DEF KInv, KRegion, KPlaces, KStatus, Undisturbed

\* Starting the region, with the threads OpenMP grants, keeps the invariant.
LEMMA CallMakesK ==
    ASSUME PartInv, Diverted, KInv, Nocopy!Call
    PROVE  KInv'
<1>1. /\ nocopy_region' = "compute" /\ nocopy_team' \in Nocopy!Teams(nocopy_prob.nthr_max)
      /\ nocopy_thr' = [t \in 0..(nocopy_team' - 1) |->
                          [Nocopy!Out EXCEPT !.pc = IF t < Nocopy!nthr_to_use THEN "compute" ELSE "done"]]
      /\ ompstatus' = [p \in Nocopy!Blocks \X Nocopy!Parts |-> 0]
      /\ nocopy_c' = [mn \in Nocopy!Blocks |-> [col \in Nocopy!Columns(mn) |-> {Nocopy!Garbage}]]
      /\ c_buffers' = [p \in Nocopy!Blocks \X Nocopy!Parts |->
                         [col \in Nocopy!Columns(p[1]) |-> {Nocopy!Garbage}]]
      /\ UNCHANGED <<nocopy_prob, nocopy_part>>
    BY DEF Nocopy!Call
<1>2. nocopy_team' \in Nat \ {0}
    BY <1>1, ProblemsAreProblems DEF Nocopy!Teams, PartInv, call_no_copy_sgemm, IsProblem
<1>3. /\ Nocopy!nthr_k' = Nocopy!nthr_k /\ Nocopy!nthr_mn' = Nocopy!nthr_mn
      /\ Nocopy!nthr_to_use' = Nocopy!nthr_to_use
      /\ Nocopy!Blocks' = Nocopy!Blocks /\ Nocopy!Parts' = Nocopy!Parts
      /\ \A b : Nocopy!Columns(b)' = Nocopy!Columns(b)
    BY <1>1 DEF Nocopy!nthr_k, Nocopy!nthr_mn, Nocopy!nthr_to_use, Nocopy!Blocks, Nocopy!Parts,
                Nocopy!Columns, Nocopy!NRange
<1>4. /\ \A t : Nocopy!Mn(t)' = Nocopy!Mn(t) /\ Nocopy!ithr_k(t)' = Nocopy!ithr_k(t)
    BY <1>3 DEF Nocopy!Mn, Nocopy!ithr_k
<1>5. Nocopy!Team' = 0..(nocopy_team' - 1) /\ Working' = {t \in Nocopy!Team' : t < Nocopy!nthr_to_use}
    BY <1>3 DEF Nocopy!Team, Working
<1>6. /\ \A t \in Nocopy!Team' : /\ nocopy_thr'[t].pc = IF t < Nocopy!nthr_to_use THEN "compute" ELSE "done"
                                 /\ nocopy_thr'[t].ik = 0
      /\ nocopy_thr' \in [Nocopy!Team' -> KThr]
    BY <1>1, <1>5 DEF Nocopy!Out, KThr
<1>7. KRegion'
    <2>1. ompstatus' \in [Nocopy!Blocks' \X Nocopy!Parts' -> {0, 1}]
        BY <1>1, <1>3
    <2> QED BY <1>1, <1>2, <1>6, <2>1 DEF KRegion
<1>8. KPlaces'
    BY <1>1, <1>5, <1>6 DEF KPlaces
<1>9. \A t \in Working' : nocopy_thr'[t].pc = "compute" /\ t \in Owners
    <2> TAKE t \in Working'
    <2>1. t \in 0..(nocopy_team' - 1) /\ t < Nocopy!nthr_to_use /\ t \in Nocopy!Team'
        BY <1>5
    <2>2. Nocopy!nthr_to_use \in Nat
        BY KNumbers
    <2>3. t \in Owners
        BY <1>2, <2>1, <2>2 DEF Owners
    <2> QED BY <1>6, <2>1, <2>3
<1>10. KStatus'
    <2>1. \A t \in Working' : ompstatus'[<<Nocopy!Mn(t), Nocopy!ithr_k(t)>>] = 0
        BY <1>1, <1>9, OneThreadEach
    <2> QED BY <1>4, <1>9, <2>1 DEF KStatus
<1>11. KShape' /\ KBuffers' /\ KColumns'
    <2>1. KShape'
        <3>1. /\ nocopy_c' = [b \in Nocopy!Blocks |-> nocopy_c'[b]]
              /\ \A b \in Nocopy!Blocks : nocopy_c'[b] = [col \in Nocopy!Columns(b) |-> nocopy_c'[b][col]]
            BY <1>1
        <3>2. c_buffers' = [b \in Nocopy!Blocks \X Nocopy!Parts |-> c_buffers'[b]]
            BY <1>1
        <3> QED BY <1>1, <1>3, <3>1, <3>2 DEF KShape
    <2>2. KBuffers'
        BY <1>9 DEF KBuffers
    <2>3. KColumns'
        BY <1>9 DEF KColumns
    <2> QED BY <2>1, <2>2, <2>3
<1> QED BY <1>7, <1>8, <1>10, <1>11 DEF KInv

\* The end of the first region, with every thread done, keeps the invariant.
LEMMA EndComputeKeepsK ==
    ASSUME PartInv, Diverted, KInv, Nocopy!EndCompute
    PROVE  KInv'
<1>1. /\ nocopy_region = "compute" /\ nocopy_region' \in {"between", "returned"}
      /\ nocopy_st = "success" /\ Nocopy!nthr_k > 1 /\ ompstatus[<<0, 0>>] = 0
           <=> nocopy_region' = "between"
      /\ \A t \in Nocopy!Team : nocopy_thr[t].pc = "done"
      /\ UNCHANGED <<nocopy_prob, nocopy_part, nocopy_team, nocopy_thr, ompstatus, nocopy_c,
                     c_buffers, nocopy_st>>
    BY DEF Nocopy!EndCompute, Nocopy!AllDone, Nocopy!At
<1>2. KStays
    BY <1>1, KFrame
<1>3. KRegion'
    BY <1>1, <1>2 DEF KInv, KRegion, KStays
<1>4. KPlaces'
    BY <1>1, <1>2 DEF KPlaces, KStays
<1>5. Working \subseteq Nocopy!Team
    BY DEF Working
<1>6. KStatus'
    BY <1>1, <1>2, <1>5 DEF KStatus, KStays
<1>7. ASSUME Undisturbed' PROVE KShape' /\ KBuffers' /\ KColumns'
    <2>1. Undisturbed
        BY <1>1, <1>2, <1>7 DEF Undisturbed, KStays
    <2>2. KShape /\ KBuffers /\ KColumns /\ Working = Owners
        BY <2>1, KEveryThread
    <2>3. nocopy_region' = "returned"
        <3>1. SUFFICES ASSUME Nocopy!nthr_k > 1 PROVE ompstatus[<<0, 0>>] = 1
            BY <1>1
        <3>2. 0 \in Nocopy!Blocks /\ 0 \in Nocopy!Parts
            BY KNumbers DEF Nocopy!Blocks, Nocopy!Parts
        <3>3. PICK t \in Working : Nocopy!Mn(t) = 0 /\ Nocopy!ithr_k(t) = 0
            BY <2>2, <3>2, OneThreadEach
        <3> QED BY <1>1, <1>5, <2>2, <3>1, <3>3 DEF KBuffers
    <2>4. KShape'
        BY <1>1, <1>2, <2>2, <2>3 DEF KShape, KStays
    <2>5. KBuffers'
        BY <1>1, <1>2, <2>2 DEF KBuffers, KStays
    <2>6. KColumns'
        <3>1. \A u : Has(u)' = Has(u)
            BY <1>1, <1>2, HasStays
        <3> QED BY <1>1, <1>2, <2>2, <3>1 DEF KColumns, KStays
    <2> QED BY <2>4, <2>5, <2>6
<1> QED BY <1>3, <1>4, <1>6, <1>7 DEF KInv

\* The start of the second region keeps the invariant.
LEMMA BeginLaterKeepsK ==
    ASSUME PartInv, Diverted, KInv, Nocopy!BeginLater
    PROVE  KInv'
<1>1. /\ nocopy_region = "between" /\ nocopy_region' = "later"
      /\ nocopy_thr' = [t \in Nocopy!Team |->
                          [Nocopy!Out EXCEPT !.pc = IF t < Nocopy!nthr_to_use THEN "later" ELSE "done"]]
      /\ UNCHANGED <<nocopy_prob, nocopy_part, nocopy_team, ompstatus, nocopy_st>>
    BY DEF Nocopy!BeginLater
<1>2. KStays
    BY <1>1, KFrame
<1>3. /\ \A t \in Nocopy!Team : nocopy_thr'[t].pc = IF t < Nocopy!nthr_to_use THEN "later" ELSE "done"
      /\ nocopy_thr' \in [Nocopy!Team -> KThr]
    BY <1>1 DEF Nocopy!Out, KThr
<1>4. KRegion'
    BY <1>1, <1>2, <1>3 DEF KInv, KRegion, KStays
<1>5. KPlaces'
    BY <1>1, <1>2, <1>3 DEF KPlaces, KStays, Working
<1>6. KStatus'
    BY <1>1, <1>2, <1>3 DEF KStatus, KStays, Working
<1>7. ~Undisturbed'
    BY <1>1, <1>2 DEF KInv, KShape, Undisturbed, KStays
<1> QED BY <1>4, <1>5, <1>6, <1>7 DEF KInv

\* The end of the second region keeps the invariant.
LEMMA EndLaterKeepsK ==
    ASSUME PartInv, Diverted, KInv, Nocopy!EndLater
    PROVE  KInv'
<1>1. /\ nocopy_region = "later" /\ nocopy_region' = "returned"
      /\ \A t \in Nocopy!Team : nocopy_thr[t].pc = "done"
      /\ UNCHANGED <<nocopy_prob, nocopy_part, nocopy_team, nocopy_thr, ompstatus, nocopy_st>>
    BY DEF Nocopy!EndLater, Nocopy!AllDone, Nocopy!At
<1>2. KStays
    BY <1>1, KFrame
<1>3. KRegion' /\ KPlaces' /\ KStatus'
    BY <1>1, <1>2 DEF KInv, KRegion, KPlaces, KStatus, KStays, Working
<1>4. ~Undisturbed'
    BY <1>1, <1>2 DEF KInv, KShape, Undisturbed, KStays
<1> QED BY <1>3, <1>4 DEF KInv

\* Returning, or failing before the region, keeps the invariant.
LEMMA ReturnKeepsK ==
    ASSUME KInv, Nocopy!Return \/ Nocopy!CallFails
    PROVE  KInv'
<1>1. nocopy_region' = "out" /\ nocopy_team' = 0
    BY DEF Nocopy!Return, Nocopy!CallFails, KInv, KRegion
<1>2. Nocopy!Team' = {} /\ Working' = {}
    BY <1>1 DEF Nocopy!Team, Working
<1> QED BY <1>1, <1>2 DEF KInv, KRegion, KPlaces, KStatus, Undisturbed

\* Without a diversion the gemm that copies nothing does nothing.
KState == PartInv /\ (Diverted => KInv)

\* The invariant of the copy-nothing gemm holds in every call handed to it.
LEMMA KStateHolds == DriverSpec => []KState
<1>1. DriverInit => (Diverted => KInv)
    BY InitHasK DEF DriverInit, Nocopy!Init
<1>2. PartInv /\ (Diverted => KInv) /\ [DriverNext]_driver_vars => (Diverted => KInv)'
    <2> SUFFICES ASSUME PartInv, Diverted => KInv, [DriverNext]_driver_vars, Diverted'
                 PROVE  KInv'
        OBVIOUS
    <2>1. prob' = prob
        <3>1. CASE UNCHANGED driver_vars
            BY <3>1 DEF driver_vars, vars
        <3>2. CASE DriverNext
            BY <3>2, CallStays DEF DriverNext, vars
        <3> QED BY <3>1, <3>2
    <2>2. Diverted /\ KInv
        BY <2>1 DEF Diverted
    <2>3. CASE UNCHANGED driver_vars
        BY <2>2, <2>3, StutterKeepsK DEF driver_vars
    <2>4. CASE Nocopy!Next
        <3>1. CASE Nocopy!Call
            BY <2>2, <3>1, CallMakesK
        <3>2. CASE Nocopy!EndCompute
            BY <2>2, <3>2, EndComputeKeepsK
        <3>3. CASE Nocopy!BeginLater
            BY <2>2, <3>3, BeginLaterKeepsK
        <3>4. CASE Nocopy!EndLater
            BY <2>2, <3>4, EndLaterKeepsK
        <3>5. CASE Nocopy!Return \/ Nocopy!CallFails
            BY <2>2, <3>5, ReturnKeepsK
        <3>6. ASSUME NEW t \in Nocopy!Team, Nocopy!Step(t) PROVE KInv'
            <4>1. CASE Nocopy!Compute(t)
                BY <2>2, <4>1, ComputeKeepsK
            <4>2. CASE Nocopy!ComputeFails(t)
                BY <2>2, <4>2, ComputeFailsKeepsK
            <4>3. CASE Nocopy!Publish(t)
                BY <2>2, <4>3, PublishKeepsK
            <4>4. CASE Nocopy!AddOwn(t)
                BY <2>2, <4>4, AddOwnKeepsK
            <4>5. CASE Nocopy!AddOther(t)
                BY <2>2, <4>5, AddOtherKeepsK
            <4>6. CASE Nocopy!SumLater(t)
                BY <2>2, <4>6, SumLaterKeepsK
            <4>7. CASE Nocopy!Spin(t)
                BY <2>2, <4>7, StutterKeepsK DEF Nocopy!Spin, Nocopy!vars, nocopy_vars
            <4> QED BY <3>6, <4>1, <4>2, <4>3, <4>4, <4>5, <4>6, <4>7 DEF Nocopy!Step
        <3> QED BY <2>4, <3>1, <3>2, <3>3, <3>4, <3>5, <3>6 DEF Nocopy!Next
    <2> QED BY <2>2, <2>3, <2>4 DEF DriverNext
<1> QED BY <1>1, <1>2, PartInvHolds, PTL DEF DriverSpec, KState

-----------------------------------------------------------------------------
(* What follows *)

\* The invariant keeps any two threads of the copy-nothing gemm off the same memory:
\* a thread adds to its own columns only, after the first thread of the block wrote them.
LEMMA NocopyDoesNotRace ==
    ASSUME PartInv, Diverted, KInv
    PROVE  Nocopy!NoDataRace
<1> SUFFICES ASSUME NEW t \in Nocopy!Team, NEW u \in Nocopy!Team, t # u,
                    NEW p \in Nocopy!Writes(t), p \in Nocopy!Writes(u) \cup Nocopy!Reads(u)
             PROVE  FALSE
    BY DEF Nocopy!NoDataRace
\* What a thread that goes on writes and reads.
<1> DEFINE Adds(x) == \/ nocopy_thr[x].pc = "own" /\ Nocopy!ithr_k(x) > 0 /\ Nocopy!Published(x, 0)
                      \/ nocopy_thr[x].pc = "others" /\ Nocopy!Published(x, nocopy_thr[x].ik)
                      \/ nocopy_thr[x].pc = "later"
<1>1. ASSUME NEW x \in Nocopy!Team, p \in Nocopy!Writes(x)
      PROVE  /\ x \in Owners /\ x \in Working
             /\ p[1] = Nocopy!Mn(x)
             /\ \/ nocopy_thr[x].pc = "compute" /\ p[2] = Nocopy!ithr_k(x)
                \/ Adds(x) /\ p[2] = 0 /\ p[3] \in Nocopy!MyColumns(x)
    <2>1. nocopy_thr[x].pc # "done"
        BY <1>1 DEF Nocopy!Writes, Nocopy!At, Nocopy!MayAddOwn, Nocopy!MayAddOther
    <2>2. x \in Owners /\ x \in Working
        BY <2>1, KThread
    <2>3. CASE nocopy_thr[x].pc = "compute"
        <3>1. p \in {Nocopy!Mn(x)} \X {Nocopy!ithr_k(x)} \X Nocopy!Columns(Nocopy!Mn(x))
            BY <1>1, <2>3 DEF Nocopy!Writes, Nocopy!At, Nocopy!MayAddOwn, Nocopy!MayAddOther
        <3> QED BY <2>2, <2>3, <3>1
    <2>4. CASE nocopy_thr[x].pc # "compute"
        BY <1>1, <2>2, <2>4 DEF Nocopy!Writes, Nocopy!At, Nocopy!MayAddOwn, Nocopy!MayAddOther
    <2> QED BY <2>3, <2>4
<1>2. ASSUME NEW x \in Nocopy!Team, p \in Nocopy!Reads(x)
      PROVE  /\ x \in Owners /\ x \in Working
             /\ p[1] = Nocopy!Mn(x) /\ p[2] \in Nocopy!Parts /\ p[2] # 0
             /\ \/ nocopy_thr[x].pc = "own" /\ p[2] = Nocopy!ithr_k(x)
                \/ nocopy_thr[x].pc = "others" /\ Nocopy!Published(x, p[2])
                \/ nocopy_thr[x].pc = "later"
    <2>1. nocopy_thr[x].pc # "done"
        BY <1>2 DEF Nocopy!Reads, Nocopy!At, Nocopy!MayAddOwn, Nocopy!MayAddOther
    <2>2. x \in Owners /\ x \in Working /\ Nocopy!ithr_k(x) \in Nocopy!Parts
        BY <2>1, KThread
    <2>3. CASE nocopy_thr[x].pc = "own"
        <3>1. p \in {Nocopy!Mn(x)} \X {Nocopy!ithr_k(x)} \X Nocopy!MyColumns(x)
              /\ Nocopy!ithr_k(x) > 0
            BY <1>2, <2>3 DEF Nocopy!Reads, Nocopy!At, Nocopy!MayAddOwn, Nocopy!MayAddOther
        <3> QED BY <2>2, <2>3, <3>1
    <2>4. CASE nocopy_thr[x].pc = "others"
        <3>1. p \in {Nocopy!Mn(x)} \X {nocopy_thr[x].ik} \X Nocopy!MyColumns(x)
              /\ Nocopy!Published(x, nocopy_thr[x].ik)
            BY <1>2, <2>4 DEF Nocopy!Reads, Nocopy!At, Nocopy!MayAddOwn, Nocopy!MayAddOther
        <3>2. nocopy_thr[x].ik \in 1..(Nocopy!nthr_k - 1)
            BY <2>2, <2>4 DEF KInv, KStatus
        <3>3. nocopy_thr[x].ik \in Nocopy!Parts /\ nocopy_thr[x].ik # 0
            BY <3>2, KNumbers DEF Nocopy!Parts
        <3> QED BY <2>2, <2>4, <3>1, <3>3
    <2>5. CASE nocopy_thr[x].pc = "later"
        BY <1>2, <2>2, <2>5 DEF Nocopy!Reads, Nocopy!At, Nocopy!MayAddOwn, Nocopy!MayAddOther
    <2>6. CASE nocopy_thr[x].pc \notin {"own", "others", "later"}
        BY <1>2, <2>6 DEF Nocopy!Reads, Nocopy!At, Nocopy!MayAddOwn, Nocopy!MayAddOther
    <2> QED BY <2>3, <2>4, <2>5, <2>6
\* One computes what the other writes or reads.
<1>3. ASSUME NEW x \in Nocopy!Team, NEW y \in Nocopy!Team, x # y, x \in Owners, y \in Owners,
             x \in Working, y \in Working, nocopy_thr[x].pc = "compute",
             Nocopy!Mn(x) = Nocopy!Mn(y),
             \/ nocopy_thr[y].pc = "compute" /\ Nocopy!ithr_k(x) = Nocopy!ithr_k(y)
             \/ Adds(y) /\ Nocopy!ithr_k(x) = 0
             \/ nocopy_thr[y].pc = "own" /\ Nocopy!ithr_k(x) = Nocopy!ithr_k(y)
             \/ nocopy_thr[y].pc = "others" /\ Nocopy!Published(y, Nocopy!ithr_k(x))
             \/ nocopy_thr[y].pc = "later"
      PROVE  FALSE
    <2>1. ompstatus[<<Nocopy!Mn(x), Nocopy!ithr_k(x)>>] # 1
        BY <1>3 DEF KInv, KStatus
    <2>2. nocopy_region = "compute" /\ nocopy_thr[y].pc # "later"
        BY <1>3 DEF KInv, KPlaces
    <2>3. Nocopy!ithr_k(x) # Nocopy!ithr_k(y)
        BY <1>3, OneThreadEach
    <2>4. CASE Adds(y) /\ Nocopy!ithr_k(x) = 0
        <3>1. CASE nocopy_thr[y].pc = "own"
            BY <1>3, <2>1, <2>4, <3>1 DEF Nocopy!Published
        <3>2. CASE nocopy_thr[y].pc = "others"
            BY <1>3, <2>1, <2>3, <2>4, <3>2 DEF Nocopy!Published, KInv, KStatus
        <3> QED BY <2>2, <2>4, <3>1, <3>2
    <2>5. CASE nocopy_thr[y].pc = "others" /\ Nocopy!Published(y, Nocopy!ithr_k(x))
        BY <1>3, <2>1, <2>5 DEF Nocopy!Published
    <2> QED BY <1>3, <2>2, <2>3, <2>4, <2>5
<1> HIDE DEF Adds
<1>4. t \in Owners /\ t \in Working /\ u \in Owners /\ u \in Working /\ Nocopy!Mn(t) = Nocopy!Mn(u)
    BY <1>1, <1>2
<1>5. CASE nocopy_thr[t].pc = "compute" /\ p[2] = Nocopy!ithr_k(t)
    BY <1>1, <1>2, <1>3, <1>4, <1>5
<1>6. CASE Adds(t) /\ p[2] = 0 /\ p[3] \in Nocopy!MyColumns(t)
    <2>1. p \in Nocopy!Writes(u)
        BY <1>2, <1>6
    <2>2. CASE nocopy_thr[u].pc = "compute" /\ p[2] = Nocopy!ithr_k(u)
        BY <1>3, <1>4, <1>6, <2>2
    <2>3. CASE p[3] \in Nocopy!MyColumns(u)
        BY <1>4, <1>6, <2>3, OneSummerEach
    <2> QED BY <1>1, <2>1, <2>2, <2>3
<1> QED BY <1>1, <1>5, <1>6

\* The invariant makes the columns of C complete when the copy-nothing gemm returns
\* success: every part of k is in each of them, and only once.
LEMMA NocopyCompletes ==
    ASSUME PartInv, Diverted, KInv
    PROVE  Nocopy!ResultIsComplete
<1> SUFFICES ASSUME nocopy_region = "returned", nocopy_st = "success", ~Nocopy!sum_later,
                    NEW b \in Nocopy!Blocks, NEW col \in Nocopy!Columns(b)
             PROVE  nocopy_c[b][col] = Nocopy!Parts
    BY DEF Nocopy!ResultIsComplete, Nocopy!Returned, Nocopy!Complete
<1>1. Undisturbed
    BY DEF Undisturbed
<1>2. /\ Working = Owners /\ Working \subseteq Nocopy!Team /\ KColumns
    BY <1>1, KEveryThread
<1>3. PICK t \in Working : Nocopy!Mn(t) = b /\ col \in Nocopy!MyColumns(t)
    BY <1>2, OneSummerEach
<1>4. PICK z \in Working : Nocopy!ithr_k(z) = 0 /\ Nocopy!Mn(z) = Nocopy!Mn(t)
    BY <1>1, KEveryThread
<1>5. nocopy_thr[t].pc = "done" /\ nocopy_thr[z].pc = "done"
    BY <1>2 DEF KInv, KPlaces
<1>6. Has(t) = Nocopy!Parts
    BY <1>5 DEF Has
<1> QED BY <1>2, <1>3, <1>4, <1>5, <1>6 DEF KColumns

-----------------------------------------------------------------------------
(* Slices of the blocked gemm *)

\* partition_1d
LEMMA Partition1dSplits ==
    ASSUME NEW N \in Nat \ {0}, NEW n \in Nat
    PROVE  Splits([i \in 0..(N - 1) |-> partition_1d(i, N, n)], N, n)
<1> DEFINE even == n \div N
           band == IF n - (N - 1) * even > even + 1 THEN even + 1 ELSE even
           off(i) == i * band
           size(i) == IF i < N - 1 THEN band ELSE n - (N - 1) * band
           O == [i \in 0..N |-> IF i < N THEN i * band ELSE n + (N - 1) * band]
           P == [i \in 0..(N - 1) |-> partition_1d(i, N, n)]
<1>1. even \in Nat
    BY DivisionFacts
<1>2. band \in Nat
    BY <1>1
<1> HIDE DEF band
<1>3. Divides(O, N, n)
    <2>1. ASSUME NEW i \in 0..N PROVE O[i] \in Nat
        <3>1. i * band \in Nat /\ (N - 1) * band \in Nat
            BY <1>2
        <3> QED BY <3>1
    <2>2. O[0] = 0
        BY <1>2
    <2>3. O[N] >= n
        <3>1. (N - 1) * band \in Nat /\ O[N] = n + (N - 1) * band
            BY <1>2
        <3> QED BY <3>1
    <2>4. ASSUME NEW i \in 0..N, NEW j \in 0..N, i <= j PROVE O[i] <= O[j]
        <3>1. CASE j < N
            <4>1. i * band <= j * band
                BY <1>2, <2>4, ProductMonotone
            <4> QED BY <2>4, <3>1, <4>1
        <3>2. CASE j = N /\ i < N
            <4>1. i * band <= (N - 1) * band
                BY <1>2, <3>2, ProductMonotone
            <4>2. (N - 1) * band \in Nat /\ i * band \in Nat /\ O[j] = n + (N - 1) * band /\ O[i] = i * band
                BY <1>2, <3>2
            <4> HIDE DEF O
            <4> QED BY <4>1, <4>2
        <3>3. CASE i = N
            <4>1. i = j /\ O[i] \in Nat
                BY <2>1, <2>4, <3>3
            <4> HIDE DEF O
            <4> QED BY <4>1
        <3> QED BY <2>4, <3>1, <3>2, <3>3
    <2>5. O \in [0..N -> Nat]
        <3>1. O = [i \in 0..N |-> O[i]]
            BY DEF O
        <3> HIDE DEF O
        <3> QED BY <2>1, <3>1
    <2> HIDE DEF O
    <2> QED BY <2>2, <2>3, <2>4, <2>5 DEF Divides
<1>4. ASSUME NEW i \in 0..(N - 1) PROVE partition_1d(i, N, n) = Between(O, i, n)
    <2>1. partition_1d(i, N, n) =
            IF off(i) >= n THEN {} ELSE Places(off(i), Lesser(size(i), n - off(i)))
        BY Zenon DEF partition_1d, band
    <2>2. O[i] = off(i) /\ off(i) \in Nat
        BY <1>2
    <2>3. CASE i < N - 1
        <3>1. O[i + 1] = off(i) + band
            BY <1>2, <2>3
        <3>2. size(i) = band
            BY <2>3
        <3> HIDE DEF O, off, size
        <3>3. Between(O, i, n) = {x \in 0..(n - 1) : off(i) <= x /\ x < off(i) + band}
            BY <2>2, <3>1 DEF Between
        <3> QED BY <1>2, <2>1, <2>2, <3>2, <3>3 DEF Places, Lesser
    <2>4. CASE i = N - 1
        <3>1. O[i + 1] = n + off(i)
            BY <1>2, <2>4
        <3>2. size(i) = n - off(i)
            BY <2>4
        <3> HIDE DEF O, off, size
        <3>3. Between(O, i, n) = {x \in 0..(n - 1) : off(i) <= x /\ x < n + off(i)}
            BY <2>2, <3>1 DEF Between
        <3> QED BY <1>2, <2>1, <2>2, <3>2, <3>3 DEF Places, Lesser
    <2> QED BY <2>3, <2>4
<1>5. \A i \in 0..(N - 1) : P[i] = Between(O, i, n)
    BY <1>4
<1> HIDE DEF O, P
<1>6. Splits(P, N, n)
    BY <1>3, <1>5, PointsSplit
<1> QED BY <1>6 DEF P

\* A dimension of set_thread_opts_pack.
LEMMA ThirdSplits ==
    ASSUME NEW N \in Nat \ {0}, NEW n \in Nat, NEW thread \in Nat \ {0}, thread * N >= n
    PROVE  Splits([i \in 0..(N - 1) |-> Third(i, thread, n)], N, n)
<1> DEFINE O == [i \in 0..N |-> i * thread]
           P == [i \in 0..(N - 1) |-> Third(i, thread, n)]
<1>1. Divides(O, N, n)
    <2>1. \A i \in 0..N : i * thread \in Nat
        OBVIOUS
    <2>2. \A i, j \in 0..N : i <= j => i * thread <= j * thread
        BY ProductMonotone
    <2>3. N * thread = thread * N /\ 0 * thread = 0
        OBVIOUS
    <2> QED BY <2>1, <2>2, <2>3 DEF Divides
<1>2. ASSUME NEW i \in 0..(N - 1) PROVE P[i] = Between(O, i, n)
    <2>1. i * thread \in Nat /\ (i + 1) * thread = i * thread + thread
        OBVIOUS
    <2>2. O[i] = i * thread /\ O[i + 1] = i * thread + thread
        BY <2>1
    <2> DEFINE o == i * thread
    <2>3. P[i] = Places(o, Lesser(thread, n - o))
        BY DEF Third
    <2> HIDE DEF O, P, o
    <2>4. o \in Nat /\ O[i] = o /\ O[i + 1] = o + thread
        BY <2>1, <2>2 DEF o
    <2> QED BY <2>3, <2>4 DEF Between, Places, Lesser
<1> HIDE DEF O, P
<1>3. Splits(P, N, n)
    BY <1>1, <1>2, PointsSplit
<1> QED BY <1>3 DEF P

\* Groups of a 2D partition: as many as have places, and then none.
LEMMA GroupsSplit ==
    ASSUME NEW N \in Nat \ {0}, NEW d \in Nat, NEW g, g.used \in 1..N, g.band \in Nat,
           (g.used - 1) * g.band <= d
    PROVE  Splits([i \in 0..(N - 1) |-> IF i < g.used THEN Group(i, d, g) ELSE {}], N, d)
<1> DEFINE u == g.used
           band == g.band
           O == [i \in 0..N |-> IF i < u THEN i * band ELSE d]
           P == [i \in 0..(N - 1) |-> IF i < u THEN Group(i, d, g) ELSE {}]
<1>1. u \in 1..N /\ band \in Nat /\ (u - 1) * band <= d /\ (u - 1) * band \in Nat
    OBVIOUS
<1> HIDE DEF u, band
<1>2. Divides(O, N, d)
    <2>1. ASSUME NEW i \in 0..N PROVE O[i] \in Nat
        <3>1. i * band \in Nat
            BY <1>1
        <3> QED BY <3>1
    <2>2. O[0] = 0 /\ O[N] = d
        BY <1>1
    <2>3. ASSUME NEW i \in 0..N, NEW j \in 0..N, i <= j PROVE O[i] <= O[j]
        <3>1. CASE j < u
            <4>1. i * band <= j * band
                BY <1>1, <2>3, ProductMonotone
            <4> QED BY <1>1, <2>3, <3>1, <4>1
        <3>2. CASE ~(j < u) /\ i < u
            <4>1. i * band <= (u - 1) * band /\ i * band \in Nat
                BY <1>1, <3>2, ProductMonotone
            <4>2. O[j] = d /\ O[i] = i * band
                BY <3>2
            <4> HIDE DEF O
            <4> QED BY <1>1, <4>1, <4>2
        <3>3. CASE ~(i < u)
            BY <1>1, <2>3, <3>3
        <3> QED BY <3>1, <3>2, <3>3
    <2>4. O \in [0..N -> Nat]
        <3>1. O = [i \in 0..N |-> O[i]]
            BY DEF O
        <3> HIDE DEF O
        <3> QED BY <2>1, <3>1
    <2> HIDE DEF O
    <2> QED BY <2>2, <2>3, <2>4 DEF Divides
<1>3. ASSUME NEW i \in 0..(N - 1) PROVE P[i] = Between(O, i, d)
    <2>1. CASE i < u - 1
        <3>1. O[i] = i * band /\ O[i + 1] = i * band + band /\ i * band \in Nat
            <4>1. (i + 1) * band = i * band + band
                BY <1>1
            <4> QED BY <1>1, <2>1, <4>1
        <3>2. P[i] = Places(i * band, band)
            BY <1>1, <2>1 DEF Group, u, band
        <3>3. i * band + band <= d
            <4>1. (i + 1) * band <= (u - 1) * band
                BY <1>1, <2>1, ProductMonotone
            <4>2. (i + 1) * band = i * band + band
                BY <1>1
            <4> DEFINE o == i * band
                       q == (u - 1) * band
                       r == (i + 1) * band
            <4>3. r <= q /\ q <= d /\ r = o + band
                BY <1>1, <4>1, <4>2
            <4>4. o \in Nat /\ q \in Nat /\ band \in Nat
                BY <1>1, <3>1
            <4> HIDE DEF o, q, r
            <4>5. o + band <= d
                BY <4>3, <4>4
            <4> QED BY <4>5 DEF o
        <3> DEFINE o == i * band
        <3> HIDE DEF O, P, o
        <3>4. O[i] = o /\ O[i + 1] = o + band /\ o \in Nat /\ P[i] = Places(o, band) /\ o + band <= d
            BY <3>1, <3>2, <3>3 DEF o
        <3>5. band \in Nat
            BY <1>1
        <3>6. Between(O, i, d) = {x \in 0..(d - 1) : o <= x /\ x < o + band}
            BY <3>4 DEF Between
        <3>7. P[i] = o..(o + band - 1)
            BY <3>4, <3>5 DEF Places
        <3>8. o + band <= d /\ o \in Nat /\ d \in Nat
            BY <1>1, <3>4
        <3> HIDE DEF band
        <3> QED BY <3>5, <3>6, <3>7, <3>8
    <2>2. CASE i = u - 1
        <3>1. O[i] = i * band /\ O[i + 1] = d
            BY <1>1, <2>2
        <3>2. P[i] = Places(i * band, d - i * band)
            BY <1>1, <2>2 DEF Group, u, band
        <3> DEFINE o == i * band
        <3> HIDE DEF O, P, o
        <3>4. O[i] = o /\ O[i + 1] = d /\ o \in Nat /\ P[i] = Places(o, d - o) /\ o <= d
            BY <1>1, <2>2, <3>1, <3>2 DEF o
        <3> QED BY <3>4 DEF Between, Places
    <2>3. CASE i >= u
        <3>1. O[i] = d /\ O[i + 1] = d /\ P[i] = {}
            BY <1>1, <2>3
        <3> HIDE DEF O, P
        <3> QED BY <3>1 DEF Between
    <2> QED BY <1>1, <2>1, <2>2, <2>3
<1> HIDE DEF O, P
<1>4. Splits(P, N, d)
    BY <1>2, <1>3, PointsSplit
<1> QED BY <1>4 DEF P, u

\* The groups of columns.
LEMMA ColumnGroups ==
    ASSUME NEW N \in Nat \ {0}, NEW d \in Nat \ {0}
    PROVE  LET g == Groups(d, N, FALSE)
           IN  g.used \in 1..N /\ g.band \in Nat /\ (g.used - 1) * g.band <= d
<1> DEFINE even == d \div N
           last == d - (N - 1) * even
           uneven == last > even + 1
           first == even + (IF uneven THEN 1 ELSE 0)
                         + (IF uneven /\ FALSE /\ last > N THEN 1 ELSE 0)
           used == IF uneven THEN div_up(d, first) ELSE N
           g == Groups(d, N, FALSE)
<1>1. g = [band |-> first, used |-> used]
    BY Zenon DEF Groups
<1> HIDE DEF g
<1>2. even \in Nat /\ N * even <= d /\ d < N * even + N
    <2>1. even \in Nat /\ d % N \in 0..(N - 1) /\ d = N * even + (d % N)
        BY DivisionFacts
    <2> HIDE DEF even
    <2>2. N * even \in Nat
        BY <2>1
    <2> QED BY <2>1, <2>2
<1>3. first = IF uneven THEN even + 1 ELSE even
    BY <1>2
<1> HIDE DEF even, first
<1>4. ASSUME uneven PROVE used \in 1..N /\ first \in Nat /\ (used - 1) * first <= d
    <2>1. first \in Nat \ {0} /\ first = even + 1
        BY <1>2, <1>3, <1>4
    <2>2. used = div_up(d, first)
        BY <1>4
    <2>3. used \in Nat \ {0} /\ (used - 1) * first < d
        BY <2>1, <2>2, DivUpFacts
    <2> HIDE DEF used
    <2>4. d < N * first
        <3>1. N * first = N * even + N
            BY <1>2, <2>1
        <3> QED BY <1>2, <3>1
    <2>5. used <= N
        <3> SUFFICES ASSUME N <= used - 1 PROVE FALSE
            BY <2>3
        <3>1. N * first <= (used - 1) * first
            BY <2>1, <2>3, ProductMonotone
        <3>2. N * first \in Nat /\ (used - 1) * first \in Nat
            BY <2>1, <2>3
        <3> QED BY <2>3, <2>4, <3>1, <3>2
    <2>6. (used - 1) * first \in Nat
        BY <2>1, <2>3
    <2> QED BY <2>1, <2>3, <2>5, <2>6
<1>5. ASSUME ~uneven PROVE used \in 1..N /\ first \in Nat /\ (used - 1) * first <= d
    <2>1. used = N /\ first = even
        BY <1>3, <1>5
    <2>2. (N - 1) * even <= d
        <3>1. (N - 1) * even <= N * even
            BY <1>2, ProductMonotone
        <3>2. N * even \in Nat /\ (N - 1) * even \in Nat
            BY <1>2
        <3> QED BY <1>2, <3>1, <3>2
    <2> HIDE DEF first, used
    <2> QED BY <1>2, <2>1, <2>2
<1>6. used \in 1..N /\ first \in Nat /\ (used - 1) * first <= d
    BY <1>4, <1>5
<1> HIDE DEF first, used
<1>7. g.used = used /\ g.band = first
    <2>1. \A x, y, z : z = [band |-> x, used |-> y] => z.used = y /\ z.band = x
        OBVIOUS
    <2> QED BY Zenon, <1>1, <2>1
<1> QED BY <1>6, <1>7 DEF g

\* The groups of rows, of which there are one, two or four.
LEMMA RowGroups ==
    ASSUME NEW N \in {1, 2, 4}, NEW d \in Nat \ {0}, N = 4 => d >= 20
    PROVE  LET g == Groups(d, N, TRUE)
           IN  g.used = N /\ g.band \in Nat /\ (g.used - 1) * g.band <= d
<1> DEFINE even == d \div N
           last == d - (N - 1) * even
           uneven == last > even + 1
           first == even + (IF uneven THEN 1 ELSE 0)
                         + (IF uneven /\ TRUE /\ last > N THEN 1 ELSE 0)
           used == IF uneven THEN div_up(d, first) ELSE N
           g == Groups(d, N, TRUE)
<1>1. g = [band |-> first, used |-> used]
    BY Zenon DEF Groups
<1> HIDE DEF g
<1>2. even \in Nat /\ d % N \in 0..(N - 1) /\ d = N * even + (d % N)
    BY DivisionFacts
<1> HIDE DEF even
<1>3. ASSUME N = 1 PROVE used = N /\ first \in Nat /\ (used - 1) * first <= d
    <2>1. d = even
        BY <1>2, <1>3
    <2>2. ~uneven
        BY <1>2, <1>3, <2>1
    <2>3. first = even /\ used = N
        BY <1>2, <2>2
    <2> HIDE DEF first, used
    <2>4. (N - 1) * even = 0
        BY <1>2, <1>3
    <2> QED BY <1>2, <2>3, <2>4
<1>4. ASSUME N = 2 PROVE used = N /\ first \in Nat /\ (used - 1) * first <= d
    <2>1. d <= 2 * even + 1 /\ 2 * even <= d
        BY <1>2, <1>4
    <2>2. ~uneven
        BY <1>2, <1>4, <2>1
    <2>3. first = even /\ used = N
        BY <1>2, <2>2
    <2> HIDE DEF first, used
    <2>4. (N - 1) * even <= d
        BY <1>2, <1>4, <2>1
    <2> QED BY <1>2, <2>3, <2>4
<1>7. ASSUME N = 4 PROVE used = N /\ first \in Nat /\ (used - 1) * first <= d
    <2> DEFINE r == d % N
    <2>1. r \in 0..3 /\ d = 4 * even + r /\ last = even + r /\ even >= 5
        BY <1>2, <1>7
    <2> HIDE DEF r
    <2>2. CASE r <= 1
        <3>1. first = even /\ used = N
            BY <1>2, <2>1, <2>2
        <3> HIDE DEF first, used
        <3> QED BY <1>2, <1>7, <2>1, <3>1
    <2>3. CASE r > 1
        <3>1. first = even + 2 /\ used = div_up(d, first)
            BY <1>2, <1>7, <2>1, <2>3
        <3>2. div_up(d, even + 2) = 4 /\ 3 * (even + 2) <= d
            BY <1>2, <2>1, <2>3, LongQuarters
        <3> HIDE DEF first, used
        <3> QED BY <1>2, <1>7, <3>1, <3>2
    <2> QED BY <2>1, <2>2, <2>3
<1>5. used = N /\ first \in Nat /\ (used - 1) * first <= d
    BY <1>3, <1>4, <1>7
<1> HIDE DEF first, used
<1>6. g.used = used /\ g.band = first
    <2>1. \A x, y, z : z = [band |-> x, used |-> y] => z.used = y /\ z.band = x
        OBVIOUS
    <2> QED BY Zenon, <1>1, <2>1
<1> QED BY <1>5, <1>6 DEF g

\* The place of a slice in a division of t.nthrs_m by t.nthrs_n by t.nthrs_k.
RowOf(t, i) == i % t.nthrs_m
ColumnOf(t, i) == (i \div t.nthrs_m) % t.nthrs_n
PartOf(t, i) == (i \div t.nthrs_m) \div t.nthrs_n
SliceAt(t, x, y, z) == (z * t.nthrs_n + y) * t.nthrs_m + x

\* The number of a slice and its row, column and part of k determine each other.
LEMMA PlacesOfSlices ==
    ASSUME NEW t, t.nthrs_m \in Nat \ {0}, t.nthrs_n \in Nat \ {0}, t.nthrs_k \in Nat \ {0}
    PROVE  /\ \A i \in 0..(nthrs(t) - 1) :
                /\ RowOf(t, i) \in 0..(t.nthrs_m - 1) /\ ColumnOf(t, i) \in 0..(t.nthrs_n - 1)
                /\ PartOf(t, i) \in 0..(t.nthrs_k - 1)
                /\ i = SliceAt(t, RowOf(t, i), ColumnOf(t, i), PartOf(t, i))
           /\ \A x \in 0..(t.nthrs_m - 1) : \A y \in 0..(t.nthrs_n - 1) : \A z \in 0..(t.nthrs_k - 1) :
                LET i == SliceAt(t, x, y, z)
                IN  /\ i \in 0..(nthrs(t) - 1)
                    /\ RowOf(t, i) = x /\ ColumnOf(t, i) = y /\ PartOf(t, i) = z
<1> DEFINE a == t.nthrs_m
           b == t.nthrs_n
           c_ == t.nthrs_k
<1>1. a \in Nat \ {0} /\ b \in Nat \ {0} /\ c_ \in Nat \ {0}
    OBVIOUS
<1>2. nthrs(t) = (c_ * b) * a /\ c_ * b \in Nat \ {0}
    <2>1. nthrs(t) = (a * b) * c_
        BY DEF nthrs
    <2> HIDE DEF a, b, c_
    <2>2. (a * b) * c_ = (c_ * b) * a
        BY <1>1
    <2>3. c_ * b \in Nat \ {0}
        BY <1>1, ProductIsPositive
    <2> QED BY <2>1, <2>2, <2>3
<1>3. /\ \A i : RowOf(t, i) = i % a /\ ColumnOf(t, i) = (i \div a) % b /\ PartOf(t, i) = (i \div a) \div b
      /\ \A x, y, z : SliceAt(t, x, y, z) = (z * b + y) * a + x
    BY DEF RowOf, ColumnOf, PartOf, SliceAt
<1> HIDE DEF a, b, c_
<1>4. AreTriples(nthrs(t), a, b, c_)
    BY <1>1, <1>2, TriplesOfANumber
<1>6. ASSUME NEW i \in 0..(nthrs(t) - 1)
      PROVE  /\ RowOf(t, i) \in 0..(a - 1) /\ ColumnOf(t, i) \in 0..(b - 1)
             /\ PartOf(t, i) \in 0..(c_ - 1)
             /\ i = SliceAt(t, RowOf(t, i), ColumnOf(t, i), PartOf(t, i))
    BY <1>3, <1>4 DEF AreTriples
<1>7. ASSUME NEW x \in 0..(a - 1), NEW y \in 0..(b - 1), NEW z \in 0..(c_ - 1)
      PROVE  LET i == SliceAt(t, x, y, z)
             IN  /\ i \in 0..(nthrs(t) - 1)
                 /\ RowOf(t, i) = x /\ ColumnOf(t, i) = y /\ PartOf(t, i) = z
    BY <1>3, <1>4 DEF AreTriples
<1> QED BY <1>6, <1>7 DEF a, b, c_

\* Slices by how the three dimensions are split.
SlicesOf(t, p, M, N, K) ==
    /\ Splits(M, t.nthrs_m, p.m) /\ Splits(N, t.nthrs_n, p.n) /\ Splits(K, t.nthrs_k, p.k)
    /\ \A i \in 0..(nthrs(t) - 1) :
         LET s == get_thread_slice(t, i, p.m, p.n, p.k)
         IN  /\ \/ s.m = M[RowOf(t, i)] /\ s.n = N[ColumnOf(t, i)]
                \/ s.m = {} /\ s.n = {} /\ N[ColumnOf(t, i)] = {}
             /\ s.k = K[PartOf(t, i)] /\ s.ithr_k = PartOf(t, i)

\* A division in three dimensions cuts each of them into consecutive runs.
LEMMA ThreeDimsFacts ==
    ASSUME NEW p, p.m \in Nat \ {0}, p.n \in Nat \ {0}, p.k \in Nat \ {0}, NEW t, InThreeDims(t, p)
    PROVE  \E M, N, K : SlicesOf(t, p, M, N, K)
<1> DEFINE M == [i \in 0..(t.nthrs_m - 1) |-> Third(i, t.thread_m, p.m)]
           N == [i \in 0..(t.nthrs_n - 1) |-> Third(i, t.thread_n, p.n)]
           K == [i \in 0..(t.nthrs_k - 1) |-> Third(i, t.thread_k, p.k)]
<1>1. Splits(M, t.nthrs_m, p.m) /\ Splits(N, t.nthrs_n, p.n) /\ Splits(K, t.nthrs_k, p.k)
    <2>1. Splits(M, t.nthrs_m, p.m)
        BY ThirdSplits DEF InThreeDims
    <2>2. Splits(N, t.nthrs_n, p.n)
        BY ThirdSplits DEF InThreeDims
    <2>3. Splits(K, t.nthrs_k, p.k)
        BY ThirdSplits DEF InThreeDims
    <2> QED BY <2>1, <2>2, <2>3
<1>2. ASSUME NEW i \in 0..(nthrs(t) - 1)
      PROVE  LET s == get_thread_slice(t, i, p.m, p.n, p.k)
             IN  /\ s.m = M[RowOf(t, i)] /\ s.n = N[ColumnOf(t, i)]
                 /\ s.k = K[PartOf(t, i)] /\ s.ithr_k = PartOf(t, i)
    <2>1. get_thread_slice(t, i, p.m, p.n, p.k) =
            [m |-> Third(RowOf(t, i), t.thread_m, p.m), n |-> Third(ColumnOf(t, i), t.thread_n, p.n),
             k |-> Third(PartOf(t, i), t.thread_k, p.k), ithr_k |-> PartOf(t, i)]
        <3>1. t.partition = "mnk_3d"
            BY DEF InThreeDims
        <3> QED BY <3>1 DEF get_thread_slice, RowOf, ColumnOf, PartOf
    <2>2. /\ RowOf(t, i) \in 0..(t.nthrs_m - 1) /\ ColumnOf(t, i) \in 0..(t.nthrs_n - 1)
          /\ PartOf(t, i) \in 0..(t.nthrs_k - 1)
        BY PlacesOfSlices DEF InThreeDims
    <2> QED BY <2>1, <2>2
<1> HIDE DEF M, N, K
<1> QED BY <1>1, <1>2 DEF SlicesOf

\* A division of the rows alone cuts them with partition_1d.
LEMMA RowsFacts ==
    ASSUME NEW p, p.m \in Nat \ {0}, p.n \in Nat \ {0}, p.k \in Nat \ {0}, NEW t, RowsOnly(t)
    PROVE  \E M, N, K : SlicesOf(t, p, M, N, K)
<1> DEFINE M == [i \in 0..(t.nthrs_m - 1) |-> partition_1d(i, t.nthrs_m, p.m)]
           N == [i \in {0} |-> 0..(p.n - 1)]
           K == [i \in {0} |-> 0..(p.k - 1)]
<1>1. /\ t.nthrs_m \in Nat \ {0} /\ t.nthrs_n = 1 /\ t.nthrs_k = 1 /\ t.partition = "row_1d"
      /\ nthrs(t) = t.nthrs_m
    BY DEF RowsOnly, nthrs
<1>2. Splits(M, t.nthrs_m, p.m) /\ Splits(N, t.nthrs_n, p.n) /\ Splits(K, t.nthrs_k, p.k)
    BY <1>1, Partition1dSplits, WholeSplits
<1>3. ASSUME NEW i \in 0..(nthrs(t) - 1)
      PROVE  LET s == get_thread_slice(t, i, p.m, p.n, p.k)
             IN  /\ s.m = M[RowOf(t, i)] /\ s.n = N[ColumnOf(t, i)]
                 /\ s.k = K[PartOf(t, i)] /\ s.ithr_k = PartOf(t, i)
    <2>1. /\ RowOf(t, i) \in 0..(t.nthrs_m - 1) /\ ColumnOf(t, i) \in 0..(t.nthrs_n - 1)
          /\ PartOf(t, i) \in 0..(t.nthrs_k - 1)
          /\ i = SliceAt(t, RowOf(t, i), ColumnOf(t, i), PartOf(t, i))
        BY <1>1, PlacesOfSlices
    <2>2. RowOf(t, i) = i /\ ColumnOf(t, i) = 0 /\ PartOf(t, i) = 0
        BY <1>1, <2>1 DEF SliceAt
    <2>3. get_thread_slice(t, i, p.m, p.n, p.k) =
            [m |-> partition_1d(i, nthrs(t), p.m), n |-> 0..(p.n - 1), k |-> 0..(p.k - 1), ithr_k |-> 0]
        BY <1>1 DEF get_thread_slice
    <2> QED BY <1>1, <2>2, <2>3
<1> HIDE DEF M, N, K
<1> QED BY <1>2, <1>3 DEF SlicesOf

\* Slices of columns alone are the whole of the other dimensions.
LEMMA ColumnsFacts ==
    ASSUME NEW p, p.m \in Nat \ {0}, p.n \in Nat \ {0}, p.k \in Nat \ {0}, NEW t, ColumnsOnly(t)
    PROVE  /\ \E M, N, K : SlicesOf(t, p, M, N, K)
           /\ LET N == [i \in 0..(t.nthrs_n - 1) |-> partition_1d(i, t.nthrs_n, p.n)]
              IN  /\ Splits(N, t.nthrs_n, p.n) /\ nthrs(t) = t.nthrs_n
                  /\ \A i \in 0..(nthrs(t) - 1) : get_thread_slice(t, i, p.m, p.n, p.k) =
                       [m |-> 0..(p.m - 1), n |-> N[i], k |-> 0..(p.k - 1), ithr_k |-> 0]
<1> DEFINE M == [i \in {0} |-> 0..(p.m - 1)]
           N == [i \in 0..(t.nthrs_n - 1) |-> partition_1d(i, t.nthrs_n, p.n)]
           K == [i \in {0} |-> 0..(p.k - 1)]
<1>1. /\ t.nthrs_n \in Nat \ {0} /\ t.nthrs_m = 1 /\ t.nthrs_k = 1 /\ t.partition = "col_1d"
      /\ nthrs(t) = t.nthrs_n
    BY DEF ColumnsOnly, nthrs
<1>2. Splits(M, t.nthrs_m, p.m) /\ Splits(N, t.nthrs_n, p.n) /\ Splits(K, t.nthrs_k, p.k)
    BY <1>1, Partition1dSplits, WholeSplits
<1>3. ASSUME NEW i \in 0..(nthrs(t) - 1)
      PROVE  get_thread_slice(t, i, p.m, p.n, p.k) =
               [m |-> 0..(p.m - 1), n |-> N[i], k |-> 0..(p.k - 1), ithr_k |-> 0]
    BY <1>1 DEF get_thread_slice
<1>4. ASSUME NEW i \in 0..(nthrs(t) - 1)
      PROVE  LET s == get_thread_slice(t, i, p.m, p.n, p.k)
             IN  /\ s.m = M[RowOf(t, i)] /\ s.n = N[ColumnOf(t, i)]
                 /\ s.k = K[PartOf(t, i)] /\ s.ithr_k = PartOf(t, i)
    <2>1. /\ RowOf(t, i) \in 0..(t.nthrs_m - 1) /\ ColumnOf(t, i) \in 0..(t.nthrs_n - 1)
          /\ PartOf(t, i) \in 0..(t.nthrs_k - 1)
          /\ i = SliceAt(t, RowOf(t, i), ColumnOf(t, i), PartOf(t, i))
        BY <1>1, PlacesOfSlices
    <2>2. RowOf(t, i) = 0 /\ ColumnOf(t, i) = i /\ PartOf(t, i) = 0
        BY <1>1, <2>1 DEF SliceAt
    <2>3. M[0] = 0..(p.m - 1) /\ K[0] = 0..(p.k - 1)
        OBVIOUS
    <2> DEFINE s == get_thread_slice(t, i, p.m, p.n, p.k)
    <2>4. s = [m |-> 0..(p.m - 1), n |-> N[i], k |-> 0..(p.k - 1), ithr_k |-> 0]
        BY <1>3
    <2> HIDE DEF M, N, K, s
    <2>5. s.m = M[0] /\ s.n = N[i] /\ s.k = K[0] /\ s.ithr_k = 0
        BY <2>3, <2>4
    <2> QED BY <2>2, <2>5 DEF s
<1>5. \E MM, NN, KK : SlicesOf(t, p, MM, NN, KK)
    <2> HIDE DEF M, N, K
    <2> QED BY <1>2, <1>4 DEF SlicesOf
<1> QED BY <1>1, <1>2, <1>3, <1>5

\* A division in two dimensions cuts the rows and the columns with partition_1d.
LEMMA TwoDimsFacts ==
    ASSUME NEW p, p.m \in Nat \ {0}, p.n \in Nat \ {0}, p.k \in Nat \ {0}, NEW t, InTwo(t, p)
    PROVE  \E M, N, K : SlicesOf(t, p, M, N, K)
<1> DEFINE nm == t.nthrs_m
           nn == t.nthrs_n
           gm == Groups(p.m, nm, TRUE)
           gn == Groups(p.n, nn, FALSE)
           M == [i \in 0..(nm - 1) |-> IF i < gm.used THEN Group(i, p.m, gm) ELSE {}]
           N == [i \in 0..(nn - 1) |-> IF i < gn.used THEN Group(i, p.n, gn) ELSE {}]
           K == [i \in {0} |-> 0..(p.k - 1)]
<1>1. /\ nm \in {1, 2, 4} /\ (nm = 4 => p.m >= 20) /\ nn \in Nat \ {0} /\ t.nthrs_k = 1 /\ t.partition = "col_major_2d"
    BY DEF InTwo
<1>2. /\ gm.used = nm /\ gm.band \in Nat /\ (gm.used - 1) * gm.band <= p.m
      /\ gn.used \in 1..nn /\ gn.band \in Nat /\ (gn.used - 1) * gn.band <= p.n
    BY <1>1, RowGroups, ColumnGroups
<1>3. Splits(M, nm, p.m) /\ Splits(N, nn, p.n) /\ Splits(K, t.nthrs_k, p.k)
    <2> HIDE DEF gm, gn
    <2>1. nm \in Nat \ {0} /\ gm.used \in 1..nm
        BY <1>1, <1>2
    <2>2. Splits(M, nm, p.m)
        BY <1>2, <2>1, GroupsSplit
    <2>3. Splits(N, nn, p.n)
        BY <1>1, <1>2, GroupsSplit
    <2> QED BY <1>1, <2>2, <2>3, WholeSplits
<1>4. ASSUME NEW i \in 0..(nthrs(t) - 1)
      PROVE  LET s == get_thread_slice(t, i, p.m, p.n, p.k)
             IN  /\ \/ s.m = M[RowOf(t, i)] /\ s.n = N[ColumnOf(t, i)]
                    \/ s.m = {} /\ s.n = {} /\ N[ColumnOf(t, i)] = {}
                 /\ s.k = K[PartOf(t, i)] /\ s.ithr_k = PartOf(t, i)
    <2> DEFINE x == RowOf(t, i)
               y == ColumnOf(t, i)
    <2>1. /\ x \in 0..(nm - 1) /\ y \in 0..(nn - 1) /\ PartOf(t, i) \in 0..(t.nthrs_k - 1)
          /\ i = SliceAt(t, x, y, PartOf(t, i))
        BY <1>1, PlacesOfSlices
    <2>2. PartOf(t, i) = 0 /\ i = y * nm + x
        <3>1. PartOf(t, i) = 0
            BY <1>1, <2>1
        <3>2. i = (0 * nn + y) * nm + x
            BY <2>1, <3>1 DEF SliceAt
        <3> HIDE DEF x, y, nm, nn
        <3>3. 0 * nn + y = y
            BY <1>1, <2>1
        <3> QED BY <3>1, <3>2, <3>3
    <2>3. i % nm = x /\ i \div nm = y
        <3>1. x = i % nm
            BY DEF RowOf
        <3>2. i \in Nat /\ nm \in Nat \ {0} /\ x \in 0..(nm - 1) /\ y \in Nat
            BY <1>1, <2>1, SlicesAreSome DEF Division
        <3> HIDE DEF x, y, nm
        <3>3. i \div nm = y
            <4>1. i = nm * y + x
                BY <2>2, <3>2
            <4> QED BY <3>2, <4>1, DivisionIsUnique
        <3> QED BY <3>1, <3>3
    <2>4. i < gm.used * gn.used <=> y < gn.used
        <3> DEFINE u == gn.used
        <3>1. u \in Nat /\ gm.used = nm /\ i = y * nm + x /\ nm \in {1, 2, 4} /\ x \in 0..(nm - 1) /\ y \in Nat
            <4> HIDE DEF gm, gn, x, y, nm, nn
            <4> QED BY <1>1, <1>2, <2>1, <2>2 DEF u
        <3> HIDE DEF u, x, y, gm, nm
        <3>2. i < nm * u <=> y < u
            BY <3>1, PairsBelow
        <3> QED BY <3>1, <3>2 DEF u
    <2>5. partition_2d(i, nm, nn, p.m, p.n) =
            IF y < gn.used THEN [m |-> Group(x, p.m, gm), n |-> Group(y, p.n, gn)]
            ELSE [m |-> {}, n |-> {}]
        <3>1. partition_2d(i, nm, nn, p.m, p.n) =
                IF i < gm.used * gn.used
                THEN [m |-> Group(i % nm, p.m, gm), n |-> Group(i \div nm, p.n, gn)]
                ELSE [m |-> {}, n |-> {}]
            BY Zenon DEF partition_2d
        <3> HIDE DEF x, y, nm, nn, gm, gn
        <3> QED BY <2>3, <2>4, <3>1
    <2> DEFINE two == partition_2d(i, nm, nn, p.m, p.n)
    <2>6. get_thread_slice(t, i, p.m, p.n, p.k) =
            [m |-> two.m, n |-> two.n, k |-> 0..(p.k - 1), ithr_k |-> 0]
        <3> HIDE DEF two
        <3>1. get_thread_slice(t, i, p.m, p.n, p.k) =
                [[m |-> 0..(p.m - 1), n |-> 0..(p.n - 1), k |-> 0..(p.k - 1), ithr_k |-> 0]
                   EXCEPT !.m = two.m, !.n = two.n]
            BY <1>1 DEF get_thread_slice, two
        <3> QED BY <3>1
    <2>7. M[x] = Group(x, p.m, gm) /\ N[y] = IF y < gn.used THEN Group(y, p.n, gn) ELSE {}
        <3> HIDE DEF x, y, gm, gn, nm, nn
        <3>1. x < gm.used
            BY <1>1, <1>2, <2>1
        <3> QED BY <2>1, <3>1
    <2> HIDE DEF gm, gn, M, N
    <2>8. CASE y < gn.used
        BY <2>2, <2>5, <2>6, <2>7, <2>8
    <2>9. CASE ~(y < gn.used)
        BY <2>2, <2>5, <2>6, <2>7, <2>9
    <2> QED BY <2>8, <2>9
<1> HIDE DEF M, N, K, nm, nn
<1> QED BY SMTT(30), <1>3, <1>4 DEF SlicesOf, nm, nn

\* Every division splits the three dimensions.
LEMMA DivisionSplits ==
    ASSUME NEW p, p.m \in Nat \ {0}, p.n \in Nat \ {0}, p.k \in Nat \ {0}, NEW t, Division(t, p)
    PROVE  \E M, N, K : SlicesOf(t, p, M, N, K)
    BY ThreeDimsFacts, RowsFacts, ColumnsFacts, TwoDimsFacts DEF Division

-----------------------------------------------------------------------------
(* Slices and the places of C *)

\* The region's slices are those of its division.
Sliced ==
    /\ prob \in Problems
    /\ Division(thread_info, prob)
    /\ \A i \in Slices : slice(i) = get_thread_slice(thread_info, i, prob.m, prob.n, prob.k)

\* The parts of k.
KParts == 0..(thread_info.nthrs_k - 1)

\* The slices of one block of C, one for each part of k.
LEMMA PartsOfABlock ==
    ASSUME Sliced
    PROVE  /\ thread_info.nthrs_k \in Nat \ {0} /\ nthr_eff \in Nat \ {0}
           /\ prob.m \in Nat \ {0} /\ prob.n \in Nat \ {0} /\ prob.k \in Nat \ {0}
           /\ \A i \in Slices :
                /\ slice(i).ithr_k \in KParts
                /\ OfPart(i, slice(i).ithr_k) = i
                /\ \A z \in KParts :
                     /\ OfPart(i, z) \in Slices
                     /\ slice(OfPart(i, z)).ithr_k = z
                     /\ RowOf(thread_info, OfPart(i, z)) = RowOf(thread_info, i)
                     /\ ColumnOf(thread_info, OfPart(i, z)) = ColumnOf(thread_info, i)
                     /\ \A w \in KParts : OfPart(OfPart(i, z), w) = OfPart(i, w)
           /\ \A i, j \in Slices :
                /\ RowOf(thread_info, i) = RowOf(thread_info, j)
                /\ ColumnOf(thread_info, i) = ColumnOf(thread_info, j)
                => OfPart(i, slice(j).ithr_k) = j
<1> DEFINE a == thread_info.nthrs_m
           b == thread_info.nthrs_n
           d == thread_info.nthrs_k
           Row(i) == RowOf(thread_info, i)
           Col(i) == ColumnOf(thread_info, i)
           Part(i) == PartOf(thread_info, i)
           At3(x, y, z) == SliceAt(thread_info, x, y, z)
<1>1. /\ a \in Nat \ {0} /\ b \in Nat \ {0} /\ d \in Nat \ {0} /\ nthr_eff \in Nat \ {0}
    BY SlicesAreSome DEF Sliced, nthr_eff
<1>2. prob.m \in Nat \ {0} /\ prob.n \in Nat \ {0} /\ prob.k \in Nat \ {0}
    BY ProblemsAreProblems DEF Sliced, IsProblem
<1>3. PICK M, N, K : SlicesOf(thread_info, prob, M, N, K)
    BY <1>2, DivisionSplits DEF Sliced
<1>4. ASSUME NEW i \in Slices PROVE slice(i).ithr_k = Part(i)
    BY <1>3, <1>4 DEF Sliced, SlicesOf, Slices, nthr_eff
<1>5. ASSUME NEW i \in Slices
      PROVE  /\ Row(i) \in 0..(a - 1) /\ Col(i) \in 0..(b - 1) /\ Part(i) \in 0..(d - 1)
             /\ i = At3(Row(i), Col(i), Part(i))
    BY <1>1, <1>5, PlacesOfSlices DEF Slices, nthr_eff
<1>6. ASSUME NEW x \in 0..(a - 1), NEW y \in 0..(b - 1), NEW z \in 0..(d - 1)
      PROVE  LET i == At3(x, y, z)
             IN  i \in Slices /\ Row(i) = x /\ Col(i) = y /\ Part(i) = z
    BY <1>1, <1>6, PlacesOfSlices DEF Slices, nthr_eff
<1>7. ASSUME NEW x \in 0..(a - 1), NEW y \in 0..(b - 1), NEW z \in 0..(d - 1), NEW w \in 0..(d - 1)
      PROVE  At3(x, y, z) + (w - z) * thr_k_stride(thread_info) = At3(x, y, w)
    <2>1. thr_k_stride(thread_info) = a * b
        BY DEF thr_k_stride
    <2>2. At3(x, y, z) = (z * b + y) * a + x /\ At3(x, y, w) = (w * b + y) * a + x
        BY DEF SliceAt
    <2> HIDE DEF a, b, d, At3
    <2>3. (z * b + y) * a + x + ((w - z) * (a * b)) = (w * b + y) * a + x
        BY <1>1
    <2> QED BY <2>1, <2>2, <2>3
<1>8. KParts = 0..(d - 1)
    BY DEF KParts
<1> HIDE DEF a, b, d, Row, Col, Part, At3
<1>9. ASSUME NEW i \in Slices, NEW z \in KParts
      PROVE  OfPart(i, z) = At3(Row(i), Col(i), z)
    BY <1>4, <1>5, <1>7, <1>8 DEF OfPart
<1>10. ASSUME NEW i \in Slices
       PROVE  slice(i).ithr_k \in KParts /\ OfPart(i, slice(i).ithr_k) = i
    BY <1>4, <1>5, <1>8, <1>9
<1>11. ASSUME NEW i \in Slices, NEW z \in KParts
       PROVE  /\ OfPart(i, z) \in Slices
              /\ slice(OfPart(i, z)).ithr_k = z
              /\ Row(OfPart(i, z)) = Row(i) /\ Col(OfPart(i, z)) = Col(i)
    BY <1>4, <1>5, <1>6, <1>8, <1>9
<1>12. ASSUME NEW i \in Slices, NEW z \in KParts, NEW w \in KParts
       PROVE  OfPart(OfPart(i, z), w) = OfPart(i, w)
    BY <1>9, <1>11
<1>13. ASSUME NEW i \in Slices, NEW j \in Slices, Row(i) = Row(j), Col(i) = Col(j)
       PROVE  OfPart(i, slice(j).ithr_k) = j
    BY <1>4, <1>5, <1>8, <1>9, <1>13
<1> QED BY <1>1, <1>2, <1>10, <1>11, <1>12, <1>13 DEF d, Row, Col

\* Slices have either a block of C in common or no place of it, the blocks are
\* all of C, and the parts of k all of k.
LEMMA BlocksTile ==
    ASSUME Sliced
    PROVE  /\ \A i \in Slices : /\ Cells(i) \subseteq DOMAIN NewC
                                /\ slice(i).m \subseteq 0..(prob.m - 1)
                                /\ slice(i).n \subseteq 0..(prob.n - 1)
                                /\ \E l, h \in Int : slice(i).n = l..h
                                /\ slice(i).k \subseteq 0..(prob.k - 1)
           /\ \A i \in Slices : \A z \in KParts : Cells(OfPart(i, z)) = Cells(i)
           /\ \A i, j \in Slices : \A pl \in Cells(i) :
                pl \in Cells(j) => OfPart(i, slice(j).ithr_k) = j
           /\ \A pl \in DOMAIN NewC : \E i \in Slices : pl \in Cells(i)
           /\ \A i, j \in Slices : slice(i).ithr_k = slice(j).ithr_k => slice(i).k = slice(j).k
           /\ \A i, j \in Slices : slice(i).ithr_k # slice(j).ithr_k => slice(i).k \cap slice(j).k = {}
           /\ \A i \in Slices : \A x \in 0..(prob.k - 1) : \E z \in KParts : x \in slice(OfPart(i, z)).k
<1> DEFINE a == thread_info.nthrs_m
           b == thread_info.nthrs_n
           d == thread_info.nthrs_k
           Row(i) == RowOf(thread_info, i)
           Col(i) == ColumnOf(thread_info, i)
<1>1. /\ a \in Nat \ {0} /\ b \in Nat \ {0} /\ d \in Nat \ {0} /\ nthr_eff \in Nat \ {0}
    BY SlicesAreSome DEF Sliced, nthr_eff
<1>2. prob.m \in Nat \ {0} /\ prob.n \in Nat \ {0} /\ prob.k \in Nat \ {0}
    BY ProblemsAreProblems DEF Sliced, IsProblem
<1>3. PICK M, N, K : SlicesOf(thread_info, prob, M, N, K)
    BY <1>2, DivisionSplits DEF Sliced
<1>4. Splits(M, a, prob.m) /\ Splits(N, b, prob.n) /\ Splits(K, d, prob.k)
    BY <1>3 DEF SlicesOf
<1>5. ASSUME NEW i \in Slices
      PROVE  /\ Row(i) \in 0..(a - 1) /\ Col(i) \in 0..(b - 1)
             /\ slice(i).ithr_k \in 0..(d - 1)
             /\ \/ slice(i).m = M[Row(i)] /\ slice(i).n = N[Col(i)]
                \/ slice(i).m = {} /\ slice(i).n = {} /\ N[Col(i)] = {}
             /\ slice(i).k = K[slice(i).ithr_k]
    <2>1. Row(i) \in 0..(a - 1) /\ Col(i) \in 0..(b - 1) /\ PartOf(thread_info, i) \in 0..(d - 1)
        BY <1>1, <1>5, PlacesOfSlices DEF Slices, nthr_eff
    <2> QED BY <1>3, <1>5, <2>1 DEF Sliced, SlicesOf, Slices, nthr_eff
<1>6. ASSUME NEW i \in Slices PROVE Cells(i) = M[Row(i)] \X N[Col(i)]
    BY <1>5 DEF Cells
<1>7. DOMAIN NewC = (0..(prob.m - 1)) \X (0..(prob.n - 1))
    BY DEF NewC
<1> HIDE DEF a, b, d, Row, Col
<1>8. ASSUME NEW i \in Slices
      PROVE  /\ Cells(i) \subseteq DOMAIN NewC
             /\ slice(i).m \subseteq 0..(prob.m - 1)
             /\ slice(i).n \subseteq 0..(prob.n - 1)
             /\ \E l, h \in Int : slice(i).n = l..h
             /\ slice(i).k \subseteq 0..(prob.k - 1)
    <2>1. /\ M[Row(i)] \subseteq 0..(prob.m - 1) /\ N[Col(i)] \subseteq 0..(prob.n - 1)
          /\ K[slice(i).ithr_k] \subseteq 0..(prob.k - 1)
        BY <1>4, <1>5 DEF Splits
    <2>2. \E l, h \in Int : slice(i).n = l..h
        <3>1. CASE slice(i).n = N[Col(i)]
            BY <1>4, <1>5, <3>1 DEF Splits
        <3>2. CASE slice(i).n = {}
            <4>1. slice(i).n = 1..0 /\ 1 \in Int /\ 0 \in Int
                BY <3>2
            <4> QED BY <4>1
        <3> QED BY <1>5, <3>1, <3>2
    <2>3. Cells(i) \subseteq DOMAIN NewC
        BY <1>6, <1>7, <2>1
    <2>4. slice(i).m \subseteq 0..(prob.m - 1) /\ slice(i).n \subseteq 0..(prob.n - 1)
        BY <1>5, <2>1
    <2>5. slice(i).k \subseteq 0..(prob.k - 1)
        BY <1>5, <2>1
    <2> QED BY <2>2, <2>3, <2>4, <2>5
<1>9. ASSUME NEW i \in Slices, NEW z \in KParts PROVE Cells(OfPart(i, z)) = Cells(i)
    BY <1>6, <1>9, PartsOfABlock DEF Row, Col
<1>10. ASSUME NEW i \in Slices, NEW j \in Slices, NEW pl \in Cells(i), pl \in Cells(j)
       PROVE  OfPart(i, slice(j).ithr_k) = j
    <2>1. /\ pl[1] \in M[Row(i)] \cap M[Row(j)] /\ pl[2] \in N[Col(i)] \cap N[Col(j)]
        BY <1>6, <1>10
    <2>2. Row(i) = Row(j) /\ Col(i) = Col(j)
        BY <1>4, <1>5, <2>1 DEF Splits
    <2> QED BY <2>2, PartsOfABlock DEF Row, Col
<1>11. ASSUME NEW pl \in DOMAIN NewC PROVE \E i \in Slices : pl \in Cells(i)
    <2>1. pl[1] \in 0..(prob.m - 1) /\ pl[2] \in 0..(prob.n - 1) /\ pl = <<pl[1], pl[2]>>
        BY <1>7, <1>11
    <2>2. PICK x \in 0..(a - 1) : pl[1] \in M[x]
        BY <1>4, <2>1 DEF Splits
    <2>3. PICK y \in 0..(b - 1) : pl[2] \in N[y]
        BY <1>4, <2>1 DEF Splits
    <2> DEFINE i == SliceAt(thread_info, x, y, 0)
    <2>4. i \in Slices /\ Row(i) = x /\ Col(i) = y
        <3>1. 0 \in 0..(d - 1)
            BY <1>1
        <3> QED BY <1>1, <3>1, PlacesOfSlices DEF a, b, d, Row, Col, Slices, nthr_eff
    <2> HIDE DEF i
    <2>5. pl \in Cells(i)
        BY <1>6, <2>1, <2>2, <2>3, <2>4
    <2> QED BY <2>4, <2>5
<1>12. ASSUME NEW i \in Slices, NEW j \in Slices, slice(i).ithr_k = slice(j).ithr_k
       PROVE  slice(i).k = slice(j).k
    BY <1>5, <1>12
<1>13. ASSUME NEW i \in Slices, NEW j \in Slices, slice(i).ithr_k # slice(j).ithr_k
       PROVE  slice(i).k \cap slice(j).k = {}
    <2> DEFINE u == slice(i).ithr_k
               v == slice(j).ithr_k
    <2>1. u \in 0..(d - 1) /\ v \in 0..(d - 1) /\ u # v /\ slice(i).k = K[u] /\ slice(j).k = K[v]
        BY <1>5, <1>13
    <2> HIDE DEF u, v
    <2>2. K[u] \cap K[v] = {}
        BY <1>4, <2>1 DEF Splits
    <2> QED BY <2>1, <2>2
<1>14. ASSUME NEW i \in Slices, NEW x \in 0..(prob.k - 1)
       PROVE  \E z \in KParts : x \in slice(OfPart(i, z)).k
    <2>1. PICK z \in 0..(d - 1) : x \in K[z]
        BY <1>4, <1>14 DEF Splits
    <2>2. z \in KParts
        BY <2>1 DEF KParts, d
    <2>3. OfPart(i, z) \in Slices /\ slice(OfPart(i, z)).ithr_k = z
        BY <2>2, PartsOfABlock
    <2> QED BY <1>5, <2>1, <2>2, <2>3
<1> QED BY <1>8, <1>9, <1>10, <1>11, <1>12, <1>13, <1>14

\* Numbers in a row.
LEMMA IntervalFacts ==
    ASSUME NEW l \in Int, NEW h \in Int, l <= h
    PROVE  First(l..h) = l /\ Cardinality(l..h) = h - l + 1
<1>1. First(l..h) = l
    <2>1. l \in l..h /\ \A y \in l..h : l <= y
        OBVIOUS
    <2>2. \A x \in l..h : (\A y \in l..h : x <= y) => x = l
        BY <2>1
    <2> QED BY <2>1, <2>2 DEF First
<1>2. Cardinality(l..h) = h - l + 1
    BY FS_Interval
<1> QED BY <1>1, <1>2

\* The columns of a slice that its thread adds up.
Summing(i) ==
    {First(slice(i).n) + j : j \in partition_1d(slice(i).ithr_k, thread_info.nthrs_k, Cardinality(slice(i).n))}

\* The columns of a block that its threads sum cover it and do not overlap.
LEMMA SummingFacts ==
    ASSUME Sliced, NEW i \in Slices
    PROVE  /\ SummedCells(i) = slice(i).m \X Summing(i)
           /\ Summing(i) \subseteq slice(i).n
           /\ \A y \in slice(i).n : \E z \in KParts :
                y \in {First(slice(i).n) + j : j \in partition_1d(z, thread_info.nthrs_k, Cardinality(slice(i).n))}
           /\ \A z \in KParts : z # slice(i).ithr_k =>
                Summing(i) \cap {First(slice(i).n) + j :
                   j \in partition_1d(z, thread_info.nthrs_k, Cardinality(slice(i).n))} = {}
<1> DEFINE d == thread_info.nthrs_k
           S == slice(i).n
           u == slice(i).ithr_k
           w == Cardinality(S)
           P == [x \in 0..(d - 1) |-> partition_1d(x, d, w)]
<1>1. d \in Nat \ {0} /\ u \in 0..(d - 1) /\ KParts = 0..(d - 1)
    BY PartsOfABlock DEF KParts
<1>2. PICK l, h \in Int : S = l..h
    BY BlocksTile
<1>3. SummedCells(i) = slice(i).m \X Summing(i)
    BY DEF SummedCells, Summing
<1>4. Summing(i) = {First(S) + j : j \in partition_1d(u, d, w)}
    BY DEF Summing
<1> HIDE DEF d, S, u
<1>5. CASE l <= h
    <2>1. First(S) = l /\ w = h - l + 1 /\ w \in Nat
        BY <1>2, <1>5, IntervalFacts
    <2> HIDE DEF w
    <2>2. Splits(P, d, w)
        BY <1>1, <2>1, Partition1dSplits
    <2>3. \A x \in 0..(d - 1) : P[x] = partition_1d(x, d, w)
        OBVIOUS
    <2> HIDE DEF P
    <2>4. Summing(i) \subseteq S
        <3>1. P[u] \subseteq 0..(w - 1)
            BY <1>1, <2>2 DEF Splits
        <3> QED BY <1>1, <1>2, <1>4, <2>1, <2>3, <3>1
    <2>5. ASSUME NEW y \in S
          PROVE  \E z \in KParts : y \in {First(S) + j : j \in partition_1d(z, d, w)}
        <3>1. y - l \in 0..(w - 1) /\ y = l + (y - l)
            BY <1>2, <2>1
        <3>2. PICK z \in 0..(d - 1) : y - l \in P[z]
            BY <2>2, <3>1 DEF Splits
        <3> QED BY <1>1, <2>1, <2>3, <3>1, <3>2
    <2>6. ASSUME NEW z \in KParts, z # u
          PROVE  Summing(i) \cap {First(S) + j : j \in partition_1d(z, d, w)} = {}
        <3>1. P[u] \cap P[z] = {} /\ P[u] \subseteq 0..(w - 1) /\ P[z] \subseteq 0..(w - 1)
            BY <1>1, <2>2, <2>6 DEF Splits
        <3>2. \A j \in P[u] : \A g \in P[z] : l + j # l + g
            BY <3>1
        <3> QED BY <1>1, <1>4, <2>1, <2>3, <2>6, <3>2
    <2> QED BY <1>3, <2>4, <2>5, <2>6 DEF d, S, u, w
<1>6. CASE ~(l <= h)
    <2>1. S = {}
        BY <1>2, <1>6
    <2>2. w = 0
        BY <2>1, FS_EmptySet
    <2> HIDE DEF w
    <2>3. Splits(P, d, 0)
        BY <1>1, <2>2, Partition1dSplits
    <2>4. \A x \in 0..(d - 1) : P[x] = partition_1d(x, d, 0)
        BY <2>2
    <2> HIDE DEF P
    <2>5. \A x \in 0..(d - 1) : partition_1d(x, d, w) = {}
        <3>1. \A x \in 0..(d - 1) : P[x] \subseteq 0..(0 - 1)
            BY <2>3 DEF Splits
        <3> QED BY <2>2, <2>4, <3>1
    <2>6. Summing(i) = {}
        BY <1>1, <1>4, <2>5
    <2> QED BY <1>3, <2>1, <2>6 DEF S
<1> QED BY <1>2, <1>5, <1>6

\* No place of C is summed by two, and every place by one of its block.
LEMMA SummersOfABlock ==
    ASSUME Sliced
    PROVE  /\ \A i \in Slices : SummedCells(i) \subseteq Cells(i)
           /\ \A i, j \in Slices : i # j => SummedCells(i) \cap SummedCells(j) = {}
           /\ \A i \in Slices : \A pl \in Cells(i) : \E z \in KParts : pl \in SummedCells(OfPart(i, z))
<1>1. ASSUME NEW i \in Slices PROVE SummedCells(i) \subseteq Cells(i)
    BY SummingFacts DEF Cells
<1>2. ASSUME NEW i \in Slices, NEW j \in Slices, NEW pl \in Cells(i), pl \in Cells(j)
      PROVE  slice(i).m = slice(j).m /\ slice(i).n = slice(j).n
    <2>1. OfPart(i, slice(j).ithr_k) = j /\ slice(j).ithr_k \in KParts
        BY <1>2, BlocksTile, PartsOfABlock
    <2>2. Cells(j) = Cells(i)
        BY <2>1, BlocksTile
    <2>3. pl[1] \in slice(i).m /\ pl[2] \in slice(i).n /\ pl[1] \in slice(j).m /\ pl[2] \in slice(j).n
        BY <1>2 DEF Cells
    <2>4. \A x, y : <<x, y>> \in Cells(i) <=> x \in slice(i).m /\ y \in slice(i).n
        BY DEF Cells
    <2>5. \A x, y : <<x, y>> \in Cells(j) <=> x \in slice(j).m /\ y \in slice(j).n
        BY DEF Cells
    <2> QED BY <2>2, <2>3, <2>4, <2>5
<1>3. ASSUME NEW i \in Slices, NEW j \in Slices, NEW pl, pl \in SummedCells(i), pl \in SummedCells(j)
      PROVE  i = j
    <2>1. pl \in Cells(i) /\ pl \in Cells(j)
        BY <1>1, <1>3
    <2>2. OfPart(i, slice(j).ithr_k) = j /\ slice(j).ithr_k \in KParts /\ OfPart(i, slice(i).ithr_k) = i
        BY <2>1, BlocksTile, PartsOfABlock
    <2>3. slice(i).n = slice(j).n
        BY <1>2, <2>1
    <2>4. pl[2] \in Summing(i) /\ pl[2] \in Summing(j)
        BY <1>3, SummingFacts
    <2>5. Summing(j) = {First(slice(i).n) + g :
                         g \in partition_1d(slice(j).ithr_k, thread_info.nthrs_k, Cardinality(slice(i).n))}
        BY <2>3 DEF Summing
    <2>6. slice(j).ithr_k = slice(i).ithr_k
        BY <2>2, <2>4, <2>5, SummingFacts
    <2> QED BY <2>2, <2>6
<1>4. ASSUME NEW i \in Slices, NEW pl \in Cells(i)
      PROVE  \E z \in KParts : pl \in SummedCells(OfPart(i, z))
    <2>1. pl[1] \in slice(i).m /\ pl[2] \in slice(i).n /\ pl = <<pl[1], pl[2]>>
        BY <1>4 DEF Cells
    <2>2. PICK z \in KParts : pl[2] \in {First(slice(i).n) + g :
             g \in partition_1d(z, thread_info.nthrs_k, Cardinality(slice(i).n))}
        BY <2>1, SummingFacts
    <2> DEFINE j == OfPart(i, z)
    <2>3. j \in Slices /\ slice(j).ithr_k = z /\ pl \in Cells(j)
        BY <1>4, PartsOfABlock, BlocksTile
    <2> HIDE DEF j
    <2>4. slice(j).m = slice(i).m /\ slice(j).n = slice(i).n
        BY <1>2, <1>4, <2>3
    <2>5. pl[2] \in Summing(j)
        BY <2>2, <2>3, <2>4 DEF Summing
    <2>6. pl \in SummedCells(j)
        BY <2>1, <2>3, <2>4, <2>5, SummingFacts
    <2> QED BY <2>6 DEF j
<1> QED BY <1>1, <1>3, <1>4

-----------------------------------------------------------------------------
(* The blocked gemm: where its threads are *)

\* What a thread of the blocked gemm keeps.
BThr == [pc : {"alloc", "get", "copy", "multiply", "advance", "compute", "publish", "own", "others",
               "later", "done"},
         ithr : Nat, Bk : Nat, Bm : Nat, ik : Nat, round : Nat]

\* What the driver keeps of a slice.
BArg == [slice : {get_thread_slice(thread_info, i, prob.m, prob.n, prob.k) : i \in Slices},
         result : {"success", "out_of_memory"}, compute_done : BOOLEAN]

\* A region has threads, slices and a team that suits them.
BRegion ==
    /\ region \in {"out", "compute", "between", "later", "returned"} /\ team \in Nat
    /\ region = "out" => team = 0
    /\ region \in {"compute", "between", "later"} => team # 0
    /\ team # 0 => Sliced /\ thread_arg \in [Slices -> BArg] /\ thr \in [Team -> BThr]
    /\ region \in {"between", "later"} => k_summing
    /\ team # 0 /\ k_summing => nthr_goal(prob) = nthr_eff
    /\ region = "compute" /\ thread_info.copy = "shared_a" /\ prob.packed = "none" => team = nthr_eff

\* Threads take up slices by turns, and each has its own: r is a state that
\* thread t can be in.
BFits(t, r) ==
    /\ r.ithr % team = t
    /\ r.pc = "done" <=> r.ithr >= nthr_eff
    /\ r.pc # "done" => region \in {"compute", "later"}
    /\ r.pc = "later" <=> r.pc # "done" /\ region = "later"
    /\ r.pc \in {"compute", "publish", "own", "others"} => thread_info.copy # "shared_a"
    /\ r.pc \in {"publish", "own", "others"} => sum_in_region
    /\ r.pc \in {"alloc", "get", "copy", "multiply", "advance"} => thread_info.copy = "shared_a"
    /\ r.pc \in {"alloc", "get", "copy"} => copies_a
    /\ r.pc \in {"alloc", "get"} => r.Bm = 0 /\ r.Bk = 0
    /\ r.pc \in {"copy", "multiply", "advance"} => r.Bm < prob.m /\ r.Bk < prob.k

\* Every thread is where the region lets it be.
BPlaces == \A t \in Team : BFits(t, thr[t])

\* compute_done says what it should, and nobody adds to what is not there.
BStatus ==
    region = "compute" =>
        /\ ~sum_in_region => \A i \in Slices : ~thread_arg[i].compute_done
        /\ sum_in_region => \A i \in Slices :
             /\ thread_arg[i].compute_done <=> thr[i].pc \in {"own", "others", "done"}
             /\ thr[i].pc \in {"others", "done"} => Done(i, 0)
             /\ thr[i].pc = "others" => thr[i].ik \in KParts \ {0, slice(i).ithr_k}

\* The control invariant of the blocked gemm.
BControl == prob \in Problems /\ BRegion /\ BPlaces /\ BStatus

-----------------------------------------------------------------------------
(* What a step of a region leaves as it is *)

\* What the steps of a region leave as it is.
BStays ==
    /\ Team' = Team /\ Slices' = Slices /\ nthr_eff' = nthr_eff /\ KParts' = KParts
    /\ k_summing' = k_summing /\ copies_a' = copies_a /\ sum_in_region' = sum_in_region
    /\ SuitsTeam' = SuitsTeam /\ NewC' = NewC
    /\ \A x : SizeM(x)' = SizeM(x) /\ SizeK(x)' = SizeK(x)
    /\ m_padd' = m_padd
    /\ \A i \in Slices :
         /\ slice(i)' = slice(i) /\ Cells(i)' = Cells(i) /\ SummedCells(i)' = SummedCells(i)
         /\ \A z : OfPart(i, z)' = OfPart(i, z)

\* What is defined from the call, the team and the threading stays while they do.
LEMMA BFrame ==
    ASSUME UNCHANGED <<prob, team, thread_info>>, \A i \in Slices : slice(i)' = slice(i)
    PROVE  BStays
<1>1. nthr_eff' = nthr_eff /\ Slices' = Slices /\ Team' = Team /\ KParts' = KParts
    BY DEF nthr_eff, Slices, Team, KParts
<1>2. k_summing' = k_summing /\ copies_a' = copies_a
    BY DEF k_summing, copies_a
<1>3. sum_in_region' = sum_in_region /\ SuitsTeam' = SuitsTeam
    BY <1>1, <1>2 DEF sum_in_region, SuitsTeam
<1>4. NewC' = NewC
    BY DEF NewC
<1>5. m_padd' = m_padd /\ k_padd' = k_padd
    BY <1>1 DEF m_padd, k_padd
<1>6. \A x : SizeM(x)' = SizeM(x) /\ SizeK(x)' = SizeK(x)
    BY <1>5 DEF SizeM, SizeK
<1>7. ASSUME NEW i \in Slices
      PROVE  /\ slice(i)' = slice(i) /\ Cells(i)' = Cells(i) /\ SummedCells(i)' = SummedCells(i)
             /\ \A z : OfPart(i, z)' = OfPart(i, z)
    <2>1. slice(i)' = slice(i)
        OBVIOUS
    <2>2. Cells(i)' = Cells(i)
        BY <2>1 DEF Cells
    <2>3. SummedCells(i)' = SummedCells(i)
        BY <2>1 DEF SummedCells
    <2>4. \A z : OfPart(i, z)' = OfPart(i, z)
        BY <2>1 DEF OfPart
    <2> QED BY <2>1, <2>2, <2>3, <2>4
<1> QED BY <1>1, <1>2, <1>3, <1>4, <1>5, <1>6, <1>7 DEF BStays

\* What a thread writes about its slice.
LEMMA ArgStays ==
    ASSUME BRegion, team # 0, UNCHANGED <<prob, team, thread_info>>, NEW j,
           \/ thread_arg' = thread_arg
           \/ thread_arg' = [thread_arg EXCEPT ![j].result = "out_of_memory"]
           \/ thread_arg' = [thread_arg EXCEPT ![j].compute_done = TRUE]
    PROVE  /\ BStays /\ Sliced' /\ thread_arg' \in [Slices -> BArg]' /\ thread_arg' \in [Slices -> BArg]
<1>1. thread_arg \in [Slices -> BArg] /\ Sliced
    BY DEF BRegion
<1> DEFINE X == {get_thread_slice(thread_info, i, prob.m, prob.n, prob.k) : i \in Slices}
<1>2. BArg = [slice : X, result : {"success", "out_of_memory"}, compute_done : BOOLEAN]
    BY DEF BArg
<1> HIDE DEF X
<1>3. thread_arg' \in [Slices -> BArg] /\ \A i \in Slices : thread_arg'[i].slice = thread_arg[i].slice
    <2>1. CASE thread_arg' = thread_arg
        BY <1>1, <2>1
    <2>2. CASE thread_arg' = [thread_arg EXCEPT ![j].result = "out_of_memory"]
        <3>1. \A a \in BArg : /\ [a EXCEPT !.result = "out_of_memory"] \in BArg
                             /\ [a EXCEPT !.result = "out_of_memory"].slice = a.slice
            BY <1>2
        <3>2. thread_arg' = [i \in Slices |-> IF i = j THEN [thread_arg[i] EXCEPT !.result = "out_of_memory"]
                                            ELSE thread_arg[i]]
            BY <1>1, <2>2
        <3> QED BY <1>1, <3>1, <3>2
    <2>3. CASE thread_arg' = [thread_arg EXCEPT ![j].compute_done = TRUE]
        <3>1. \A a \in BArg : /\ [a EXCEPT !.compute_done = TRUE] \in BArg
                             /\ [a EXCEPT !.compute_done = TRUE].slice = a.slice
            BY <1>2
        <3>2. thread_arg' = [i \in Slices |-> IF i = j THEN [thread_arg[i] EXCEPT !.compute_done = TRUE]
                                            ELSE thread_arg[i]]
            BY <1>1, <2>3
        <3> QED BY <1>1, <3>1, <3>2
    <2> QED BY <2>1, <2>2, <2>3
<1>4. BStays
    BY <1>3, BFrame DEF slice
<1>5. Sliced'
    BY <1>1, <1>4 DEF Sliced, BStays
<1>6. Slices' = Slices /\ BArg' = BArg
    BY <1>4 DEF BStays, BArg
<1> QED BY <1>3, <1>4, <1>5, <1>6

-----------------------------------------------------------------------------
(* The slices are the product *)

\* Where the slices are those of a division, they are exact.
LEMMA SlicedIsExact == ASSUME Sliced PROVE SlicesAreExact
<1> SUFFICES ASSUME NEW pl \in DOMAIN NewC, NEW k \in 0..(prob.k - 1)
             PROVE  \E i \in Slices :
                      /\ pl \in Cells(i) /\ k \in slice(i).k
                      /\ \A j \in Slices \ {i} : ~(pl \in Cells(j) /\ k \in slice(j).k)
    BY DEF SlicesAreExact
<1>1. PICK b \in Slices : pl \in Cells(b)
    BY BlocksTile
<1>2. PICK z \in KParts : k \in slice(OfPart(b, z)).k
    BY BlocksTile
<1> DEFINE i == OfPart(b, z)
<1>3. i \in Slices /\ pl \in Cells(i) /\ k \in slice(i).k
    BY <1>1, <1>2, BlocksTile, PartsOfABlock
<1> HIDE DEF i
<1>4. ASSUME NEW j \in Slices, pl \in Cells(j), k \in slice(j).k PROVE j = i
    <2>1. OfPart(i, slice(j).ithr_k) = j /\ OfPart(i, slice(i).ithr_k) = i
        BY <1>3, <1>4, BlocksTile, PartsOfABlock
    <2>2. slice(j).ithr_k = slice(i).ithr_k
        BY <1>3, <1>4, BlocksTile
    <2> QED BY <2>1, <2>2
<1> QED BY <1>3, <1>4

\* A thread that works.
LEMMA BWorker ==
    ASSUME BControl, NEW t \in Team, thr[t].pc # "done"
    PROVE  /\ region \in {"compute", "later"} /\ team \in Nat \ {0} /\ nthr_eff \in Nat \ {0}
           /\ Sliced /\ thread_arg \in [Slices -> BArg] /\ thr \in [Team -> BThr]
           /\ thr[t].ithr \in Slices /\ thr[t].ithr % team = t /\ thr[t] \in BThr /\ t \in 0..(team - 1)
           /\ BFits(t, thr[t])
           /\ sum_in_region /\ region = "compute" => thr[t].ithr = t /\ t \in Slices /\ team >= nthr_eff
<1>1. BFits(t, thr[t])
    BY DEF BControl, BPlaces
<1>2. region \in {"compute", "later"}
    BY <1>1 DEF BFits
<1>3. team \in Nat \ {0} /\ Sliced /\ thread_arg \in [Slices -> BArg] /\ thr \in [Team -> BThr]
    BY <1>2 DEF BControl, BRegion
<1>4. nthr_eff \in Nat \ {0}
    BY <1>3, PartsOfABlock
<1>5. thr[t].ithr \in Slices /\ thr[t] \in BThr /\ thr[t].ithr % team = t
    BY <1>1, <1>3, <1>4 DEF Slices, BThr, BFits
<1>6. ASSUME sum_in_region PROVE thr[t].ithr = t /\ t \in Slices /\ team >= nthr_eff
    <2>1. team >= nthr_eff
        BY <1>6 DEF sum_in_region
    <2>2. thr[t].ithr \in Nat /\ thr[t].ithr < team
        BY <1>3, <1>4, <1>5, <2>1 DEF Slices
    <2>3. thr[t].ithr % team = thr[t].ithr
        BY <1>3, <2>2, TurnOfASmallNumber
    <2> QED BY <1>5, <2>1, <2>3
<1> QED BY <1>1, <1>2, <1>3, <1>4, <1>5, <1>6 DEF Team

\* The next slice of a thread, or none.
LEMMA TakeFacts ==
    ASSUME NEW info, NEW i \in Nat, NEW round \in Nat, nthrs(info) \in Nat
    PROVE  LET r == Take(info, i, round)
           IN  /\ r \in BThr /\ r.ithr = i /\ r.Bm = 0 /\ r.Bk = 0 /\ r.round = round
               /\ r.pc = "done" <=> i >= nthrs(info)
               /\ r.pc = "compute" <=> i < nthrs(info) /\ info.copy # "shared_a"
               /\ r.pc = "alloc" <=> i < nthrs(info) /\ info.copy = "shared_a" /\ prob.packed # "a"
               /\ r.pc = "multiply" <=> i < nthrs(info) /\ info.copy = "shared_a" /\ prob.packed = "a"
               /\ r.pc \in {"done", "compute", "alloc", "multiply"}
<1> DEFINE r == Take(info, i, round)
           pc == CASE i >= nthrs(info) -> "done"
                   [] i < nthrs(info) /\ info.copy # "shared_a" -> "compute"
                   [] OTHER -> IF prob.packed = "a" THEN "multiply" ELSE "alloc"
<1>2. r = [pc |-> pc, ithr |-> i, Bk |-> 0, Bm |-> 0, ik |-> 0, round |-> round]
    BY DEF Take
<1>3. /\ pc = "done" <=> i >= nthrs(info)
      /\ pc = "compute" <=> i < nthrs(info) /\ info.copy # "shared_a"
      /\ pc = "alloc" <=> i < nthrs(info) /\ info.copy = "shared_a" /\ prob.packed # "a"
      /\ pc = "multiply" <=> i < nthrs(info) /\ info.copy = "shared_a" /\ prob.packed = "a"
      /\ pc \in {"done", "compute", "alloc", "multiply"}
    <2>1. CASE i >= nthrs(info)
        BY <2>1
    <2>2. CASE i < nthrs(info) /\ info.copy # "shared_a"
        BY <2>2
    <2>3. CASE i < nthrs(info) /\ info.copy = "shared_a"
        BY <2>3
    <2> QED BY <2>1, <2>2, <2>3
<1> HIDE DEF pc, r
<1>4. /\ r.pc = pc /\ r.ithr = i /\ r.Bm = 0 /\ r.Bk = 0 /\ r.round = round
      /\ r \in BThr
    BY <1>2, <1>3 DEF BThr
<1> QED BY <1>3, <1>4 DEF r

\* A thread that takes its next slice starts it as the region lets it.
LEMMA NextSliceFits ==
    ASSUME BControl, NEW t \in Team, thr[t].pc # "done", region = "compute"
    PROVE  LET r == Take(thread_info, thr[t].ithr + team, thr[t].round)
           IN  r \in BThr /\ BFits(t, r) /\ (sum_in_region => r.pc = "done")
<1> DEFINE i == thr[t].ithr + team
           r == Take(thread_info, i, thr[t].round)
<1>1. /\ team \in Nat \ {0} /\ nthr_eff \in Nat \ {0} /\ thr[t].ithr \in Nat /\ thr[t].round \in Nat
      /\ thr[t].ithr % team = t /\ Sliced
    BY BWorker DEF Slices, BThr
<1>2. i \in Nat /\ i % team = t
    <2> DEFINE a == thr[t].ithr
    <2>1. a \in Nat /\ a % team = t /\ team \in Nat \ {0}
        BY <1>1
    <2> HIDE DEF a
    <2>2. (a + team) % team = a % team
        BY <2>1, TurnsOfATeam
    <2>3. a + team \in Nat /\ (a + team) % team = t
        BY <2>1, <2>2
    <2> QED BY <2>3 DEF a
<1> HIDE DEF i
<1>3. /\ r \in BThr /\ r.ithr = i /\ r.Bm = 0 /\ r.Bk = 0
      /\ r.pc = "done" <=> i >= nthr_eff
      /\ r.pc = "compute" <=> i < nthr_eff /\ thread_info.copy # "shared_a"
      /\ r.pc = "alloc" <=> i < nthr_eff /\ copies_a
      /\ r.pc = "multiply" <=> i < nthr_eff /\ thread_info.copy = "shared_a" /\ ~copies_a
      /\ r.pc \in {"done", "compute", "alloc", "multiply"}
    BY <1>1, <1>2, TakeFacts DEF nthr_eff, copies_a
<1>4. prob.m > 0 /\ prob.k > 0
    BY <1>1, PartsOfABlock
<1> HIDE DEF r
<1>5. BFits(t, r)
    BY <1>2, <1>3, <1>4 DEF BFits, copies_a
<1>6. sum_in_region => r.pc = "done"
    BY <1>1, <1>3 DEF sum_in_region, i
<1> QED BY <1>3, <1>5, <1>6 DEF r, i

\* The sizes of the blocks that the threads copy together.
LEMMA BlockSizes ==
    ASSUME Sliced
    PROVE  /\ m_padd \in Nat \ {0} /\ k_padd \in Nat \ {0}
           /\ \A x \in 0..(prob.m - 1) : SizeM(x) \in 1..(prob.m - x)
           /\ \A x \in 0..(prob.k - 1) : SizeK(x) \in 1..(prob.k - x)
<1>1. /\ prob.m \in Nat \ {0} /\ prob.k \in Nat \ {0} /\ nthr_eff \in Nat \ {0}
    BY PartsOfABlock
<1>2. /\ arg.um \in Nat \ {0} /\ arg.bm \in Nat \ {0} /\ arg.uk \in Nat \ {0} /\ arg.bk \in Nat \ {0}
      /\ arg.bk_traditional \in Nat /\ arg.k_min \in Nat /\ arg.multiplier \in Nat \ {0}
    BY ArgAssumption
<1>3. ASSUME NEW a \in Nat \ {0}, NEW b \in Nat \ {0} PROVE rnd_up(a, b) \in Nat \ {0}
    <2>1. div_up(a, b) \in Nat \ {0}
        BY DivUpFacts
    <2> QED BY <2>1, ProductIsPositive DEF rnd_up
<1>4. m_padd \in Nat \ {0}
    <2> DEFINE l == Lesser(Greater(prob.m, arg.um), arg.bm)
               g == Greater(nthr_eff, arg.multiplier)
               p == rnd_up(l, arg.um) * g
    <2>1. l \in Nat \ {0} /\ g \in Nat \ {0}
        BY <1>1, <1>2 DEF Lesser, Greater
    <2>2. m_padd = IF p > prob.m THEN rnd_up(prob.m, arg.um) ELSE p
        BY Zenon DEF m_padd, get_m_padd_parallel_a
    <2> HIDE DEF l, g
    <2>3. p \in Nat \ {0}
        <3>1. rnd_up(l, arg.um) \in Nat \ {0}
            BY <1>2, <1>3, <2>1
        <3> QED BY <2>1, <3>1, ProductIsPositive
    <2> HIDE DEF p
    <2>4. rnd_up(prob.m, arg.um) \in Nat \ {0}
        BY <1>1, <1>2, <1>3
    <2> QED BY <2>2, <2>3, <2>4
<1>5. k_padd \in Nat \ {0}
    <2> DEFINE k == prob.k
    <2>1. k \in Nat \ {0}
        BY <1>1
    <2>2. k_padd = CASE k <= arg.bk_traditional -> Greater(arg.k_min, rnd_up(k, arg.uk))
                     [] k > arg.bk_traditional /\ k < 2 * arg.bk -> rnd_up((k + 1) \div 2, arg.uk)
                     [] OTHER -> arg.bk
        BY Zenon DEF k_padd, get_k_padd
    <2> HIDE DEF k
    <2>3. Greater(arg.k_min, rnd_up(k, arg.uk)) \in Nat \ {0}
        <3>1. rnd_up(k, arg.uk) \in Nat \ {0}
            BY <1>2, <1>3, <2>1
        <3> QED BY <1>2, <3>1 DEF Greater
    <2>4. rnd_up((k + 1) \div 2, arg.uk) \in Nat \ {0}
        <3>1. (k + 1) \div 2 \in Nat \ {0}
            BY <2>1
        <3> QED BY <1>2, <1>3, <3>1
    <2> QED BY <1>2, <2>1, <2>2, <2>3, <2>4
<1>6. ASSUME NEW x \in 0..(prob.m - 1) PROVE SizeM(x) \in 1..(prob.m - x)
    BY <1>1, <1>4 DEF SizeM, Lesser
<1>7. ASSUME NEW x \in 0..(prob.k - 1) PROVE SizeK(x) \in 1..(prob.k - x)
    BY <1>1, <1>5 DEF SizeK, Lesser
<1> QED BY <1>4, <1>5, <1>6, <1>7

\* A thread goes on, by itself.
BMoves(t, r) ==
    /\ UNCHANGED <<prob, region, team, thread_info>>
    /\ thr' = [thr EXCEPT ![t] = r]
    /\ \/ thread_arg' = thread_arg
       \/ thread_arg' = [thread_arg EXCEPT ![thr[t].ithr].result = "out_of_memory"]
       \/ thread_arg' = [thread_arg EXCEPT ![thr[t].ithr].compute_done = TRUE]

\* A step of one thread of the blocked gemm keeps every thread where the region lets it be.
LEMMA MoveKeepsB ==
    ASSUME BControl, NEW t \in Team, thr[t].pc # "done", NEW r \in BThr, BFits(t, r), BMoves(t, r)
    PROVE  /\ BStays /\ prob' \in Problems /\ BRegion' /\ BPlaces'
           /\ thr'[t] = r /\ \A u \in Team : u # t => thr'[u] = thr[u]
<1>1. /\ team \in Nat \ {0} /\ Sliced /\ thr \in [Team -> BThr] /\ BRegion
    BY BWorker DEF BControl
<1>2. BStays /\ Sliced' /\ thread_arg' \in [Slices -> BArg]'
    BY <1>1, ArgStays DEF BMoves
<1>3. /\ thr' \in [Team -> BThr] /\ thr'[t] = r /\ \A u \in Team : u # t => thr'[u] = thr[u]
    BY <1>1 DEF BMoves
<1>4. Team' = Team
    BY <1>2 DEF BStays
<1>5. BRegion'
    <2>1. /\ region' = region /\ team' = team /\ nthr_eff' = nthr_eff /\ k_summing' = k_summing
          /\ thread_info' = thread_info /\ prob' = prob
        BY <1>2 DEF BStays, BMoves
    <2> QED BY <1>1, <1>2, <1>3, <1>4, <2>1 DEF BRegion
<1>6. \A u, x : BFits(u, x)' <=> BFits(u, x)
    BY <1>2 DEF BStays, BMoves, BFits
<1>7. BPlaces'
    <2> SUFFICES ASSUME NEW u \in Team PROVE BFits(u, thr'[u])
        BY <1>4, <1>6 DEF BPlaces
    <2> QED BY <1>3 DEF BControl, BPlaces
<1>8. prob' \in Problems
    BY DEF BControl, BMoves
<1> QED BY <1>2, <1>3, <1>5, <1>7, <1>8

\* A step that is not part of summing in the region.
LEMMA NotSummingKeepsStatus ==
    ASSUME BControl, NEW t \in Team, thr[t].pc # "done", NEW r, BMoves(t, r), BStays,
           region = "compute" => ~sum_in_region,
           \/ thread_arg' = thread_arg
           \/ thread_arg' = [thread_arg EXCEPT ![thr[t].ithr].result = "out_of_memory"]
    PROVE  BStatus'
<1> SUFFICES ASSUME region = "compute" PROVE \A i \in Slices : ~thread_arg'[i].compute_done
    BY DEF BStatus, BMoves, BStays
<1>1. \A i \in Slices : ~thread_arg[i].compute_done
    BY DEF BControl, BStatus
<1>2. thread_arg \in [Slices -> BArg]
    BY BWorker
<1>3. \A a \in BArg : [a EXCEPT !.result = "out_of_memory"].compute_done = a.compute_done
    BY DEF BArg
<1>4. CASE thread_arg' = thread_arg
    BY <1>1, <1>4
<1>5. CASE thread_arg' = [thread_arg EXCEPT ![thr[t].ithr].result = "out_of_memory"]
    <2>1. thread_arg' = [i \in Slices |-> IF i = thr[t].ithr
                                         THEN [thread_arg[i] EXCEPT !.result = "out_of_memory"]
                                         ELSE thread_arg[i]]
        BY <1>2, <1>5
    <2> QED BY <1>1, <1>2, <1>3, <2>1
<1> QED BY <1>4, <1>5

\* A shared copy has parts of k as one.
LEMMA SharedIsNotSummed ==
    ASSUME Sliced, thread_info.copy = "shared_a"
    PROVE  ~k_summing /\ ~sum_in_region /\ ColumnsOnly(thread_info) /\ thread_info.nthrs_k = 1
    BY DEF Sliced, Division, RowsOnly, ColumnsOnly, InTwo, InThreeDims, k_summing, sum_in_region

\* The steps of a shared copy.
LEMMA SharedKeepsControl ==
    ASSUME BControl, NEW t \in Team,
           Allocate(t) \/ GetMemory(t) \/ Copy(t) \/ Multiply(t) \/ MultiplyFails(t) \/ Advance(t)
    PROVE  BControl' /\ BStays /\ \E r \in BThr : BFits(t, r) /\ BMoves(t, r)
<1>1. thr[t].pc \in {"alloc", "get", "copy", "multiply", "advance"}
    BY DEF Allocate, GetMemory, Copy, Multiply, Multiplies, MultiplyFails, Advance, At
<1>2. /\ region = "compute" /\ thread_info.copy = "shared_a" /\ thr[t] \in BThr /\ BFits(t, thr[t])
      /\ thr \in [Team -> BThr] /\ Sliced /\ thr[t].ithr \in Slices /\ thr[t].ithr % team = t
      /\ nthr_eff \in Nat \ {0} /\ thr[t].ithr < nthr_eff
    <2>1. thr[t].pc # "done"
        BY <1>1
    <2>2. BFits(t, thr[t]) /\ thr[t] \in BThr /\ region \in {"compute", "later"}
          /\ thr \in [Team -> BThr] /\ Sliced /\ thr[t].ithr \in Slices /\ nthr_eff \in Nat \ {0}
        BY <2>1, BWorker
    <2>3. thread_info.copy = "shared_a" /\ region # "later"
        BY <1>1, <2>2 DEF BFits
    <2> QED BY <2>2, <2>3 DEF BFits, Slices
<1>3. ~sum_in_region
    BY <1>2, SharedIsNotSummed
<1>4. prob.m \in Nat \ {0} /\ prob.k \in Nat \ {0}
    BY <1>2, PartsOfABlock
<1> DEFINE x == thr[t]
<1>5. x \in BThr /\ x.ithr < nthr_eff /\ x.ithr % team = t /\ x.ithr \in Nat
    BY <1>2 DEF BThr
<1>6. ASSUME NEW r \in BThr, BFits(t, r), BMoves(t, r),
             \/ thread_arg' = thread_arg
             \/ thread_arg' = [thread_arg EXCEPT ![thr[t].ithr].result = "out_of_memory"]
      PROVE  BControl' /\ BStays
    <2>1. BStays /\ prob' \in Problems /\ BRegion' /\ BPlaces'
        BY <1>1, <1>6, MoveKeepsB
    <2>2. BStatus'
        BY <1>1, <1>3, <1>6, <2>1, NotSummingKeepsStatus
    <2> QED BY <2>1, <2>2 DEF BControl
\* The thread gets past a barrier, or past nothing.
<1>7. ASSUME NEW pc \in {"get", "copy", "multiply", "advance"},
             NEW round \in Nat, NEW r, r = [x EXCEPT !.pc = pc, !.round = round],
             pc \in {"get", "copy"} => copies_a,
             pc = "get" => x.Bm = 0 /\ x.Bk = 0,
             pc # "get" => x.Bm < prob.m /\ x.Bk < prob.k
      PROVE  r \in BThr /\ BFits(t, r)
    <2>1. r \in BThr /\ r.pc = pc /\ r.ithr = x.ithr /\ r.Bm = x.Bm /\ r.Bk = x.Bk
        BY <1>5, <1>7 DEF BThr
    <2> HIDE DEF x
    <2> QED BY <1>2, <1>5, <1>7, <2>1 DEF BFits
<1>8. ASSUME Goto(t, "x") \/ TRUE, NEW pc, Goto(t, pc)
      PROVE  thr' = [thr EXCEPT ![t] = [x EXCEPT !.pc = pc, !.round = x.round]]
    <2>1. [x EXCEPT !.pc = pc] = [x EXCEPT !.pc = pc, !.round = x.round]
        BY <1>5 DEF BThr
    <2> QED BY <1>2, <1>8, <2>1 DEF Goto
<1>9. ASSUME NEW pc, Meet(t, pc)
      PROVE  thr' = [thr EXCEPT ![t] = [x EXCEPT !.pc = pc, !.round = x.round + 1]]
    BY <1>9 DEF Meet
<1>10. x.round \in Nat /\ x.round + 1 \in Nat
    BY <1>5 DEF BThr
<1>11. CASE Allocate(t)
    <2> DEFINE r == [x EXCEPT !.pc = "get", !.round = x.round + 1]
    <2>1. x.pc = "alloc" /\ thr' = [thr EXCEPT ![t] = r] /\ thread_arg' = thread_arg
          /\ UNCHANGED <<prob, region, team, thread_info>>
        BY <1>9, <1>11 DEF Allocate, At, InCall
    <2>2. copies_a /\ x.Bm = 0 /\ x.Bk = 0
        BY <1>2, <2>1 DEF BFits
    <2> HIDE DEF x
    <2>3. r \in BThr /\ BFits(t, r)
        BY <1>7, <1>10, <2>2
    <2> HIDE DEF r
    <2>4. BMoves(t, r)
        BY <2>1 DEF BMoves
    <2> QED BY <1>6, <2>1, <2>3, <2>4
<1>12. CASE GetMemory(t)
    <2>1. x.pc = "get" /\ UNCHANGED <<prob, region, team, thread_info>>
        BY <1>12 DEF GetMemory, At, InCall
    <2>2. copies_a /\ x.Bm = 0 /\ x.Bk = 0
        BY <1>2, <2>1 DEF BFits
    <2>3. CASE shared_mem = "null"
        <3> DEFINE r == Take(thread_info, thr[t].ithr + team, thr[t].round)
        <3>1. thr' = [thr EXCEPT ![t] = r]
              /\ thread_arg' = [thread_arg EXCEPT ![thr[t].ithr].result = "out_of_memory"]
            BY <1>12, <2>3 DEF GetMemory, NextSlice, Reported
        <3>2. r \in BThr /\ BFits(t, r)
            BY <1>1, <1>2, NextSliceFits
        <3> HIDE DEF r
        <3>3. BMoves(t, r)
            BY <2>1, <3>1 DEF BMoves
        <3> QED BY <1>6, <3>1, <3>2, <3>3
    <2>4. CASE shared_mem # "null"
        <3> DEFINE r == [x EXCEPT !.pc = "copy", !.round = x.round]
        <3>1. thr' = [thr EXCEPT ![t] = r] /\ thread_arg' = thread_arg
            BY <1>8, <1>12, <2>4 DEF GetMemory
        <3> HIDE DEF x
        <3>2. x.Bm < prob.m /\ x.Bk < prob.k
            BY <1>4, <2>2
        <3>3. r \in BThr /\ BFits(t, r)
            BY <1>7, <1>10, <2>2, <3>2
        <3> HIDE DEF r
        <3>4. BMoves(t, r)
            BY <2>1, <3>1 DEF BMoves
        <3> QED BY <1>6, <3>1, <3>3, <3>4
    <2> QED BY <2>3, <2>4
<1>13. CASE Copy(t)
    <2> DEFINE r == [x EXCEPT !.pc = "multiply", !.round = x.round + 1]
    <2>1. x.pc = "copy" /\ thr' = [thr EXCEPT ![t] = r] /\ thread_arg' = thread_arg
          /\ UNCHANGED <<prob, region, team, thread_info>>
        BY <1>9, <1>13 DEF Copy, At, InCall
    <2>2. x.Bm < prob.m /\ x.Bk < prob.k
        BY <1>2, <2>1 DEF BFits
    <2> HIDE DEF x
    <2>3. r \in BThr /\ BFits(t, r)
        BY <1>7, <1>10, <2>2
    <2> HIDE DEF r
    <2>4. BMoves(t, r)
        BY <2>1 DEF BMoves
    <2> QED BY <1>6, <2>1, <2>3, <2>4
<1>14. CASE Multiply(t) \/ MultiplyFails(t)
    <2>1. /\ x.pc = "multiply" /\ UNCHANGED <<prob, region, team, thread_info>> /\ AfterMultiply(t)
          /\ \/ thread_arg' = thread_arg
             \/ thread_arg' = [thread_arg EXCEPT ![thr[t].ithr].result = "out_of_memory"]
        BY <1>14 DEF Multiply, MultiplyFails, Multiplies, At, InCall, Reported
    <2>2. x.Bm < prob.m /\ x.Bk < prob.k
        BY <1>2, <2>1 DEF BFits
    <2>3. PICK round \in Nat : thr' = [thr EXCEPT ![t] = [x EXCEPT !.pc = "advance", !.round = round]]
        BY <1>8, <1>9, <1>10, <2>1 DEF AfterMultiply
    <2> DEFINE r == [x EXCEPT !.pc = "advance", !.round = round]
    <2> HIDE DEF x
    <2>4. r \in BThr /\ BFits(t, r) /\ thr' = [thr EXCEPT ![t] = r]
        BY <1>7, <2>2, <2>3
    <2> HIDE DEF r
    <2>5. BMoves(t, r)
        BY <2>1, <2>4 DEF BMoves
    <2> QED BY <1>6, <2>1, <2>4, <2>5
<1>15. CASE Advance(t)
    <2> DEFINE Bm == x.Bm + SizeM(x.Bm)
               Bk == x.Bk + SizeK(x.Bk)
               pc == IF copies_a THEN "copy" ELSE "multiply"
               over == Bm >= prob.m /\ Bk >= prob.k
    <2>1. /\ x.pc = "advance" /\ thread_arg' = thread_arg
          /\ UNCHANGED <<prob, region, team, thread_info>>
          /\ \/ Bm < prob.m /\ thr' = [thr EXCEPT ![t].pc = pc, ![t].Bm = Bm]
             \/ /\ Bm >= prob.m /\ Bk < prob.k
                /\ thr' = [thr EXCEPT ![t].pc = pc, ![t].Bm = 0, ![t].Bk = Bk]
             \/ over /\ NextSlice(t)
        BY <1>15, Zenon DEF Advance, At, InCall
    <2>2. x.Bm < prob.m /\ x.Bk < prob.k
        BY <1>2, <2>1 DEF BFits
    <2>3. /\ Bm \in Nat /\ Bk \in Nat /\ x.Bm \in Nat /\ x.Bk \in Nat
        <3>1. x.Bm \in 0..(prob.m - 1) /\ x.Bk \in 0..(prob.k - 1)
            BY <1>4, <1>5, <2>2 DEF BThr
        <3>2. SizeM(x.Bm) \in Nat /\ SizeK(x.Bk) \in Nat
            BY <1>2, <3>1, BlockSizes
        <3> QED BY <3>1, <3>2
    <2>4. pc \in {"copy", "multiply"} /\ (pc = "copy" => copies_a)
        OBVIOUS
    <2> HIDE DEF Bm, Bk, pc
    <2>5. ASSUME NEW m2 \in Nat, NEW k2 \in Nat, m2 < prob.m, k2 < prob.k,
                 NEW r, r = [x EXCEPT !.pc = pc, !.Bm = m2, !.Bk = k2]
          PROVE  r \in BThr /\ BFits(t, r)
        <3>1. r \in BThr /\ r.pc = pc /\ r.ithr = x.ithr /\ r.Bm = m2 /\ r.Bk = k2
            BY <1>5, <2>4, <2>5 DEF BThr
        <3> HIDE DEF x
        <3> QED BY <1>2, <1>5, <2>4, <2>5, <3>1 DEF BFits
    <2>6. CASE Bm < prob.m /\ thr' = [thr EXCEPT ![t].pc = pc, ![t].Bm = Bm]
        <3> DEFINE r == [x EXCEPT !.pc = pc, !.Bm = Bm, !.Bk = x.Bk]
        <3>1. [x EXCEPT !.pc = pc, !.Bm = Bm] = r
            BY <1>5 DEF BThr
        <3>2. thr' = [thr EXCEPT ![t] = r]
            <4>1. thr' = [thr EXCEPT ![t].pc = pc, ![t].Bm = Bm]
                BY <2>6
            <4> HIDE DEF r
            <4>2. thr' = [thr EXCEPT ![t] = [x EXCEPT !.pc = pc, !.Bm = Bm]]
                BY <1>2, <4>1
            <4> QED BY <3>1, <4>2
        <3>3. r \in BThr /\ BFits(t, r)
            BY <2>2, <2>3, <2>5, <2>6
        <3> HIDE DEF r, x
        <3>4. BMoves(t, r)
            BY <2>1, <3>2 DEF BMoves
        <3> QED BY <1>6, <2>1, <3>3, <3>4
    <2>7. CASE /\ Bm >= prob.m /\ Bk < prob.k
               /\ thr' = [thr EXCEPT ![t].pc = pc, ![t].Bm = 0, ![t].Bk = Bk]
        <3> DEFINE r == [x EXCEPT !.pc = pc, !.Bm = 0, !.Bk = Bk]
        <3>2. thr' = [thr EXCEPT ![t] = r]
            <4>1. thr' = [thr EXCEPT ![t].pc = pc, ![t].Bm = 0, ![t].Bk = Bk]
                BY <2>7
            <4> HIDE DEF r
            <4>2. thr' = [thr EXCEPT ![t] = [x EXCEPT !.pc = pc, !.Bm = 0, !.Bk = Bk]]
                BY <1>2, <4>1
            <4> QED BY <4>2 DEF r
        <3>3. r \in BThr /\ BFits(t, r)
            <4>1. 0 \in Nat /\ 0 < prob.m
                BY <1>4
            <4> HIDE DEF x
            <4> QED BY <2>3, <2>5, <2>7, <4>1
        <3> HIDE DEF r, x
        <3>4. BMoves(t, r)
            BY <2>1, <3>2 DEF BMoves
        <3> QED BY <1>6, <2>1, <3>3, <3>4
    <2>8. CASE over /\ NextSlice(t)
        <3> DEFINE r == Take(thread_info, thr[t].ithr + team, thr[t].round)
        <3>2. thr' = [thr EXCEPT ![t] = r]
            BY <2>8 DEF NextSlice
        <3>3. r \in BThr /\ BFits(t, r)
            BY <1>1, <1>2, NextSliceFits
        <3> HIDE DEF r, x
        <3>4. BMoves(t, r)
            BY <2>1, <3>2 DEF BMoves
        <3> QED BY <1>6, <2>1, <3>3, <3>4
    <2> QED BY <2>1, <2>6, <2>7, <2>8
<1> QED BY <1>11, <1>12, <1>13, <1>14, <1>15

\* The first of some numbers.
LEMMA FirstFacts ==
    ASSUME NEW S \in SUBSET Nat, S # {}
    PROVE  First(S) \in S /\ \A y \in S : First(S) <= y
<1>1. PICK x \in S : \A y \in S : x <= y
    BY LeastNumber
<1> QED BY <1>1 DEF First

\* A step of a thread that sums in the region.
LEMMA SummingKeepsStatus ==
    ASSUME BControl, NEW t \in Team, thr[t].pc # "done", region = "compute", sum_in_region,
           NEW r, BMoves(t, r), BStays, thr'[t] = r, \A u \in Team : u # t => thr'[u] = thr[u],
           \A i \in Slices : i # t => thread_arg'[i].compute_done = thread_arg[i].compute_done,
           thread_arg'[t].compute_done <=> r.pc \in {"own", "others", "done"},
           thread_arg[t].compute_done => thread_arg'[t].compute_done,
           r.pc \in {"others", "done"} => Done(t, 0),
           r.pc = "others" => r.ik \in KParts \ {0, slice(t).ithr_k}
    PROVE  BStatus'
<1>1. /\ Sliced /\ team \in Nat \ {0} /\ nthr_eff \in Nat \ {0} /\ team >= nthr_eff
    BY BWorker
<1>2. Slices \subseteq Team
    BY <1>1 DEF Slices, Team
<1>3. /\ region' = region /\ sum_in_region' = sum_in_region /\ Slices' = Slices /\ KParts' = KParts
      /\ \A i \in Slices : slice(i)' = slice(i) /\ OfPart(i, 0)' = OfPart(i, 0)
    BY DEF BMoves, BStays
<1>4. ASSUME NEW i \in Slices PROVE Done(i, 0) => Done(i, 0)'
    <2>1. OfPart(i, 0) \in Slices
        <3>1. 0 \in KParts
            BY <1>1, PartsOfABlock DEF KParts
        <3> QED BY <1>1, <3>1, PartsOfABlock
    <2>2. thread_arg[OfPart(i, 0)].compute_done => thread_arg'[OfPart(i, 0)].compute_done
        BY <2>1
    <2> QED BY <1>3, <2>2 DEF Done
<1>5. ASSUME NEW i \in Slices
      PROVE  /\ thread_arg'[i].compute_done <=> thr'[i].pc \in {"own", "others", "done"}
             /\ thr'[i].pc \in {"others", "done"} => Done(i, 0)'
             /\ thr'[i].pc = "others" => thr'[i].ik \in KParts \ {0, slice(i).ithr_k}
    <2>1. CASE i = t
        BY <1>4, <2>1
    <2>2. CASE i # t
        <3>1. thr'[i] = thr[i] /\ thread_arg'[i].compute_done = thread_arg[i].compute_done
            BY <1>2, <2>2
        <3>2. /\ thread_arg[i].compute_done <=> thr[i].pc \in {"own", "others", "done"}
              /\ thr[i].pc \in {"others", "done"} => Done(i, 0)
              /\ thr[i].pc = "others" => thr[i].ik \in KParts \ {0, slice(i).ithr_k}
            BY DEF BControl, BStatus
        <3> QED BY <1>4, <3>1, <3>2
    <2> QED BY <2>1, <2>2
<1>6. ASSUME NEW i \in Slices PROVE slice(i)' = slice(i)
    BY <1>3
<1> QED BY <1>3, <1>5, <1>6 DEF BStatus

\* A thread that goes on along with the summing has the place it needs.
LEMMA GotoFits ==
    ASSUME BControl, NEW t \in Team, thr[t].pc \in {"compute", "publish", "own", "others"}, sum_in_region,
           NEW pc \in {"publish", "own", "others"}, NEW ik \in Nat
    PROVE  LET r == [thr[t] EXCEPT !.pc = pc, !.ik = ik]
           IN  r \in BThr /\ BFits(t, r) /\ r.pc = pc /\ r.ik = ik
<1> DEFINE x == thr[t]
           r == [thr[t] EXCEPT !.pc = pc, !.ik = ik]
<1>1. x \in BThr /\ BFits(t, x) /\ x.pc \in {"compute", "publish", "own", "others"}
    BY BWorker
<1> HIDE DEF x
<1>2. r = [x EXCEPT !.pc = pc, !.ik = ik]
    BY DEF x
<1> HIDE DEF r
<1>3. r \in BThr /\ r.pc = pc /\ r.ik = ik /\ r.ithr = x.ithr
    BY <1>1, <1>2 DEF BThr
<1>4. BFits(t, r)
    BY <1>1, <1>3 DEF BFits
<1> QED BY <1>3, <1>4 DEF r

\* A slice is computed, or fails to be.
LEMMA ComputeKeepsControl ==
    ASSUME BControl, NEW t \in Team, Compute(t) \/ ComputeFails(t)
    PROVE  BControl' /\ BStays /\ \E r \in BThr : BFits(t, r) /\ BMoves(t, r)
<1>1. /\ thr[t].pc = "compute" /\ UNCHANGED <<prob, region, team, thread_info>> /\ AfterCompute(t)
      /\ \/ thread_arg' = thread_arg
         \/ thread_arg' = [thread_arg EXCEPT ![thr[t].ithr].result = "out_of_memory"]
    BY DEF Compute, ComputeFails, At, InCall, Reported
<1>2. /\ BFits(t, thr[t]) /\ thr[t] \in BThr /\ thr \in [Team -> BThr] /\ thread_arg \in [Slices -> BArg]
      /\ region = "compute"
      /\ sum_in_region => t \in Slices /\ thr[t].ithr = t
    <2>1. /\ BFits(t, thr[t]) /\ thr[t] \in BThr /\ thr \in [Team -> BThr] /\ thread_arg \in [Slices -> BArg]
          /\ region \in {"compute", "later"}
          /\ sum_in_region /\ region = "compute" => t \in Slices /\ thr[t].ithr = t
        BY <1>1, BWorker
    <2>2. region # "later"
        BY <1>1, <2>1 DEF BFits
    <2> QED BY <2>1, <2>2
<1>3. CASE sum_in_region
    <2> DEFINE r == [thr[t] EXCEPT !.pc = "publish", !.ik = thr[t].ik]
    <2>1. thr[t].ik \in Nat
        BY <1>2 DEF BThr
    <2>2. r \in BThr /\ BFits(t, r) /\ r.pc = "publish"
        <3> DEFINE ik == thr[t].ik
        <3> HIDE DEF ik
        <3>1. ik \in Nat /\ thr[t].pc \in {"compute", "publish", "own", "others"}
            BY <1>1, <2>1 DEF ik
        <3>2. LET s == [thr[t] EXCEPT !.pc = "publish", !.ik = ik]
              IN  s \in BThr /\ BFits(t, s) /\ s.pc = "publish"
            BY <1>3, <3>1, GotoFits
        <3> QED BY <3>2 DEF ik
    <2>3. thr' = [thr EXCEPT ![t] = r]
        <3>1. thr' = [thr EXCEPT ![t].pc = "publish"]
            BY <1>1, <1>3 DEF AfterCompute, Goto
        <3>2. [thr[t] EXCEPT !.pc = "publish"] = r
            BY <1>2 DEF BThr
        <3> QED BY <1>2, <3>1, <3>2
    <2> HIDE DEF r
    <2>4. BMoves(t, r)
        BY <1>1, <2>3 DEF BMoves
    <2>5. BStays /\ prob' \in Problems /\ BRegion' /\ BPlaces' /\ thr'[t] = r
          /\ \A u \in Team : u # t => thr'[u] = thr[u]
        BY <1>1, <2>2, <2>4, MoveKeepsB
    <2>6. \A i \in Slices : thread_arg'[i].compute_done = thread_arg[i].compute_done
        <3>1. \A a \in BArg : [a EXCEPT !.result = "out_of_memory"].compute_done = a.compute_done
            BY DEF BArg
        <3> QED BY <1>1, <1>2, <3>1
    <2>7. ~thread_arg[t].compute_done
        BY <1>1, <1>2, <1>3 DEF BControl, BStatus
    <2>8. BStatus'
        BY <1>1, <1>2, <1>3, <2>2, <2>4, <2>5, <2>6, <2>7, SummingKeepsStatus
    <2> QED BY <2>2, <2>4, <2>5, <2>8 DEF BControl
<1>4. CASE ~sum_in_region
    <2> DEFINE r == Take(thread_info, thr[t].ithr + team, thr[t].round)
    <2>1. thr' = [thr EXCEPT ![t] = r]
        BY <1>1, <1>4 DEF AfterCompute, NextSlice
    <2>2. r \in BThr /\ BFits(t, r)
        BY <1>1, <1>2, NextSliceFits
    <2> HIDE DEF r
    <2>3. BMoves(t, r)
        BY <1>1, <2>1 DEF BMoves
    <2>4. BStays /\ prob' \in Problems /\ BRegion' /\ BPlaces'
        BY <1>1, <2>2, <2>3, MoveKeepsB
    <2>5. BStatus'
        BY <1>1, <1>4, <2>3, <2>4, NotSummingKeepsStatus
    <2> QED BY <2>2, <2>3, <2>4, <2>5 DEF BControl
<1> QED BY <1>3, <1>4

\* A thread that sums in the region, and where it goes.
LEMMA Summer ==
    ASSUME BControl, NEW t \in Team, thr[t].pc \in {"publish", "own", "others"}
    PROVE  /\ sum_in_region /\ k_summing /\ region = "compute" /\ t \in Slices /\ thr[t].ithr = t
           /\ thr[t] \in BThr /\ thr \in [Team -> BThr] /\ thread_arg \in [Slices -> BArg] /\ Sliced
           /\ thread_arg[t].compute_done <=> thr[t].pc # "publish"
<1>1. /\ BFits(t, thr[t]) /\ thr[t] \in BThr /\ thr \in [Team -> BThr] /\ thread_arg \in [Slices -> BArg]
      /\ region \in {"compute", "later"} /\ Sliced
      /\ sum_in_region /\ region = "compute" => t \in Slices /\ thr[t].ithr = t
    BY BWorker
<1>2. sum_in_region /\ region = "compute"
    BY <1>1 DEF BFits
<1>3. thread_arg[t].compute_done <=> thr[t].pc # "publish"
    BY <1>1, <1>2 DEF BControl, BStatus
<1> QED BY <1>1, <1>2, <1>3 DEF sum_in_region

\* Setting compute_done keeps the control invariant.
LEMMA PublishKeepsControl ==
    ASSUME BControl, NEW t \in Team, Publish(t)
    PROVE  BControl' /\ BStays /\ \E r \in BThr : BFits(t, r) /\ BMoves(t, r)
<1>1. /\ thr[t].pc = "publish" /\ UNCHANGED <<prob, region, team, thread_info>>
      /\ thread_arg' = [thread_arg EXCEPT ![thr[t].ithr].compute_done = TRUE]
      /\ thr' = [thr EXCEPT ![t].pc = "own"]
    BY DEF Publish, At, InCall, Goto
<1>2. /\ sum_in_region /\ region = "compute" /\ t \in Slices /\ thr[t].ithr = t
      /\ thr[t] \in BThr /\ thr \in [Team -> BThr] /\ thread_arg \in [Slices -> BArg]
    BY <1>1, Summer
<1> DEFINE r == [thr[t] EXCEPT !.pc = "own", !.ik = thr[t].ik]
<1>3. thr[t].ik \in Nat
    BY <1>2 DEF BThr
<1>4. r \in BThr /\ BFits(t, r) /\ r.pc = "own"
    <2> DEFINE ik == thr[t].ik
    <2> HIDE DEF ik
    <2>1. ik \in Nat /\ thr[t].pc \in {"compute", "publish", "own", "others"}
        BY <1>1, <1>3 DEF ik
    <2>2. LET s == [thr[t] EXCEPT !.pc = "own", !.ik = ik]
          IN  s \in BThr /\ BFits(t, s) /\ s.pc = "own"
        BY <1>2, <2>1, GotoFits
    <2> QED BY <2>2 DEF ik
<1>5. thr' = [thr EXCEPT ![t] = r]
    <2>1. [thr[t] EXCEPT !.pc = "own"] = r
        BY <1>2 DEF BThr
    <2> QED BY <1>1, <1>2, <2>1
<1> HIDE DEF r
<1>6. BMoves(t, r)
    BY <1>1, <1>5 DEF BMoves
<1>7. BStays /\ prob' \in Problems /\ BRegion' /\ BPlaces' /\ thr'[t] = r
      /\ \A u \in Team : u # t => thr'[u] = thr[u]
    BY <1>1, <1>4, <1>6, MoveKeepsB
<1>8. /\ \A i \in Slices : i # t => thread_arg'[i].compute_done = thread_arg[i].compute_done
      /\ thread_arg'[t].compute_done
    <2>1. \A a \in BArg : [a EXCEPT !.compute_done = TRUE].compute_done
        BY DEF BArg
    <2> QED BY <1>1, <1>2, <2>1
<1>9. BStatus'
    BY <1>1, <1>2, <1>4, <1>6, <1>7, <1>8, SummingKeepsStatus
<1> QED BY <1>4, <1>6, <1>7, <1>9 DEF BControl

\* The next part to add, or none.
LEMMA GoOnFacts ==
    ASSUME BControl, NEW t \in Team, thr[t].pc \in {"own", "others"}, NEW ik \in Nat, GoOn(t, ik)
    PROVE  \E r \in BThr :
             /\ BFits(t, r) /\ thr' = [thr EXCEPT ![t] = r]
             /\ \/ /\ r.pc = "done"
                   /\ \A j \in KParts : j > ik => j = slice(t).ithr_k
                \/ /\ r.pc = "others" /\ r.ik \in KParts \ {0, slice(t).ithr_k} /\ r.ik > ik
                   /\ \A j \in KParts : ik < j /\ j < r.ik => j = slice(t).ithr_k
<1>1. /\ sum_in_region /\ region = "compute" /\ t \in Slices /\ thr[t].ithr = t
      /\ thr[t] \in BThr /\ thr \in [Team -> BThr] /\ Sliced
    BY Summer
<1>2. thread_info.nthrs_k \in Nat \ {0}
    BY <1>1, PartsOfABlock
<1> DEFINE rest == {j \in (ik + 1)..(thread_info.nthrs_k - 1) : j # slice(t).ithr_k}
<1>3. rest = {j \in KParts : j > ik /\ j # slice(t).ithr_k}
    BY <1>2 DEF KParts
<1>4. IF rest = {} THEN NextSlice(t)
      ELSE thr' = [thr EXCEPT ![t].pc = "others", ![t].ik = First(rest)]
    BY <1>1 DEF GoOn
<1> HIDE DEF rest
<1>5. CASE rest = {}
    <2> DEFINE r == Take(thread_info, thr[t].ithr + team, thr[t].round)
    <2>1. thr' = [thr EXCEPT ![t] = r]
        BY <1>4, <1>5 DEF NextSlice
    <2>2. r \in BThr /\ BFits(t, r) /\ r.pc = "done"
        BY <1>1, NextSliceFits
    <2> HIDE DEF r
    <2> QED BY <1>3, <1>5, <2>1, <2>2
<1>6. CASE rest # {}
    <2> DEFINE f == First(rest)
               r == [thr[t] EXCEPT !.pc = "others", !.ik = f]
    <2>1. rest \in SUBSET Nat
        BY <1>2, <1>3 DEF KParts
    <2>2. f \in rest /\ \A y \in rest : f <= y
        BY <1>6, <2>1, FirstFacts
    <2>3. thr' = [thr EXCEPT ![t].pc = "others", ![t].ik = f]
        BY <1>4, <1>6
    <2> HIDE DEF f
    <2>4. thr' = [thr EXCEPT ![t] = r]
        BY <1>1, <2>3
    <2>5. r \in BThr /\ BFits(t, r) /\ r.pc = "others" /\ r.ik = f
        BY <1>1, <2>1, <2>2, GotoFits
    <2> HIDE DEF r
    <2>6. \A j \in KParts : ik < j /\ j < f => j = slice(t).ithr_k
        BY <1>2, <1>3, <2>1, <2>2 DEF KParts
    <2>7. f \in KParts \ {0, slice(t).ithr_k} /\ f > ik
        BY <1>2, <1>3, <2>2 DEF KParts
    <2> QED BY <2>4, <2>5, <2>6, <2>7
<1> QED BY <1>5, <1>6

\* Adding a part to C inside the region keeps the control invariant.
LEMMA AddKeepsControl ==
    ASSUME BControl, NEW t \in Team, AddOwn(t) \/ AddOther(t)
    PROVE  BControl' /\ BStays /\ \E r \in BThr : BFits(t, r) /\ BMoves(t, r)
<1>1. /\ thr[t].pc \in {"own", "others"} /\ UNCHANGED <<prob, region, team, thread_info>>
      /\ thread_arg' = thread_arg
    BY DEF AddOwn, AddOther, MayAddOwn, MayAddOther, At, InCall
<1>2. /\ sum_in_region /\ region = "compute" /\ t \in Slices /\ thr[t].ithr = t
      /\ thr[t] \in BThr /\ thr \in [Team -> BThr] /\ Sliced
      /\ thread_arg[t].compute_done
    BY <1>1, Summer
<1>3. thread_info.nthrs_k \in Nat \ {0} /\ slice(t).ithr_k \in KParts /\ OfPart(t, slice(t).ithr_k) = t
    BY <1>2, PartsOfABlock
<1>4. Done(t, 0)
    <2>1. CASE thr[t].pc = "others"
        BY <1>2, <2>1 DEF BControl, BStatus
    <2>2. CASE thr[t].pc = "own"
        <3>1. slice(t).ithr_k > 0 => Done(t, 0)
            BY <1>2, <2>2 DEF AddOwn, AddOther, MayAddOwn, MayAddOther, At
        <3>2. slice(t).ithr_k = 0 => Done(t, 0)
            BY <1>2, <1>3 DEF Done
        <3> QED BY <1>3, <3>1, <3>2 DEF KParts
    <2> QED BY <1>1, <2>1, <2>2
<1>5. \E ik \in Nat : GoOn(t, ik)
    <2>1. CASE AddOwn(t)
        BY <2>1 DEF AddOwn
    <2>2. CASE AddOther(t)
        <3>1. GoOn(t, thr[t].ik) /\ thr[t].ik \in Nat
            BY <1>2, <2>2 DEF AddOther, BThr
        <3> QED BY <3>1
    <2> QED BY <2>1, <2>2
<1>6. PICK r \in BThr :
         /\ BFits(t, r) /\ thr' = [thr EXCEPT ![t] = r]
         /\ r.pc = "done" \/ (r.pc = "others" /\ r.ik \in KParts \ {0, slice(t).ithr_k})
    BY <1>1, <1>5, GoOnFacts
<1>7. BMoves(t, r)
    BY <1>1, <1>6 DEF BMoves
<1>8. BStays /\ prob' \in Problems /\ BRegion' /\ BPlaces' /\ thr'[t] = r
      /\ \A u \in Team : u # t => thr'[u] = thr[u]
    BY <1>1, <1>6, <1>7, MoveKeepsB
<1>9. BStatus'
    BY <1>1, <1>2, <1>4, <1>6, <1>7, <1>8, SummingKeepsStatus
<1> QED BY <1>6, <1>7, <1>8, <1>9 DEF BControl

\* Summing after the region keeps the control invariant.
LEMMA SumLaterKeepsControl ==
    ASSUME BControl, NEW t \in Team, SumLater(t)
    PROVE  BControl' /\ BStays /\ \E r \in BThr : BFits(t, r) /\ BMoves(t, r)
<1> DEFINE i == thr[t].ithr
           pc == IF i + team < nthr_eff THEN "later" ELSE "done"
           r == [thr[t] EXCEPT !.ithr = i + team, !.pc = pc]
<1>1. /\ thr[t].pc = "later" /\ UNCHANGED <<prob, region, team, thread_info>> /\ thread_arg' = thread_arg
      /\ thr' = [thr EXCEPT ![t].ithr = i + team, ![t].pc = pc]
    BY Zenon DEF SumLater, At, InCall
<1>2. /\ BFits(t, thr[t]) /\ thr[t] \in BThr /\ thr \in [Team -> BThr] /\ i % team = t
      /\ region \in {"compute", "later"} /\ team \in Nat \ {0} /\ nthr_eff \in Nat \ {0}
    BY <1>1, BWorker
<1>3. region = "later"
    BY <1>1, <1>2 DEF BFits
<1>4. i \in Nat /\ pc \in {"later", "done"} /\ (pc = "done" <=> i + team >= nthr_eff)
    <2>1. i \in Nat
        BY <1>2 DEF BThr
    <2> HIDE DEF i
    <2> QED BY <1>2, <2>1
<1> HIDE DEF i, pc
<1>5. (i + team) % team = t
    <2>1. (i + team) % team = i % team
        BY <1>2, <1>4, TurnsOfATeam
    <2> QED BY <1>2, <2>1
<1>6. r \in BThr /\ r.ithr = i + team /\ r.pc = pc
    <2>1. thr[t] \in BThr /\ i + team \in Nat /\ pc \in {"later", "done"}
        BY <1>2, <1>4
    <2> QED BY <2>1 DEF BThr
<1>7. thr' = [thr EXCEPT ![t] = r]
    BY <1>1, <1>2
<1> HIDE DEF r
<1>8. BFits(t, r)
    BY <1>3, <1>4, <1>5, <1>6 DEF BFits
<1>9. BMoves(t, r)
    BY <1>1, <1>7 DEF BMoves
<1>10. BStays /\ prob' \in Problems /\ BRegion' /\ BPlaces'
    BY <1>1, <1>6, <1>8, <1>9, MoveKeepsB
<1>11. BStatus'
    BY <1>1, <1>3, <1>10 DEF BStatus
<1> QED BY <1>6, <1>8, <1>9, <1>10, <1>11 DEF BControl

\* Parts of k are those of a division that was made before the region.
LEMMA SummingIsForced ==
    ASSUME NEW p \in Problems, ~IsNocopy(p, nthr_goal(p)), NEW nthr \in Nat \ {0},
           threading_of(p, nthr).nthrs_k > 1
    PROVE  nthrs(threading_of(p, nthr)) = nthr_goal(p)
<1> DEFINE n == Lesser(p.goal, nthr)
           t == threading_of(p, nthr)
<1>1. IsProblem(p) /\ p.goal \in Nat \ {0} /\ p.packed \in {"none", "a", "b"}
    BY ProblemsAreProblems DEF IsProblem, Problem
<1>2. n \in Nat \ {0} /\ n <= p.goal
    BY <1>1 DEF Lesser
<1> HIDE DEF n
<1>3. t = CASE force_threading(p) -> forced(p)
            [] ~force_threading(p) /\ n = 1 -> Threading("row_1d", 1, 1, 1, "nonshared")
            [] OTHER -> set_thread_opts(p, n, nthr)
    BY Zenon DEF threading_of, n
<1>4. t.nthrs_k > 1
    OBVIOUS
<1> HIDE DEF t
<1>5. CASE force_threading(p)
    <2>1. t = forced(p)
        BY <1>3, <1>5
    <2> QED BY <1>5, <2>1, GoalFacts DEF t
<1>6. CASE ~force_threading(p) /\ n = 1
    <2>1. t = Threading("row_1d", 1, 1, 1, "nonshared")
        BY <1>3, <1>6
    <2> QED BY <1>4, <2>1 DEF Threading
<1>7. CASE ~force_threading(p) /\ n # 1
    <2>1. t = set_thread_opts(p, n, nthr)
        BY <1>3, <1>7
    <2>2. ~IsNocopy(p, p.goal)
        BY <1>7 DEF nthr_goal
    <2>3. ~IsNocopy(p, n)
        <3> SUFFICES ASSUME p.packed = "none", nocopy_checker_avx2(n, p.transb, p.m, p.n, p.k)
                     PROVE  nocopy_checker_avx2(p.goal, p.transb, p.m, p.n, p.k)
            BY <2>2 DEF IsNocopy
        <3>1. p.transb \in BOOLEAN /\ p.m \in Nat \ {0} /\ p.n \in Nat \ {0} /\ p.k \in Nat \ {0}
            BY <1>1 DEF IsProblem, Problem
        <3> QED BY <1>1, <1>2, <3>1, CheckerIsMonotone
    <2>4. t = set_thread_opts_nopack(p, n, nthr)
        BY <2>1, <2>3 DEF set_thread_opts
    <2>5. p.plan = "mnk_3d"
        BY <1>1, <1>2, <1>4, <2>4, NopackFacts
    <2> DEFINE q == [p EXCEPT !.split = <<n, 1, 1>>]
               r == IF p.split[1] * p.split[2] * p.split[3] <= n THEN p ELSE q
    <2>6. t = set_thread_opts_pack(r)
        BY <2>4, <2>5, Zenon DEF set_thread_opts_nopack
    <2>7. CASE p.split[1] * p.split[2] * p.split[3] <= n
        <3>1. t = set_thread_opts_pack(p)
            BY <2>6, <2>7
        <3> QED BY <1>4, <1>7, <2>5, <3>1 DEF force_threading
    <2>8. CASE ~(p.split[1] * p.split[2] * p.split[3] <= n)
        <3>1. q.split[3] = 1 /\ q.k = p.k /\ p.k \in Nat \ {0}
            BY <1>1 DEF IsProblem, Problem
        <3>2. t = set_thread_opts_pack(q)
            BY <2>6, <2>8
        <3> HIDE DEF q
        <3> DEFINE bm == choose_blocking(q.m, q.split[1], arg.bm, arg.um)
                   bn == choose_blocking(q.n, q.split[2], arg.bn, arg.un)
                   bk == choose_blocking(q.k, q.split[3], arg.bk, arg.uk)
        <3>3. t = [Threading("mnk_3d", bm.nthr, bn.nthr, bk.nthr, "nonshared") EXCEPT
                    !.thread_m = bm.thread, !.thread_n = bn.thread, !.thread_k = bk.thread]
            BY <3>2, Zenon DEF set_thread_opts_pack
        <3>4. bk.nthr = 1
            <4>1. arg.bk \in Nat \ {0} /\ arg.uk \in Nat \ {0} /\ 1 \in Nat \ {0}
                BY ArgAssumption
            <4>2. choose_blocking(q.k, 1, arg.bk, arg.uk).nthr \in 1..1
                BY <3>1, <4>1, ChooseBlockingFacts
            <4> QED BY <3>1, <4>2
        <3> HIDE DEF bm, bn, bk
        <3>5. t.nthrs_k = 1
            BY <3>3, <3>4 DEF Threading
        <3> QED BY <1>4, <3>5
    <2> QED BY <2>7, <2>8
<1> QED BY <1>5, <1>6, <1>7

\* A call begins with a division that suits the team.
LEMMA CallMakesControl ==
    ASSUME BControl, ~Diverted, Call
    PROVE  BControl' /\ \A t \in Team' : thr'[t] = Take(thread_info', t, 0)
<1>1. PICK nthr \in Teams(prob.nthr_max) :
         LET info == threading_of(prob, nthr)
         IN  /\ team' = nthr
             /\ thread_info' = info
             /\ thr' = [t \in 0..(nthr - 1) |-> Take(info, t, 0)]
             /\ thread_arg' = [i \in 0..(nthrs(info) - 1) |->
                                 [slice |-> get_thread_slice(info, i, prob.m, prob.n, prob.k),
                                  result |-> "success", compute_done |-> FALSE]]
    BY DEF Call
<1> DEFINE info == threading_of(prob, nthr)
<1>2. region' = "compute" /\ prob' = prob
    BY DEF Call
<1>3. prob \in Problems /\ IsProblem(prob)
    BY ProblemsAreProblems DEF BControl
<1>4. nthr \in Nat \ {0}
    BY <1>3 DEF Teams, IsProblem
<1>5. /\ Division(info, prob) /\ (info.copy = "shared_a" => info.nthrs_k = 1)
      /\ info.copy = "shared_a" /\ prob.packed = "none" => nthrs(info) = nthr
      /\ info.nthrs_k > 1 => nthr_goal(prob) = nthrs(info)
    BY <1>3, <1>4, ThreadingFacts, SummingIsForced DEF Diverted
<1>6. nthrs(info) \in Nat \ {0}
    BY <1>5, SlicesAreSome
<1> HIDE DEF info
<1>7. /\ team' = nthr /\ thread_info' = info /\ thr' = [t \in 0..(nthr - 1) |-> Take(info, t, 0)]
      /\ thread_arg' = [i \in 0..(nthrs(info) - 1) |->
                          [slice |-> get_thread_slice(info, i, prob.m, prob.n, prob.k),
                           result |-> "success", compute_done |-> FALSE]]
    BY <1>1 DEF info
<1>8. /\ nthr_eff' = nthrs(info) /\ Slices' = 0..(nthrs(info) - 1) /\ Team' = 0..(nthr - 1)
      /\ (copies_a' <=> info.copy = "shared_a" /\ prob.packed # "a")
      /\ (k_summing' <=> info.nthrs_k > 1)
    BY <1>2, <1>7 DEF nthr_eff, Slices, Team, copies_a, k_summing
<1>9. ASSUME NEW t \in 0..(nthr - 1)
      PROVE  /\ thr'[t] \in BThr /\ thr'[t].ithr = t /\ thr'[t].Bm = 0 /\ thr'[t].Bk = 0
             /\ thr'[t].round = 0
             /\ thr'[t].pc = "done" <=> t >= nthrs(info)
             /\ thr'[t].pc = "compute" <=> t < nthrs(info) /\ info.copy # "shared_a"
             /\ thr'[t].pc = "alloc" <=> t < nthrs(info) /\ info.copy = "shared_a" /\ prob.packed # "a"
             /\ thr'[t].pc = "multiply" <=> t < nthrs(info) /\ info.copy = "shared_a" /\ prob.packed = "a"
             /\ thr'[t].pc \in {"done", "compute", "alloc", "multiply"}
    <2>1. thr'[t] = Take(info, t, 0)
        BY <1>7
    <2>2. t \in Nat /\ nthrs(info) \in Nat /\ 0 \in Nat
        BY <1>4, <1>6
    <2>3. LET r == Take(info, t, 0)
          IN  /\ r \in BThr /\ r.ithr = t /\ r.Bm = 0 /\ r.Bk = 0 /\ r.round = 0
              /\ r.pc = "done" <=> t >= nthrs(info)
              /\ r.pc = "compute" <=> t < nthrs(info) /\ info.copy # "shared_a"
              /\ r.pc = "alloc" <=> t < nthrs(info) /\ info.copy = "shared_a" /\ prob.packed # "a"
              /\ r.pc = "multiply" <=> t < nthrs(info) /\ info.copy = "shared_a" /\ prob.packed = "a"
              /\ r.pc \in {"done", "compute", "alloc", "multiply"}
        BY Zenon, <2>2, TakeFacts
    <2> QED BY Zenon, <2>1, <2>3
<1>10. Sliced'
    <2>1. \A i \in Slices' : slice(i)' = get_thread_slice(info, i, prob.m, prob.n, prob.k)
        BY <1>7, <1>8 DEF slice
    <2> QED BY <1>2, <1>3, <1>5, <1>7, <2>1 DEF Sliced
<1>11. thread_arg' \in [Slices -> BArg]'
    <2> DEFINE X == {get_thread_slice(info, i, prob.m, prob.n, prob.k) : i \in 0..(nthrs(info) - 1)}
    <2>1. BArg' = [slice : X, result : {"success", "out_of_memory"}, compute_done : BOOLEAN]
        BY <1>2, <1>7, <1>8 DEF BArg
    <2>2. \A i \in 0..(nthrs(info) - 1) : get_thread_slice(info, i, prob.m, prob.n, prob.k) \in X
        OBVIOUS
    <2> HIDE DEF X
    <2>3. thread_arg' \in [0..(nthrs(info) - 1) ->
                             [slice : X, result : {"success", "out_of_memory"}, compute_done : BOOLEAN]]
        BY <1>7, <2>2
    <2> QED BY <1>8, <2>1, <2>3
<1>12. BRegion'
    <2>1. thr' \in [Team -> BThr]'
        <3>1. thr' = [t \in 0..(nthr - 1) |-> thr'[t]]
            BY <1>7
        <3> QED BY <1>8, <1>9, <3>1
    <2> QED BY <1>2, <1>4, <1>5, <1>7, <1>8, <1>10, <1>11, <2>1 DEF BRegion
<1>13. BPlaces'
    <2> SUFFICES ASSUME NEW t \in 0..(nthr - 1) PROVE BFits(t, thr[t])'
        BY <1>8 DEF BPlaces
    <2>1. t % nthr = t
        BY <1>4, TurnOfASmallNumber
    <2>2. prob.m > 0 /\ prob.k > 0
        BY <1>3 DEF IsProblem
    <2> QED BY <1>2, <1>7, <1>8, <1>9, <2>1, <2>2 DEF BFits
<1>14. BStatus'
    <2>1. \A i \in Slices' : ~thread_arg'[i].compute_done
        BY <1>7, <1>8
    <2>2. ASSUME sum_in_region', NEW i \in Slices'
          PROVE  thr'[i].pc \notin {"own", "others", "done"}
        <3>1. nthr >= nthrs(info)
            BY <1>7, <1>8, <2>2 DEF sum_in_region
        <3> QED BY <1>4, <1>6, <1>8, <1>9, <2>2, <3>1
    <2> QED BY <2>1, <2>2 DEF BStatus
<1>15. \A t \in Team' : thr'[t] = Take(thread_info', t, 0)
    BY <1>7, <1>8
<1> QED BY <1>2, <1>3, <1>12, <1>13, <1>14, <1>15 DEF BControl

\* A call without a region.
LEMMA AloneKeepsControl ==
    ASSUME BControl, CallAlone PROVE BControl' /\ team' = 0
<1>1. region' = "returned" /\ region = "out" /\ UNCHANGED <<prob, team, thread_info, thr, thread_arg>>
    BY DEF CallAlone
<1>2. team = 0 /\ team' = 0
    BY <1>1 DEF BControl, BRegion
<1>3. BRegion'
    BY <1>1, <1>2 DEF BRegion
<1>4. Team' = {}
    BY <1>2 DEF Team
<1>5. BPlaces' /\ BStatus'
    BY <1>1, <1>4 DEF BPlaces, BStatus
<1> QED BY <1>1, <1>2, <1>3, <1>5 DEF BControl

\* The computing region ends: if threads summed in it, they are through.
LEMMA EndComputeKeepsControl ==
    ASSUME BControl, EndCompute
    PROVE  BControl' /\ BStays /\ region' \in {"between", "returned"}
           /\ (region' = "between" => k_summing /\ ~sum_in_region)
           /\ (region' = "returned" => ~k_summing \/ sum_in_region)
<1>1. /\ region = "compute" /\ AllDone
      /\ region' = IF k_summing /\ ~thread_arg[0].compute_done THEN "between" ELSE "returned"
      /\ UNCHANGED <<prob, team, thread_info, thr, thread_arg>>
    BY DEF EndCompute
<1>2. /\ team \in Nat \ {0} /\ Sliced /\ thread_arg \in [Slices -> BArg] /\ thr \in [Team -> BThr]
    BY <1>1 DEF BControl, BRegion
<1>3. BStays
    BY <1>1, BFrame DEF slice
<1>4. nthr_eff \in Nat \ {0} /\ 0 \in Slices
    BY <1>2, PartsOfABlock DEF Slices
<1>5. k_summing => (thread_arg[0].compute_done <=> sum_in_region)
    <2>1. CASE sum_in_region
        <3>1. 0 \in Team
            BY <1>2 DEF Team
        <3>2. thr[0].pc = "done"
            BY <1>1, <3>1 DEF AllDone, At
        <3> QED BY <1>1, <1>4, <2>1, <3>2 DEF BControl, BStatus
    <2>2. CASE ~sum_in_region
        BY <1>1, <1>4, <2>2 DEF BControl, BStatus
    <2> QED BY <2>1, <2>2
<1>6. region' \in {"between", "returned"}
      /\ (region' = "between" => k_summing /\ ~sum_in_region)
      /\ (region' = "returned" => ~k_summing \/ sum_in_region)
    BY <1>1, <1>5
<1>7. BArg' = BArg
    BY <1>1, <1>3 DEF BArg, BStays
<1>8. Sliced'
    BY <1>1, <1>2, <1>3 DEF Sliced, BStays
<1>9. BRegion'
    <2>1. nthr_goal(prob)' = nthr_goal(prob)
        BY <1>1
    <2>2. region' # "compute" /\ region' # "out" /\ region' # "later"
        BY <1>6
    <2> QED BY <1>1, <1>2, <1>3, <1>6, <1>7, <1>8, <2>1, <2>2 DEF BControl, BRegion, BStays
<1>10. BPlaces'
    <2> SUFFICES ASSUME NEW t \in Team PROVE BFits(t, thr[t])'
        BY <1>3 DEF BPlaces, BStays
    <2>1. BFits(t, thr[t]) /\ thr[t].pc = "done"
        BY <1>1 DEF BControl, BPlaces, AllDone, At
    <2> QED BY <1>1, <1>3, <2>1 DEF BFits, BStays
<1>11. BStatus'
    BY <1>6 DEF BStatus
<1> QED BY <1>1, <1>3, <1>6, <1>9, <1>10, <1>11 DEF BControl

\* Another team takes up the slices.
LEMMA BeginLaterKeepsControl ==
    ASSUME BControl, BeginLater
    PROVE  /\ BControl' /\ region' = "later" /\ UNCHANGED <<prob, thread_info, thread_arg, c, c_local>>
           /\ team' \in Nat \ {0}
           /\ \A t \in Team' : thr'[t].ithr = t
<1>1. /\ region = "between" /\ region' = "later" /\ team' \in Teams(nthr_goal(prob))
      /\ thr' = [t \in 0..(team' - 1) |-> [Take(thread_info, t, 0) EXCEPT !.pc = "later"]]
      /\ UNCHANGED <<prob, thread_info, thread_arg, c, c_local>>
    BY DEF BeginLater
<1>2. team \in Nat \ {0} /\ Sliced /\ thread_arg \in [Slices -> BArg] /\ k_summing
    BY <1>1 DEF BControl, BRegion
<1>3. nthr_goal(prob) \in Nat \ {0}
    BY GoalFacts DEF BControl
<1>4. team' \in Nat \ {0}
    BY <1>1, <1>3 DEF Teams
<1>5. nthr_eff' = nthr_eff /\ Slices' = Slices /\ k_summing' = k_summing /\ Team' = 0..(team' - 1)
    BY <1>1 DEF nthr_eff, Slices, k_summing, Team
<1>6. Sliced' /\ BArg' = BArg
    BY <1>1, <1>2, <1>5 DEF Sliced, slice, BArg
<1>7. nthr_eff \in Nat \ {0} /\ prob.m \in Nat \ {0}
    BY <1>2, PartsOfABlock
<1>8. ASSUME NEW t \in 0..(team' - 1)
      PROVE  /\ thr'[t] \in BThr /\ thr'[t].ithr = t /\ thr'[t].pc = "later" /\ t < nthr_eff
    <2> DEFINE r == Take(thread_info, t, 0)
    <2>1. thr'[t] = [r EXCEPT !.pc = "later"]
        BY <1>1
    <2>2. r \in BThr /\ r.ithr = t
        BY <1>4, <1>7, TakeFacts DEF nthr_eff
    <2> HIDE DEF r
    <2>3. nthr_goal(prob) = nthr_eff
        BY <1>2 DEF BControl, BRegion
    <2>4. t < nthr_eff
        BY <1>1, <1>3, <1>4, <2>3 DEF Teams
    <2> QED BY <2>1, <2>2, <2>4 DEF BThr
<1>9. BRegion'
    <2>1. thr' \in [Team -> BThr]'
        <3>1. thr' = [t \in 0..(team' - 1) |-> thr'[t]]
            BY <1>1
        <3> QED BY <1>5, <1>8, <3>1
    <2>2. nthr_goal(prob)' = nthr_eff'
        BY <1>1, <1>2, <1>5 DEF BControl, BRegion
    <2> QED BY <1>1, <1>2, <1>4, <1>5, <1>6, <2>1, <2>2 DEF BRegion
<1>10. BPlaces'
    <2> SUFFICES ASSUME NEW t \in 0..(team' - 1) PROVE BFits(t, thr[t])'
        BY <1>5 DEF BPlaces
    <2>1. t % team' = t
        <3>1. PICK w \in Nat \ {0} : w = team'
            BY <1>4
        <3>2. t \in Nat /\ t < w
            <4>1. t \in 0..(w - 1)
                BY <3>1
            <4> QED BY <4>1
        <3>3. t % w = t
            BY <3>2, TurnOfASmallNumber
        <3> QED BY <3>1, <3>3
    <2> QED BY <1>1, <1>4, <1>5, <1>7, <1>8, <2>1 DEF BFits
<1>11. BStatus'
    BY <1>1 DEF BStatus
<1> QED BY <1>1, <1>4, <1>5, <1>8, <1>9, <1>10, <1>11 DEF BControl

\* Regions that end, and a call that returns.
LEMMA EndLaterKeepsControl ==
    ASSUME BControl, EndLater PROVE BControl' /\ BStays
<1>1. /\ region = "later" /\ AllDone /\ region' = "returned"
      /\ UNCHANGED <<prob, team, thread_info, thr, thread_arg>>
    BY DEF EndLater
<1>2. /\ team \in Nat \ {0} /\ Sliced /\ thread_arg \in [Slices -> BArg] /\ thr \in [Team -> BThr]
    BY <1>1 DEF BControl, BRegion
<1>3. BStays
    BY <1>1, BFrame DEF slice
<1>4. Sliced' /\ BArg' = BArg
    BY <1>1, <1>2, <1>3 DEF Sliced, BStays, BArg
<1>5. nthr_goal(prob)' = nthr_goal(prob)
    BY <1>1
<1>6. BRegion'
    BY <1>1, <1>2, <1>3, <1>4, <1>5 DEF BControl, BRegion, BStays
<1>7. BPlaces'
    <2> SUFFICES ASSUME NEW t \in Team PROVE BFits(t, thr[t])'
        BY <1>3 DEF BPlaces, BStays
    <2>1. BFits(t, thr[t]) /\ thr[t].pc = "done"
        BY <1>1 DEF BControl, BPlaces, AllDone, At
    <2> QED BY <1>1, <1>3, <2>1 DEF BFits, BStays
<1>8. BStatus'
    BY <1>1 DEF BStatus
<1> QED BY <1>1, <1>3, <1>6, <1>7, <1>8 DEF BControl

\* Returning keeps the control invariant.
LEMMA ReturnKeepsControl ==
    ASSUME BControl, Return PROVE BControl' /\ team' = 0
<1>1. region' = "out" /\ team' = 0 /\ prob' = prob
    BY DEF Return
<1>2. Team' = {}
    BY <1>1 DEF Team
<1>3. BRegion' /\ BPlaces' /\ BStatus'
    BY <1>1, <1>2 DEF BRegion, BPlaces, BStatus
<1> QED BY <1>1, <1>3 DEF BControl

\* Nothing happens.
LEMMA StutterKeepsControl ==
    ASSUME BControl, UNCHANGED vars PROVE BControl' /\ BStays
<1>1. UNCHANGED <<prob, region, team, thread_info, thr, thread_arg>>
    BY DEF vars
<1>2. BStays
    BY <1>1, BFrame DEF slice
<1>3. Sliced' = Sliced /\ BArg' = BArg /\ nthr_goal(prob)' = nthr_goal(prob)
    BY <1>1, <1>2 DEF Sliced, BStays, BArg
<1>4. BRegion'
    BY <1>1, <1>2, <1>3 DEF BControl, BRegion, BStays
<1>5. BPlaces'
    <2> SUFFICES ASSUME NEW t \in Team PROVE BFits(t, thr[t])'
        BY <1>2 DEF BPlaces, BStays
    <2> QED BY <1>1, <1>2 DEF BControl, BPlaces, BFits, BStays
<1>6. BStatus'
    <2>1. \A i \in Slices : Done(i, 0)' = Done(i, 0)
        BY <1>1, <1>2 DEF BStays, Done
    <2> QED BY <1>1, <1>2, <2>1 DEF BControl, BStatus, BStays
<1> QED BY <1>1, <1>2, <1>4, <1>5, <1>6 DEF BControl

\* Where every call begins.
LEMMA InitHasControl == ASSUME DriverInit PROVE BControl
<1>1. prob \in Problems /\ region = "out" /\ team = 0
    BY DEF DriverInit, Init, Idle
<1>2. Team = {}
    BY <1>1 DEF Team
<1> QED BY <1>1, <1>2 DEF BControl, BRegion, BPlaces, BStatus

\* The control invariant of the blocked gemm holds in every call.
LEMMA ControlHolds == DriverSpec => []BControl
<1>1. DriverInit => BControl
    BY InitHasControl
<1>2. BControl /\ [DriverNext]_driver_vars => BControl'
    <2> SUFFICES ASSUME BControl, [DriverNext]_driver_vars PROVE BControl'
        OBVIOUS
    <2>1. CASE UNCHANGED vars
        BY <2>1, StutterKeepsControl
    <2>2. CASE ~Diverted /\ Next
        <3>1. ASSUME NEW t \in Team, Step(t) PROVE BControl'
            <4>1. CASE \/ Allocate(t) \/ GetMemory(t) \/ Copy(t) \/ Multiply(t) \/ MultiplyFails(t)
                       \/ Advance(t)
                BY <4>1, SharedKeepsControl
            <4>2. CASE Compute(t) \/ ComputeFails(t)
                BY <4>2, ComputeKeepsControl
            <4>3. CASE Publish(t)
                BY <4>3, PublishKeepsControl
            <4>4. CASE AddOwn(t) \/ AddOther(t)
                BY <4>4, AddKeepsControl
            <4>5. CASE SumLater(t)
                BY <4>5, SumLaterKeepsControl
            <4>6. CASE Spin(t)
                BY <4>6, StutterKeepsControl DEF Spin
            <4> QED BY <3>1, <4>1, <4>2, <4>3, <4>4, <4>5, <4>6 DEF Step
        <3> QED BY <2>2, <3>1, AloneKeepsControl, CallMakesControl, EndComputeKeepsControl,
                BeginLaterKeepsControl, EndLaterKeepsControl, ReturnKeepsControl DEF Next
    <2> QED BY <2>1, <2>2 DEF DriverNext, driver_vars
<1> QED BY <1>1, <1>2, PTL DEF DriverSpec

\* However a product is divided, and whatever team the region gets, the slices
\* are the whole of it and have nothing in common.
THEOREM SlicesStayExact == DriverSpec => []SlicesAreExact
<1>1. BControl => SlicesAreExact
    <2> SUFFICES ASSUME BControl, region = "compute" PROVE SlicesAreExact
        BY DEF SlicesAreExact
    <2>1. Sliced
        BY DEF BControl, BRegion
    <2> QED BY <2>1, SlicedIsExact
<1> QED BY <1>1, ControlHolds, PTL

-----------------------------------------------------------------------------
(* The blocked gemm: threads that copy together *)

\* The copy is shared by a team in which every thread has one slice.
Locked == region = "compute" /\ copies_a /\ team = nthr_eff

\* A thread's block, the last and the next one; x and y are states of threads.
IsLast(x) == x.Bm + SizeM(x.Bm) >= prob.m /\ x.Bk + SizeK(x.Bk) >= prob.k
NextBm(x) == IF x.Bm + SizeM(x.Bm) < prob.m THEN x.Bm + SizeM(x.Bm) ELSE 0
NextBk(x) == IF x.Bm + SizeM(x.Bm) < prob.m THEN x.Bk ELSE x.Bk + SizeK(x.Bk)
SameBlock(x, y) == x.Bm = y.Bm /\ x.Bk = y.Bk
NextBlock(x, y) == ~IsLast(x) /\ y.Bm = NextBm(x) /\ y.Bk = NextBk(x)

\* A thread has entered one barrier before it gets the memory, and two for
\* every block it has multiplied with.
InRound(x) ==
    /\ x.pc \in {"alloc", "get", "copy", "multiply", "advance", "done"}
    /\ x.pc = "alloc" => x.round = 0
    /\ x.pc = "get" => x.round = 1
    /\ x.pc \in {"copy", "advance", "done"} => x.round % 2 = 1
    /\ x.pc = "multiply" => x.round % 2 = 0 /\ x.round > 1
    /\ x.pc = "advance" => x.round > 2
    /\ x.pc = "done" /\ x.round = 1 => shared_mem = "null"
    /\ x.pc \in {"copy", "multiply", "advance"} => shared_mem # "null"
    /\ x.pc # "done" /\ x.round <= 2 => x.Bm = 0 /\ x.Bk = 0

\* Two threads are never more than a barrier apart, and agree on the block.
InStep(x, y) ==
    /\ y.round <= x.round + 1
    /\ x.pc \in {"copy", "done"} => y.round >= x.round
    /\ x.pc = "done" => /\ y.round = x.round /\ y.pc \in {"get", "advance", "done"}
                        /\ y.pc = "advance" => IsLast(y)
    /\ x.pc = y.pc /\ x.pc # "done" /\ x.round = y.round => SameBlock(x, y)
    /\ x.pc = "advance" /\ y.pc = "copy" /\ y.round = x.round => NextBlock(x, y)
    /\ x.pc = "advance" /\ y.pc = "multiply" /\ y.round = x.round + 1 => NextBlock(x, y)
    /\ x.pc = "copy" /\ y.pc = "multiply" => SameBlock(x, y)
    /\ x.pc = "multiply" /\ y.pc = "advance" /\ y.round = x.round + 1 => SameBlock(x, y)

\* The invariant of the threads that share a copy of A.
BLock ==
    Locked => /\ \A t \in Team : InRound(thr[t])
              /\ \A t, u \in Team : t # u => InStep(thr[t], thr[u])

-----------------------------------------------------------------------------
(* A thread goes on; y is another one *)

\* Passing the barrier after the allocation leaves two threads in step.
LEMMA GetStaysInStep ==
    ASSUME NEW x \in BThr, NEW y \in BThr, InRound(x), InRound(y), InStep(x, y), InStep(y, x),
           x.pc = "alloc", NEW z \in BThr, z.pc = "get", z.round = x.round + 1, z.Bm = x.Bm, z.Bk = x.Bk
    PROVE  /\ InStep(z, y) /\ InStep(y, z)
           /\ y.pc \in {"alloc", "get"}
    BY DEF InRound, InStep, BThr, SameBlock

\* Giving up because there is no shared memory leaves two threads in step: both do.
LEMMA GiveUpStaysInStep ==
    ASSUME NEW x \in BThr, NEW y \in BThr, InRound(x), InRound(y), InStep(x, y), InStep(y, x),
           x.pc = "get", y.round >= x.round, shared_mem = "null",
           NEW z \in BThr, z.pc = "done", z.round = x.round
    PROVE  InStep(z, y) /\ InStep(y, z) /\ InRound(z)
    BY DEF InRound, InStep, BThr, SameBlock

\* Going on to the copy of A leaves two threads in step.
LEMMA GotStaysInStep ==
    ASSUME NEW x \in BThr, NEW y \in BThr, InRound(x), InRound(y), InStep(x, y), InStep(y, x),
           x.pc = "get", y.round >= x.round, shared_mem # "null",
           NEW z \in BThr, z.pc = "copy", z.round = x.round, z.Bm = x.Bm, z.Bk = x.Bk
    PROVE  InStep(z, y) /\ InStep(y, z) /\ InRound(z)
    BY DEF InRound, InStep, BThr, SameBlock

\* Passing the barrier after the copy leaves two threads in step.
LEMMA CopiedStaysInStep ==
    ASSUME NEW x \in BThr, NEW y \in BThr, InRound(x), InRound(y), InStep(x, y), InStep(y, x),
           x.pc = "copy",
           NEW z \in BThr, z.pc = "multiply", z.round = x.round + 1, z.Bm = x.Bm, z.Bk = x.Bk
    PROVE  InStep(z, y) /\ InStep(y, z) /\ InRound(z)
    BY DEF InRound, InStep, BThr, SameBlock, NextBlock

\* Passing the barrier after the product leaves two threads in step.
LEMMA MultipliedStaysInStep ==
    ASSUME NEW x \in BThr, NEW y \in BThr, InRound(x), InRound(y), InStep(x, y), InStep(y, x),
           x.pc = "multiply", y.round >= x.round,
           NEW z \in BThr, z.pc = "advance", z.round = x.round + 1, z.Bm = x.Bm, z.Bk = x.Bk
    PROVE  InStep(z, y) /\ InStep(y, z) /\ InRound(z)
    BY DEF InRound, InStep, BThr, SameBlock

\* Going on to the next block leaves two threads in step: both take the same one.
LEMMA AdvancedStaysInStep ==
    ASSUME NEW x \in BThr, NEW y \in BThr, InRound(x), InRound(y), InStep(x, y), InStep(y, x),
           x.pc = "advance", y.round >= x.round, ~IsLast(x),
           NEW z \in BThr, z.pc = "copy", z.round = x.round, z.Bm = NextBm(x), z.Bk = NextBk(x)
    PROVE  InStep(z, y) /\ InStep(y, z) /\ InRound(z)
<1>1. SameBlock(x, y) => NextBm(y) = NextBm(x) /\ NextBk(y) = NextBk(x) /\ (IsLast(y) <=> IsLast(x))
    BY DEF SameBlock, NextBm, NextBk, IsLast
<1> QED BY <1>1 DEF InRound, InStep, BThr, SameBlock, NextBlock

\* Ending after the last block leaves two threads in step: it is the last for both.
LEMMA DoneStaysInStep ==
    ASSUME NEW x \in BThr, NEW y \in BThr, InRound(x), InRound(y), InStep(x, y), InStep(y, x),
           x.pc = "advance", y.round >= x.round, IsLast(x),
           NEW z \in BThr, z.pc = "done", z.round = x.round
    PROVE  InStep(z, y) /\ InStep(y, z) /\ InRound(z)
<1>1. SameBlock(x, y) => (IsLast(y) <=> IsLast(x))
    BY DEF SameBlock, IsLast
<1> QED BY <1>1 DEF InRound, InStep, BThr, NextBlock

\* One thread goes on, and stays in step with each of the others.
LEMMA LockSteps ==
    ASSUME BControl, BLock, Locked, BStays, NEW t \in Team, NEW z \in BThr, thr' = [thr EXCEPT ![t] = z],
           UNCHANGED <<prob, region, team, thread_info>>,
           shared_mem' = "null" <=> shared_mem = "null", InRound(z),
           \A u \in Team \ {t} : InStep(z, thr[u]) /\ InStep(thr[u], z)
    PROVE  BLock'
<1>1. thr \in [Team -> BThr] /\ Team' = Team
    BY DEF BControl, BRegion, Locked, BStays
<1>2. thr'[t] = z /\ \A u \in Team \ {t} : thr'[u] = thr[u]
    BY <1>1
<1>3. \A x : InRound(x)' <=> InRound(x)
    BY DEF InRound
<1>4. \A x, y : InStep(x, y)' <=> InStep(x, y)
    <2>1. \A x : SizeM(x)' = SizeM(x) /\ SizeK(x)' = SizeK(x)
        BY DEF BStays
    <2>2. \A x : (IsLast(x)' <=> IsLast(x)) /\ NextBm(x)' = NextBm(x) /\ NextBk(x)' = NextBk(x)
        BY <2>1 DEF IsLast, NextBm, NextBk
    <2> QED BY <2>2 DEF InStep, SameBlock, NextBlock
<1>5. \A u \in Team : InRound(thr[u])
    BY DEF BLock
<1>6. \A u, w \in Team : u # w => InStep(thr[u], thr[w])
    BY DEF BLock
<1>7. \A u \in Team : InRound(thr'[u])
    BY <1>2, <1>5
<1>8. \A u, w \in Team : u # w => InStep(thr'[u], thr'[w])
    BY <1>2, <1>6
<1>9. \A u \in Team : InRound(thr[u])'
    BY <1>3, <1>7
<1>10. \A u, w \in Team : u # w => InStep(thr[u], thr[w])'
    BY <1>4, <1>8
<1> QED BY <1>1, <1>9, <1>10 DEF BLock

\* Threads in step, and what a thread that is to go on has behind it.
LEMMA LockFacts ==
    ASSUME BControl, BLock, Locked, NEW t \in Team
    PROVE  /\ thr \in [Team -> BThr] /\ thr[t] \in BThr /\ InRound(thr[t]) /\ Sliced
           /\ \A u \in Team \ {t} : /\ thr[u] \in BThr /\ InRound(thr[u])
                                    /\ InStep(thr[t], thr[u]) /\ InStep(thr[u], thr[t])
           /\ thr[t].pc # "done" => thr[t].ithr = t /\ t \in Slices
           /\ team = nthr_eff /\ Team = Slices /\ team \in Nat \ {0} /\ region = "compute"
           /\ Passed(t) => \A u \in Team \ {t} : thr[u].round >= thr[t].round
<1>1. thr \in [Team -> BThr] /\ team = nthr_eff /\ region = "compute" /\ team \in Nat \ {0} /\ Sliced
    BY DEF BControl, BRegion, Locked
<1>2. Team = Slices
    BY <1>1 DEF Team, Slices
<1>3. thr[t].pc # "done" => thr[t].ithr = t
    <2> SUFFICES ASSUME thr[t].pc # "done" PROVE thr[t].ithr = t
        OBVIOUS
    <2>1. thr[t].ithr \in Slices /\ thr[t].ithr % team = t
        BY BWorker
    <2>2. thr[t].ithr % team = thr[t].ithr
        <3> DEFINE i == thr[t].ithr
        <3>1. i \in Nat /\ i < team
            BY <1>1, <2>1 DEF Slices
        <3> HIDE DEF i
        <3>2. i % team = i
            BY <1>1, <3>1, TurnOfASmallNumber
        <3> QED BY <3>2 DEF i
    <2> QED BY <2>1, <2>2
<1> QED BY <1>1, <1>2, <1>3 DEF BLock, Passed

\* What a thread takes up behind its only slice: nothing.
LEMMA NothingIsLeft ==
    ASSUME BControl, BLock, Locked, NEW t \in Team, thr[t].pc # "done"
    PROVE  LET z == Take(thread_info, thr[t].ithr + team, thr[t].round)
           IN  z \in BThr /\ z.pc = "done" /\ z.round = thr[t].round
<1>1. thr[t].ithr = t /\ t \in Slices /\ team = nthr_eff /\ team \in Nat \ {0} /\ thr[t] \in BThr
    BY LockFacts
<1>2. thr[t].ithr + team \in Nat /\ thr[t].ithr + team >= nthrs(thread_info) /\ nthrs(thread_info) \in Nat
    BY <1>1 DEF Slices, nthr_eff
<1>3. thr[t].round \in Nat
    BY <1>1 DEF BThr
<1> DEFINE i == thr[t].ithr + team
           round == thr[t].round
<1> HIDE DEF i, round
<1>4. i \in Nat /\ round \in Nat /\ i >= nthrs(thread_info) /\ nthrs(thread_info) \in Nat
    BY <1>2, <1>3 DEF i, round
<1>5. LET z == Take(thread_info, i, round)
      IN  z \in BThr /\ z.pc = "done" /\ z.round = round
    BY <1>4, TakeFacts
<1> QED BY <1>5 DEF i, round

\* Allocating the shared copy keeps the threads in step.
LEMMA AllocateKeepsLock ==
    ASSUME BControl, BLock, BStays, NEW t \in Team, Allocate(t)
    PROVE  BLock'
<1> DEFINE x == thr[t]
           z == [x EXCEPT !.pc = "get", !.round = x.round + 1]
<1>1. x.pc = "alloc" /\ thr' = [thr EXCEPT ![t].pc = "get", ![t].round = @ + 1]
      /\ UNCHANGED <<prob, region, team, thread_info>>
    BY DEF Allocate, At, Meet, InCall
<1>2. Locked' <=> Locked
    BY <1>1 DEF Locked, BStays
<1> SUFFICES ASSUME Locked PROVE BLock'
    BY <1>2 DEF BLock
<1>3. /\ thr \in [Team -> BThr] /\ x \in BThr /\ InRound(x)
      /\ \A u \in Team \ {t} : /\ thr[u] \in BThr /\ InRound(thr[u])
                               /\ InStep(x, thr[u]) /\ InStep(thr[u], x)
    BY LockFacts
<1>4. thr' = [thr EXCEPT ![t] = z]
    BY <1>1, <1>3
<1>5. z \in BThr /\ z.pc = "get" /\ z.round = x.round + 1 /\ z.Bm = x.Bm /\ z.Bk = x.Bk
    <2>1. x.round + 1 \in Nat
        BY <1>3 DEF BThr
    <2> HIDE DEF x
    <2> QED BY <1>3, <2>1 DEF BThr
<1> HIDE DEF x, z
<1>6. ASSUME NEW u \in Team \ {t}
      PROVE  InStep(z, thr[u]) /\ InStep(thr[u], z) /\ thr[u].pc \in {"alloc", "get"}
    BY <1>1, <1>3, <1>5, GetStaysInStep
<1>7. Team' = Team /\ thr'[t] = z /\ \A u \in Team \ {t} : thr'[u] = thr[u]
    BY <1>3, <1>4 DEF BStays
<1>8. \A y, w : InStep(y, w)' <=> InStep(y, w)
    <2>1. \A y : SizeM(y)' = SizeM(y) /\ SizeK(y)' = SizeK(y)
        BY DEF BStays
    <2>2. \A y : (IsLast(y)' <=> IsLast(y)) /\ NextBm(y)' = NextBm(y) /\ NextBk(y)' = NextBk(y)
        BY <1>1, <2>1 DEF IsLast, NextBm, NextBk
    <2> QED BY <2>2 DEF InStep, SameBlock, NextBlock
<1>9. x.round = 0 /\ x.Bm = 0 /\ x.Bk = 0
    BY <1>1, <1>3 DEF InRound, BThr
<1>10. ASSUME NEW u \in Team PROVE InRound(thr[u])'
    <2>1. CASE u = t
        BY <1>5, <1>7, <1>9, <2>1 DEF InRound
    <2>2. CASE u # t
        <3>1. thr'[u] = thr[u] /\ InRound(thr[u]) /\ thr[u].pc \in {"alloc", "get"}
            BY <1>3, <1>6, <1>7, <2>2
        <3> QED BY <3>1 DEF InRound
    <2> QED BY <2>1, <2>2
<1>11. \A u, w \in Team : u # w => InStep(thr[u], thr[w])
    BY DEF BLock
<1>12. \A u, w \in Team : u # w => InStep(thr'[u], thr'[w])
    BY <1>6, <1>7, <1>11
<1>13. \A u, w \in Team : u # w => InStep(thr[u], thr[w])'
    BY <1>8, <1>12
<1>14. \A u \in Team : InRound(thr[u])'
    BY <1>10
<1> QED BY <1>7, <1>13, <1>14 DEF BLock

\* Getting, filling and using the shared copy keeps the threads in step.
LEMMA CopyingKeepsLock ==
    ASSUME BControl, BLock, BStays, NEW t \in Team,
           GetMemory(t) \/ Copy(t) \/ Multiply(t) \/ MultiplyFails(t)
    PROVE  BLock'
<1> DEFINE x == thr[t]
<1>1. UNCHANGED <<prob, region, team, thread_info, shared_mem>>
    BY DEF GetMemory, Copy, Multiply, MultiplyFails, InCall
<1>2. Locked' <=> Locked
    BY <1>1 DEF Locked, BStays
<1> SUFFICES ASSUME Locked PROVE BLock'
    BY <1>2 DEF BLock
<1>3. /\ thr \in [Team -> BThr] /\ x \in BThr /\ InRound(x)
      /\ \A u \in Team \ {t} : /\ thr[u] \in BThr /\ InRound(thr[u])
                               /\ InStep(x, thr[u]) /\ InStep(thr[u], x)
      /\ Passed(t) => \A u \in Team \ {t} : thr[u].round >= x.round
    BY LockFacts
<1>4. ASSUME NEW pc, Goto(t, pc)
      PROVE  thr' = [thr EXCEPT ![t] = [x EXCEPT !.pc = pc]]
    BY <1>3, <1>4 DEF Goto
<1>5. ASSUME NEW pc, Meet(t, pc)
      PROVE  thr' = [thr EXCEPT ![t] = [x EXCEPT !.pc = pc, !.round = x.round + 1]]
    BY <1>3, <1>5 DEF Meet
<1>6. x.round + 1 \in Nat
    BY <1>3 DEF BThr
<1>7. ASSUME NEW pc \in {"multiply", "advance"}, NEW z, z = [x EXCEPT !.pc = pc, !.round = x.round + 1]
      PROVE  z \in BThr /\ z.pc = pc /\ z.round = x.round + 1 /\ z.Bm = x.Bm /\ z.Bk = x.Bk
    <2> HIDE DEF x
    <2> QED BY <1>3, <1>6, <1>7 DEF BThr
<1>8. CASE GetMemory(t) /\ shared_mem = "null"
    <2> DEFINE z == Take(thread_info, thr[t].ithr + team, thr[t].round)
    <2>1. x.pc = "get" /\ Passed(t) /\ thr' = [thr EXCEPT ![t] = z]
        BY <1>8 DEF GetMemory, At, NextSlice
    <2>2. z \in BThr /\ z.pc = "done" /\ z.round = x.round
        <3>1. thr[t].pc # "done"
            BY <2>1
        <3> QED BY <3>1, NothingIsLeft
    <2> HIDE DEF x, z
    <2>3. InRound(z)
        <3>1. x.round = 1
            BY <1>3, <2>1 DEF InRound
        <3> QED BY <1>8, <2>2, <3>1 DEF InRound
    <2>4. ASSUME NEW u \in Team \ {t} PROVE InStep(z, thr[u]) /\ InStep(thr[u], z)
        BY <1>3, <1>8, <2>1, <2>2, GiveUpStaysInStep
    <2> QED BY <1>1, <2>1, <2>2, <2>3, <2>4, LockSteps
<1>9. CASE GetMemory(t) /\ shared_mem # "null"
    <2> DEFINE z == [x EXCEPT !.pc = "copy"]
    <2>1. x.pc = "get" /\ Passed(t) /\ thr' = [thr EXCEPT ![t] = z]
        BY <1>4, <1>9 DEF GetMemory, At
    <2> HIDE DEF x
    <2>2. z \in BThr /\ z.pc = "copy" /\ z.round = x.round /\ z.Bm = x.Bm /\ z.Bk = x.Bk
        BY <1>3 DEF BThr
    <2> HIDE DEF z
    <2>3. InRound(z)
        <3>1. x.round = 1 /\ (x.round <= 2 => x.Bm = 0 /\ x.Bk = 0)
            BY <1>3, <2>1 DEF InRound
        <3> QED BY <1>9, <2>2, <3>1 DEF InRound
    <2>4. ASSUME NEW u \in Team \ {t} PROVE InStep(z, thr[u]) /\ InStep(thr[u], z)
        BY <1>3, <1>9, <2>1, <2>2, GotStaysInStep
    <2> QED BY <1>1, <2>1, <2>2, <2>3, <2>4, LockSteps
<1>10. CASE Copy(t)
    <2> DEFINE z == [x EXCEPT !.pc = "multiply", !.round = x.round + 1]
    <2>1. x.pc = "copy" /\ thr' = [thr EXCEPT ![t] = z]
        BY <1>5, <1>10 DEF Copy, At
    <2>2. z \in BThr /\ z.pc = "multiply" /\ z.round = x.round + 1 /\ z.Bm = x.Bm /\ z.Bk = x.Bk
        BY <1>7
    <2> HIDE DEF x, z
    <2>3. InRound(z)
        <3>1. x.round % 2 = 1 /\ shared_mem # "null" /\ (x.round <= 2 => x.Bm = 0 /\ x.Bk = 0) /\ x.round \in Nat
            BY <1>3, <2>1 DEF InRound, BThr
        <3>2. (x.round + 1) % 2 = 0 /\ x.round + 1 > 1
            BY <3>1
        <3> QED BY <2>2, <3>1, <3>2 DEF InRound
    <2>4. ASSUME NEW u \in Team \ {t} PROVE InStep(z, thr[u]) /\ InStep(thr[u], z)
        BY <1>3, <2>1, <2>2, CopiedStaysInStep
    <2> QED BY <1>1, <2>1, <2>2, <2>3, <2>4, LockSteps
<1>11. CASE Multiply(t) \/ MultiplyFails(t)
    <2> DEFINE z == [x EXCEPT !.pc = "advance", !.round = x.round + 1]
    <2>1. x.pc = "multiply" /\ Passed(t) /\ AfterMultiply(t)
        BY <1>11 DEF Multiply, MultiplyFails, Multiplies, At
    <2>2. thr' = [thr EXCEPT ![t] = z]
        BY <1>5, <2>1 DEF AfterMultiply, Locked
    <2>3. z \in BThr /\ z.pc = "advance" /\ z.round = x.round + 1 /\ z.Bm = x.Bm /\ z.Bk = x.Bk
        BY <1>7
    <2> HIDE DEF x, z
    <2>4. InRound(z)
        <3>1. x.round % 2 = 0 /\ x.round > 1 /\ shared_mem # "null" /\ x.round \in Nat
            BY <1>3, <2>1 DEF InRound, BThr
        <3>2. (x.round + 1) % 2 = 1 /\ x.round + 1 > 2
            BY <3>1
        <3> QED BY <2>3, <3>1, <3>2 DEF InRound
    <2>5. ASSUME NEW u \in Team \ {t} PROVE InStep(z, thr[u]) /\ InStep(thr[u], z)
        BY <1>3, <2>1, <2>3, MultipliedStaysInStep
    <2> QED BY <1>1, <2>2, <2>3, <2>4, <2>5, LockSteps
<1> QED BY <1>8, <1>9, <1>10, <1>11

\* Going to the next block, or to the end, keeps the threads in step.
LEMMA AdvanceKeepsLock ==
    ASSUME BControl, BLock, BStays, NEW t \in Team, Advance(t)
    PROVE  BLock'
<1> DEFINE x == thr[t]
           Bm == x.Bm + SizeM(x.Bm)
           Bk == x.Bk + SizeK(x.Bk)
           pc == IF copies_a THEN "copy" ELSE "multiply"
           over == Bm >= prob.m /\ Bk >= prob.k
<1>1. /\ x.pc = "advance" /\ Passed(t) /\ UNCHANGED <<prob, region, team, thread_info>>
      /\ \/ Bm < prob.m /\ thr' = [thr EXCEPT ![t].pc = pc, ![t].Bm = Bm]
         \/ /\ Bm >= prob.m /\ Bk < prob.k
            /\ thr' = [thr EXCEPT ![t].pc = pc, ![t].Bm = 0, ![t].Bk = Bk]
         \/ over /\ NextSlice(t)
      /\ shared_mem' = IF over /\ copies_a /\ thr[t].ithr = 0 THEN "freed" ELSE shared_mem
    BY Zenon DEF Advance, At, InCall
<1>2. Locked' <=> Locked
    BY <1>1 DEF Locked, BStays
<1> SUFFICES ASSUME Locked PROVE BLock'
    BY <1>2 DEF BLock
<1>3. /\ thr \in [Team -> BThr] /\ x \in BThr /\ InRound(x) /\ Sliced
      /\ \A u \in Team \ {t} : /\ thr[u] \in BThr /\ InRound(thr[u])
                               /\ InStep(x, thr[u]) /\ InStep(thr[u], x)
                               /\ thr[u].round >= x.round
    BY <1>1, LockFacts
<1>4. shared_mem # "null" /\ x.round % 2 = 1 /\ x.round > 2 /\ x.round \in Nat
    BY <1>1, <1>3 DEF InRound, BThr
<1>5. shared_mem' # "null"
    BY <1>1, <1>4
<1>6. pc = "copy"
    BY DEF Locked
<1>7. Bm \in Nat /\ Bk \in Nat /\ x.Bm \in Nat /\ x.Bk \in Nat /\ prob.m \in Nat \ {0} /\ prob.k \in Nat \ {0}
    <2>1. prob.m \in Nat \ {0} /\ prob.k \in Nat \ {0}
        BY <1>3, PartsOfABlock
    <2>2. BFits(t, x)
        BY DEF BControl, BPlaces
    <2>3. x.Bm \in 0..(prob.m - 1) /\ x.Bk \in 0..(prob.k - 1)
        BY <1>1, <1>3, <2>1, <2>2 DEF BFits, BThr
    <2>4. SizeM(x.Bm) \in Nat /\ SizeK(x.Bk) \in Nat
        BY <1>3, <2>3, BlockSizes
    <2> QED BY <2>1, <2>3, <2>4
<1>8. /\ IsLast(x) <=> over
      /\ NextBm(x) = IF Bm < prob.m THEN Bm ELSE 0
      /\ NextBk(x) = IF Bm < prob.m THEN x.Bk ELSE Bk
    BY DEF IsLast, NextBm, NextBk
\* The next block.
<1>9. ASSUME NEW m2 \in Nat, NEW k2 \in Nat, ~IsLast(x), m2 = NextBm(x), k2 = NextBk(x),
             thr' = [thr EXCEPT ![t] = [x EXCEPT !.pc = "copy", !.Bm = m2, !.Bk = k2]]
      PROVE  BLock'
    <2> DEFINE z == [x EXCEPT !.pc = "copy", !.Bm = m2, !.Bk = k2]
    <2>1. thr' = [thr EXCEPT ![t] = z]
        BY <1>9
    <2> HIDE DEF x
    <2>2. z \in BThr /\ z.pc = "copy" /\ z.round = x.round /\ z.Bm = NextBm(x) /\ z.Bk = NextBk(x)
        BY <1>3, <1>9 DEF BThr
    <2> HIDE DEF z
    <2>3. InRound(z)
        BY <1>4, <2>2 DEF InRound
    <2>4. ASSUME NEW u \in Team \ {t} PROVE InStep(z, thr[u]) /\ InStep(thr[u], z)
        BY <1>1, <1>3, <1>9, <2>2, AdvancedStaysInStep
    <2> QED BY <1>1, <1>4, <1>5, <2>1, <2>2, <2>3, <2>4, LockSteps
<1>10. CASE over /\ NextSlice(t)
    <2> DEFINE z == Take(thread_info, thr[t].ithr + team, thr[t].round)
    <2>1. thr' = [thr EXCEPT ![t] = z]
        BY <1>10 DEF NextSlice
    <2>2. z \in BThr /\ z.pc = "done" /\ z.round = x.round
        <3>1. thr[t].pc # "done"
            BY <1>1
        <3> QED BY <3>1, NothingIsLeft
    <2>3. IsLast(x)
        BY <1>8, <1>10
    <2> HIDE DEF x, z
    <2>4. InRound(z)
        BY <1>4, <2>2 DEF InRound
    <2>5. ASSUME NEW u \in Team \ {t} PROVE InStep(z, thr[u]) /\ InStep(thr[u], z)
        BY <1>1, <1>3, <2>2, <2>3, DoneStaysInStep
    <2> QED BY <1>1, <1>4, <1>5, <2>1, <2>2, <2>4, <2>5, LockSteps
<1>11. CASE Bm < prob.m /\ thr' = [thr EXCEPT ![t].pc = pc, ![t].Bm = Bm]
    <2> HIDE DEF Bm, Bk
    <2>1. thr' = [thr EXCEPT ![t].pc = "copy", ![t].Bm = Bm]
        BY <1>6, <1>11
    <2>2. thr' = [thr EXCEPT ![t] = [x EXCEPT !.pc = "copy", !.Bm = Bm]]
        BY <1>3, <2>1
    <2>3. [x EXCEPT !.pc = "copy", !.Bm = Bm] = [x EXCEPT !.pc = "copy", !.Bm = Bm, !.Bk = x.Bk]
        <3> HIDE DEF x
        <3> QED BY <1>3 DEF BThr
    <2>4. ~IsLast(x) /\ Bm = NextBm(x) /\ x.Bk = NextBk(x)
        BY <1>7, <1>8, <1>11
    <2>5. thr' = [thr EXCEPT ![t] = [x EXCEPT !.pc = "copy", !.Bm = Bm, !.Bk = x.Bk]]
        BY <2>2, <2>3
    <2> QED BY <1>7, <1>9, <2>4, <2>5
<1>12. CASE /\ Bm >= prob.m /\ Bk < prob.k
            /\ thr' = [thr EXCEPT ![t].pc = pc, ![t].Bm = 0, ![t].Bk = Bk]
    <2> HIDE DEF Bm, Bk
    <2>1. thr' = [thr EXCEPT ![t].pc = "copy", ![t].Bm = 0, ![t].Bk = Bk]
        BY <1>6, <1>12
    <2>2. thr' = [thr EXCEPT ![t] = [x EXCEPT !.pc = "copy", !.Bm = 0, !.Bk = Bk]]
        BY <1>3, <2>1
    <2>3. ~IsLast(x) /\ 0 = NextBm(x) /\ Bk = NextBk(x) /\ 0 \in Nat
        BY <1>7, <1>8, <1>12
    <2> QED BY <1>7, <1>9, <2>2, <2>3
<1> QED BY <1>1, <1>10, <1>11, <1>12

\* The threads are in step when the region starts.
LEMMA CallMakesLock ==
    ASSUME BControl, ~Diverted, Call
    PROVE  BLock'
<1>1. BControl' /\ \A t \in Team' : thr'[t] = Take(thread_info', t, 0)
    BY CallMakesControl
<1> SUFFICES ASSUME Locked' PROVE (\A t \in Team : InRound(thr[t]))'
                                  /\ (\A t, u \in Team : t # u => InStep(thr[t], thr[u]))'
    BY DEF BLock
<1>2. prob' = prob
    BY DEF Call
<1>3. /\ team' = nthr_eff' /\ thread_info'.copy = "shared_a" /\ prob.packed # "a"
      /\ team' \in Nat /\ thr' \in [Team' -> BThr']
    <2>1. team' = nthr_eff' /\ thread_info'.copy = "shared_a" /\ prob.packed # "a" /\ team' # 0
        BY <1>1, <1>2 DEF Locked, copies_a, BControl, BRegion
    <2> QED BY <1>1, <2>1 DEF BControl, BRegion
<1>4. ASSUME NEW t \in Team'
      PROVE  /\ thr'[t] \in BThr /\ thr'[t].pc = "alloc" /\ thr'[t].round = 0
             /\ thr'[t].Bm = 0 /\ thr'[t].Bk = 0
    <2>1. PICK w \in Nat : w = team'
        BY <1>3
    <2>2. t \in 0..(w - 1) /\ nthrs(thread_info') = w
        BY <1>3, <2>1 DEF Team, nthr_eff
    <2>3. t \in Nat /\ t < nthrs(thread_info') /\ nthrs(thread_info') \in Nat /\ 0 \in Nat
        BY <2>2
    <2>4. LET r == Take(thread_info', t, 0)
          IN  r \in BThr /\ r.pc = "alloc" /\ r.round = 0 /\ r.Bm = 0 /\ r.Bk = 0
        BY <1>3, <2>3, TakeFacts
    <2> QED BY <1>1, <2>4
<1>5. ASSUME NEW t \in Team' PROVE InRound(thr[t])'
    BY <1>4 DEF InRound
<1>6. ASSUME NEW t \in Team', NEW u \in Team' PROVE InStep(thr[t], thr[u])'
    <2>1. /\ thr'[t].pc = "alloc" /\ thr'[t].round = 0 /\ thr'[t].Bm = 0 /\ thr'[t].Bk = 0
          /\ thr'[u].pc = "alloc" /\ thr'[u].round = 0 /\ thr'[u].Bm = 0 /\ thr'[u].Bk = 0
        BY <1>4
    <2> QED BY <2>1 DEF InStep, SameBlock
<1> QED BY <1>5, <1>6

\* Steps that have nothing to do with a shared copy.
LEMMA OtherStepsKeepLock ==
    ASSUME BControl, BLock, NEW t \in Team,
           Compute(t) \/ ComputeFails(t) \/ Publish(t) \/ AddOwn(t) \/ AddOther(t) \/ SumLater(t) \/ Spin(t)
    PROVE  BLock'
<1>1. CASE Spin(t)
    <2>1. UNCHANGED vars
        BY <1>1 DEF Spin
    <2>2. BStays
        BY <2>1, StutterKeepsControl
    <2>3. \A x : (IsLast(x)' <=> IsLast(x)) /\ NextBm(x)' = NextBm(x) /\ NextBk(x)' = NextBk(x)
        BY <2>1, <2>2 DEF IsLast, NextBm, NextBk, vars, BStays
    <2>4. \A x, y : (InRound(x)' <=> InRound(x)) /\ (InStep(x, y)' <=> InStep(x, y))
        BY <2>1, <2>3 DEF InRound, InStep, SameBlock, NextBlock, vars
    <2>5. (Locked' <=> Locked) /\ Team' = Team /\ thr' = thr
        BY <2>1, <2>2 DEF Locked, vars, BStays
    <2> QED BY <2>4, <2>5 DEF BLock
<1>2. CASE \/ Compute(t) \/ ComputeFails(t) \/ Publish(t) \/ AddOwn(t) \/ AddOther(t) \/ SumLater(t)
    <2>1. /\ thr[t].pc \in {"compute", "publish", "own", "others", "later"}
          /\ UNCHANGED <<prob, region, team, thread_info>>
        BY <1>2, Zenon DEF Compute, ComputeFails, Publish, AddOwn, AddOther, MayAddOwn, MayAddOther, SumLater,
            At, InCall
    <2>2. ~Locked
        BY <2>1, LockFacts DEF InRound
    <2>3. BStays
        BY <1>2, ComputeKeepsControl, PublishKeepsControl, AddKeepsControl, SumLaterKeepsControl
    <2>4. ~Locked'
        BY <2>1, <2>2, <2>3 DEF Locked, BStays
    <2> QED BY <2>4 DEF BLock
<1> QED BY <1>1, <1>2

\* Threads that share a copy of A stay in step: none is more than one barrier ahead of
\* another, and between the same barriers they work on the same block.
THEOREM LockHolds == DriverSpec => []BLock
<1>1. DriverInit => BLock
    BY DEF DriverInit, Init, Idle, BLock, Locked
<1>2. BControl /\ BLock /\ [DriverNext]_driver_vars => BLock'
    <2> SUFFICES ASSUME BControl, BLock, [DriverNext]_driver_vars PROVE BLock'
        OBVIOUS
    <2>1. CASE UNCHANGED vars
        <3>2. BStays
            BY <2>1, StutterKeepsControl
        <3>3. \A x : (IsLast(x)' <=> IsLast(x)) /\ NextBm(x)' = NextBm(x) /\ NextBk(x)' = NextBk(x)
            BY <2>1, <3>2 DEF IsLast, NextBm, NextBk, vars, BStays
        <3>4. \A x, y : (InRound(x)' <=> InRound(x)) /\ (InStep(x, y)' <=> InStep(x, y))
            BY <2>1, <3>3 DEF InRound, InStep, SameBlock, NextBlock, vars
        <3>5. (Locked' <=> Locked) /\ Team' = Team /\ thr' = thr
            BY <2>1, <3>2 DEF Locked, vars, BStays
        <3> QED BY <3>4, <3>5 DEF BLock
    <2>2. CASE ~Diverted /\ Next
        <3>1. ASSUME NEW t \in Team, Step(t) PROVE BLock'
            <4>1. CASE Allocate(t)
                BY <4>1, AllocateKeepsLock, SharedKeepsControl
            <4>2. CASE GetMemory(t) \/ Copy(t) \/ Multiply(t) \/ MultiplyFails(t)
                BY <4>2, CopyingKeepsLock, SharedKeepsControl
            <4>3. CASE Advance(t)
                BY <4>3, AdvanceKeepsLock, SharedKeepsControl
            <4>4. CASE \/ Compute(t) \/ ComputeFails(t) \/ Publish(t) \/ AddOwn(t) \/ AddOther(t)
                       \/ SumLater(t) \/ Spin(t)
                BY <4>4, OtherStepsKeepLock
            <4> QED BY <3>1, <4>1, <4>2, <4>3, <4>4 DEF Step
        <3>2. CASE CallAlone \/ EndCompute \/ BeginLater \/ EndLater \/ Return
            <4>1. region' # "compute"
                BY <3>2 DEF CallAlone, EndCompute, BeginLater, EndLater, Return
            <4> QED BY <4>1 DEF BLock, Locked
        <3> QED BY <2>2, <3>1, <3>2, CallMakesLock DEF Next
    <2> QED BY <2>1, <2>2 DEF DriverNext, driver_vars
<1> QED BY <1>1, <1>2, ControlHolds, PTL DEF DriverSpec

\* The threads copy a block between them.
LEMMA BandsSplit ==
    ASSUME NEW N \in Nat \ {0}, NEW s \in Nat \ {0}
    PROVE  Splits([i \in 0..(N - 1) |-> CopiedBand(i, N, s)], N, s)
<1> DEFINE d == div_up(s, N)
           band == rnd_up(d, arg.um)
<1>1. d \in Nat \ {0} /\ s <= d * N
    BY DivUpFacts
<1>2. arg.um \in Nat \ {0}
    BY ArgAssumption
<1> HIDE DEF d
<1>3. band \in Nat \ {0} /\ d <= band
    <2>1. div_up(d, arg.um) \in Nat \ {0} /\ d <= div_up(d, arg.um) * arg.um
        BY <1>1, <1>2, DivUpFacts
    <2>2. div_up(d, arg.um) * arg.um \in Nat \ {0}
        BY <1>2, <2>1, ProductIsPositive
    <2> QED BY <2>1, <2>2 DEF rnd_up
<1>4. \A i \in 0..(N - 1) : CopiedBand(i, N, s) = Places(band * i, Lesser(band, s - band * i))
    BY Zenon DEF CopiedBand, d
<1> HIDE DEF band
<1>5. band * N >= s
    <2>1. d * N <= band * N
        BY <1>1, <1>3, ProductMonotone
    <2>2. d * N \in Nat /\ band * N \in Nat
        BY <1>1, <1>3
    <2> QED BY <1>1, <2>1, <2>2
<1>6. ASSUME NEW i \in 0..(N - 1) PROVE CopiedBand(i, N, s) = Third(i, band, s)
    <2>1. band * i = i * band
        BY <1>3
    <2> QED BY <1>4, <2>1 DEF Third
<1>7. [i \in 0..(N - 1) |-> CopiedBand(i, N, s)] = [i \in 0..(N - 1) |-> Third(i, band, s)]
    BY <1>6
<1> QED BY <1>3, <1>5, <1>7, ThirdSplits

\* Threads that share a copy have columns of C of their own, and all of the
\* other dimensions.
LEMMA SharedSlices ==
    ASSUME Sliced, thread_info.copy = "shared_a"
    PROVE  /\ \A i \in Slices : /\ slice(i).m = 0..(prob.m - 1) /\ slice(i).k = 0..(prob.k - 1)
                                /\ slice(i).n \subseteq 0..(prob.n - 1)
           /\ \A y \in 0..(prob.n - 1) : \E i \in Slices : y \in slice(i).n
           /\ \A i, j \in Slices : i # j => slice(i).n \cap slice(j).n = {}
<1> DEFINE N == [i \in 0..(thread_info.nthrs_n - 1) |-> partition_1d(i, thread_info.nthrs_n, prob.n)]
<1>1. /\ prob.m \in Nat \ {0} /\ prob.n \in Nat \ {0} /\ prob.k \in Nat \ {0}
      /\ ColumnsOnly(thread_info)
    BY PartsOfABlock, SharedIsNotSummed
<1>2. /\ Splits(N, thread_info.nthrs_n, prob.n) /\ nthrs(thread_info) = thread_info.nthrs_n
      /\ \A i \in 0..(nthrs(thread_info) - 1) :
           get_thread_slice(thread_info, i, prob.m, prob.n, prob.k) =
             [m |-> 0..(prob.m - 1), n |-> N[i], k |-> 0..(prob.k - 1), ithr_k |-> 0]
    BY <1>1, ColumnsFacts
<1> HIDE DEF N
<1>3. Slices = 0..(thread_info.nthrs_n - 1)
    BY <1>2 DEF Slices, nthr_eff
<1>4. ASSUME NEW i \in Slices
      PROVE  slice(i).m = 0..(prob.m - 1) /\ slice(i).k = 0..(prob.k - 1) /\ slice(i).n = N[i]
    <2>1. slice(i) = get_thread_slice(thread_info, i, prob.m, prob.n, prob.k)
        BY DEF Sliced
    <2>2. slice(i) = [m |-> 0..(prob.m - 1), n |-> N[i], k |-> 0..(prob.k - 1), ithr_k |-> 0]
        <3>1. i \in 0..(nthrs(thread_info) - 1)
            BY <1>2, <1>3
        <3> QED BY <1>2, <2>1, <3>1
    <2> QED BY <2>2
<1> DEFINE w == thread_info.nthrs_n
           n == prob.n
<1>5. Splits(N, w, n) /\ Slices = 0..(w - 1)
    BY <1>2, <1>3
<1> HIDE DEF w, n
<1>6. ASSUME NEW i \in Slices PROVE N[i] \subseteq 0..(n - 1)
    BY <1>5 DEF Splits
<1>7. ASSUME NEW y \in 0..(n - 1) PROVE \E i \in Slices : y \in slice(i).n
    BY <1>4, <1>5 DEF Splits
<1>8. ASSUME NEW i \in Slices, NEW j \in Slices, i # j PROVE slice(i).n \cap slice(j).n = {}
    <2>1. N[i] \cap N[j] = {}
        BY <1>5, <1>8 DEF Splits
    <2> QED BY <1>4, <2>1
<1> QED BY <1>4, <1>6, <1>7, <1>8 DEF n

\* Threads that use a shared copy are in step.
LEMMA CopyIsLocked ==
    ASSUME BControl, SuitsTeam, region = "compute", copies_a
    PROVE  Locked
<1>1. prob.packed \in {"none", "a", "b"}
    BY ProblemsAreProblems DEF BControl, IsProblem, Problem
<1> QED BY <1>1 DEF BControl, BRegion, Locked, SuitsTeam, copies_a

\* The three kinds of places.
LEMMA KindsOfPlaces ==
    ASSUME NEW x
    PROVE  /\ \A S : x \in OfA(S) => x[1] = <<"A", 0>> /\ x[2] \in S \X {0}
           /\ \A S : x \in OfC(S) => x[1] = <<"C", 0>> /\ x[2] \in S
           /\ \A i, S : x \in OfOwn(i, S) => x[1] = <<"own", i>> /\ x[2] \in S
    BY DEF OfA, OfC, OfOwn

\* What a step writes and reads, by what it is.
LEMMA Accesses ==
    ASSUME NEW t, NEW x
    PROVE  /\ x \in Writes(t) =>
                \/ At(t, "copy") /\ x \in OfA(CopiedBand(thr[t].ithr, nthr_eff, SizeM(thr[t].Bm)))
                \/ FreesCopy(t) /\ x \in OfA(DOMAIN bufferA)
                \/ Multiplies(t) /\ x \in OfC(BlockCells(t))
                \/ /\ At(t, "compute") /\ k_summing /\ slice(thr[t].ithr).ithr_k > 0
                   /\ x \in OfOwn(thr[t].ithr, Cells(thr[t].ithr))
                \/ /\ At(t, "compute") /\ ~(k_summing /\ slice(thr[t].ithr).ithr_k > 0)
                   /\ x \in OfC(Cells(thr[t].ithr))
                \/ /\ AddsOwn(t) \/ MayAddOther(t) \/ At(t, "later")
                   /\ x \in OfC(SummedCells(thr[t].ithr))
           /\ x \in Reads(t) =>
                \/ Multiplies(t) /\ copies_a /\ x \in OfA(Places(0, SizeM(thr[t].Bm)))
                \/ AddsOwn(t) /\ x \in OfOwn(thr[t].ithr, SummedCells(thr[t].ithr))
                \/ /\ MayAddOther(t)
                   /\ x \in OfOwn(OfPart(thr[t].ithr, thr[t].ik), SummedCells(thr[t].ithr))
                \/ /\ At(t, "later")
                   /\ \E ik \in 1..(thread_info.nthrs_k - 1) :
                        x \in OfOwn(OfPart(thr[t].ithr, ik), SummedCells(thr[t].ithr))
<1> DEFINE i == thr[t].ithr
           R == {OfOwn(OfPart(i, ik), SummedCells(i)) : ik \in 1..(thread_info.nthrs_k - 1)}
<1>1. Writes(t) =
        CASE At(t, "copy") -> OfA(CopiedBand(i, nthr_eff, SizeM(thr[t].Bm)))
          [] FreesCopy(t) -> OfA(DOMAIN bufferA)
          [] Multiplies(t) -> OfC(BlockCells(t))
          [] At(t, "compute") /\ k_summing /\ slice(i).ithr_k > 0 -> OfOwn(i, Cells(i))
          [] At(t, "compute") /\ ~(k_summing /\ slice(i).ithr_k > 0) -> OfC(Cells(i))
          [] AddsOwn(t) \/ MayAddOther(t) \/ At(t, "later") -> OfC(SummedCells(i))
          [] OTHER -> {}
    BY Zenon DEF Writes
<1>2. Reads(t) =
        CASE Multiplies(t) /\ copies_a -> OfA(Places(0, SizeM(thr[t].Bm)))
          [] AddsOwn(t) -> OfOwn(i, SummedCells(i))
          [] MayAddOther(t) -> OfOwn(OfPart(i, thr[t].ik), SummedCells(i))
          [] At(t, "later") -> UNION R
          [] OTHER -> {}
    BY Zenon DEF Reads
<1>3. x \in UNION R => \E ik \in 1..(thread_info.nthrs_k - 1) : x \in OfOwn(OfPart(i, ik), SummedCells(i))
    BY Zenon
<1> HIDE DEF R
<1>4. x \in Writes(t) =>
            \/ At(t, "copy") /\ x \in OfA(CopiedBand(i, nthr_eff, SizeM(thr[t].Bm)))
            \/ FreesCopy(t) /\ x \in OfA(DOMAIN bufferA)
            \/ Multiplies(t) /\ x \in OfC(BlockCells(t))
            \/ At(t, "compute") /\ k_summing /\ slice(i).ithr_k > 0 /\ x \in OfOwn(i, Cells(i))
            \/ At(t, "compute") /\ ~(k_summing /\ slice(i).ithr_k > 0) /\ x \in OfC(Cells(i))
            \/ (AddsOwn(t) \/ MayAddOther(t) \/ At(t, "later")) /\ x \in OfC(SummedCells(i))
    BY <1>1
<1>5. x \in Reads(t) =>
            \/ Multiplies(t) /\ copies_a /\ x \in OfA(Places(0, SizeM(thr[t].Bm)))
            \/ AddsOwn(t) /\ x \in OfOwn(i, SummedCells(i))
            \/ MayAddOther(t) /\ x \in OfOwn(OfPart(i, thr[t].ik), SummedCells(i))
            \/ At(t, "later") /\ x \in UNION R
    BY <1>2
<1> QED BY <1>3, <1>4, <1>5

\* Two threads are at two slices.
LEMMA SlicesApart ==
    ASSUME BControl, NEW t \in Team, NEW u \in Team, t # u, thr[t].pc # "done", thr[u].pc # "done"
    PROVE  /\ thr[t].ithr \in Slices /\ thr[u].ithr \in Slices /\ thr[t].ithr # thr[u].ithr /\ Sliced
           /\ BFits(t, thr[t]) /\ BFits(u, thr[u]) /\ region \in {"compute", "later"}
<1>1. thr[t].ithr \in Slices /\ thr[t].ithr % team = t /\ BFits(t, thr[t])
    BY BWorker
<1>2. thr[u].ithr \in Slices /\ thr[u].ithr % team = u /\ Sliced /\ BFits(u, thr[u])
      /\ region \in {"compute", "later"}
    BY BWorker
<1> QED BY <1>1, <1>2

\* The shared copy: who copies, frees or multiplies.
LEMMA CopyDoesNotRace ==
    ASSUME BControl, BLock, SuitsTeam, NEW t \in Team, NEW u \in Team, t # u, NEW x,
           \/ At(t, "copy") /\ x \in OfA(CopiedBand(thr[t].ithr, nthr_eff, SizeM(thr[t].Bm)))
           \/ FreesCopy(t),
           \/ At(u, "copy") /\ x \in OfA(CopiedBand(thr[u].ithr, nthr_eff, SizeM(thr[u].Bm)))
           \/ FreesCopy(u)
           \/ Multiplies(u) /\ copies_a
    PROVE  FALSE
<1>1. thr[t].pc \in {"copy", "advance"} /\ thr[u].pc \in {"copy", "multiply", "advance"}
    BY DEF At, FreesCopy, Multiplies
<1>2. region = "compute" /\ copies_a
    <2>1. region \in {"compute", "later"} /\ BFits(t, thr[t])
        BY <1>1, SlicesApart
    <2>2. region = "compute"
        BY <1>1, <2>1 DEF BFits
    <2>3. thr[t].pc = "copy" => copies_a
        BY <2>1 DEF BFits
    <2> QED BY <2>2, <2>3 DEF FreesCopy, At
<1>3. Locked
    BY <1>2, CopyIsLocked
<1>4. /\ thr[t] \in BThr /\ thr[u] \in BThr /\ InRound(thr[t]) /\ InRound(thr[u])
      /\ InStep(thr[t], thr[u]) /\ InStep(thr[u], thr[t])
      /\ thr[t].ithr = t /\ thr[u].ithr = u /\ t \in Slices /\ u \in Slices
      /\ Passed(t) => thr[u].round >= thr[t].round
      /\ Passed(u) => thr[t].round >= thr[u].round
      /\ Sliced
    <2>1. thr[t].pc # "done" /\ thr[u].pc # "done"
        BY <1>1
    <2>2. /\ thr[t] \in BThr /\ InRound(thr[t]) /\ thr[t].ithr = t /\ t \in Slices /\ Sliced
          /\ thr[u] \in BThr /\ InRound(thr[u]) /\ InStep(thr[t], thr[u]) /\ InStep(thr[u], thr[t])
          /\ Passed(t) => thr[u].round >= thr[t].round
        BY <1>3, <2>1, LockFacts
    <2>3. thr[u].ithr = u /\ u \in Slices /\ (Passed(u) => thr[t].round >= thr[u].round)
        BY <1>3, <2>1, LockFacts
    <2> QED BY <2>2, <2>3
<1>5. thr[t].round \in Nat /\ thr[u].round \in Nat
    BY <1>4 DEF BThr
<1> DEFINE a == thr[t]
           b == thr[u]
<1>6. CASE a.pc = "copy" /\ b.pc = "copy"
    <2>1. a.round = b.round /\ SameBlock(a, b)
        <3>1. a.round >= b.round /\ b.round >= a.round
            BY <1>4, <1>6 DEF InStep
        <3>2. a.round = b.round
            BY <1>5, <3>1
        <3> QED BY <1>4, <1>6, <3>2 DEF InStep
    <2> DEFINE s == SizeM(a.Bm)
               B == [i \in 0..(nthr_eff - 1) |-> CopiedBand(i, nthr_eff, s)]
    <2>2. SizeM(b.Bm) = s
        BY <2>1 DEF SameBlock
    <2>3. s \in Nat \ {0} /\ nthr_eff \in Nat \ {0}
        <3>1. BFits(t, a) /\ prob.m \in Nat \ {0} /\ nthr_eff \in Nat \ {0}
            BY <1>4, PartsOfABlock DEF BControl, BPlaces
        <3>2. a.Bm \in 0..(prob.m - 1)
            BY <1>4, <1>6, <3>1 DEF BFits, BThr
        <3>3. SizeM(a.Bm) \in 1..(prob.m - a.Bm)
            BY <1>4, <3>2, BlockSizes
        <3> QED BY <3>1, <3>2, <3>3
    <2> HIDE DEF s
    <2>4. Splits(B, nthr_eff, s)
        BY <2>3, BandsSplit
    <2>5. t \in 0..(nthr_eff - 1) /\ u \in 0..(nthr_eff - 1)
        BY <1>4 DEF Slices
    <2>6. B[t] \cap B[u] = {}
        <3> HIDE DEF B
        <3> QED BY <2>4, <2>5 DEF Splits
    <2>7. CopiedBand(t, nthr_eff, s) \cap CopiedBand(u, nthr_eff, s) = {}
        BY <2>5, <2>6
    <2>8. x[2] \in CopiedBand(t, nthr_eff, s) \X {0} /\ x[2] \in CopiedBand(u, nthr_eff, s) \X {0}
        <3>1. x \in OfA(CopiedBand(t, nthr_eff, s)) /\ x \in OfA(CopiedBand(u, nthr_eff, s))
            BY <1>4, <1>6, <2>2 DEF FreesCopy, Multiplies, At, s
        <3> QED BY <3>1, KindsOfPlaces
    <2>9. x[2][1] \in CopiedBand(t, nthr_eff, s) /\ x[2][1] \in CopiedBand(u, nthr_eff, s)
        BY <2>8
    <2> QED BY <2>7, <2>9
<1>7. CASE a.pc = "copy" /\ b.pc = "advance"
    <2>1. FreesCopy(u)
        BY <1>7 DEF At, Multiplies
    <2>2. b.round >= a.round /\ a.round >= b.round
        BY <1>4, <1>7, <2>1 DEF InStep, FreesCopy
    <2>3. NextBlock(b, a)
        BY <1>4, <1>5, <1>7, <2>2 DEF InStep
    <2> QED BY <2>1, <2>3 DEF NextBlock, IsLast, FreesCopy
<1>8. CASE a.pc = "copy" /\ b.pc = "multiply"
    <2>1. b.round >= a.round /\ a.round >= b.round
        BY <1>4, <1>8 DEF InStep, At, FreesCopy, Multiplies
    <2>2. a.round = b.round
        BY <1>5, <2>1
    <2>3. a.round % 2 = 1 /\ b.round % 2 = 0
        BY <1>4, <1>8 DEF InRound
    <2> QED BY <2>2, <2>3
<1>9. CASE a.pc = "advance" /\ b.pc = "copy"
    <2>1. FreesCopy(t)
        BY <1>9 DEF At
    <2>2. b.round >= a.round /\ a.round >= b.round
        BY <1>4, <1>9, <2>1 DEF InStep, FreesCopy
    <2>3. NextBlock(a, b)
        BY <1>4, <1>5, <1>9, <2>2 DEF InStep
    <2> QED BY <2>1, <2>3 DEF NextBlock, IsLast, FreesCopy
<1>10. CASE a.pc = "advance" /\ b.pc = "advance"
    BY <1>4, <1>10 DEF FreesCopy, At, Multiplies
<1>11. CASE a.pc = "advance" /\ b.pc = "multiply"
    <2>1. b.round >= a.round /\ a.round >= b.round
        BY <1>4, <1>11 DEF At, FreesCopy, Multiplies
    <2>2. a.round = b.round
        BY <1>5, <2>1
    <2>3. a.round % 2 = 1 /\ b.round % 2 = 0
        BY <1>4, <1>11 DEF InRound
    <2> QED BY <2>2, <2>3
<1> QED BY <1>1, <1>6, <1>7, <1>8, <1>9, <1>10, <1>11

\* A thread that sums leaves alone what is not computed.
LEMMA AdderWaits ==
    ASSUME BControl, NEW t \in Team, AddsOwn(t) \/ MayAddOther(t), NEW u \in Team, At(u, "compute")
    PROVE  /\ sum_in_region /\ k_summing /\ thr[t].ithr = t /\ t \in Slices /\ thr[u].ithr = u /\ u \in Slices
           /\ Sliced /\ ~thread_arg[u].compute_done
           /\ Done(t, 0)
           /\ MayAddOther(t) => thr[t].ik \in KParts /\ Done(t, thr[t].ik)
<1>1. thr[t].pc \in {"own", "others"} /\ thr[u].pc = "compute"
    BY DEF AddsOwn, MayAddOwn, MayAddOther, At
<1>2. /\ sum_in_region /\ k_summing /\ region = "compute" /\ t \in Slices /\ thr[t].ithr = t /\ Sliced
    BY <1>1, Summer
<1>3. thr[u].ithr = u /\ u \in Slices
    BY <1>1, <1>2, BWorker
<1>4. ~thread_arg[u].compute_done
    BY <1>1, <1>2, <1>3 DEF BControl, BStatus
<1>5. thr[t].pc = "others" => Done(t, 0) /\ thr[t].ik \in KParts
    BY <1>2 DEF BControl, BStatus
<1>6. Done(t, 0)
    BY <1>1, <1>2, <1>5 DEF AddsOwn, MayAddOwn, MayAddOther, At
<1> QED BY <1>2, <1>3, <1>4, <1>5, <1>6 DEF MayAddOther, At

\* C and the slices' own C: who multiplies, computes and adds up.
LEMMA ProductDoesNotRace ==
    ASSUME BControl, NEW t \in Team, NEW u \in Team, t # u, NEW pl,
           thr[t].pc # "done", thr[u].pc # "done"
    PROVE  /\ ~(Multiplies(t) /\ pl \in BlockCells(t) /\ Multiplies(u) /\ pl \in BlockCells(u))
           /\ ~(/\ At(t, "compute") /\ ~(k_summing /\ slice(thr[t].ithr).ithr_k > 0)
                /\ pl \in Cells(thr[t].ithr)
                /\ At(u, "compute") /\ ~(k_summing /\ slice(thr[u].ithr).ithr_k > 0)
                /\ pl \in Cells(thr[u].ithr))
           /\ ~(pl \in SummedCells(thr[t].ithr) /\ pl \in SummedCells(thr[u].ithr))
           /\ ~(/\ AddsOwn(t) \/ MayAddOther(t) \/ At(t, "later")
                /\ pl \in SummedCells(thr[t].ithr)
                /\ At(u, "compute") /\ ~(k_summing /\ slice(thr[u].ithr).ithr_k > 0)
                /\ pl \in Cells(thr[u].ithr))
           /\ ~(/\ Multiplies(t)
                /\ AddsOwn(u) \/ MayAddOther(u) \/ At(u, "later") \/ At(u, "compute"))
           /\ ~(At(t, "compute") /\ MayAddOther(u) /\ OfPart(thr[u].ithr, thr[u].ik) = thr[t].ithr)
           /\ ~(At(t, "compute") /\ At(u, "later"))
<1> DEFINE i == thr[t].ithr
           j == thr[u].ithr
<1>1. /\ i \in Slices /\ j \in Slices /\ i # j /\ Sliced
      /\ BFits(t, thr[t]) /\ BFits(u, thr[u]) /\ region \in {"compute", "later"}
    BY SlicesApart
<1>2. ~(Multiplies(t) /\ pl \in BlockCells(t) /\ Multiplies(u) /\ pl \in BlockCells(u))
    <2> SUFFICES ASSUME Multiplies(t), pl \in BlockCells(t), pl \in BlockCells(u) PROVE FALSE
        OBVIOUS
    <2>1. thread_info.copy = "shared_a"
        BY <1>1 DEF Multiplies, At, BFits
    <2>2. slice(i).n \cap slice(j).n = {}
        BY <1>1, <2>1, SharedSlices
    <2>3. pl[2] \in slice(i).n /\ pl[2] \in slice(j).n
        BY DEF BlockCells
    <2> QED BY <2>2, <2>3
<1>3. ~(/\ At(t, "compute") /\ ~(k_summing /\ slice(i).ithr_k > 0) /\ pl \in Cells(i)
        /\ At(u, "compute") /\ ~(k_summing /\ slice(j).ithr_k > 0) /\ pl \in Cells(j))
    <2> SUFFICES ASSUME ~(k_summing /\ slice(i).ithr_k > 0), pl \in Cells(i),
                        ~(k_summing /\ slice(j).ithr_k > 0), pl \in Cells(j)
                 PROVE  FALSE
        OBVIOUS
    <2>1. slice(i).ithr_k = 0 /\ slice(j).ithr_k = 0
        <3>1. /\ slice(i).ithr_k \in KParts /\ slice(j).ithr_k \in KParts /\ thread_info.nthrs_k \in Nat \ {0}
            BY <1>1, PartsOfABlock
        <3> QED BY <3>1 DEF KParts, k_summing
    <2>2. OfPart(i, slice(j).ithr_k) = j /\ OfPart(i, slice(i).ithr_k) = i
        BY <1>1, PartsOfABlock, BlocksTile
    <2> QED BY <1>1, <2>1, <2>2
<1>4. ~(pl \in SummedCells(i) /\ pl \in SummedCells(j))
    BY <1>1, SummersOfABlock
<1>5. ~(At(u, "compute") /\ At(t, "later")) /\ ~(At(t, "compute") /\ At(u, "later"))
    BY <1>1 DEF BFits, At
<1>6. ~(/\ AddsOwn(t) \/ MayAddOther(t) \/ At(t, "later")
        /\ pl \in SummedCells(i)
        /\ At(u, "compute") /\ ~(k_summing /\ slice(j).ithr_k > 0)
        /\ pl \in Cells(j))
    <2> SUFFICES ASSUME AddsOwn(t) \/ MayAddOther(t), pl \in SummedCells(i), At(u, "compute"),
                        ~(k_summing /\ slice(j).ithr_k > 0), pl \in Cells(j)
                 PROVE  FALSE
        BY <1>5
    <2>1. k_summing /\ i = t /\ j = u /\ ~thread_arg[u].compute_done /\ Done(t, 0)
        BY AdderWaits
    <2>2. slice(j).ithr_k = 0
        <3>1. /\ slice(j).ithr_k \in KParts /\ thread_info.nthrs_k \in Nat \ {0}
            BY <1>1, PartsOfABlock
        <3> QED BY <2>1, <3>1 DEF KParts
    <2>3. pl \in Cells(i)
        BY <1>1, SummersOfABlock
    <2>4. OfPart(i, 0) = j
        BY <1>1, <2>2, <2>3, BlocksTile
    <2> QED BY <2>1, <2>4 DEF Done
<1>7. ~(Multiplies(t) /\ (AddsOwn(u) \/ MayAddOther(u) \/ At(u, "later") \/ At(u, "compute")))
    BY <1>1 DEF BFits, Multiplies, AddsOwn, MayAddOwn, MayAddOther, At
<1>8. ~(At(t, "compute") /\ MayAddOther(u) /\ OfPart(j, thr[u].ik) = i)
    <2> SUFFICES ASSUME At(t, "compute"), MayAddOther(u), OfPart(j, thr[u].ik) = i PROVE FALSE
        OBVIOUS
    <2>1. i = t /\ j = u /\ ~thread_arg[t].compute_done /\ Done(u, thr[u].ik)
        BY AdderWaits
    <2> QED BY <2>1 DEF Done
<1> QED BY <1>2, <1>3, <1>4, <1>5, <1>6, <1>7, <1>8

\* No two threads of the blocked gemm get in each other's way.
LEMMA BlocksDoNotRace ==
    ASSUME BControl, BLock
    PROVE  NoDataRace
<1> SUFFICES ASSUME NEW t \in Team, NEW u \in Team, t # u,
                    NEW x, x \in Writes(t), x \in Writes(u) \cup Reads(u)
             PROVE  x[1] = <<"A", 0>> /\ ~SuitsTeam
    BY DEF NoDataRace
<1> DEFINE i == thr[t].ithr
           j == thr[u].ithr
           CopyT == At(t, "copy") /\ x \in OfA(CopiedBand(i, nthr_eff, SizeM(thr[t].Bm)))
           FreeT == FreesCopy(t) /\ x \in OfA(DOMAIN bufferA)
           MultT == Multiplies(t) /\ x \in OfC(BlockCells(t))
           OwnT == At(t, "compute") /\ k_summing /\ slice(i).ithr_k > 0 /\ x \in OfOwn(i, Cells(i))
           CompT == At(t, "compute") /\ ~(k_summing /\ slice(i).ithr_k > 0) /\ x \in OfC(Cells(i))
           SumT == (AddsOwn(t) \/ MayAddOther(t) \/ At(t, "later")) /\ x \in OfC(SummedCells(i))
           CopyU == At(u, "copy") /\ x \in OfA(CopiedBand(j, nthr_eff, SizeM(thr[u].Bm)))
           FreeU == FreesCopy(u) /\ x \in OfA(DOMAIN bufferA)
           MultU == Multiplies(u) /\ x \in OfC(BlockCells(u))
           OwnU == At(u, "compute") /\ k_summing /\ slice(j).ithr_k > 0 /\ x \in OfOwn(j, Cells(j))
           CompU == At(u, "compute") /\ ~(k_summing /\ slice(j).ithr_k > 0) /\ x \in OfC(Cells(j))
           SumU == (AddsOwn(u) \/ MayAddOther(u) \/ At(u, "later")) /\ x \in OfC(SummedCells(j))
           ReadsA == Multiplies(u) /\ copies_a /\ x \in OfA(Places(0, SizeM(thr[u].Bm)))
           ReadsOwn == AddsOwn(u) /\ x \in OfOwn(j, SummedCells(j))
           ReadsOther == MayAddOther(u) /\ x \in OfOwn(OfPart(j, thr[u].ik), SummedCells(j))
           ReadsLater == /\ At(u, "later")
                         /\ \E ik \in 1..(thread_info.nthrs_k - 1) :
                              x \in OfOwn(OfPart(j, ik), SummedCells(j))
<1>1. CopyT \/ FreeT \/ MultT \/ OwnT \/ CompT \/ SumT
    BY Accesses
<1>2. CopyU \/ FreeU \/ MultU \/ OwnU \/ CompU \/ SumU \/ ReadsA \/ ReadsOwn \/ ReadsOther \/ ReadsLater
    <2>1. CASE x \in Writes(u)
        BY <2>1, Accesses
    <2>2. CASE x \in Reads(u)
        BY <2>2, Accesses
    <2> QED BY <2>1, <2>2
<1>3. thr[t].pc # "done" /\ thr[u].pc # "done"
    <2>1. thr[t].pc # "done"
        BY <1>1 DEF At, FreesCopy, Multiplies, AddsOwn, MayAddOwn, MayAddOther
    <2>2. thr[u].pc # "done"
        BY <1>2 DEF At, FreesCopy, Multiplies, AddsOwn, MayAddOwn, MayAddOther
    <2> QED BY <2>1, <2>2
<1>4. /\ CopyT \/ FreeT => x[1] = <<"A", 0>>
      /\ CopyU \/ FreeU \/ ReadsA => x[1] = <<"A", 0>>
      /\ MultT \/ CompT \/ SumT => x[1] = <<"C", 0>>
      /\ MultU \/ CompU \/ SumU => x[1] = <<"C", 0>>
      /\ OwnT => x[1] = <<"own", i>>
      /\ OwnU \/ ReadsOwn => x[1] = <<"own", j>>
      /\ ReadsOther => x[1] = <<"own", OfPart(j, thr[u].ik)>>
      /\ ReadsLater => \E z : x[1] = <<"own", z>>
    <2>1. (CopyT \/ FreeT => x[1] = <<"A", 0>>) /\ (CopyU \/ FreeU \/ ReadsA => x[1] = <<"A", 0>>)
        BY KindsOfPlaces
    <2>2. (MultT \/ CompT \/ SumT => x[1] = <<"C", 0>>) /\ (MultU \/ CompU \/ SumU => x[1] = <<"C", 0>>)
        BY KindsOfPlaces
    <2>3. (OwnT => x[1] = <<"own", i>>) /\ (OwnU \/ ReadsOwn => x[1] = <<"own", j>>)
          /\ (ReadsOther => x[1] = <<"own", OfPart(j, thr[u].ik)>>)
        BY KindsOfPlaces
    <2>4. ReadsLater => \E z : x[1] = <<"own", z>>
        BY KindsOfPlaces
    <2> QED BY <2>1, <2>2, <2>3, <2>4
<1>5. /\ MultT => x[2] \in BlockCells(t)
      /\ MultU => x[2] \in BlockCells(u)
      /\ CompT => x[2] \in Cells(i)
      /\ CompU => x[2] \in Cells(j)
      /\ SumT => x[2] \in SummedCells(i)
      /\ SumU => x[2] \in SummedCells(j)
    <2>1. (MultT => x[2] \in BlockCells(t)) /\ (MultU => x[2] \in BlockCells(u))
        BY KindsOfPlaces
    <2>2. (CompT => x[2] \in Cells(i)) /\ (CompU => x[2] \in Cells(j))
        BY KindsOfPlaces
    <2>3. (SumT => x[2] \in SummedCells(i)) /\ (SumU => x[2] \in SummedCells(j))
        BY KindsOfPlaces
    <2> QED BY <2>1, <2>2, <2>3
<1>6. \A z, w : <<"A", z>> # <<"C", w>> /\ <<"A", z>> # <<"own", w>> /\ <<"C", z>> # <<"own", w>>
    OBVIOUS
<1>7. \A z, w : <<"own", z>> = <<"own", w>> => z = w
    OBVIOUS
<1>8. CASE CopyT \/ FreeT
    <2>1. CopyU \/ FreeU \/ ReadsA
        BY <1>2, <1>4, <1>6, <1>8
    <2> QED BY <1>4, <1>8, <2>1, CopyDoesNotRace
<1>9. CASE OwnT
    <2>1. i # j
        BY <1>3, SlicesApart
    <2>2. ~(CopyU \/ FreeU \/ ReadsA) /\ ~(MultU \/ CompU \/ SumU) /\ ~(OwnU \/ ReadsOwn)
        BY <1>4, <1>6, <1>7, <1>9, <2>1
    <2>3. ~(At(t, "compute") /\ MayAddOther(u) /\ OfPart(j, thr[u].ik) = i)
          /\ ~(At(t, "compute") /\ At(u, "later"))
        BY <1>3, ProductDoesNotRace
    <2>4. ReadsOther => OfPart(j, thr[u].ik) = i
        BY <1>4, <1>7, <1>9
    <2> QED BY <1>2, <1>9, <2>2, <2>3, <2>4
<1>10. CASE MultT \/ CompT \/ SumT
    <2>1. MultU \/ CompU \/ SumU
        BY <1>2, <1>4, <1>6, <1>10
    <2>2. ~(MultT /\ MultU) /\ ~(CompT /\ CompU) /\ ~(SumT /\ SumU) /\ ~(SumT /\ CompU)
          /\ ~(MultT /\ (CompU \/ SumU))
        <3>1. /\ ~(Multiplies(t) /\ x[2] \in BlockCells(t) /\ Multiplies(u) /\ x[2] \in BlockCells(u))
              /\ ~(/\ At(t, "compute") /\ ~(k_summing /\ slice(i).ithr_k > 0)
                   /\ x[2] \in Cells(i)
                   /\ At(u, "compute") /\ ~(k_summing /\ slice(j).ithr_k > 0)
                   /\ x[2] \in Cells(j))
              /\ ~(x[2] \in SummedCells(i) /\ x[2] \in SummedCells(j))
              /\ ~(/\ AddsOwn(t) \/ MayAddOther(t) \/ At(t, "later")
                   /\ x[2] \in SummedCells(i)
                   /\ At(u, "compute") /\ ~(k_summing /\ slice(j).ithr_k > 0)
                   /\ x[2] \in Cells(j))
              /\ ~(/\ Multiplies(t)
                   /\ AddsOwn(u) \/ MayAddOther(u) \/ At(u, "later") \/ At(u, "compute"))
            BY <1>3, ProductDoesNotRace
        <3> QED BY <1>5, <3>1
    <2>3. ~(SumU /\ CompT) /\ ~(MultU /\ (CompT \/ SumT))
        <3>1. /\ ~(/\ AddsOwn(u) \/ MayAddOther(u) \/ At(u, "later")
                   /\ x[2] \in SummedCells(j)
                   /\ At(t, "compute") /\ ~(k_summing /\ slice(i).ithr_k > 0)
                   /\ x[2] \in Cells(i))
              /\ ~(/\ Multiplies(u)
                   /\ AddsOwn(t) \/ MayAddOther(t) \/ At(t, "later") \/ At(t, "compute"))
            BY <1>3, ProductDoesNotRace
        <3> QED BY <1>5, <3>1
    <2> QED BY <1>10, <2>1, <2>2, <2>3
<1> QED BY <1>1, <1>8, <1>9, <1>10

\* Whatever the product, its division and the threads that the regions get, no two
\* threads race for a place of C, of a buffer or of a slice's own C; nor for the shared
\* copy of A, except where B was packed for another team (SuitsTeam).
THEOREM NobodyEverRaces == DriverSpec => []NobodyRaces
<1>1. BControl /\ BLock => NoDataRace
    BY BlocksDoNotRace
<1>2. KState /\ BControl /\ BLock => NobodyRaces
    BY <1>1, NocopyDoesNotRace DEF NobodyRaces, KState
<1> QED BY <1>2, KStateHolds, ControlHolds, LockHolds, PTL

-----------------------------------------------------------------------------
(* The blocked gemm: what is in the shared copy *)

\* Thread u has copied its rows of its block, and they are still there.
BandIsCopied(u) ==
    \A r \in CopiedBand(u, nthr_eff, SizeM(thr[u].Bm)) : bufferA[r] = <<thr[u].Bm + r, thr[u].Bk>>

\* A thread that has multiplied may find its rows overwritten only when the
\* others have multiplied too.
BCopied ==
    Locked =>
        /\ thr[0].pc # "alloc" /\ shared_mem # "null" => DOMAIN bufferA = 0..(m_padd - 1)
        /\ \A u \in Team :
             \/ thr[u].pc = "multiply"
             \/ thr[u].pc = "advance" /\ \E t \in Team : thr[t].round < thr[u].round
             => BandIsCopied(u)

\* The rows that a thread copies are rows of the copy, and of no other thread.
LEMMA BandFacts ==
    ASSUME BControl, Locked, NEW x \in BThr, x.Bm < prob.m
    PROVE  /\ \A u \in Team : CopiedBand(u, nthr_eff, SizeM(x.Bm)) \subseteq 0..(m_padd - 1)
           /\ \A u, w \in Team : u # w =>
                CopiedBand(u, nthr_eff, SizeM(x.Bm)) \cap CopiedBand(w, nthr_eff, SizeM(x.Bm)) = {}
           /\ \A r \in 0..(SizeM(x.Bm) - 1) : \E u \in Team : r \in CopiedBand(u, nthr_eff, SizeM(x.Bm))
<1>1. /\ Sliced /\ team = nthr_eff /\ nthr_eff \in Nat \ {0} /\ prob.m \in Nat \ {0}
    BY PartsOfABlock DEF BControl, BRegion, Locked
<1>2. x.Bm \in 0..(prob.m - 1)
    BY <1>1 DEF BThr
<1> DEFINE s == SizeM(x.Bm)
           B == [i \in 0..(nthr_eff - 1) |-> CopiedBand(i, nthr_eff, s)]
<1>3. s \in Nat \ {0} /\ s <= m_padd /\ m_padd \in Nat \ {0}
    <2>1. s \in 1..(prob.m - x.Bm) /\ m_padd \in Nat \ {0}
        BY <1>1, <1>2, BlockSizes
    <2>2. s <= m_padd
        BY <1>1, <1>2, <2>1 DEF SizeM, Lesser
    <2> QED BY <1>1, <1>2, <2>1, <2>2
<1> HIDE DEF s
<1>4. Splits(B, nthr_eff, s)
    BY <1>1, <1>3, BandsSplit
<1>5. \A u \in Team : u \in 0..(nthr_eff - 1) /\ B[u] = CopiedBand(u, nthr_eff, s)
    BY <1>1 DEF Team
<1>6. Team = 0..(nthr_eff - 1)
    BY <1>1 DEF Team
<1> HIDE DEF B
<1> DEFINE N == nthr_eff
           pad == m_padd
<1>7. N \in Nat \ {0} /\ pad \in Nat \ {0} /\ s <= pad /\ Team = 0..(N - 1) /\ Splits(B, N, s)
    BY <1>1, <1>3, <1>4, <1>6
<1>8. \A u \in Team : B[u] = CopiedBand(u, N, s)
    BY <1>5
<1> HIDE DEF N, pad
<1>9. ASSUME NEW u \in Team PROVE CopiedBand(u, N, s) \subseteq 0..(pad - 1)
    <2>1. B[u] \subseteq 0..(s - 1)
        BY <1>7 DEF Splits
    <2> QED BY <1>3, <1>7, <1>8, <2>1
<1>10. ASSUME NEW u \in Team, NEW w \in Team, u # w
       PROVE  CopiedBand(u, N, s) \cap CopiedBand(w, N, s) = {}
    <2>1. B[u] \cap B[w] = {}
        BY <1>7, <1>10 DEF Splits
    <2> QED BY <1>8, <2>1
<1>11. ASSUME NEW r \in 0..(s - 1) PROVE \E u \in Team : r \in CopiedBand(u, N, s)
    <2>1. \A y \in 0..(s - 1) : \E i \in 0..(N - 1) : y \in B[i]
        BY <1>7 DEF Splits
    <2>2. PICK i \in 0..(N - 1) : r \in B[i]
        BY <2>1
    <2> QED BY <1>7, <1>8, <2>2
<1> QED BY <1>9, <1>10, <1>11 DEF N, pad, s

\* A thread that has passed the barrier finds all rows of its block.
LEMMA RowsAreCurrent ==
    ASSUME BControl, BLock, BCopied, Locked, NEW t \in Team, Multiplies(t),
           NEW row \in Places(thr[t].Bm, SizeM(thr[t].Bm))
    PROVE  RowIsCurrent(t, row)
<1> DEFINE x == thr[t]
           s == SizeM(x.Bm)
           r == row - x.Bm
<1>1. x.pc = "multiply" /\ Passed(t)
    BY DEF Multiplies, At
<1>2. /\ x \in BThr /\ InRound(x) /\ Sliced
      /\ \A u \in Team \ {t} : /\ thr[u] \in BThr /\ InRound(thr[u])
                               /\ InStep(x, thr[u]) /\ InStep(thr[u], x)
                               /\ thr[u].round >= x.round
    BY <1>1, LockFacts
<1>3. BFits(t, x)
    BY DEF BControl, BPlaces
<1>4. x.Bm < prob.m /\ x.Bm \in Nat
    BY <1>1, <1>2, <1>3 DEF BFits, BThr
<1>5. s \in Nat
    <2>1. prob.m \in Nat
        BY <1>2, PartsOfABlock
    <2>2. SizeM(x.Bm) \in 1..(prob.m - x.Bm)
        <3>1. x.Bm \in 0..(prob.m - 1)
            BY <1>4, <2>1
        <3> QED BY <1>2, <3>1, BlockSizes
    <2> QED BY <1>4, <2>1, <2>2
<1>6. r \in 0..(s - 1) /\ x.Bm + r = row
    <2> DEFINE b == x.Bm
    <2>1. b \in Nat /\ row \in Places(b, s)
        BY <1>4
    <2> HIDE DEF b, s
    <2>2. row - b \in 0..(s - 1) /\ b + (row - b) = row
        BY <1>5, <2>1 DEF Places
    <2> QED BY <2>2 DEF b
<1> HIDE DEF r
<1>7. PICK u \in Team : r \in CopiedBand(u, nthr_eff, s)
    BY <1>2, <1>4, <1>6, BandFacts
<1>8. BandIsCopied(u) /\ SameBlock(x, thr[u])
    <2>1. CASE u = t
        BY <1>1, <2>1 DEF BCopied, SameBlock
    <2>2. CASE u # t
        <3> DEFINE y == thr[u]
        <3>1. /\ y \in BThr /\ InRound(y) /\ InStep(x, y) /\ InStep(y, x) /\ y.round >= x.round
            BY <1>2, <2>2
        <3> HIDE DEF x, y
        <3>2. x.round % 2 = 0 /\ x.round > 1 /\ x.round \in Nat /\ y.round \in Nat
              /\ y.round <= x.round + 1
            BY <1>1, <1>2, <3>1 DEF InRound, InStep, BThr
        <3>3. CASE y.round = x.round
            <4>1. y.pc = "multiply"
                <5>1. y.pc \notin {"copy", "advance", "done"}
                    BY <3>1, <3>2, <3>3 DEF InRound
                <5>2. y.pc \notin {"alloc", "get"}
                    BY <3>1, <3>2, <3>3 DEF InRound
                <5> QED BY <3>1, <5>1, <5>2 DEF InRound
            <4>2. SameBlock(x, y)
                BY <1>1, <3>1, <3>3, <4>1 DEF InStep
            <4> QED BY <4>1, <4>2 DEF BCopied, y
        <3>4. CASE y.round = x.round + 1
            <4>1. y.pc \notin {"copy", "done"}
                BY <3>1, <3>2, <3>4 DEF InStep
            <4>2. y.pc \notin {"alloc", "get"}
                BY <3>1, <3>2, <3>4 DEF InRound
            <4>3. y.pc # "multiply"
                <5>1. (x.round + 1) % 2 = 1
                    BY <3>2
                <5> QED BY <3>1, <3>4, <5>1 DEF InRound
            <4>4. y.pc = "advance"
                BY <3>1, <4>1, <4>2, <4>3 DEF InRound
            <4>5. SameBlock(x, y)
                BY <1>1, <3>1, <3>4, <4>4 DEF InStep
            <4>6. thr[t].round < thr[u].round
                BY <3>2, <3>4 DEF x, y
            <4> QED BY <4>4, <4>5, <4>6 DEF BCopied, y
        <3>5. y.round = x.round \/ y.round = x.round + 1
            BY <3>1, <3>2
        <3> QED BY <3>3, <3>4, <3>5 DEF y
    <2> QED BY <2>1, <2>2
<1>9. bufferA[r] = <<x.Bm + r, x.Bk>>
    BY <1>7, <1>8 DEF BandIsCopied, SameBlock
<1> QED BY <1>6, <1>9 DEF RowIsCurrent, r

\* What a thread keeps as it goes on.
LEMMA GoingOn ==
    ASSUME thr \in [Team -> BThr], NEW t \in Team, NEW pc
    PROVE  /\ Goto(t, pc) => /\ thr'[t].pc = pc /\ thr'[t].round = thr[t].round /\ thr'[t].ithr = thr[t].ithr
                             /\ thr'[t].Bm = thr[t].Bm /\ thr'[t].Bk = thr[t].Bk
                             /\ \A u \in Team \ {t} : thr'[u] = thr[u]
           /\ Meet(t, pc) => /\ thr'[t].pc = pc /\ thr'[t].round = thr[t].round + 1
                             /\ thr'[t].ithr = thr[t].ithr
                             /\ thr'[t].Bm = thr[t].Bm /\ thr'[t].Bk = thr[t].Bk
                             /\ \A u \in Team \ {t} : thr'[u] = thr[u]
<1>1. thr[t] \in BThr
    OBVIOUS
<1>2. ASSUME Goto(t, pc)
      PROVE  /\ thr'[t].pc = pc /\ thr'[t].round = thr[t].round /\ thr'[t].ithr = thr[t].ithr
             /\ thr'[t].Bm = thr[t].Bm /\ thr'[t].Bk = thr[t].Bk
             /\ \A u \in Team \ {t} : thr'[u] = thr[u]
    <2>1. thr'[t] = [thr[t] EXCEPT !.pc = pc] /\ \A u \in Team \ {t} : thr'[u] = thr[u]
        BY <1>2 DEF Goto
    <2> QED BY <1>1, <2>1 DEF BThr
<1>3. ASSUME Meet(t, pc)
      PROVE  /\ thr'[t].pc = pc /\ thr'[t].round = thr[t].round + 1 /\ thr'[t].ithr = thr[t].ithr
             /\ thr'[t].Bm = thr[t].Bm /\ thr'[t].Bk = thr[t].Bk
             /\ \A u \in Team \ {t} : thr'[u] = thr[u]
    <2>1. /\ thr'[t] = [thr[t] EXCEPT !.pc = pc, !.round = thr[t].round + 1]
          /\ \A u \in Team \ {t} : thr'[u] = thr[u]
        BY <1>3 DEF Meet
    <2> QED BY <1>1, <2>1 DEF BThr
<1> QED BY <1>2, <1>3

\* The rows of a thread that stays with its block.
LEMMA CopiedSteps ==
    ASSUME BControl, BCopied, BStays, Locked, NEW t \in Team, thr \in [Team -> BThr],
           UNCHANGED <<prob, region, team, thread_info, bufferA>>,
           shared_mem' = "null" <=> shared_mem = "null", thr[t].pc # "alloc",
           \A u \in Team \ {t} : thr'[u] = thr[u],
           thr'[t].round >= thr[t].round, thr'[t].round \in Nat, thr'[t].pc # "multiply",
           thr'[t].pc = "advance" =>
              thr[t].pc = "multiply" /\ thr'[t].Bm = thr[t].Bm /\ thr'[t].Bk = thr[t].Bk
    PROVE  BCopied'
<1>1. /\ Team' = Team /\ nthr_eff' = nthr_eff /\ m_padd' = m_padd
      /\ \A x : SizeM(x)' = SizeM(x)
    BY DEF BStays
<1>2. ASSUME thr'[0].pc # "alloc", shared_mem' # "null" PROVE DOMAIN bufferA' = 0..(m_padd - 1)
    <2>1. 0 \in Team
        BY DEF BControl, BRegion, Locked, Team
    <2>2. thr[0].pc # "alloc"
        BY <1>2, <2>1
    <2> QED BY <1>2, <2>2 DEF BCopied
<1>3. ASSUME NEW u \in Team,
             \/ thr'[u].pc = "multiply"
             \/ thr'[u].pc = "advance" /\ \E w \in Team : thr'[w].round < thr'[u].round
      PROVE  BandIsCopied(u)'
    <2>1. \A w \in Team : thr[w].round \in Nat
        BY DEF BThr
    <2>2. CASE u = t
        <3>1. thr[u].pc = "multiply" /\ thr'[u].Bm = thr[u].Bm /\ thr'[u].Bk = thr[u].Bk
            BY <1>3, <2>2
        <3>2. BandIsCopied(u)
            BY <3>1 DEF BCopied
        <3> QED BY <1>1, <3>1, <3>2 DEF BandIsCopied
    <2>3. CASE u # t
        <3>1. thr'[u] = thr[u]
            BY <2>3
        <3>2. (\E w \in Team : thr'[w].round < thr'[u].round) => \E w \in Team : thr[w].round < thr[u].round
            <4> SUFFICES ASSUME NEW w \in Team, thr'[w].round < thr[u].round
                         PROVE  thr[w].round < thr[u].round
                BY <3>1
            <4>1. thr'[w].round >= thr[w].round /\ thr'[w].round \in Nat
                BY <2>1
            <4> QED BY <2>1, <4>1
        <3>3. BandIsCopied(u)
            BY <1>3, <3>1, <3>2 DEF BCopied
        <3> QED BY <1>1, <3>1, <3>3 DEF BandIsCopied
    <2> QED BY <2>2, <2>3
<1> QED BY <1>1, <1>2, <1>3 DEF BCopied

\* The first thread allocates while no other has a block.
LEMMA AllocateKeepsCopied ==
    ASSUME BControl, BLock, BCopied, BStays, Locked, NEW t \in Team, Allocate(t)
    PROVE  BCopied'
<1>1. /\ thr[t].pc = "alloc" /\ Meet(t, "get")
      /\ UNCHANGED <<prob, region, team, thread_info>>
    BY DEF Allocate, At, InCall
<1>2. /\ thr \in [Team -> BThr] /\ thr[t] \in BThr /\ InRound(thr[t]) /\ thr[t].ithr = t
      /\ \A u \in Team \ {t} : /\ thr[u] \in BThr /\ InRound(thr[u])
                               /\ InStep(thr[t], thr[u]) /\ InStep(thr[u], thr[t])
    BY <1>1, LockFacts
<1>3. thr'[t].pc = "get" /\ \A u \in Team \ {t} : thr'[u] = thr[u]
    BY <1>1, <1>2, GoingOn
<1>4. ASSUME NEW u \in Team \ {t} PROVE thr[u].pc \in {"alloc", "get"}
    <2> DEFINE x == thr[t]
               y == thr[u]
    <2>1. /\ y \in BThr /\ InRound(y) /\ InStep(x, y) /\ InStep(y, x) /\ InRound(x) /\ x \in BThr
          /\ x.pc = "alloc"
        BY <1>1, <1>2
    <2> HIDE DEF x, y
    <2>2. x.round = 0 /\ y.round \in Nat /\ y.round <= 1
        BY <2>1 DEF InRound, InStep, BThr
    <2>3. y.pc \notin {"multiply", "advance"}
        BY <2>1, <2>2 DEF InRound
    <2>4. y.pc # "done"
        BY <2>1, <2>2 DEF InStep
    <2>5. y.pc # "copy"
        <3>1. y.pc = "copy" => y.round = 0 /\ y.round % 2 = 1
            BY <2>1, <2>2 DEF InStep, InRound
        <3> QED BY <3>1
    <2>6. y.pc \in {"alloc", "get"}
        BY <2>1, <2>3, <2>4, <2>5 DEF InRound
    <2> QED BY <2>6 DEF y
<1>5. Team' = Team /\ m_padd' = m_padd
    BY DEF BStays
<1>6. \A u \in Team : thr'[u].pc \in {"alloc", "get"}
    BY <1>3, <1>4
<1>7. ASSUME thr'[0].pc # "alloc", shared_mem' # "null" PROVE DOMAIN bufferA' = 0..(m_padd - 1)
    <2>1. 0 \in Team
        BY DEF BControl, BRegion, Locked, Team
    <2>2. CASE t = 0
        BY <1>2, <1>7, <2>2 DEF Allocate
    <2>3. CASE t # 0
        <3>1. thr[0].pc # "alloc" /\ shared_mem' = shared_mem /\ bufferA' = bufferA
            BY <1>2, <1>3, <1>7, <2>1, <2>3 DEF Allocate
        <3> QED BY <1>7, <3>1 DEF BCopied
    <2> QED BY <2>2, <2>3
<1> QED BY <1>5, <1>6, <1>7 DEF BCopied

\* A thread copies its rows over those of the last block only when all threads
\* have multiplied with it.
LEMMA CopyKeepsCopied ==
    ASSUME BControl, BLock, BCopied, BStays, Locked, NEW t \in Team, Copy(t)
    PROVE  BCopied'
<1> DEFINE x == thr[t]
           Band(u) == CopiedBand(u, nthr_eff, SizeM(x.Bm))
<1>1. /\ x.pc = "copy" /\ Meet(t, "multiply") /\ shared_mem' = shared_mem
      /\ bufferA' = [r \in DOMAIN bufferA |->
                       IF r \in CopiedBand(x.ithr, nthr_eff, SizeM(x.Bm))
                       THEN <<x.Bm + r, x.Bk>> ELSE bufferA[r]]
    BY DEF Copy, At, InCall
<1>2. /\ thr \in [Team -> BThr] /\ x \in BThr /\ InRound(x) /\ x.ithr = t /\ Sliced
      /\ \A u \in Team \ {t} : /\ thr[u] \in BThr /\ InRound(thr[u])
                               /\ InStep(x, thr[u]) /\ InStep(thr[u], x)
    BY <1>1, LockFacts
<1>3. /\ thr'[t].pc = "multiply" /\ thr'[t].round = x.round + 1
      /\ thr'[t].Bm = x.Bm /\ thr'[t].Bk = x.Bk
      /\ \A u \in Team \ {t} : thr'[u] = thr[u]
    BY <1>1, <1>2, GoingOn
<1>4. x.Bm < prob.m
    <2>1. BFits(t, x)
        BY DEF BControl, BPlaces
    <2> QED BY <1>1, <2>1 DEF BFits
<1>5. /\ \A u \in Team : Band(u) \subseteq 0..(m_padd - 1)
      /\ \A u, w \in Team : u # w => Band(u) \cap Band(w) = {}
    BY <1>2, <1>4, BandFacts
<1>6. DOMAIN bufferA = 0..(m_padd - 1)
    <2>1. 0 \in Team
        BY DEF BControl, BRegion, Locked, Team
    <2>2. thr[0].pc # "alloc"
        <3>1. CASE t = 0
            BY <1>1, <3>1
        <3>2. CASE t # 0
            <4> DEFINE y == thr[0]
            <4>1. InStep(x, y) /\ InRound(y) /\ InRound(x) /\ x \in BThr /\ y \in BThr /\ x.pc = "copy"
                BY <1>1, <1>2, <2>1, <3>2
            <4> HIDE DEF x, y
            <4>2. y.pc # "alloc"
                BY <4>1 DEF InStep, InRound, BThr
            <4> QED BY <4>2 DEF y
        <3> QED BY <3>1, <3>2
    <2>3. shared_mem # "null"
        BY <1>1, <1>2 DEF InRound
    <2> QED BY <2>2, <2>3 DEF BCopied
<1>7. /\ Team' = Team /\ nthr_eff' = nthr_eff /\ m_padd' = m_padd
      /\ \A z : SizeM(z)' = SizeM(z)
    BY DEF BStays
<1>8. bufferA' = [r \in 0..(m_padd - 1) |-> IF r \in Band(t) THEN <<x.Bm + r, x.Bk>> ELSE bufferA[r]]
    BY <1>1, <1>2, <1>6
<1> HIDE DEF x
<1>9. BandIsCopied(t)'
    BY <1>3, <1>5, <1>7, <1>8 DEF BandIsCopied
<1>10. ASSUME NEW u \in Team \ {t},
              \/ thr[u].pc = "multiply"
              \/ thr[u].pc = "advance" /\ \E w \in Team : thr'[w].round < thr[u].round
       PROVE  BandIsCopied(u)'
    <2> DEFINE y == thr[u]
    <2>1. /\ y \in BThr /\ InRound(y) /\ InStep(x, y) /\ InStep(y, x)
          /\ x.round \in Nat /\ y.round \in Nat
        BY <1>2 DEF BThr
    <2>2. y.pc # "advance"
        <3> SUFFICES ASSUME y.pc = "advance", NEW w \in Team, thr'[w].round < y.round PROVE FALSE
            BY <1>10
        <3>1. y.round % 2 = 1 /\ x.round % 2 = 1 /\ x.round <= y.round /\ y.round <= x.round + 1
            BY <1>1, <1>2, <2>1 DEF InRound, InStep
        <3>2. y.round = x.round
            BY <2>1, <3>1
        <3>3. CASE w = t
            BY <1>3, <2>1, <3>2, <3>3
        <3>4. CASE w # t
            <4>1. thr'[w] = thr[w] /\ InStep(x, thr[w]) /\ thr[w] \in BThr
                BY <1>2, <1>3, <3>4
            <4>2. thr[w].round >= x.round /\ thr[w].round \in Nat
                BY <1>1, <4>1 DEF InStep, BThr
            <4> QED BY <2>1, <3>2, <4>1, <4>2
        <3> QED BY <3>3, <3>4
    <2>3. y.pc = "multiply" /\ SameBlock(x, y)
        BY <1>1, <1>10, <2>1, <2>2 DEF InStep
    <2>4. BandIsCopied(u)
        BY <2>3 DEF BCopied
    <2>5. \A r \in Band(u) : bufferA'[r] = bufferA[r]
        BY <1>5, <1>8
    <2>6. thr'[u] = thr[u] /\ SizeM(thr[u].Bm) = SizeM(x.Bm)
        BY <1>3, <2>3 DEF SameBlock
    <2> QED BY <1>7, <2>4, <2>5, <2>6 DEF BandIsCopied
<1>11. ASSUME NEW u \in Team,
              \/ thr'[u].pc = "multiply"
              \/ thr'[u].pc = "advance" /\ \E w \in Team : thr'[w].round < thr'[u].round
       PROVE  BandIsCopied(u)'
    BY <1>3, <1>9, <1>10, <1>11
<1>12. DOMAIN bufferA' = 0..(m_padd - 1)
    BY <1>8
<1> QED BY <1>7, <1>11, <1>12 DEF BCopied

\* The other steps leave the copy alone.
LEMMA OthersKeepCopied ==
    ASSUME BControl, BLock, BCopied, BStays, Locked, NEW t \in Team,
           GetMemory(t) \/ Multiply(t) \/ MultiplyFails(t) \/ Advance(t)
    PROVE  BCopied'
<1>1. /\ thr[t].pc \in {"get", "multiply", "advance"}
      /\ UNCHANGED <<prob, region, team, thread_info, bufferA>>
    BY Zenon DEF GetMemory, Multiply, Multiplies, MultiplyFails, Advance, At, InCall
<1>2. /\ thr \in [Team -> BThr] /\ thr[t] \in BThr /\ InRound(thr[t]) /\ thr[t].round \in Nat
    BY LockFacts DEF BThr
<1>3. ASSUME NextSlice(t)
      PROVE  /\ \A u \in Team \ {t} : thr'[u] = thr[u]
             /\ thr'[t].pc = "done" /\ thr'[t].round = thr[t].round
    <2> DEFINE z == Take(thread_info, thr[t].ithr + team, thr[t].round)
    <2>1. thr' = [thr EXCEPT ![t] = z]
        BY <1>3 DEF NextSlice
    <2>2. z.pc = "done" /\ z.round = thr[t].round
        <3>1. thr[t].pc # "done"
            BY <1>1
        <3> QED BY <3>1, NothingIsLeft
    <2> HIDE DEF z
    <2> QED BY <1>2, <2>1, <2>2
<1>4. CASE GetMemory(t)
    <2>1. shared_mem' = shared_mem /\ (NextSlice(t) \/ Goto(t, "copy"))
        BY <1>4 DEF GetMemory
    <2>2. /\ \A u \in Team \ {t} : thr'[u] = thr[u]
          /\ thr'[t].pc \in {"done", "copy"} /\ thr'[t].round = thr[t].round
        BY <1>2, <1>3, <2>1, GoingOn
    <2> QED BY <1>1, <1>2, <2>1, <2>2, CopiedSteps
<1>5. CASE Multiply(t) \/ MultiplyFails(t)
    <2>1. shared_mem' = shared_mem /\ Meet(t, "advance") /\ thr[t].pc = "multiply"
        BY <1>5 DEF Multiply, MultiplyFails, Multiplies, At, AfterMultiply, Locked
    <2>2. /\ \A u \in Team \ {t} : thr'[u] = thr[u]
          /\ thr'[t].pc = "advance" /\ thr'[t].round = thr[t].round + 1
          /\ thr'[t].Bm = thr[t].Bm /\ thr'[t].Bk = thr[t].Bk
        BY <1>2, <2>1, GoingOn
    <2> QED BY <1>1, <1>2, <2>1, <2>2, CopiedSteps
<1>6. CASE Advance(t)
    <2> DEFINE Bm == thr[t].Bm + SizeM(thr[t].Bm)
               Bk == thr[t].Bk + SizeK(thr[t].Bk)
               pc == IF copies_a THEN "copy" ELSE "multiply"
               over == Bm >= prob.m /\ Bk >= prob.k
    <2>1. /\ \/ thr' = [thr EXCEPT ![t].pc = pc, ![t].Bm = Bm]
             \/ thr' = [thr EXCEPT ![t].pc = pc, ![t].Bm = 0, ![t].Bk = Bk]
             \/ NextSlice(t)
          /\ shared_mem' = IF over /\ copies_a /\ thr[t].ithr = 0 THEN "freed" ELSE shared_mem
          /\ thr[t].pc = "advance"
        BY <1>6, Zenon DEF Advance, At
    <2>2. pc = "copy"
        BY DEF Locked
    <2>3. shared_mem # "null" /\ shared_mem' # "null"
        BY <1>2, <2>1 DEF InRound
    <2> HIDE DEF Bm, Bk, pc
    <2>4. CASE thr' = [thr EXCEPT ![t].pc = pc, ![t].Bm = Bm]
        <3>1. thr'[t] = [thr[t] EXCEPT !.pc = pc, !.Bm = Bm] /\ \A u \in Team \ {t} : thr'[u] = thr[u]
            BY <1>2, <2>4
        <3>2. thr'[t].pc = "copy" /\ thr'[t].round = thr[t].round
            BY <1>2, <2>2, <3>1 DEF BThr
        <3>3. \A u \in Team \ {t} : thr'[u] = thr[u]
            BY <3>1
        <3> QED BY <1>1, <1>2, <2>1, <2>3, <3>2, <3>3, CopiedSteps
    <2>5. CASE thr' = [thr EXCEPT ![t].pc = pc, ![t].Bm = 0, ![t].Bk = Bk]
        <3>1. thr'[t] = [thr[t] EXCEPT !.pc = pc, !.Bm = 0, !.Bk = Bk]
              /\ \A u \in Team \ {t} : thr'[u] = thr[u]
            BY <1>2, <2>5
        <3>2. thr'[t].pc = "copy" /\ thr'[t].round = thr[t].round
            BY <1>2, <2>2, <3>1 DEF BThr
        <3>3. \A u \in Team \ {t} : thr'[u] = thr[u]
            BY <3>1
        <3> QED BY <1>1, <1>2, <2>1, <2>3, <3>2, <3>3, CopiedSteps
    <2>6. CASE NextSlice(t)
        <3>1. /\ \A u \in Team \ {t} : thr'[u] = thr[u]
              /\ thr'[t].pc = "done" /\ thr'[t].round = thr[t].round
            BY <1>3, <2>6
        <3> QED BY <1>1, <1>2, <2>1, <2>3, <3>1, CopiedSteps
    <2> QED BY <2>1, <2>4, <2>5, <2>6
<1> QED BY <1>4, <1>5, <1>6

\* Before the first copy there is nothing to say of it.
LEMMA CallMakesCopied ==
    ASSUME BControl, ~Diverted, Call
    PROVE  BCopied'
<1>1. BControl' /\ \A t \in Team' : thr'[t] = Take(thread_info', t, 0)
    BY CallMakesControl
<1> SUFFICES ASSUME Locked' PROVE thr'[0].pc = "alloc" /\ \A u \in Team' : thr'[u].pc = "alloc"
    BY DEF BCopied
<1>2. prob' = prob
    BY DEF Call
<1>3. /\ team' = nthr_eff' /\ thread_info'.copy = "shared_a" /\ prob.packed # "a"
      /\ team' \in Nat /\ team' # 0
    BY <1>1, <1>2 DEF Locked, copies_a, BControl, BRegion
<1>4. ASSUME NEW t \in Team' PROVE thr'[t].pc = "alloc"
    <2>1. PICK w \in Nat : w = team'
        BY <1>3
    <2>2. t \in 0..(w - 1) /\ nthrs(thread_info') = w
        BY <1>3, <2>1 DEF Team, nthr_eff
    <2>3. t \in Nat /\ t < nthrs(thread_info') /\ nthrs(thread_info') \in Nat /\ 0 \in Nat
        BY <2>2
    <2>4. LET r == Take(thread_info', t, 0) IN r.pc = "alloc"
        BY <1>3, <2>3, TakeFacts
    <2> QED BY <1>1, <2>4
<1>5. 0 \in Team'
    <2>1. PICK w \in Nat \ {0} : w = team'
        BY <1>3
    <2>2. 0 \in 0..(w - 1)
        OBVIOUS
    <2> QED BY <2>1, <2>2 DEF Team
<1> QED BY <1>4, <1>5

\* Nothing happens to the copy.
LEMMA StutterKeepsCopied ==
    ASSUME BControl, BCopied, UNCHANGED vars PROVE BCopied'
<1>1. BStays
    BY StutterKeepsControl
<1>2. /\ (Locked' <=> Locked) /\ Team' = Team /\ thr' = thr /\ shared_mem' = shared_mem
      /\ bufferA' = bufferA /\ m_padd' = m_padd /\ nthr_eff' = nthr_eff
      /\ \A x : SizeM(x)' = SizeM(x)
    BY <1>1 DEF Locked, vars, BStays
<1>3. \A u : BandIsCopied(u)' <=> BandIsCopied(u)
    BY <1>2 DEF BandIsCopied
<1> QED BY <1>2, <1>3 DEF BCopied

\* The shared copy has what the threads take it for.
LEMMA CopiedHolds == DriverSpec => []BCopied
<1>1. DriverInit => BCopied
    BY DEF DriverInit, Init, Idle, BCopied, Locked
<1>2. BControl /\ BLock /\ BCopied /\ [DriverNext]_driver_vars => BCopied'
    <2> SUFFICES ASSUME BControl, BLock, BCopied, [DriverNext]_driver_vars PROVE BCopied'
        OBVIOUS
    <2>1. CASE UNCHANGED vars
        BY <2>1, StutterKeepsCopied
    <2>2. CASE ~Diverted /\ Next
        <3>1. ASSUME NEW t \in Team, Step(t) PROVE BCopied'
            <4>1. CASE \/ Allocate(t) \/ GetMemory(t) \/ Copy(t) \/ Multiply(t) \/ MultiplyFails(t)
                       \/ Advance(t)
                <5>1. BStays /\ UNCHANGED <<region, team>>
                    BY <4>1, SharedKeepsControl DEF BMoves
                <5>2. Locked' => Locked
                    BY <5>1 DEF Locked, BStays
                <5>3. CASE Locked
                    BY <4>1, <5>1, <5>3, AllocateKeepsCopied, CopyKeepsCopied, OthersKeepCopied
                <5>4. CASE ~Locked
                    BY <5>2, <5>4 DEF BCopied
                <5> QED BY <5>3, <5>4
            <4>2. CASE \/ Compute(t) \/ ComputeFails(t) \/ Publish(t) \/ AddOwn(t) \/ AddOther(t)
                       \/ SumLater(t)
                <5>1. /\ thr[t].pc \in {"compute", "publish", "own", "others", "later"}
                      /\ UNCHANGED <<prob, region, team, thread_info>>
                    BY <4>2, Zenon DEF Compute, ComputeFails, Publish, AddOwn, AddOther, MayAddOwn,
                        MayAddOther, SumLater, At, InCall
                <5>2. ~Locked
                    BY <5>1, LockFacts DEF InRound
                <5>3. BStays
                    BY <4>2, ComputeKeepsControl, PublishKeepsControl, AddKeepsControl, SumLaterKeepsControl
                <5>4. ~Locked'
                    BY <5>1, <5>2, <5>3 DEF Locked, BStays
                <5> QED BY <5>4 DEF BCopied
            <4>3. CASE Spin(t)
                BY <4>3, StutterKeepsCopied DEF Spin
            <4> QED BY <3>1, <4>1, <4>2, <4>3 DEF Step
        <3>2. CASE CallAlone \/ EndCompute \/ BeginLater \/ EndLater \/ Return
            <4>1. region' # "compute"
                BY <3>2 DEF CallAlone, EndCompute, BeginLater, EndLater, Return
            <4> QED BY <4>1 DEF BCopied, Locked
        <3> QED BY <2>2, <3>1, <3>2, CallMakesCopied DEF Next
    <2> QED BY <2>1, <2>2 DEF DriverNext, driver_vars
<1> QED BY <1>1, <1>2, ControlHolds, LockHolds, PTL DEF DriverSpec

-----------------------------------------------------------------------------
(* The blocked gemm: what has been summed in every place of C *)

\* The thread that takes up a slice; behind it once its number is greater.
Taker(i) == thr[i % team]

\* A part of k with a C of its own, and one that has been computed.
IsOwn(i) == k_summing /\ slice(i).ithr_k > 0
PartIsRight(i) == \A pl \in Cells(i) : (IF IsOwn(i) THEN c_local[i][pl] ELSE c[pl]) = slice(i).k

\* The places of k in some parts of a block.
KOf(i, P) == {x \in 0..(prob.k - 1) : \E z \in P : x \in slice(OfPart(i, z)).k}

\* The places of a slice have the whole product.
IsWhole(i) == \A pl \in Cells(i) : c[pl] = 0..(prob.k - 1)

\* C, and the buffers of the parts, have all the places of the product.
BShape ==
    /\ region # "out" => DOMAIN c = DOMAIN NewC
    /\ region \in {"compute", "between", "later"} /\ k_summing =>
         /\ c_local = [i \in Slices |-> c_local[i]]
         /\ \A i \in Slices : DOMAIN c_local[i] = DOMAIN NewC

\* Rows that a thread has multiplied with the block of k that it has come to,
\* and what is in its places of C.
IsBehind(x, row) == row < x.Bm \/ (x.pc = "advance" /\ row < x.Bm + SizeM(x.Bm))
IsMultiplied(x) ==
    x.pc \in {"copy", "multiply", "advance"} =>
        \A pl \in Cells(x.ithr) :
            /\ IsBehind(x, pl[1]) => c[pl] = 0..((x.Bk + SizeK(x.Bk)) - 1)
            /\ ~IsBehind(x, pl[1]) /\ x.Bk > 0 => c[pl] = 0..(x.Bk - 1)

\* With a shared copy of A: the blocks behind a thread are in C.
BMultiplied ==
    /\ \A t \in Team : IsMultiplied(thr[t])
    /\ \A i \in Slices : Taker(i).ithr > i => IsWhole(i)

\* With no part added inside the region: the slices behind a thread are computed.
BComputed == \A i \in Slices : Taker(i).ithr > i => PartIsRight(i)

\* The parts that a thread has added up in its places.
Added(x, i) ==
    CASE x.pc = "done" -> KParts
      [] x.pc = "others" -> {0, slice(i).ithr_k} \cup 1..(x.ik - 1)
      [] OTHER -> {0}

\* The places that a slice sums have the parts in P, and no more.
SummedAs(i, P) == \A pl \in SummedCells(i) : c[pl] = KOf(i, P)

\* With parts added inside the region: what a thread has added is in its places.
BSummed ==
    \A i \in Slices :
        /\ thr[i].pc # "compute" /\ IsOwn(i) => PartIsRight(i)
        /\ thr[OfPart(i, 0)].pc # "compute" => SummedAs(i, Added(thr[i], i))

\* Between the regions every part is computed.
BBetween == \A i \in Slices : PartIsRight(i)

\* In the second region: the slices behind a thread are summed, the others not yet.
BLater ==
    \A i \in Slices :
        /\ IsOwn(i) => PartIsRight(i)
        /\ SummedAs(i, IF Taker(i).ithr > i THEN KParts ELSE {0})

\* The invariant of the values, in a call that has not failed.
BValues ==
    Succeeded /\ SuitsTeam =>
        /\ BShape
        /\ region = "compute" /\ thread_info.copy = "shared_a" => BMultiplied
        /\ region = "compute" /\ thread_info.copy # "shared_a" /\ ~sum_in_region => BComputed
        /\ region = "compute" /\ sum_in_region => BSummed
        /\ region = "between" => BBetween
        /\ region = "later" => BLater
        /\ region = "returned" => Complete

-----------------------------------------------------------------------------
(* Turns, and threads that report *)

\* Which slices are behind, once a thread goes on to its next one.
LEMMA BehindFacts ==
    ASSUME BControl, NEW t \in Team, thr[t].pc # "done", NEW i \in Slices
    PROVE  /\ i % team \in Team /\ Taker(i) \in BThr
           /\ i % team = t => (thr[t].ithr + team > i <=> (thr[t].ithr > i \/ i = thr[t].ithr))
           /\ i % team # t => i # thr[t].ithr
<1>1. /\ team \in Nat \ {0} /\ thr[t].ithr \in Slices /\ thr[t].ithr % team = t /\ nthr_eff \in Nat \ {0}
      /\ thr \in [Team -> BThr]
    BY BWorker
<1>2. i \in Nat /\ thr[t].ithr \in Nat
    BY <1>1 DEF Slices
<1>3. i % team \in Team
    <2>1. i % team \in 0..(team - 1)
        BY <1>1, <1>2, DivisionFacts
    <2> QED BY <2>1 DEF Team
<1>4. ASSUME i % team = t PROVE thr[t].ithr + team > i <=> (thr[t].ithr > i \/ i = thr[t].ithr)
    <2> DEFINE x == thr[t].ithr
    <2>1. x \in Nat /\ x % team = i % team
        BY <1>1, <1>2, <1>4
    <2> HIDE DEF x
    <2>2. x < i => x + team <= i
        BY <1>1, <1>2, <2>1, TurnsApart
    <2>3. x + team > i <=> (x > i \/ i = x)
        BY <1>1, <1>2, <2>1, <2>2
    <2> QED BY <2>3 DEF x
<1> QED BY <1>1, <1>3, <1>4 DEF Taker

\* A thread that reports a failure; the call has failed from then on.
LEMMA ReportedFails ==
    ASSUME BControl, NEW t \in Team, thr[t].pc # "done", Reported(t)
    PROVE  ~Succeeded'
<1>1. thread_arg \in [Slices -> BArg] /\ thr[t].ithr \in Slices
    BY BWorker
<1>2. \A a \in BArg : [a EXCEPT !.result = "out_of_memory"].result = "out_of_memory"
    BY DEF BArg
<1>3. /\ thread_arg' = [thread_arg EXCEPT ![thr[t].ithr] = [@ EXCEPT !.result = "out_of_memory"]]
      /\ thr[t].ithr \in DOMAIN thread_arg'
    BY <1>1 DEF Reported
<1>4. thread_arg'[thr[t].ithr].result = "out_of_memory"
    BY <1>1, <1>2, <1>3
<1> QED BY <1>3, <1>4 DEF Succeeded

\* A failure is never forgotten: when no slice failed after a step, none had before it.
LEMMA SucceededBefore ==
    ASSUME BControl, NEW t \in Team, thr[t].pc # "done", NEW r, BMoves(t, r), Succeeded'
    PROVE  Succeeded
<1>1. thread_arg \in [Slices -> BArg] /\ thr[t].ithr \in Slices
    BY BWorker
<1>2. \A a \in BArg : [a EXCEPT !.compute_done = TRUE].result = a.result
    BY DEF BArg
<1>3. CASE thread_arg' = thread_arg
    BY <1>3 DEF Succeeded
<1>4. CASE thread_arg' = [thread_arg EXCEPT ![thr[t].ithr].result = "out_of_memory"]
    BY <1>4, ReportedFails DEF Reported
<1>5. CASE thread_arg' = [thread_arg EXCEPT ![thr[t].ithr].compute_done = TRUE]
    <2>1. \A i \in Slices : thread_arg'[i].result = thread_arg[i].result
        BY <1>1, <1>2, <1>5
    <2>2. DOMAIN thread_arg' = Slices /\ DOMAIN thread_arg = Slices
        BY <1>1, <1>5
    <2> QED BY <2>1, <2>2 DEF Succeeded
<1> QED BY <1>3, <1>4, <1>5 DEF BMoves

\* One thread goes on; the slices behind it are those that were, and the one it
\* leaves if it leaves it.
LEMMA TurnsGoOn ==
    ASSUME BControl, BStays, NEW t \in Team, thr[t].pc # "done", NEW r \in BThr, team' = team,
           thr' = [thr EXCEPT ![t] = r], r.ithr = thr[t].ithr \/ r.ithr = thr[t].ithr + team,
           NEW i \in Slices, Taker(i)'.ithr > i
    PROVE  \/ Taker(i).ithr > i
           \/ i = thr[t].ithr /\ r.ithr = thr[t].ithr + team
<1>1. thr \in [Team -> BThr] /\ i % team \in Team
    BY BWorker, BehindFacts
<1>2. Taker(i)' = IF i % team = t THEN r ELSE Taker(i)
    BY <1>1 DEF Taker
<1>3. CASE i % team = t
    BY <1>2, <1>3, BehindFacts DEF Taker
<1>4. CASE i % team # t
    BY <1>2, <1>4
<1> QED BY <1>3, <1>4

\* The slices of threads that share a copy are different columns.
LEMMA SharedCells ==
    ASSUME Sliced, thread_info.copy = "shared_a"
    PROVE  /\ \A i, j \in Slices : i # j => Cells(i) \cap Cells(j) = {}
           /\ \A i \in Slices : \A pl \in Cells(i) :
                /\ pl = <<pl[1], pl[2]>> /\ pl[1] \in 0..(prob.m - 1) /\ pl[2] \in slice(i).n
                /\ pl \in DOMAIN NewC
<1>1. ASSUME NEW i \in Slices, NEW pl \in Cells(i)
      PROVE  /\ pl = <<pl[1], pl[2]>> /\ pl[1] \in 0..(prob.m - 1) /\ pl[2] \in slice(i).n
             /\ pl \in DOMAIN NewC
    <2>1. slice(i).m = 0..(prob.m - 1) /\ pl \in slice(i).m \X slice(i).n
        BY <1>1, SharedSlices DEF Cells
    <2>2. pl \in DOMAIN NewC
        BY <1>1, BlocksTile
    <2> QED BY <2>1, <2>2
<1>2. ASSUME NEW i \in Slices, NEW j \in Slices, i # j PROVE Cells(i) \cap Cells(j) = {}
    <2>1. slice(i).n \cap slice(j).n = {}
        BY <1>2, SharedSlices
    <2> QED BY <1>1, <2>1
<1> QED BY <1>1, <1>2

\* A step of a thread in a region whose threads share a copy keeps what they
\* have multiplied, if it is right for the thread itself.
LEMMA MultipliedSteps ==
    ASSUME BControl, BStays, BMultiplied, thread_info.copy = "shared_a", NEW t \in Team, thr[t].pc # "done",
           NEW w \in Slices, w = thr[t].ithr, NEW r \in BThr, UNCHANGED <<prob, team, thread_info>>, thr' = [thr EXCEPT ![t] = r],
           \A j \in Slices : j # w => \A pl \in Cells(j) : c'[pl] = c[pl],
           IsMultiplied(r)',
           \/ r.ithr = w
           \/ r.ithr = w + team /\ IsWhole(w)'
    PROVE  BMultiplied'
<1>1. /\ thr \in [Team -> BThr] /\ thr[t].ithr \in Slices /\ thr[t].ithr % team = t /\ Sliced
      /\ Team' = Team /\ Slices' = Slices
    BY BWorker DEF BStays
<1>2. ASSUME NEW u \in Team PROVE IsMultiplied(thr[u])'
    <2>1. CASE u = t
        <3>1. thr'[u] = r
            BY <1>1, <2>1
        <3> QED BY <3>1 DEF IsMultiplied, IsBehind
    <2>2. CASE u # t
        <3>1. PICK y \in BThr : y = thr[u] /\ y = thr'[u]
            BY <1>1, <2>2
        <3>2. CASE y.pc \in {"copy", "multiply", "advance"}
            <4>1. thr[u].ithr \in Slices /\ thr[u].ithr % team = u
                BY <3>1, <3>2, BWorker
            <4>2. y.ithr \in Slices /\ y.ithr # w
                BY <1>1, <2>2, <3>1, <4>1
            <4>3. /\ Cells(y.ithr)' = Cells(y.ithr)
                  /\ SizeK(y.Bk)' = SizeK(y.Bk)
                  /\ \A row : IsBehind(y, row)' <=> IsBehind(y, row)
                BY <4>2 DEF IsBehind, BStays
            <4>4. IsMultiplied(y)
                BY <3>1 DEF BMultiplied
            <4>5. \A pl \in Cells(y.ithr) : c'[pl] = c[pl]
                BY <4>2
            <4>6. IsMultiplied(y)'
                BY <4>3, <4>4, <4>5 DEF IsMultiplied
            <4> QED BY <3>1, <4>6
        <3>3. CASE y.pc \notin {"copy", "multiply", "advance"}
            BY <3>1, <3>3 DEF IsMultiplied
        <3> QED BY <3>2, <3>3
    <2> QED BY <2>1, <2>2
<1>3. ASSUME NEW i \in Slices, Taker(i)'.ithr > i PROVE IsWhole(i)'
    <2>1. \/ Taker(i).ithr > i
          \/ i = w /\ r.ithr = w + team
        BY <1>3, TurnsGoOn
    <2>2. CASE i = w /\ r.ithr = w + team
        <3>1. team \in Nat \ {0} /\ thr[t].ithr \in Nat
            BY <1>1, BWorker DEF Slices
        <3>2. r.ithr # w
            BY <2>2, <3>1
        <3> QED BY <2>2, <3>2
    <2>3. CASE i # w /\ Taker(i).ithr > i
        <3>1. \A pl \in Cells(i) : c'[pl] = c[pl]
            BY <2>3
        <3>2. IsWhole(i) /\ Cells(i)' = Cells(i) /\ prob' = prob
            BY <2>3 DEF BMultiplied, BStays
        <3> QED BY <3>1, <3>2 DEF IsWhole
    <2>4. CASE i = w /\ Taker(i).ithr > i
        <3>1. Taker(i) = thr[t]
            BY <1>1, <2>4 DEF Taker
        <3>2. thr[t].ithr \in Nat
            BY <1>1, BWorker DEF Slices
        <3> QED BY <2>4, <3>1, <3>2
    <2> QED BY <2>1, <2>2, <2>3, <2>4
<1> QED BY <1>1, <1>2, <1>3 DEF BMultiplied

\* The next places of k on top of those before them.
LEMMA AddPlaces ==
    ASSUME NEW b \in Nat, NEW d \in Nat
    PROVE  Add(0..(b - 1), Places(b, d)) = 0..((b + d) - 1)
<1>1. (0..(b - 1)) \cap Places(b, d) = {}
    BY DEF Places
<1>2. (0..(b - 1)) \cup Places(b, d) = 0..((b + d) - 1)
    BY DEF Places
<1> QED BY <1>1, <1>2 DEF Add

\* What the kernel does to the places of its thread's slice and to the others.
LEMMA MultipliedFacts ==
    ASSUME BControl, BLock, BCopied, SuitsTeam, BShape, thread_info.copy = "shared_a", NEW t \in Team,
           Multiplies(t), NEW x \in BThr, x = thr[t], NEW s \in Nat, s = SizeM(x.Bm),
           NEW d \in Nat, d = SizeK(x.Bk)
    PROVE  LET new == Multiplied(t)
           IN  /\ x.ithr \in Slices /\ DOMAIN new = DOMAIN c
               /\ \A j \in Slices : j # x.ithr => \A pl \in Cells(j) : new[pl] = c[pl]
               /\ \A pl \in Cells(x.ithr) :
                    /\ pl[1] < x.Bm \/ pl[1] >= x.Bm + s => new[pl] = c[pl]
                    /\ pl[1] >= x.Bm /\ pl[1] < x.Bm + s =>
                         new[pl] = IF x.Bk = 0 THEN Places(x.Bk, d) ELSE Add(c[pl], Places(x.Bk, d))
<1>1. /\ x.pc = "multiply" /\ region = "compute" /\ Sliced /\ x.ithr \in Slices
    <2>1. x.pc = "multiply"
        BY DEF Multiplies, At
    <2>2. /\ region \in {"compute", "later"} /\ Sliced /\ thr[t].ithr \in Slices /\ BFits(t, x)
        BY <2>1, BWorker
    <2> QED BY <2>1, <2>2 DEF BFits
<1>2. DOMAIN c = DOMAIN NewC
    BY <1>1 DEF BShape
<1>3. x.Bm \in Nat /\ x.Bm < prob.m /\ prob.m \in Nat /\ s <= prob.m - x.Bm
    <2>1. BFits(t, x)
        BY DEF BControl, BPlaces
    <2>2. x.Bm \in Nat /\ x.Bm < prob.m /\ prob.m \in Nat
        BY <1>1, <2>1, PartsOfABlock DEF BFits, BThr
    <2>3. x.Bm \in 0..(prob.m - 1)
        BY <2>2
    <2>4. SizeM(x.Bm) \in 1..(prob.m - x.Bm)
        BY <1>1, <2>3, BlockSizes
    <2> QED BY <2>2, <2>4
<1>4. \A row \in Places(x.Bm, s) : RowIsCurrent(t, row)
    <2>1. CASE copies_a
        <3>1. Locked
            BY <1>1, <2>1, CopyIsLocked
        <3> QED BY <3>1, RowsAreCurrent
    <2>2. CASE ~copies_a
        BY <2>2 DEF copies_a, RowIsCurrent
    <2> QED BY <2>1, <2>2
<1> DEFINE block == Places(x.Bm, s) \X slice(x.ithr).n
           part == Places(x.Bk, d)
<1>5. Multiplied(t) =
        [pl \in DOMAIN c |->
           CASE pl \notin block -> c[pl]
             [] pl \in block /\ ~RowIsCurrent(t, pl[1]) -> {Garbage}
             [] OTHER -> IF x.Bk = 0 THEN part ELSE Add(c[pl], part)]
    BY DEF Multiplied, BlockCells
<1>6. \A pl \in Cells(x.ithr) : pl \in block <=> pl[1] >= x.Bm /\ pl[1] < x.Bm + s
    <2> SUFFICES ASSUME NEW pl \in Cells(x.ithr)
                 PROVE  pl \in block <=> pl[1] >= x.Bm /\ pl[1] < x.Bm + s
        OBVIOUS
    <2>1. /\ pl = <<pl[1], pl[2]>> /\ pl[1] \in 0..(prob.m - 1) /\ pl[2] \in slice(x.ithr).n
        BY <1>1, SharedCells
    <2>2. pl \in block <=> pl[1] \in Places(x.Bm, s)
        BY <2>1
    <2>3. pl[1] \in Int
        BY <1>3, <2>1
    <2> QED BY <1>3, <2>2, <2>3 DEF Places
<1>7. block \subseteq Cells(x.ithr)
    <2>1. slice(x.ithr).m = 0..(prob.m - 1)
        BY <1>1, SharedSlices
    <2>2. Places(x.Bm, s) \subseteq 0..(prob.m - 1)
        BY <1>3 DEF Places
    <2> QED BY <2>1, <2>2 DEF Cells
<1>8. \A pl \in block : RowIsCurrent(t, pl[1])
    BY <1>4
<1>9. \A j \in Slices : \A pl \in Cells(j) : pl \in DOMAIN c
    BY <1>1, <1>2, BlocksTile
<1> HIDE DEF block, part
<1>10. \A pl \in DOMAIN c : Multiplied(t)[pl] = IF pl \notin block THEN c[pl]
                                              ELSE IF x.Bk = 0 THEN part ELSE Add(c[pl], part)
    BY <1>5, <1>8
<1>11. DOMAIN Multiplied(t) = DOMAIN c
    BY <1>5
<1>12. ASSUME NEW j \in Slices, j # x.ithr, NEW pl \in Cells(j) PROVE Multiplied(t)[pl] = c[pl]
    <2>1. Cells(j) \cap Cells(x.ithr) = {}
        BY <1>1, <1>12, SharedCells
    <2>2. pl \notin block /\ pl \in DOMAIN c
        BY <1>7, <1>9, <1>12, <2>1
    <2> QED BY <1>10, <2>2
<1>13. ASSUME NEW pl \in Cells(x.ithr)
       PROVE  /\ pl[1] < x.Bm \/ pl[1] >= x.Bm + s => Multiplied(t)[pl] = c[pl]
              /\ pl[1] >= x.Bm /\ pl[1] < x.Bm + s =>
                   Multiplied(t)[pl] = IF x.Bk = 0 THEN part ELSE Add(c[pl], part)
    <2>1. pl \in DOMAIN c /\ pl[1] \in Int
        <3>1. pl[1] \in 0..(prob.m - 1)
            BY <1>1, SharedCells
        <3> QED BY <1>1, <1>3, <1>9, <3>1
    <2>2. pl \in block <=> pl[1] >= x.Bm /\ pl[1] < x.Bm + s
        BY <1>6
    <2>3. pl[1] < x.Bm \/ pl[1] >= x.Bm + s => pl \notin block
        BY <1>3, <2>1, <2>2
    <2> QED BY <1>10, <2>1, <2>2, <2>3
<1> QED BY <1>1, <1>11, <1>12, <1>13 DEF part

\* A thread multiplies with its block.
LEMMA MultiplyKeepsMultiplied ==
    ASSUME BControl, BLock, BCopied, SuitsTeam, BShape, BMultiplied, BStays,
           thread_info.copy = "shared_a", NEW t \in Team, Multiply(t)
    PROVE  BMultiplied' /\ DOMAIN c' = DOMAIN c
<1>1. PICK x \in BThr, r \in BThr : x = thr[t] /\ BMoves(t, r)
    <2>1. thr[t].pc # "done"
        BY DEF Multiply, Multiplies, At
    <2>2. thr[t] \in BThr
        BY <2>1, BWorker
    <2>3. \E r \in BThr : BMoves(t, r)
        BY SharedKeepsControl
    <2> QED BY <2>2, <2>3
<1>2. /\ x.pc = "multiply" /\ Multiplies(t) /\ c' = Multiplied(t)
      /\ Meet(t, "advance") \/ Goto(t, "advance")
    BY <1>1 DEF Multiply, Multiplies, At, AfterMultiply
<1>3. /\ thr \in [Team -> BThr] /\ Sliced /\ x.ithr \in Slices /\ BFits(t, x)
    BY <1>1, <1>2, BWorker
<1>4. /\ UNCHANGED <<prob, team, thread_info>> /\ thr' = [thr EXCEPT ![t] = r] /\ thr'[t] = r
    BY <1>1, <1>3 DEF BMoves
<1>5. r.pc = "advance" /\ r.ithr = x.ithr /\ r.Bm = x.Bm /\ r.Bk = x.Bk
    BY <1>1, <1>2, <1>3, <1>4, GoingOn
<1>6. /\ x.Bm \in Nat /\ x.Bk \in Nat /\ x.Bm < prob.m /\ x.Bk < prob.k
      /\ prob.m \in Nat /\ prob.k \in Nat
    BY <1>2, <1>3, PartsOfABlock DEF BFits, BThr
<1>7. PICK s \in Nat, d \in Nat : s = SizeM(x.Bm) /\ d = SizeK(x.Bk)
    <2>1. x.Bm \in 0..(prob.m - 1) /\ x.Bk \in 0..(prob.k - 1)
        BY <1>6
    <2>2. SizeM(x.Bm) \in 1..(prob.m - x.Bm) /\ SizeK(x.Bk) \in 1..(prob.k - x.Bk)
        BY <1>3, <2>1, BlockSizes
    <2> QED BY <1>6, <2>2
<1>8. /\ DOMAIN c' = DOMAIN c
      /\ \A j \in Slices : j # x.ithr => \A pl \in Cells(j) : c'[pl] = c[pl]
      /\ \A pl \in Cells(x.ithr) :
           /\ pl[1] < x.Bm \/ pl[1] >= x.Bm + s => c'[pl] = c[pl]
           /\ pl[1] >= x.Bm /\ pl[1] < x.Bm + s =>
                c'[pl] = IF x.Bk = 0 THEN Places(x.Bk, d) ELSE Add(c[pl], Places(x.Bk, d))
    BY <1>1, <1>2, <1>7, MultipliedFacts
<1>9. IsMultiplied(r)'
    <2>1. Cells(r.ithr)' = Cells(x.ithr) /\ SizeM(r.Bm)' = s /\ SizeK(r.Bk)' = d
        BY <1>3, <1>5, <1>7 DEF BStays
    <2>2. ASSUME NEW pl \in Cells(x.ithr)
          PROVE  /\ pl[1] < x.Bm \/ pl[1] < x.Bm + s => c'[pl] = 0..((x.Bk + d) - 1)
                 /\ ~(pl[1] < x.Bm \/ pl[1] < x.Bm + s) /\ x.Bk > 0 => c'[pl] = 0..(x.Bk - 1)
        <3>1. pl[1] \in 0..(prob.m - 1)
            BY <1>3, SharedCells
        <3>2. /\ pl[1] < x.Bm => c[pl] = 0..((x.Bk + d) - 1)
              /\ ~(pl[1] < x.Bm) /\ x.Bk > 0 => c[pl] = 0..(x.Bk - 1)
            BY <1>1, <1>2, <1>7 DEF BMultiplied, IsMultiplied, IsBehind
        <3> DEFINE row == pl[1]
        <3>3. row \in Int
            BY <1>6, <3>1
        <3>4. CASE row < x.Bm
            BY <1>6, <1>7, <1>8, <3>2, <3>3, <3>4
        <3>5. CASE row >= x.Bm + s
            <4>1. ~(row < x.Bm) /\ ~(row < x.Bm + s) /\ c'[pl] = c[pl]
                BY <1>6, <1>7, <1>8, <3>3, <3>5
            <4> QED BY <3>2, <4>1
        <3>6. CASE row >= x.Bm /\ row < x.Bm + s
            <4>1. c'[pl] = IF x.Bk = 0 THEN Places(x.Bk, d) ELSE Add(c[pl], Places(x.Bk, d))
                BY <1>8, <3>6
            <4>2. c'[pl] = 0..((x.Bk + d) - 1)
                <5>1. CASE x.Bk = 0
                    BY <4>1, <5>1 DEF Places
                <5>2. CASE x.Bk # 0
                    <6>1. c[pl] = 0..(x.Bk - 1)
                        BY <1>6, <3>2, <3>3, <3>6, <5>2
                    <6> QED BY SMTT(30), <1>6, <1>7, <4>1, <5>2, <6>1, AddPlaces
                <5> QED BY <5>1, <5>2
            <4> QED BY <3>6, <4>2
        <3> QED BY <1>6, <1>7, <3>3, <3>4, <3>5, <3>6
    <2> QED BY <1>5, <2>1, <2>2 DEF IsMultiplied, IsBehind
<1> QED BY <1>1, <1>2, <1>3, <1>4, <1>5, <1>8, <1>9, MultipliedSteps

\* A thread that has yet to begin with a slice has nothing to show.
LEMMA FreshIsMultiplied ==
    ASSUME BControl, BStays, Sliced, thread_info.copy = "shared_a", NEW r \in BThr,
           r.pc \in {"copy", "multiply", "advance"} =>
             r.ithr \in Slices /\ r.Bm = 0 /\ r.Bk = 0 /\ r.pc # "advance"
    PROVE  IsMultiplied(r)'
<1> SUFFICES ASSUME r.pc \in {"copy", "multiply", "advance"}, NEW pl \in Cells(r.ithr)'
             PROVE  ~IsBehind(r, pl[1])' /\ ~(r.Bk > 0)
    BY DEF IsMultiplied
<1>1. Cells(r.ithr)' = Cells(r.ithr)
    BY DEF BStays
<1>2. pl[1] \in 0..(prob.m - 1)
    BY <1>1, SharedCells
<1>3. prob.m \in Nat
    BY PartsOfABlock
<1>4. ~(pl[1] < 0)
    BY <1>2, <1>3
<1> QED BY <1>4 DEF IsBehind

\* Steps that go on with a block, or to the first one.
LEMMA OthersKeepMultiplied ==
    ASSUME BControl, BMultiplied, BStays, thread_info.copy = "shared_a", NEW t \in Team,
           Allocate(t) \/ GetMemory(t) \/ Copy(t), Succeeded'
    PROVE  BMultiplied'
<1>1. PICK x \in BThr, r \in BThr : x = thr[t] /\ BMoves(t, r)
    <2>1. thr[t].pc # "done"
        BY DEF Allocate, GetMemory, Copy, At
    <2>2. thr[t] \in BThr
        BY <2>1, BWorker
    <2>3. \E r \in BThr : BMoves(t, r)
        BY SharedKeepsControl
    <2> QED BY <2>2, <2>3
<1>2. /\ x.pc \in {"alloc", "get", "copy"} /\ c' = c
    BY <1>1 DEF Allocate, GetMemory, Copy, At
<1>3. /\ thr \in [Team -> BThr] /\ Sliced /\ x.ithr \in Slices /\ BFits(t, x)
    BY <1>1, <1>2, BWorker
<1>4. /\ UNCHANGED <<prob, team, thread_info>> /\ thr' = [thr EXCEPT ![t] = r] /\ thr'[t] = r
    BY <1>1, <1>3 DEF BMoves
<1>5. \/ Allocate(t) /\ Meet(t, "get")
      \/ GetMemory(t) /\ Goto(t, "copy")
      \/ Copy(t) /\ Meet(t, "multiply")
    <2>1. ~Reported(t)
        BY <1>1, <1>2, ReportedFails
    <2> QED BY <2>1 DEF Allocate, GetMemory, Copy
<1>6. /\ r.ithr = x.ithr /\ r.Bm = x.Bm /\ r.Bk = x.Bk
      /\ \/ x.pc = "alloc" /\ r.pc = "get"
         \/ x.pc = "get" /\ r.pc = "copy"
         \/ x.pc = "copy" /\ r.pc = "multiply"
    <2>1. CASE Allocate(t) /\ Meet(t, "get")
        BY <1>1, <1>3, <1>4, <2>1, GoingOn DEF Allocate, At
    <2>2. CASE GetMemory(t) /\ Goto(t, "copy")
        BY <1>1, <1>3, <1>4, <2>2, GoingOn DEF GetMemory, At
    <2>3. CASE Copy(t) /\ Meet(t, "multiply")
        BY <1>1, <1>3, <1>4, <2>3, GoingOn DEF Copy, At
    <2> QED BY <1>5, <2>1, <2>2, <2>3
<1>7. IsMultiplied(r)'
    <2>1. CASE x.pc \in {"alloc", "get"}
        <3>1. x.Bm = 0 /\ x.Bk = 0
            BY <1>3, <2>1 DEF BFits
        <3> QED BY <1>3, <1>6, <2>1, <3>1, FreshIsMultiplied
    <2>2. CASE x.pc = "copy"
        <3>1. IsMultiplied(x)
            BY <1>1 DEF BMultiplied
        <3>2. Cells(r.ithr)' = Cells(x.ithr) /\ SizeK(r.Bk)' = SizeK(x.Bk)
            BY <1>3, <1>6 DEF BStays
        <3>3. \A row : IsBehind(r, row)' <=> IsBehind(x, row)
            BY <1>6, <2>2 DEF IsBehind
        <3> QED BY <1>2, <1>6, <2>2, <3>1, <3>2, <3>3 DEF IsMultiplied
    <2> QED BY <1>2, <2>1, <2>2
<1> QED BY <1>1, <1>2, <1>3, <1>4, <1>6, <1>7, MultipliedSteps

\* The next block, and the next slice.
LEMMA AdvanceKeepsMultiplied ==
    ASSUME BControl, BMultiplied, BStays, thread_info.copy = "shared_a", NEW t \in Team, Advance(t)
    PROVE  BMultiplied'
<1>1. PICK x \in BThr, r \in BThr : x = thr[t] /\ BMoves(t, r)
    <2>1. thr[t].pc # "done"
        BY DEF Advance, At
    <2>2. thr[t] \in BThr
        BY <2>1, BWorker
    <2>3. \E r \in BThr : BMoves(t, r)
        BY SharedKeepsControl
    <2> QED BY <2>2, <2>3
<1>2. x.pc = "advance" /\ c' = c
    BY <1>1 DEF Advance, At
<1>3. /\ thr \in [Team -> BThr] /\ Sliced /\ x.ithr \in Slices /\ BFits(t, x)
      /\ team \in Nat \ {0} /\ nthr_eff \in Nat \ {0}
    BY <1>1, <1>2, BWorker
<1>4. /\ UNCHANGED <<prob, team, thread_info>> /\ thr' = [thr EXCEPT ![t] = r] /\ thr'[t] = r
    BY <1>1, <1>3 DEF BMoves
<1>5. /\ x.Bm \in Nat /\ x.Bk \in Nat /\ x.Bm < prob.m /\ x.Bk < prob.k
      /\ prob.m \in Nat /\ prob.k \in Nat
    BY <1>2, <1>3, PartsOfABlock DEF BFits, BThr
<1>6. PICK s \in Nat, d \in Nat : s = SizeM(x.Bm) /\ d = SizeK(x.Bk) /\ d <= prob.k - x.Bk
    <2>1. x.Bm \in 0..(prob.m - 1) /\ x.Bk \in 0..(prob.k - 1)
        BY <1>5
    <2>2. SizeM(x.Bm) \in 1..(prob.m - x.Bm) /\ SizeK(x.Bk) \in 1..(prob.k - x.Bk)
        BY <1>3, <2>1, BlockSizes
    <2> QED BY <1>5, <2>2
<1>7. ASSUME NEW pl \in Cells(x.ithr)
      PROVE  /\ pl[1] \in Nat /\ pl[1] < prob.m
             /\ pl[1] < x.Bm + s => c[pl] = 0..((x.Bk + d) - 1)
             /\ ~(pl[1] < x.Bm + s) /\ x.Bk > 0 => c[pl] = 0..(x.Bk - 1)
    <2>1. pl[1] \in 0..(prob.m - 1)
        BY <1>3, SharedCells
    <2>2. IsMultiplied(x)
        BY <1>1 DEF BMultiplied
    <2>3. pl[1] \in Nat /\ pl[1] < prob.m
        BY <1>5, <2>1
    <2>4. IsBehind(x, pl[1]) <=> pl[1] < x.Bm + s
        BY <1>2, <1>5, <1>6, <2>3 DEF IsBehind
    <2> QED BY <1>2, <1>6, <2>2, <2>3, <2>4 DEF IsMultiplied
<1>8. \E pc \in {"copy", "multiply"} :
        \/ /\ x.Bm + s < prob.m
           /\ thr' = [thr EXCEPT ![t].pc = pc, ![t].Bm = x.Bm + s]
        \/ /\ x.Bm + s >= prob.m /\ x.Bk + d < prob.k
           /\ thr' = [thr EXCEPT ![t].pc = pc, ![t].Bm = 0, ![t].Bk = x.Bk + d]
        \/ x.Bm + s >= prob.m /\ x.Bk + d >= prob.k /\ NextSlice(t)
    BY <1>1, <1>6 DEF Advance
<1>9. Cells(x.ithr)' = Cells(x.ithr) /\ SizeK(x.Bk)' = d
    BY <1>3, <1>6 DEF BStays
<1>10. CASE x.Bm + s >= prob.m /\ x.Bk + d >= prob.k /\ NextSlice(t)
    <2>1. thr' = [thr EXCEPT ![t] = Take(thread_info, x.ithr + team, x.round)]
        BY <1>1, <1>10 DEF NextSlice
    <2>2. r = Take(thread_info, x.ithr + team, x.round)
        BY <1>3, <1>4, <2>1
    <2>3. x.ithr + team \in Nat /\ x.round \in Nat /\ nthrs(thread_info) = nthr_eff
        BY <1>3 DEF BThr, nthr_eff
    <2>4. /\ r.ithr = x.ithr + team /\ r.Bm = 0 /\ r.Bk = 0
          /\ r.pc = "done" <=> r.ithr >= nthr_eff
          /\ r.pc \in {"done", "compute", "alloc", "multiply"}
        <3> DEFINE i == x.ithr + team
                   round == x.round
        <3> HIDE DEF i, round
        <3>1. i \in Nat /\ round \in Nat /\ nthrs(thread_info) \in Nat
            BY <1>3, <2>3 DEF i, round
        <3>2. LET z == Take(thread_info, i, round)
              IN  /\ z.ithr = i /\ z.Bm = 0 /\ z.Bk = 0
                  /\ z.pc = "done" <=> i >= nthrs(thread_info)
                  /\ z.pc \in {"done", "compute", "alloc", "multiply"}
            BY <3>1, TakeFacts
        <3> QED BY <2>2, <2>3, <3>2 DEF i, round
    <2>5. IsMultiplied(r)'
        <3>1. r.pc # "done" => r.ithr \in Slices
            BY <1>3, <2>3, <2>4 DEF Slices
        <3> QED BY <1>3, <2>4, <3>1, FreshIsMultiplied
    <2>6. IsWhole(x.ithr)'
        <3>1. ASSUME NEW pl \in Cells(x.ithr) PROVE c[pl] = 0..(prob.k - 1)
            <4>1. x.Bk + d = prob.k
                BY <1>5, <1>6, <1>10
            <4>2. pl[1] < x.Bm + s
                BY <1>5, <1>6, <1>7, <1>10
            <4> QED BY <1>7, <4>1, <4>2
        <3> QED BY <1>2, <1>4, <1>9, <3>1 DEF IsWhole
    <2> QED BY <1>1, <1>2, <1>3, <1>4, <2>4, <2>5, <2>6, MultipliedSteps
<1>11. ASSUME NEW pc \in {"copy", "multiply"}, x.Bm + s < prob.m,
              thr' = [thr EXCEPT ![t].pc = pc, ![t].Bm = x.Bm + s]
       PROVE  BMultiplied'
    <2>1. r = [x EXCEPT !.pc = pc, !.Bm = x.Bm + s]
        BY <1>1, <1>3, <1>4, <1>11
    <2>2. r.pc = pc /\ r.Bm = x.Bm + s /\ r.Bk = x.Bk /\ r.ithr = x.ithr
        BY <2>1 DEF BThr
    <2>3. \A row : IsBehind(r, row)' <=> row < x.Bm + s
        BY <1>11, <2>2 DEF IsBehind
    <2>4. IsMultiplied(r)'
        BY <1>2, <1>7, <1>9, <2>2, <2>3 DEF IsMultiplied
    <2> QED BY <1>1, <1>2, <1>3, <1>4, <2>2, <2>4, MultipliedSteps
<1>12. ASSUME NEW pc \in {"copy", "multiply"}, x.Bm + s >= prob.m, x.Bk + d < prob.k,
              thr' = [thr EXCEPT ![t].pc = pc, ![t].Bm = 0, ![t].Bk = x.Bk + d]
       PROVE  BMultiplied'
    <2>1. r = [x EXCEPT !.pc = pc, !.Bm = 0, !.Bk = x.Bk + d]
        BY <1>1, <1>3, <1>4, <1>12
    <2>2. r.pc = pc /\ r.Bm = 0 /\ r.Bk = x.Bk + d /\ r.ithr = x.ithr
        BY <2>1 DEF BThr
    <2>3. ASSUME NEW pl \in Cells(x.ithr)
          PROVE  ~IsBehind(r, pl[1])' /\ c[pl] = 0..((x.Bk + d) - 1)
        <3>1. ~(pl[1] < 0) /\ pl[1] < x.Bm + s
            BY <1>5, <1>6, <1>7, <1>12
        <3>2. ~IsBehind(r, pl[1])'
            BY <1>12, <2>2, <3>1 DEF IsBehind
        <3> QED BY <1>7, <3>1, <3>2
    <2>4. IsMultiplied(r)'
        BY <1>2, <1>9, <2>2, <2>3 DEF IsMultiplied
    <2> QED BY <1>1, <1>2, <1>3, <1>4, <2>2, <2>4, MultipliedSteps
<1> QED BY <1>8, <1>10, <1>11, <1>12

-----------------------------------------------------------------------------
(* Slices that are computed apart *)

\* What a thread computes, and what it leaves.
LEMMA ComputedFacts ==
    ASSUME BControl, BShape, BStays, NEW t \in Team, Compute(t), NEW w \in Slices, w = thr[t].ithr
    PROVE  /\ BShape' /\ region = "compute" /\ Sliced
           /\ IsOwn(w) => c' = c
           /\ ~IsOwn(w) => \A pl \in DOMAIN NewC : c'[pl] = IF pl \in Cells(w) THEN slice(w).k ELSE c[pl]
           /\ PartIsRight(w)'
           /\ \A j \in Slices : PartIsRight(j) => PartIsRight(j)'
<1> DEFINE cells == Cells(w)
           part == slice(w).k
           Computed(old) == [pl \in DOMAIN old |-> IF pl \in cells THEN part ELSE old[pl]]
<1>1. /\ thr[t].pc = "compute" /\ UNCHANGED <<prob, region, team, thread_info>>
      /\ IsOwn(w) => c' = c /\ c_local' = [c_local EXCEPT ![w] = Computed(@)]
      /\ ~IsOwn(w) => c' = Computed(c) /\ c_local' = c_local
    BY DEF Compute, At, InCall, IsOwn
<1>2. region = "compute" /\ Sliced
    <2>1. region \in {"compute", "later"} /\ BFits(t, thr[t]) /\ Sliced
        BY <1>1, BWorker
    <2> QED BY <1>1, <2>1 DEF BFits
<1>3. DOMAIN c = DOMAIN NewC
    BY <1>2 DEF BShape
<1>4. k_summing => /\ c_local = [i \in Slices |-> c_local[i]]
                   /\ \A i \in Slices : DOMAIN c_local[i] = DOMAIN NewC
    BY <1>2 DEF BShape
<1>5. /\ k_summing' = k_summing /\ Slices' = Slices /\ DOMAIN NewC' = DOMAIN NewC
      /\ region' = region
      /\ \A j \in Slices : slice(j)' = slice(j) /\ Cells(j)' = Cells(j)
    BY <1>1 DEF BStays
<1>6. \A j \in Slices : IsOwn(j)' <=> IsOwn(j)
    BY <1>5 DEF IsOwn
<1>7. \A j \in Slices : Cells(j) \subseteq DOMAIN NewC
    BY <1>2, BlocksTile
<1> HIDE DEF cells, part
<1>8. CASE IsOwn(w)
    <2>1. /\ c' = c /\ k_summing
          /\ c_local' = [i \in Slices |-> IF i = w THEN Computed(c_local[w]) ELSE c_local[i]]
        BY <1>1, <1>4, <1>8 DEF IsOwn
    <2>2. /\ DOMAIN c_local'[w] = DOMAIN NewC
          /\ \A pl \in DOMAIN NewC : c_local'[w][pl] = IF pl \in cells THEN part ELSE c_local[w][pl]
          /\ \A i \in Slices : i # w => c_local'[i] = c_local[i]
        <3>1. c_local'[w] = Computed(c_local[w])
            BY <2>1
        <3>2. DOMAIN c_local[w] = DOMAIN NewC
            BY <1>4, <2>1
        <3> HIDE DEF Computed
        <3>3. \A i \in Slices : i # w => c_local'[i] = c_local[i]
            BY <2>1
        <3> QED BY <3>1, <3>2, <3>3 DEF Computed
    <2>3. BShape'
        <3>1. \A i \in Slices : DOMAIN c_local'[i] = DOMAIN NewC
            BY <1>4, <2>1, <2>2
        <3>2. c_local' = [i \in Slices |-> c_local'[i]]
            BY <2>1
        <3> QED BY <1>3, <1>5, <2>1, <3>1, <3>2 DEF BShape
    <2>4. PartIsRight(w)'
        BY <1>5, <1>6, <1>7, <1>8, <2>2 DEF PartIsRight, cells, part
    <2>5. ASSUME NEW j \in Slices, PartIsRight(j) PROVE PartIsRight(j)'
        <3>1. CASE j = w
            BY <2>4, <3>1
        <3>2. CASE j # w
            BY <1>5, <1>6, <2>1, <2>2, <2>5, <3>2 DEF PartIsRight
        <3> QED BY <3>1, <3>2
    <2> QED BY <1>2, <1>8, <2>1, <2>3, <2>4, <2>5
<1>9. CASE ~IsOwn(w)
    <2>1. /\ DOMAIN c' = DOMAIN NewC /\ c_local' = c_local
          /\ \A pl \in DOMAIN NewC : c'[pl] = IF pl \in cells THEN part ELSE c[pl]
        BY <1>1, <1>3, <1>9
    <2>2. BShape'
        BY <1>4, <1>5, <2>1 DEF BShape
    <2>3. PartIsRight(w)'
        BY <1>5, <1>6, <1>7, <1>9, <2>1 DEF PartIsRight, cells, part
    <2>4. ASSUME NEW j \in Slices, PartIsRight(j) PROVE PartIsRight(j)'
        <3>1. CASE IsOwn(j)
            BY <1>5, <1>6, <2>1, <2>4, <3>1 DEF PartIsRight
        <3>2. CASE ~IsOwn(j)
            <4>1. slice(j).k = slice(w).k
                <5>1. /\ thread_info.nthrs_k \in Nat \ {0}
                      /\ slice(j).ithr_k \in KParts /\ slice(w).ithr_k \in KParts
                    BY <1>2, PartsOfABlock
                <5>2. slice(j).ithr_k = slice(w).ithr_k
                    BY <1>9, <3>2, <5>1 DEF IsOwn, k_summing, KParts
                <5> QED BY <1>2, <5>2, BlocksTile
            <4>2. \A pl \in Cells(j) : pl \in DOMAIN NewC /\ c[pl] = slice(j).k
                BY <1>7, <2>4, <3>2 DEF PartIsRight
            <4>3. \A pl \in Cells(j) : c'[pl] = slice(j).k
                BY <2>1, <4>1, <4>2 DEF part
            <4> QED BY <1>5, <1>6, <3>2, <4>3 DEF PartIsRight
        <3> QED BY <3>1, <3>2
    <2> QED BY <1>2, <1>9, <2>1, <2>2, <2>3, <2>4 DEF cells, part
<1> QED BY <1>8, <1>9

\* A slice that is not summed in this region.
LEMMA ComputeKeepsComputed ==
    ASSUME BControl, BShape, BStays, BComputed, ~sum_in_region, NEW t \in Team, Compute(t)
    PROVE  BComputed'
<1>1. thr[t].pc = "compute"
    BY DEF Compute, At
<1>2. /\ thr \in [Team -> BThr] /\ thr[t].ithr \in Slices /\ team \in Nat \ {0} /\ thr[t] \in BThr
    BY <1>1, BWorker
<1>3. PICK w \in Slices : w = thr[t].ithr
    BY <1>2
<1> DEFINE r == Take(thread_info, thr[t].ithr + team, thr[t].round)
<1>4. thr' = [thr EXCEPT ![t] = r] /\ UNCHANGED <<prob, team, thread_info>>
    BY DEF Compute, AfterCompute, NextSlice, InCall
<1>5. r \in BThr /\ r.ithr = thr[t].ithr + team
    <2>1. BFits(t, thr[t])
        BY <1>1, BWorker
    <2>2. region = "compute"
        BY <1>3, ComputedFacts
    <2>3. r \in BThr
        BY <1>1, <2>2, NextSliceFits
    <2> QED BY <2>3 DEF Take
<1> HIDE DEF r
<1>6. Slices' = Slices
    BY DEF BStays
<1>7. ASSUME NEW i \in Slices, Taker(i)'.ithr > i PROVE PartIsRight(i)'
    <2>1. Taker(i).ithr > i \/ i = w
        BY <1>1, <1>3, <1>4, <1>5, <1>7, TurnsGoOn
    <2>2. PartIsRight(i) \/ i = w
        BY <2>1 DEF BComputed
    <2> QED BY <1>3, <2>2, ComputedFacts
<1> QED BY <1>6, <1>7 DEF BComputed

-----------------------------------------------------------------------------
(* Parts of k that are added up *)

\* One more part, and all of them.
LEMMA KOfFacts ==
    ASSUME Sliced, NEW i \in Slices
    PROVE  /\ \A z \in KParts : KOf(i, {z}) = slice(OfPart(i, z)).k
           /\ \A P \in SUBSET KParts : \A z \in KParts \ P :
                Add(KOf(i, P), slice(OfPart(i, z)).k) = KOf(i, P \cup {z})
           /\ KOf(i, KParts) = 0..(prob.k - 1)
<1>1. \A z \in KParts : /\ OfPart(i, z) \in Slices
                        /\ slice(OfPart(i, z)).ithr_k = z
                        /\ slice(OfPart(i, z)).k \subseteq 0..(prob.k - 1)
    BY PartsOfABlock, BlocksTile
<1>2. ASSUME NEW z \in KParts PROVE KOf(i, {z}) = slice(OfPart(i, z)).k
    BY <1>1 DEF KOf
<1>3. ASSUME NEW P \in SUBSET KParts, NEW z \in KParts \ P
      PROVE  Add(KOf(i, P), slice(OfPart(i, z)).k) = KOf(i, P \cup {z})
    <2>1. \A w \in P : slice(OfPart(i, w)).k \cap slice(OfPart(i, z)).k = {}
        <3> SUFFICES ASSUME NEW w \in P PROVE slice(OfPart(i, w)).k \cap slice(OfPart(i, z)).k = {}
            OBVIOUS
        <3>1. w \in KParts /\ w # z
            OBVIOUS
        <3>2. /\ OfPart(i, w) \in Slices /\ OfPart(i, z) \in Slices
              /\ slice(OfPart(i, w)).ithr_k # slice(OfPart(i, z)).ithr_k
            BY <1>1, <3>1
        <3> QED BY <3>2, BlocksTile
    <2>2. KOf(i, P) \cap slice(OfPart(i, z)).k = {}
        BY <2>1 DEF KOf
    <2>3. KOf(i, P) \cup slice(OfPart(i, z)).k = KOf(i, P \cup {z})
        BY <1>1, <1>3 DEF KOf
    <2> QED BY <2>2, <2>3 DEF Add
<1>4. KOf(i, KParts) = 0..(prob.k - 1)
    <2>1. \A x \in 0..(prob.k - 1) : \E z \in KParts : x \in slice(OfPart(i, z)).k
        BY BlocksTile
    <2> QED BY <2>1 DEF KOf
<1> QED BY <1>2, <1>3, <1>4

\* Parts of k do not change within a call.
LEMMA SummedStays ==
    ASSUME BStays, Sliced, prob' = prob, NEW i \in Slices, NEW P \in SUBSET KParts,
           \A pl \in SummedCells(i) : c'[pl] = KOf(i, P)
    PROVE  SummedAs(i, P)'
<1>1. \A z \in KParts : /\ OfPart(i, z)' = OfPart(i, z)
                        /\ slice(OfPart(i, z))' = slice(OfPart(i, z))
    <2> SUFFICES ASSUME NEW z \in KParts
                 PROVE  /\ OfPart(i, z)' = OfPart(i, z)
                        /\ slice(OfPart(i, z))' = slice(OfPart(i, z))
        OBVIOUS
    <2>1. PICK j \in Slices : j = OfPart(i, z)
        BY PartsOfABlock
    <2>2. OfPart(i, z)' = j
        BY <2>1 DEF BStays
    <2>3. slice(j)' = slice(j)
        BY DEF BStays
    <2> QED BY <2>1, <2>2, <2>3 DEF slice
<1>2. KOf(i, P)' = KOf(i, P)
    BY <1>1 DEF KOf
<1>3. SummedCells(i)' = SummedCells(i)
    BY DEF BStays
<1> QED BY <1>2, <1>3 DEF SummedAs

\* Threads that sum while others compute.
LEMMA SumFacts ==
    ASSUME BControl, region = "compute", sum_in_region
    PROVE  /\ Sliced /\ Slices \subseteq Team /\ thr \in [Team -> BThr] /\ 0 \in KParts /\ k_summing
           /\ \A i \in Slices :
                /\ thr[i].pc # "done" => thr[i].ithr = i
                /\ OfPart(i, 0) \in Slices /\ Cells(OfPart(i, 0)) = Cells(i)
                /\ slice(OfPart(i, 0)).ithr_k = 0 /\ ~IsOwn(OfPart(i, 0))
                /\ slice(i).ithr_k \in KParts
                /\ Added(thr[i], i) \in SUBSET KParts
                /\ thr[i].pc \in {"others", "done"} => thr[OfPart(i, 0)].pc # "compute"
                /\ SummedCells(i) \subseteq Cells(i) /\ Cells(i) \subseteq DOMAIN NewC
<1>1. /\ Sliced /\ k_summing /\ team >= nthr_eff /\ team \in Nat /\ thr \in [Team -> BThr] /\ team # 0
    BY DEF BControl, BRegion, sum_in_region
<1>2. /\ nthr_eff \in Nat \ {0} /\ thread_info.nthrs_k \in Nat \ {0}
    BY <1>1, PartsOfABlock
<1>3. Slices \subseteq Team /\ 0 \in KParts
    BY <1>1, <1>2 DEF Slices, Team, KParts
<1>4. ASSUME NEW i \in Slices
      PROVE  /\ thr[i].pc # "done" => thr[i].ithr = i
             /\ OfPart(i, 0) \in Slices /\ Cells(OfPart(i, 0)) = Cells(i)
             /\ slice(OfPart(i, 0)).ithr_k = 0 /\ ~IsOwn(OfPart(i, 0))
             /\ slice(i).ithr_k \in KParts
             /\ Added(thr[i], i) \in SUBSET KParts
             /\ thr[i].pc \in {"others", "done"} => thr[OfPart(i, 0)].pc # "compute"
             /\ SummedCells(i) \subseteq Cells(i) /\ Cells(i) \subseteq DOMAIN NewC
    <2>1. thr[i].pc # "done" => thr[i].ithr = i
        BY <1>3, BWorker
    <2>2. /\ OfPart(i, 0) \in Slices /\ Cells(OfPart(i, 0)) = Cells(i)
          /\ slice(OfPart(i, 0)).ithr_k = 0 /\ slice(i).ithr_k \in KParts
        BY <1>1, <1>3, PartsOfABlock, BlocksTile
    <2>3. ~IsOwn(OfPart(i, 0))
        BY <2>2 DEF IsOwn
    <2>4. thr[i].pc = "others" => thr[i].ik \in KParts
        BY DEF BControl, BStatus
    <2>5. Added(thr[i], i) \in SUBSET KParts
        <3>1. CASE thr[i].pc = "done"
            BY <3>1 DEF Added
        <3>2. CASE thr[i].pc = "others"
            <4>1. 1..(thr[i].ik - 1) \subseteq KParts
                BY <1>2, <2>4, <3>2 DEF KParts
            <4>2. Added(thr[i], i) = {0, slice(i).ithr_k} \cup 1..(thr[i].ik - 1)
                BY <3>2 DEF Added
            <4> QED BY <1>3, <2>2, <4>1, <4>2
        <3>3. CASE thr[i].pc \notin {"others", "done"}
            BY <1>3, <3>3 DEF Added
        <3> QED BY <3>1, <3>2, <3>3
    <2>6. thr[i].pc \in {"others", "done"} => thr[OfPart(i, 0)].pc # "compute"
        BY <2>2 DEF BControl, BStatus, Done
    <2>7. SummedCells(i) \subseteq Cells(i) /\ Cells(i) \subseteq DOMAIN NewC
        BY <1>1, SummersOfABlock, BlocksTile
    <2> QED BY <2>1, <2>2, <2>3, <2>5, <2>6, <2>7
<1> QED BY <1>1, <1>3, <1>4

\* What a thread has added does not depend on anything but itself.
LEMMA AddedStays ==
    ASSUME BStays, NEW i \in Slices, NEW x PROVE Added(x, i)' = Added(x, i)
<1>1. KParts' = KParts /\ slice(i)' = slice(i)
    BY DEF BStays
<1> QED BY <1>1 DEF Added

\* A slice that is to be summed in this region.
LEMMA ComputeKeepsSummed ==
    ASSUME BControl, BShape, BStays, BSummed, sum_in_region, NEW t \in Team, Compute(t)
    PROVE  BSummed'
<1>1. thr[t].pc = "compute" /\ UNCHANGED prob
    BY DEF Compute, At, InCall
<1>2. region = "compute" /\ t \in Slices /\ thr[t].ithr = t
    <2>1. thr[t].ithr \in Slices
        BY <1>1, BWorker
    <2>2. region = "compute"
        BY <2>1, ComputedFacts
    <2> QED BY <1>1, <2>2, BWorker
<1>3. /\ Sliced /\ Slices \subseteq Team /\ thr \in [Team -> BThr] /\ 0 \in KParts
      /\ \A i \in Slices :
            /\ OfPart(i, 0) \in Slices /\ Cells(OfPart(i, 0)) = Cells(i)
            /\ slice(OfPart(i, 0)).ithr_k = 0 /\ ~IsOwn(OfPart(i, 0))
            /\ Added(thr[i], i) \in SUBSET KParts
            /\ thr[i].pc \in {"others", "done"} => thr[OfPart(i, 0)].pc # "compute"
            /\ SummedCells(i) \subseteq Cells(i) /\ Cells(i) \subseteq DOMAIN NewC
    BY <1>2, SumFacts
<1>4. /\ IsOwn(t) => c' = c
      /\ ~IsOwn(t) => \A pl \in DOMAIN NewC : c'[pl] = IF pl \in Cells(t) THEN slice(t).k ELSE c[pl]
      /\ PartIsRight(t)'
      /\ \A j \in Slices : PartIsRight(j) => PartIsRight(j)'
    BY <1>2, ComputedFacts
<1>5. PICK r \in BThr : r = [thr[t] EXCEPT !.pc = "publish"] /\ r.pc = "publish"
    <2>1. \A a \in BThr : [a EXCEPT !.pc = "publish"] \in BThr /\ [a EXCEPT !.pc = "publish"].pc = "publish"
        BY DEF BThr
    <2>2. thr[t] \in BThr
        BY <1>2, <1>3
    <2> QED BY <2>1, <2>2
<1>6. thr' = [i \in Team |-> IF i = t THEN r ELSE thr[i]]
    <2>1. thr' = [thr EXCEPT ![t].pc = "publish"]
        BY DEF Compute, AfterCompute, Goto
    <2> QED BY <1>3, <1>5, <2>1
<1>7. Slices' = Slices /\ \A i \in Slices : (IsOwn(i)' <=> IsOwn(i)) /\ OfPart(i, 0)' = OfPart(i, 0)
    BY DEF BStays, IsOwn
<1>8. ASSUME NEW i \in Slices, (thr[i].pc # "compute" /\ IsOwn(i))' PROVE PartIsRight(i)'
    <2>1. CASE i = t
        BY <1>4, <2>1
    <2>2. CASE i # t
        <3>1. thr[i].pc # "compute" /\ IsOwn(i)
            BY <1>3, <1>6, <1>7, <1>8, <2>2
        <3> QED BY <1>4, <3>1 DEF BSummed
    <2> QED BY <2>1, <2>2
<1>9. ASSUME NEW i \in Slices, (thr[OfPart(i, 0)].pc # "compute")' PROVE SummedAs(i, Added(thr[i], i))'
    <2>1. PICK z \in Slices : z = OfPart(i, 0) /\ z = OfPart(i, 0)'
        BY <1>3, <1>7
    <2>2. /\ z \in Team /\ i \in Team /\ Cells(z) = Cells(i) /\ slice(z).ithr_k = 0 /\ ~IsOwn(z)
          /\ SummedCells(i) \subseteq Cells(i) /\ Cells(i) \subseteq DOMAIN NewC
        BY <1>3, <2>1
    <2>3. PICK P \in SUBSET KParts : P = Added(thr[i], i)
        BY <1>3
    <2>4. PICK y : y = thr'[i]
        OBVIOUS
    <2>5. Added(y, i) = P
        <3>1. CASE i = t
            BY <1>1, <1>5, <1>6, <2>2, <2>3, <2>4, <3>1 DEF Added
        <3>2. CASE i # t
            BY <1>6, <2>2, <2>3, <2>4, <3>2
        <3> QED BY <3>1, <3>2
    <2>6. Added(thr[i], i)' = P
        <3>1. Added(y, i)' = P
            BY <2>5, AddedStays
        <3> QED BY <2>4, <3>1 DEF Added
    <2>7. \A pl \in SummedCells(i) : c'[pl] = KOf(i, P)
        <3>1. CASE z = t
            <4>1. \A pl \in SummedCells(i) : c'[pl] = slice(t).k
                BY <1>4, <2>2, <3>1
            <4>2. P = {0}
                <5>1. thr[i].pc \notin {"others", "done"}
                    BY <1>1, <1>3, <2>1, <3>1
                <5> QED BY <2>3, <5>1 DEF Added
            <4>3. KOf(i, {0}) = slice(t).k
                BY <1>3, <2>1, <3>1, KOfFacts
            <4> QED BY <4>1, <4>2, <4>3
        <3>2. CASE z # t
            <4>1. thr[z].pc # "compute"
                BY <1>6, <1>9, <2>1, <2>2, <3>2
            <4>2. SummedAs(i, P)
                BY <2>1, <2>3, <4>1 DEF BSummed
            <4>3. \A pl \in SummedCells(i) : c'[pl] = c[pl]
                <5>1. CASE IsOwn(t)
                    BY <1>4, <5>1
                <5>2. CASE ~IsOwn(t)
                    <6> SUFFICES ASSUME NEW pl \in SummedCells(i), pl \in Cells(t) PROVE FALSE
                        BY <1>4, <2>2, <5>2
                    <6>1. OfPart(i, slice(t).ithr_k) = t
                        BY <1>2, <1>3, <2>2, BlocksTile
                    <6>2. slice(t).ithr_k = 0
                        <7>1. k_summing /\ slice(t).ithr_k \in KParts /\ thread_info.nthrs_k \in Nat
                            BY <1>2, <1>3, PartsOfABlock DEF sum_in_region
                        <7> QED BY <5>2, <7>1 DEF IsOwn, KParts
                    <6> QED BY <2>1, <3>2, <6>1, <6>2
                <5> QED BY <5>1, <5>2
            <4> QED BY <4>2, <4>3 DEF SummedAs
        <3> QED BY <3>1, <3>2
    <2>8. SummedAs(i, P)'
        BY <1>1, <1>3, <2>7, SummedStays
    <2> QED BY <2>6, <2>8 DEF SummedAs, KOf
<1> QED BY <1>7, <1>8, <1>9 DEF BSummed

\* A thread that has computed its slice goes on, and changes its own places.
LEMMA SummedSteps ==
    ASSUME BControl, BStays, BSummed, sum_in_region, region = "compute", NEW t \in Slices,
           thr[t].pc # "compute", NEW r \in BThr, r.pc # "compute", thr' = [thr EXCEPT ![t] = r],
           c_local' = c_local, prob' = prob,
           \A i \in Slices \ {t} : \A pl \in SummedCells(i) : c'[pl] = c[pl],
           NEW P \in SUBSET KParts, P = Added(r, t),
           thr[OfPart(t, 0)].pc # "compute" => \A pl \in SummedCells(t) : c'[pl] = KOf(t, P)
    PROVE  BSummed'
<1>1. /\ Sliced /\ Slices \subseteq Team /\ thr \in [Team -> BThr]
      /\ \A i \in Slices : OfPart(i, 0) \in Slices /\ Added(thr[i], i) \in SUBSET KParts
    BY SumFacts
<1>2. thr' = [i \in Team |-> IF i = t THEN r ELSE thr[i]]
    BY <1>1
<1>3. /\ Slices' = Slices
      /\ \A i \in Slices : (IsOwn(i)' <=> IsOwn(i)) /\ OfPart(i, 0)' = OfPart(i, 0)
    BY DEF BStays, IsOwn
<1>4. \A i \in Slices : (thr[i].pc # "compute")' <=> thr[i].pc # "compute"
    BY <1>1, <1>2
<1>5. ASSUME NEW i \in Slices, (thr[i].pc # "compute" /\ IsOwn(i))' PROVE PartIsRight(i)'
    <2>1. PartIsRight(i) /\ IsOwn(i)
        BY <1>3, <1>4, <1>5 DEF BSummed
    <2>2. Cells(i)' = Cells(i) /\ slice(i)' = slice(i)
        BY DEF BStays
    <2> QED BY <1>3, <2>1, <2>2 DEF PartIsRight
<1>6. ASSUME NEW i \in Slices, (thr[OfPart(i, 0)].pc # "compute")' PROVE SummedAs(i, Added(thr[i], i))'
    <2>1. thr[OfPart(i, 0)].pc # "compute"
        BY <1>1, <1>3, <1>4, <1>6
    <2>2. CASE i = t
        <3>1. SummedAs(t, P)'
            BY <1>1, <2>1, <2>2, SummedStays
        <3>2. Added(r, t)' = P
            BY AddedStays
        <3>3. thr'[t] = r
            BY <1>1, <1>2
        <3>4. Added(thr[t], t)' = P
            BY <3>2, <3>3 DEF Added
        <3> QED BY <2>2, <3>1, <3>4 DEF SummedAs, KOf
    <2>3. CASE i # t
        <3>1. PICK Q, y : Q \in SUBSET KParts /\ y = thr[i] /\ y = thr'[i] /\ Q = Added(y, i)
            BY <1>1, <1>2, <2>3
        <3>2. \A pl \in SummedCells(i) : c'[pl] = KOf(i, Q)
            BY <2>1, <2>3, <3>1 DEF BSummed, SummedAs
        <3>3. SummedAs(i, Q)'
            BY <1>1, <3>1, <3>2, SummedStays
        <3>4. Added(y, i)' = Q
            BY <3>1, AddedStays
        <3>5. Added(thr[i], i)' = Q
            BY <3>1, <3>4 DEF Added
        <3> QED BY <3>3, <3>5 DEF SummedAs, KOf
    <2> QED BY <2>2, <2>3
<1> QED BY <1>3, <1>5, <1>6 DEF BSummed

\* A thread says that its slice is computed.
LEMMA PublishKeepsSummed ==
    ASSUME BControl, BStays, BSummed, NEW t \in Team, Publish(t)
    PROVE  BSummed'
<1>1. /\ thr[t].pc = "publish" /\ thr' = [thr EXCEPT ![t].pc = "own"]
      /\ c' = c /\ c_local' = c_local /\ prob' = prob
    BY DEF Publish, At, Goto, InCall
<1>2. /\ sum_in_region /\ region = "compute" /\ t \in Slices
      /\ thr[t] \in BThr /\ thr \in [Team -> BThr]
    BY <1>1, Summer
<1>3. PICK r \in BThr : r = [thr[t] EXCEPT !.pc = "own"] /\ r.pc = "own"
    <2>1. \A a \in BThr : [a EXCEPT !.pc = "own"] \in BThr /\ [a EXCEPT !.pc = "own"].pc = "own"
        BY DEF BThr
    <2> QED BY <1>2, <2>1
<1>4. thr' = [thr EXCEPT ![t] = r]
    BY <1>1, <1>2, <1>3
<1>5. Added(thr[t], t) = {0} /\ Added(r, t) = {0}
    BY <1>1, <1>3 DEF Added
<1>6. {0} \in SUBSET KParts
    BY <1>2, SumFacts
<1>7. thr[OfPart(t, 0)].pc # "compute" => \A pl \in SummedCells(t) : c'[pl] = KOf(t, {0})
    BY <1>1, <1>2, <1>5 DEF BSummed, SummedAs
<1> QED BY <1>1, <1>2, <1>3, <1>4, <1>5, <1>6, <1>7, SummedSteps

\* The parts that are added once a thread has gone on from part ik.
LEMMA AddedNext ==
    ASSUME Sliced, NEW t \in Slices, NEW ik \in KParts, NEW r \in BThr,
           \/ /\ r.pc = "done"
              /\ \A j \in KParts : j > ik => j = slice(t).ithr_k
           \/ /\ r.pc = "others" /\ r.ik \in KParts \ {0, slice(t).ithr_k} /\ r.ik > ik
              /\ \A j \in KParts : ik < j /\ j < r.ik => j = slice(t).ithr_k
    PROVE  Added(r, t) = {0, slice(t).ithr_k} \cup 1..ik
<1>1. thread_info.nthrs_k \in Nat \ {0} /\ slice(t).ithr_k \in KParts /\ ik \in Nat
    BY PartsOfABlock DEF KParts
<1>2. CASE r.pc = "done"
    <2>1. Added(r, t) = KParts
        BY <1>2 DEF Added
    <2>2. KParts \subseteq {0, slice(t).ithr_k} \cup 1..ik
        <3>1. \A j \in KParts : j > ik => j = slice(t).ithr_k
            BY <1>2
        <3> QED BY <1>1, <3>1 DEF KParts
    <2>3. {0, slice(t).ithr_k} \cup 1..ik \subseteq KParts
        BY <1>1 DEF KParts
    <2> QED BY <2>1, <2>2, <2>3
<1>3. CASE r.pc = "others"
    <2>1. Added(r, t) = {0, slice(t).ithr_k} \cup 1..(r.ik - 1)
        BY <1>3 DEF Added
    <2>2. /\ r.ik \in KParts /\ r.ik > ik
          /\ \A j \in KParts : ik < j /\ j < r.ik => j = slice(t).ithr_k
        BY <1>3
    <2>3. 1..ik \subseteq 1..(r.ik - 1)
        BY <1>1, <2>2 DEF KParts
    <2>4. 1..(r.ik - 1) \subseteq {slice(t).ithr_k} \cup 1..ik
        BY <1>1, <2>2 DEF KParts
    <2> QED BY <2>1, <2>3, <2>4
<1> QED BY <1>2, <1>3

\* A thread adds part z to what it has added.
LEMMA SummedPart ==
    ASSUME Sliced, NEW t \in Slices, NEW P \in SUBSET KParts, NEW z \in KParts \ P,
           DOMAIN c = DOMAIN NewC, SummedAs(t, P), PartIsRight(OfPart(t, z)), IsOwn(OfPart(t, z))
    PROVE  LET new == Summed(c, t, z)
           IN  /\ \A pl \in SummedCells(t) : new[pl] = KOf(t, P \cup {z})
               /\ \A i \in Slices \ {t} : \A pl \in SummedCells(i) : new[pl] = c[pl]
<1> DEFINE mine == SummedCells(t)
           other == c_local[OfPart(t, z)]
           new == Summed(c, t, z)
<1>1. new = [pl \in DOMAIN c |-> IF pl \in mine THEN Add(c[pl], other[pl]) ELSE c[pl]]
    BY DEF Summed
<1>2. \A i \in Slices : SummedCells(i) \subseteq DOMAIN c
    <2>1. \A i \in Slices : SummedCells(i) \subseteq Cells(i) /\ Cells(i) \subseteq DOMAIN NewC
        BY SummersOfABlock, BlocksTile
    <2> QED BY <2>1
<1>3. \A pl \in mine : c[pl] = KOf(t, P) /\ other[pl] = slice(OfPart(t, z)).k
    <2>1. mine \subseteq Cells(OfPart(t, z))
        BY SummersOfABlock, BlocksTile
    <2> QED BY <2>1 DEF SummedAs, PartIsRight
<1> HIDE DEF new
<1>4. ASSUME NEW pl \in mine PROVE new[pl] = KOf(t, P \cup {z})
    <2>1. new[pl] = Add(c[pl], other[pl])
        BY <1>1, <1>2
    <2>2. new[pl] = Add(KOf(t, P), slice(OfPart(t, z)).k)
        BY <1>3, <2>1
    <2> QED BY <2>2, KOfFacts
<1>5. ASSUME NEW i \in Slices \ {t}, NEW pl \in SummedCells(i) PROVE new[pl] = c[pl]
    <2>1. pl \notin mine
        BY SummersOfABlock
    <2> QED BY <1>1, <1>2, <2>1
<1> QED BY <1>4, <1>5 DEF new

\* The sizes of C and of the slices' own are those they have been given.
LEMMA ShapeStays ==
    ASSUME BShape, BStays, region' = region, DOMAIN c' = DOMAIN c, c_local' = c_local
    PROVE  BShape'
<1>1. DOMAIN NewC' = DOMAIN NewC /\ Slices' = Slices /\ k_summing' = k_summing
    BY DEF BStays
<1> QED BY <1>1 DEF BShape

\* A thread adds up its own places.
LEMMA AddKeepsSummed ==
    ASSUME BControl, BShape, BStays, BSummed, NEW t \in Team, AddOwn(t) \/ AddOther(t)
    PROVE  BSummed' /\ BShape'
<1>1. /\ thr[t].pc \in {"own", "others"} /\ UNCHANGED <<prob, region, c_local>>
    BY DEF AddOwn, AddOther, MayAddOwn, MayAddOther, At, InCall
<1>2. /\ sum_in_region /\ region = "compute" /\ t \in Slices /\ thr[t].ithr = t
      /\ thr[t] \in BThr /\ thr \in [Team -> BThr] /\ Sliced
    BY <1>1, Summer
<1>3. /\ 0 \in KParts /\ OfPart(t, 0) \in Slices /\ slice(t).ithr_k \in KParts /\ k_summing
      /\ Added(thr[t], t) \in SUBSET KParts
      /\ thr[t].pc \in {"others", "done"} => thr[OfPart(t, 0)].pc # "compute"
    BY <1>2, SumFacts
<1>4. /\ thread_info.nthrs_k \in Nat \ {0} /\ OfPart(t, slice(t).ithr_k) = t
      /\ \A z \in KParts : OfPart(t, z) \in Slices /\ slice(OfPart(t, z)).ithr_k = z
    BY <1>2, PartsOfABlock
<1>5. \A z \in KParts : Done(t, z) => thr[OfPart(t, z)].pc # "compute"
    BY <1>2, <1>4 DEF BControl, BStatus, Done
<1>6. DOMAIN c = DOMAIN NewC
    BY <1>2 DEF BShape
<1> DEFINE u == slice(t).ithr_k
<1>7. PICK ik \in KParts :
        /\ GoOn(t, ik) /\ DOMAIN c' = DOMAIN c
        /\ thr[OfPart(t, 0)].pc # "compute" =>
             \A pl \in SummedCells(t) : c'[pl] = KOf(t, {0, u} \cup 1..ik)
        /\ \A i \in Slices \ {t} : \A pl \in SummedCells(i) : c'[pl] = c[pl]
    <2>1. CASE AddOwn(t)
        <3>1. /\ thr[t].pc = "own" /\ (u > 0 => Done(t, 0)) /\ GoOn(t, 0)
              /\ c' = IF u > 0 THEN Summed(c, t, u) ELSE c
            BY <1>2, <2>1 DEF AddOwn, MayAddOwn, At
        <3>2. Added(thr[t], t) = {0}
            BY <3>1 DEF Added
        <3>3. 1..0 = {}
            OBVIOUS
        <3>4. CASE u > 0
            <4>1. SummedAs(t, {0})
                BY <1>2, <1>3, <1>5, <3>1, <3>2, <3>4 DEF BSummed
            <4>2. PartIsRight(t) /\ IsOwn(t)
                BY <1>2, <1>3, <3>1, <3>4 DEF BSummed, IsOwn
            <4>3. u \in KParts \ {0} /\ {0} \in SUBSET KParts
                BY <1>3, <3>4
            <4>4. /\ \A pl \in SummedCells(t) : Summed(c, t, u)[pl] = KOf(t, {0} \cup {u})
                  /\ \A i \in Slices \ {t} : \A pl \in SummedCells(i) : Summed(c, t, u)[pl] = c[pl]
                <5> HIDE DEF u
                <5>1. PartIsRight(OfPart(t, u)) /\ IsOwn(OfPart(t, u))
                    BY <1>4, <4>2 DEF u
                <5> QED BY <1>2, <1>6, <4>1, <4>3, <5>1, SummedPart
            <4>5. DOMAIN Summed(c, t, u) = DOMAIN c
                BY DEF Summed
            <4>6. {0} \cup {u} = {0, u} \cup 1..0
                BY <3>3
            <4> HIDE DEF u
            <4> QED BY <1>3, <3>1, <3>4, <4>4, <4>5, <4>6
        <3>5. CASE ~(u > 0)
            <4>1. u = 0 /\ c' = c
                BY <1>3, <1>4, <3>1, <3>5 DEF KParts
            <4>2. {0, u} \cup 1..0 = {0}
                BY <3>3, <4>1
            <4>3. thr[OfPart(t, 0)].pc # "compute" => SummedAs(t, {0})
                BY <1>2, <3>2 DEF BSummed
            <4> HIDE DEF u
            <4> QED BY <1>3, <3>1, <4>1, <4>2, <4>3 DEF SummedAs
        <3> QED BY <3>4, <3>5
    <2>2. CASE AddOther(t)
        <3> DEFINE ik == thr[t].ik
        <3>1. /\ thr[t].pc = "others" /\ Done(t, ik) /\ GoOn(t, ik) /\ c' = Summed(c, t, ik)
            BY <1>2, <2>2 DEF AddOther, MayAddOther, At
        <3>2. ik \in KParts \ {0, u}
            BY <1>2, <3>1 DEF BControl, BStatus
        <3> DEFINE P == {0, u} \cup 1..(ik - 1)
        <3>3. Added(thr[t], t) = P
            BY <3>1 DEF Added
        <3>4. P \in SUBSET KParts /\ ik \notin P /\ P \cup {ik} = {0, u} \cup 1..ik
            <4>1. ik \in Nat \ {0}
                BY <1>4, <3>2 DEF KParts
            <4>2. ik \notin 1..(ik - 1) /\ (1..(ik - 1)) \cup {ik} = 1..ik
                <5> HIDE DEF ik
                <5> QED BY <4>1
            <4> QED BY <1>3, <3>2, <3>3, <4>2
        <3>5. SummedAs(t, P)
            BY <1>2, <1>3, <3>1, <3>3 DEF BSummed
        <3>6. PartIsRight(OfPart(t, ik)) /\ IsOwn(OfPart(t, ik))
            <4>1. thr[OfPart(t, ik)].pc # "compute" /\ OfPart(t, ik) \in Slices
                BY <1>4, <1>5, <3>1, <3>2
            <4>2. slice(OfPart(t, ik)).ithr_k = ik /\ ik > 0
                BY <1>4, <3>2 DEF KParts
            <4>3. IsOwn(OfPart(t, ik))
                BY <1>3, <4>2 DEF IsOwn
            <4> QED BY <4>1, <4>3 DEF BSummed
        <3> HIDE DEF P, ik
        <3>7. /\ \A pl \in SummedCells(t) : c'[pl] = KOf(t, P \cup {ik})
              /\ \A i \in Slices \ {t} : \A pl \in SummedCells(i) : c'[pl] = c[pl]
            BY <1>2, <1>6, <3>1, <3>2, <3>4, <3>5, <3>6, SummedPart
        <3>8. DOMAIN c' = DOMAIN c
            BY <3>1 DEF Summed
        <3> QED BY <3>1, <3>2, <3>4, <3>7, <3>8
    <2> QED BY <2>1, <2>2
<1>8. PICK r \in BThr :
         /\ thr' = [thr EXCEPT ![t] = r]
         /\ \/ /\ r.pc = "done"
               /\ \A j \in KParts : j > ik => j = slice(t).ithr_k
            \/ /\ r.pc = "others" /\ r.ik \in KParts \ {0, slice(t).ithr_k} /\ r.ik > ik
               /\ \A j \in KParts : ik < j /\ j < r.ik => j = slice(t).ithr_k
    <2>1. ik \in Nat
        BY <1>4 DEF KParts
    <2> QED BY <1>1, <1>7, <2>1, GoOnFacts
<1>9. Added(r, t) = {0, u} \cup 1..ik
    BY <1>2, <1>8, AddedNext
<1>10. {0, u} \cup 1..ik \in SUBSET KParts
    BY <1>3, <1>4 DEF KParts
<1> DEFINE P == {0, u} \cup 1..ik
<1>11. P \in SUBSET KParts /\ P = Added(r, t)
    BY <1>9, <1>10
<1>12. thr[OfPart(t, 0)].pc # "compute" => \A pl \in SummedCells(t) : c'[pl] = KOf(t, P)
    BY <1>7
<1> HIDE DEF P, u
<1>13. thr[t].pc # "compute" /\ r.pc # "compute"
    BY <1>1, <1>8
<1>14. BSummed'
    BY <1>1, <1>2, <1>7, <1>8, <1>11, <1>12, <1>13, SummedSteps
<1>15. BShape'
    BY <1>1, <1>7, ShapeStays
<1> QED BY <1>14, <1>15

-----------------------------------------------------------------------------
(* Parts of k that are added up in a region of their own *)

\* One more part, with part 0 to z - 1 added before.
LEMMA SummedNext ==
    ASSUME Sliced, k_summing, DOMAIN c = DOMAIN NewC, NEW i \in Slices, NEW z \in KParts \ {0},
           PartIsRight(OfPart(i, z)), NEW g, DOMAIN g = DOMAIN c,
           \A pl \in DOMAIN c : g[pl] = IF pl \in SummedCells(i) THEN KOf(i, 0..(z - 1)) ELSE c[pl]
    PROVE  Summed(g, i, z) = [pl \in DOMAIN c |-> IF pl \in SummedCells(i) THEN KOf(i, 0..z) ELSE c[pl]]
<1> DEFINE mine == SummedCells(i)
           other == c_local[OfPart(i, z)]
<1>1. z \in Nat \ {0} /\ thread_info.nthrs_k \in Nat \ {0} /\ z < thread_info.nthrs_k
    BY PartsOfABlock DEF KParts
<1>2. 0..(z - 1) \in SUBSET KParts /\ z \notin 0..(z - 1) /\ (0..(z - 1)) \cup {z} = 0..z
    BY <1>1 DEF KParts
<1>3. \A pl \in mine : other[pl] = slice(OfPart(i, z)).k
    <2>1. mine \subseteq Cells(OfPart(i, z))
        BY SummersOfABlock, BlocksTile
    <2>2. IsOwn(OfPart(i, z))
        <3>1. slice(OfPart(i, z)).ithr_k = z
            BY PartsOfABlock
        <3> QED BY <1>1, <3>1 DEF IsOwn
    <2> QED BY <2>1, <2>2 DEF PartIsRight
<1>4. Add(KOf(i, 0..(z - 1)), slice(OfPart(i, z)).k) = KOf(i, 0..z)
    <2> DEFINE P == 0..(z - 1)
    <2>1. P \in SUBSET KParts /\ z \in KParts \ P /\ P \cup {z} = 0..z
        BY <1>2
    <2> HIDE DEF P
    <2>2. Add(KOf(i, P), slice(OfPart(i, z)).k) = KOf(i, P \cup {z})
        BY <2>1, KOfFacts
    <2> QED BY <2>1, <2>2 DEF P
<1>5. Summed(g, i, z) = [pl \in DOMAIN c |-> IF pl \in mine THEN Add(g[pl], other[pl]) ELSE g[pl]]
    BY DEF Summed
<1>6. \A pl \in DOMAIN c : (IF pl \in mine THEN Add(g[pl], other[pl]) ELSE g[pl])
                             = IF pl \in mine THEN KOf(i, 0..z) ELSE c[pl]
    BY <1>3, <1>4
<1> QED BY <1>5, <1>6

\* All parts, one after the other: S is what SumLater defines.
LEMMA SumOfParts ==
    ASSUME Sliced, k_summing, DOMAIN c = DOMAIN NewC, NEW i \in Slices, SummedAs(i, {0}),
           \A z \in KParts \ {0} : PartIsRight(OfPart(i, z))
    PROVE  LET S[ik \in 0..(thread_info.nthrs_k - 1)] == IF ik = 0 THEN c ELSE Summed(S[ik - 1], i, ik)
               new == S[thread_info.nthrs_k - 1]
           IN  /\ DOMAIN new = DOMAIN c
               /\ \A pl \in DOMAIN c : new[pl] = IF pl \in SummedCells(i) THEN KOf(i, KParts) ELSE c[pl]
<1> DEFINE S[ik \in 0..(thread_info.nthrs_k - 1)] == IF ik = 0 THEN c ELSE Summed(S[ik - 1], i, ik)
           Total(z) == [pl \in DOMAIN c |-> IF pl \in SummedCells(i) THEN KOf(i, 0..z) ELSE c[pl]]
           T == [z \in KParts |-> IF z = 0 THEN c ELSE Total(z)]
<1>1. thread_info.nthrs_k \in Nat \ {0}
    BY PartsOfABlock
<1>2. \A pl \in DOMAIN c : c[pl] = Total(0)[pl]
    BY DEF SummedAs
<1>3. ASSUME NEW z \in KParts \ {0}, NEW g, DOMAIN g = DOMAIN c,
             \A pl \in DOMAIN c : g[pl] = Total(z - 1)[pl]
      PROVE  Summed(g, i, z) = Total(z)
    BY <1>3, SummedNext
<1>4. \A z : DOMAIN Total(z) = DOMAIN c
    OBVIOUS
<1>5. KParts = 0..(thread_info.nthrs_k - 1) /\ \A z \in KParts : z \in Nat /\ (z # 0 => z - 1 \in KParts)
    BY <1>1 DEF KParts
<1> HIDE DEF Total
<1>6. \A z \in KParts : z # 0 => Summed(T[z - 1], i, z) = Total(z)
    <2> SUFFICES ASSUME NEW z \in KParts, z # 0 PROVE Summed(T[z - 1], i, z) = Total(z)
        OBVIOUS
    <2>1. z - 1 \in KParts
        BY <1>5
    <2>2. T[z - 1] = IF z - 1 = 0 THEN c ELSE Total(z - 1)
        BY <2>1
    <2>3. DOMAIN T[z - 1] = DOMAIN c /\ \A pl \in DOMAIN c : T[z - 1][pl] = Total(z - 1)[pl]
        BY <1>2, <1>4, <2>2
    <2> HIDE DEF T
    <2> QED BY <1>3, <2>3
<1>7. T = [z \in 0..(thread_info.nthrs_k - 1) |-> IF z = 0 THEN c ELSE Summed(T[z - 1], i, z)]
    <2>1. T = [z \in KParts |-> IF z = 0 THEN c ELSE Summed(T[z - 1], i, z)]
        <3>1. \A z \in KParts : T[z] = IF z = 0 THEN c ELSE Summed(T[z - 1], i, z)
            BY <1>6
        <3>2. T = [z \in KParts |-> T[z]]
            OBVIOUS
        <3> HIDE DEF T
        <3> QED BY <3>1, <3>2
    <2> HIDE DEF T
    <2> QED BY <1>5, <2>1
<1> HIDE DEF T
<1>8. S = [ik \in 0..(thread_info.nthrs_k - 1) |-> IF ik = 0 THEN c ELSE Summed(S[ik - 1], i, ik)]
    BY <1>7, Zenon DEF S
<1> HIDE DEF S
<1>9. \A z \in KParts : DOMAIN S[z] = DOMAIN c /\ \A pl \in DOMAIN c : S[z][pl] = Total(z)[pl]
    <2> DEFINE Good(z) == DOMAIN S[z] = DOMAIN c /\ \A pl \in DOMAIN c : S[z][pl] = Total(z)[pl]
               Bad == {z \in KParts : ~Good(z)}
    <2>1. \A z \in KParts : S[z] = IF z = 0 THEN c ELSE Summed(S[z - 1], i, z)
        BY <1>5, <1>8
    <2>2. Good(0)
        <3>1. 0 \in KParts
            BY <1>1, <1>5
        <3> QED BY <1>2, <2>1, <3>1
    <2>3. ASSUME NEW z \in KParts \ {0}, Good(z - 1) PROVE Good(z)
        <3>1. Summed(S[z - 1], i, z) = Total(z)
            BY <1>3, <2>3
        <3>2. S[z] = Total(z)
            BY <2>1, <3>1
        <3> QED BY <1>4, <3>2
    <2> HIDE DEF Good
    <2>4. ASSUME Bad # {} PROVE FALSE
        <3>1. Bad \in SUBSET Nat
            BY <1>5
        <3>2. PICK z \in Bad : \A y \in Bad : z <= y
            BY <2>4, <3>1, LeastNumber
        <3>3. z # 0 /\ z \in KParts /\ z - 1 \in KParts
            BY <1>5, <2>2
        <3>4. z - 1 \in Bad
            BY <2>3, <3>3
        <3>5. z \in Int
            BY <1>5
        <3> QED BY <3>2, <3>4, <3>5
    <2> QED BY <2>4 DEF Good
<1>10. thread_info.nthrs_k - 1 \in KParts
    BY <1>1, <1>5
<1>11. /\ DOMAIN S[thread_info.nthrs_k - 1] = DOMAIN c
       /\ \A pl \in DOMAIN c : S[thread_info.nthrs_k - 1][pl] =
            IF pl \in SummedCells(i) THEN KOf(i, KParts) ELSE c[pl]
    BY <1>5, <1>9, <1>10 DEF Total
<1> QED BY <1>11 DEF S

\* A slice is summed, and the next one taken up.
LEMMA SumLaterKeepsLater ==
    ASSUME BControl, BShape, BStays, BLater, NEW t \in Team, SumLater(t)
    PROVE  BLater' /\ BShape'
<1>1. /\ thr[t].pc = "later" /\ UNCHANGED <<prob, region, team, thread_info, c_local>>
    BY Zenon DEF SumLater, At, InCall
<1>2. /\ BFits(t, thr[t]) /\ thr[t] \in BThr /\ thr \in [Team -> BThr] /\ Sliced
      /\ thr[t].ithr \in Slices /\ team \in Nat \ {0} /\ nthr_eff \in Nat \ {0}
      /\ region \in {"compute", "later"} /\ thr[t].ithr % team = t
    BY <1>1, BWorker
<1>3. region = "later"
    BY <1>1, <1>2 DEF BFits
<1>4. k_summing /\ DOMAIN c = DOMAIN NewC
    BY <1>3 DEF BControl, BRegion, BShape
<1>5. PICK i \in Slices : i = thr[t].ithr
    BY <1>2
<1>6. SummedAs(i, {0})
    <2>1. Taker(i) = thr[t] /\ i \in Nat
        BY <1>2, <1>5 DEF Taker, Slices
    <2>2. ~(Taker(i).ithr > i)
        BY <1>5, <2>1
    <2> QED BY <2>2 DEF BLater
<1>7. \A z \in KParts \ {0} : PartIsRight(OfPart(i, z))
    <2> SUFFICES ASSUME NEW z \in KParts \ {0} PROVE PartIsRight(OfPart(i, z))
        OBVIOUS
    <2>1. OfPart(i, z) \in Slices /\ slice(OfPart(i, z)).ithr_k = z /\ z > 0
        BY <1>2, PartsOfABlock DEF KParts
    <2> QED BY <1>4, <2>1 DEF BLater, IsOwn
<1>8. /\ DOMAIN c' = DOMAIN c
      /\ \A pl \in DOMAIN c : c'[pl] = IF pl \in SummedCells(i) THEN KOf(i, KParts) ELSE c[pl]
    <2> DEFINE S[ik \in 0..(thread_info.nthrs_k - 1)] == IF ik = 0 THEN c ELSE Summed(S[ik - 1], i, ik)
    <2>1. c' = S[thread_info.nthrs_k - 1]
        BY <1>5, Zenon DEF SumLater
    <2>2. LET new == S[thread_info.nthrs_k - 1]
          IN  /\ DOMAIN new = DOMAIN c
              /\ \A pl \in DOMAIN c : new[pl] = IF pl \in SummedCells(i) THEN KOf(i, KParts) ELSE c[pl]
        BY <1>2, <1>4, <1>6, <1>7, SumOfParts
    <2> HIDE DEF S
    <2> QED BY <2>1, <2>2
<1>9. PICK r \in BThr : thr' = [thr EXCEPT ![t] = r] /\ r.ithr = i + team
    <2> DEFINE pc == IF i + team < nthr_eff THEN "later" ELSE "done"
    <2>1. thr' = [thr EXCEPT ![t].ithr = i + team, ![t].pc = pc]
        BY <1>5, Zenon DEF SumLater
    <2>2. pc \in {"later", "done"} /\ i + team \in Nat
        BY <1>2, <1>5 DEF Slices
    <2> HIDE DEF pc
    <2> DEFINE n == i + team
    <2>3. n \in Nat
        BY <2>2
    <2> HIDE DEF n
    <2>4. \A a \in BThr : /\ [a EXCEPT !.ithr = n, !.pc = pc] \in BThr
                         /\ [a EXCEPT !.ithr = n, !.pc = pc].ithr = n
        BY <2>2, <2>3 DEF BThr
    <2>5. thr' = [thr EXCEPT ![t] = [thr[t] EXCEPT !.ithr = n, !.pc = pc]]
        BY <1>2, <2>1 DEF n
    <2> QED BY <1>2, <2>4, <2>5 DEF n
<1>10. Slices' = Slices /\ \A j \in Slices : IsOwn(j)' <=> IsOwn(j)
    BY DEF BStays, IsOwn
<1>11. ASSUME NEW j \in Slices, IsOwn(j)' PROVE PartIsRight(j)'
    <2>1. PartIsRight(j) /\ IsOwn(j)
        BY <1>10, <1>11 DEF BLater
    <2>2. Cells(j)' = Cells(j) /\ slice(j)' = slice(j)
        BY DEF BStays
    <2> QED BY <1>1, <1>10, <2>1, <2>2 DEF PartIsRight
<1>12. ASSUME NEW j \in Slices
       PROVE  SummedAs(j, IF Taker(j).ithr > j THEN KParts ELSE {0})'
    <2>1. 0 \in KParts /\ KParts' = KParts
        BY <1>2, PartsOfABlock DEF KParts, BStays
    <2>2. SummedCells(j) \subseteq DOMAIN c
        BY <1>2, <1>4, SummersOfABlock, BlocksTile
    <2>3. j % team \in Team
        BY <1>1, BehindFacts
    <2>4. Taker(j)' = IF j % team = t THEN r ELSE Taker(j)
        BY <1>1, <1>2, <1>9, <2>3 DEF Taker
    <2>5. CASE j = i
        <3>1. Taker(j)'.ithr > j
            <4>1. Taker(j)' = r /\ j \in Nat
                BY <1>2, <1>5, <2>4, <2>5 DEF Slices
            <4> QED BY <1>2, <1>9, <2>5, <4>1
        <3>2. \A pl \in SummedCells(j) : c'[pl] = KOf(j, KParts)
            BY <1>8, <2>2, <2>5
        <3> DEFINE P == KParts
        <3>3. P \in SUBSET KParts /\ \A pl \in SummedCells(j) : c'[pl] = KOf(j, P)
            BY <3>2
        <3>4. PICK Q \in SUBSET KParts : Q = KParts
            OBVIOUS
        <3>5. SummedAs(j, Q)'
            BY <1>1, <1>2, <3>2, <3>4, SummedStays
        <3> QED BY <2>1, <3>1, <3>4, <3>5 DEF SummedAs, KOf
    <2>6. CASE j # i
        <3>1. (Taker(j)'.ithr > j) <=> (Taker(j).ithr > j)
            <4>1. CASE j % team = t
                <5>1. (thr[t].ithr + team > j) <=> (thr[t].ithr > j \/ j = thr[t].ithr)
                    BY <1>1, <4>1, BehindFacts
                <5>2. Taker(j)'.ithr = thr[t].ithr + team /\ Taker(j) = thr[t]
                    BY <1>5, <1>9, <2>4, <4>1 DEF Taker
                <5> QED BY <1>5, <2>6, <5>1, <5>2
            <4>2. CASE j % team # t
                BY <2>4, <4>2
            <4> QED BY <4>1, <4>2
        <3>2. PICK Q \in SUBSET KParts : Q = IF Taker(j).ithr > j THEN KParts ELSE {0}
            BY <2>1
        <3>3. SummedAs(j, Q)
            BY <3>2 DEF BLater
        <3>4. SummedCells(j) \cap SummedCells(i) = {}
            BY <1>2, <2>6, SummersOfABlock
        <3>5. \A pl \in SummedCells(j) : c'[pl] = KOf(j, Q)
            BY <1>8, <2>2, <3>3, <3>4 DEF SummedAs
        <3>6. SummedAs(j, Q)'
            BY <1>1, <1>2, <3>5, SummedStays
        <3>7. (IF Taker(j).ithr > j THEN KParts ELSE {0})' = Q
            BY <2>1, <3>1, <3>2
        <3> QED BY <3>6, <3>7 DEF SummedAs, KOf
    <2> QED BY <2>5, <2>6
<1>13. BLater'
    BY <1>10, <1>11, <1>12 DEF BLater
<1>14. BShape'
    BY <1>1, <1>8, ShapeStays
<1> QED BY <1>13, <1>14

\* When all threads are through, they have taken up all slices.
LEMMA AllAreBehind ==
    ASSUME BControl, team # 0, AllDone, NEW i \in Slices
    PROVE  Taker(i).ithr > i /\ i % team \in Team
<1>1. Sliced /\ team \in Nat \ {0} /\ thr \in [Team -> BThr]
    BY DEF BControl, BRegion
<1>2. nthr_eff \in Nat \ {0}
    BY <1>1, PartsOfABlock
<1>3. i \in Nat /\ i < nthr_eff
    BY <1>2 DEF Slices
<1>4. i % team \in Team
    <2>1. i % team \in 0..(team - 1)
        BY <1>1, <1>3, DivisionFacts
    <2> QED BY <2>1 DEF Team
<1>5. Taker(i).pc = "done" /\ BFits(i % team, Taker(i)) /\ Taker(i).ithr \in Nat
    BY <1>1, <1>4 DEF AllDone, At, Taker, BControl, BPlaces, BThr
<1>6. Taker(i).ithr >= nthr_eff
    BY <1>5 DEF BFits
<1> QED BY <1>2, <1>3, <1>4, <1>5, <1>6

\* Where all slices have what they should, the product has.
LEMMA SlicesComplete ==
    ASSUME Sliced
    PROVE  /\ (\A i \in Slices : IsWhole(i)) => Complete
           /\ (\A i \in Slices : SummedAs(i, KParts)) => Complete
           /\ ~k_summing /\ (\A i \in Slices : PartIsRight(i)) => Complete
<1>1. ASSUME \A i \in Slices : IsWhole(i) PROVE Complete
    BY <1>1, BlocksTile DEF Complete, IsWhole
<1>2. ASSUME \A i \in Slices : SummedAs(i, KParts) PROVE Complete
    <2> SUFFICES ASSUME NEW pl \in DOMAIN NewC PROVE c[pl] = 0..(prob.k - 1)
        BY DEF Complete
    <2>1. PICK b \in Slices : pl \in Cells(b)
        BY BlocksTile
    <2>2. PICK z \in KParts : pl \in SummedCells(OfPart(b, z))
        BY <2>1, SummersOfABlock
    <2>3. PICK i \in Slices : i = OfPart(b, z)
        BY PartsOfABlock
    <2>4. c[pl] = KOf(i, KParts)
        BY <1>2, <2>2, <2>3 DEF SummedAs
    <2> QED BY <2>4, KOfFacts
<1>3. ASSUME ~k_summing, \A i \in Slices : PartIsRight(i) PROVE Complete
    <2>1. ASSUME NEW i \in Slices PROVE IsWhole(i)
        <3>1. KParts = {0}
            <4>1. thread_info.nthrs_k \in Nat \ {0} /\ ~(thread_info.nthrs_k > 1)
                BY <1>3, PartsOfABlock DEF k_summing
            <4> QED BY <4>1 DEF KParts
        <3>2. slice(i).ithr_k = 0 /\ OfPart(i, 0) = i
            BY <3>1, PartsOfABlock
        <3>3. KOf(i, {0}) = slice(i).k /\ KOf(i, {0}) = 0..(prob.k - 1)
            BY <3>1, <3>2, KOfFacts
        <3>4. \A pl \in Cells(i) : c[pl] = slice(i).k
            BY <1>3 DEF PartIsRight, IsOwn
        <3> QED BY <3>3, <3>4 DEF IsWhole
    <2> QED BY <1>1, <2>1
<1> QED BY <1>1, <1>2, <1>3

-----------------------------------------------------------------------------
(* Calls and regions *)

\* Threads that have taken up their first slices.
IsFresh(t) ==
    /\ thr[t].ithr = t /\ thr[t].Bm = 0 /\ thr[t].Bk = 0
    /\ thr[t].pc \in {"done", "compute", "alloc", "multiply"}

\* They have nothing to show yet.
LEMMA FreshValues ==
    BControl /\ region = "compute" /\ (\A t \in Team : IsFresh(t)) =>
        /\ thread_info.copy = "shared_a" => BMultiplied
        /\ BComputed
        /\ sum_in_region => BSummed
<1> SUFFICES ASSUME BControl, region = "compute", \A t \in Team : IsFresh(t)
             PROVE  /\ thread_info.copy = "shared_a" => BMultiplied
                    /\ BComputed
                    /\ sum_in_region => BSummed
    OBVIOUS
<1>1. /\ Sliced /\ team \in Nat \ {0} /\ thr \in [Team -> BThr] /\ \A t \in Team : BFits(t, thr[t])
    BY DEF BControl, BRegion, BPlaces
<1>2. nthr_eff \in Nat \ {0} /\ prob.m \in Nat
    BY <1>1, PartsOfABlock
<1>3. ASSUME NEW i \in Slices PROVE ~(Taker(i).ithr > i)
    <2>1. i \in Nat
        BY <1>2 DEF Slices
    <2>2. /\ i % team \in 0..(team - 1) /\ i \div team \in Nat
          /\ i = team * (i \div team) + (i % team)
        BY <1>1, <2>1, DivisionFacts
    <2>3. i % team <= i
        <3> DEFINE q == i \div team
                   p == i % team
        <3>1. q \in Nat /\ p \in Nat /\ i = team * q + p
            BY <1>1, <2>2
        <3> HIDE DEF p, q
        <3>2. team * q \in Nat
            BY <1>1, <3>1
        <3>3. p <= i
            BY <2>1, <3>1, <3>2
        <3> QED BY <3>3 DEF p
    <2>4. i % team \in Team
        BY <2>2 DEF Team
    <2>5. Taker(i).ithr = i % team
        BY <2>4 DEF Taker, IsFresh
    <2> DEFINE p == i % team
    <2>6. p \in Int
        BY <1>1, <2>2
    <2> HIDE DEF p
    <2>7. Taker(i).ithr = p /\ p <= i
        BY <2>3, <2>5 DEF p
    <2> QED BY <2>1, <2>6, <2>7
<1>4. ASSUME thread_info.copy = "shared_a", NEW t \in Team PROVE IsMultiplied(thr[t])
    <2> SUFFICES ASSUME thr[t].pc \in {"copy", "multiply", "advance"}, NEW pl \in Cells(thr[t].ithr)
                 PROVE  ~IsBehind(thr[t], pl[1]) /\ ~(thr[t].Bk > 0)
        BY DEF IsMultiplied
    <2>1. /\ thr[t].pc = "multiply" /\ thr[t].Bm = 0 /\ thr[t].Bk = 0
        BY DEF IsFresh
    <2>2. thr[t].ithr \in Slices
        BY <2>1, BWorker
    <2>3. pl[1] \in 0..(prob.m - 1)
        BY <1>1, <1>4, <2>2, SharedCells
    <2>4. ~(pl[1] < 0)
        BY <1>2, <2>3
    <2> QED BY <2>1, <2>4 DEF IsBehind
<1>5. ASSUME sum_in_region, NEW i \in Slices PROVE thr[i].pc = "compute" /\ OfPart(i, 0) \in Slices
    <2>1. Slices \subseteq Team /\ OfPart(i, 0) \in Slices
        BY <1>5, SumFacts
    <2>2. thread_info.copy # "shared_a"
        BY <1>1, <1>5, SharedIsNotSummed
    <2>3. thr[i].pc # "done"
        <3>1. thr[i].ithr = i /\ BFits(i, thr[i])
            BY <1>1, <2>1 DEF IsFresh
        <3>2. i \in Int /\ i < nthr_eff
            BY <1>2 DEF Slices
        <3> QED BY <1>2, <3>1, <3>2 DEF BFits
    <2>4. thr[i].pc \notin {"alloc", "multiply"}
        BY <1>1, <2>1, <2>2 DEF BFits
    <2> QED BY <2>1, <2>3, <2>4 DEF IsFresh
<1>6. thread_info.copy = "shared_a" => BMultiplied
    BY <1>3, <1>4 DEF BMultiplied
<1>7. BComputed
    BY <1>3 DEF BComputed
<1>8. sum_in_region => BSummed
    BY <1>5 DEF BSummed
<1> QED BY <1>6, <1>7, <1>8

\* There is a number of slices.
LEMMA SlicesAreNumbered == Sliced => nthr_eff \in Nat
    BY PartsOfABlock

\* A call begins with nothing in C.
LEMMA CallMakesValues ==
    ASSUME BControl, ~Diverted, Call
    PROVE  BValues'
<1>1. BControl' /\ \A t \in Team' : thr'[t] = Take(thread_info', t, 0)
    BY CallMakesControl
<1>2. prob' = prob /\ region' = "compute" /\ c' = NewC /\ NewC' = NewC
    BY DEF Call, NewC
<1>3. /\ team' \in Nat /\ nthr_eff' \in Nat
    <2>1. Slices' = 0..(nthr_eff' - 1) /\ Sliced' /\ team' \in Nat
        BY <1>1, <1>2 DEF Slices, BControl, BRegion
    <2>2. nthr_eff' \in Nat
        <3>1. Sliced' => (nthr_eff \in Nat)'
            BY SlicesAreNumbered, PTL
        <3> QED BY <2>1, <3>1
    <2> QED BY <2>1, <2>2
<1>4. (\A t \in Team : IsFresh(t))'
    <2> SUFFICES ASSUME NEW t \in Team' PROVE IsFresh(t)'
        OBVIOUS
    <2>1. PICK w \in Nat : w = team'
        BY <1>3
    <2>2. t \in 0..(w - 1)
        BY <2>1 DEF Team
    <2>3. t \in Nat /\ 0 \in Nat /\ nthrs(thread_info') \in Nat
        BY <1>3, <2>2 DEF nthr_eff
    <2>4. LET r == Take(thread_info', t, 0)
          IN  r.ithr = t /\ r.Bm = 0 /\ r.Bk = 0 /\ r.pc \in {"done", "compute", "alloc", "multiply"}
        BY <2>3, TakeFacts
    <2> QED BY <1>1, <2>4 DEF IsFresh
<1>5. /\ (thread_info.copy = "shared_a" => BMultiplied)'
      /\ BComputed'
      /\ (sum_in_region => BSummed)'
    <2>1. BControl' /\ (region = "compute")' /\ (\A t \in Team : IsFresh(t))' =>
             /\ (thread_info.copy = "shared_a" => BMultiplied)'
             /\ BComputed'
             /\ (sum_in_region => BSummed)'
        BY FreshValues, PTL
    <2> QED BY <1>1, <1>2, <1>4, <2>1
<1>6. BShape'
    <2>1. c_local' = [i \in Slices' |-> IF k_summing' THEN NewC ELSE <<>>]
        BY DEF Call, Slices, nthr_eff, k_summing
    <2>2. k_summing' => /\ c_local' = [i \in Slices' |-> c_local'[i]]
                        /\ \A i \in Slices' : DOMAIN c_local'[i] = DOMAIN NewC
        BY <2>1
    <2> QED BY <1>2, <2>2 DEF BShape
<1> QED BY <1>2, <1>5, <1>6 DEF BValues

\* The computing region ends.
LEMMA EndComputeKeepsValues ==
    ASSUME BControl, BValues, EndCompute
    PROVE  BValues'
<1>1. /\ BStays /\ region' \in {"between", "returned"}
      /\ region' = "between" => k_summing /\ ~sum_in_region
      /\ region' = "returned" => ~k_summing \/ sum_in_region
    BY EndComputeKeepsControl
<1>2. /\ region = "compute" /\ AllDone /\ UNCHANGED <<prob, team, thread_info, thr, thread_arg, c, c_local>>
    BY DEF EndCompute
<1>3. Sliced /\ team # 0
    BY <1>2 DEF BControl, BRegion
<1> SUFFICES ASSUME Succeeded', SuitsTeam' PROVE BValues'
    BY DEF BValues
<1>4. Succeeded /\ SuitsTeam
    BY <1>1, <1>2 DEF Succeeded, BStays
<1>5. BShape
    BY <1>4 DEF BValues
<1>6. BShape'
    <2>1. DOMAIN NewC' = DOMAIN NewC /\ Slices' = Slices /\ k_summing' = k_summing
        BY <1>1 DEF BStays
    <2> QED BY <1>1, <1>2, <1>5, <2>1 DEF BShape
<1>7. \A i \in Slices : Taker(i).ithr > i
    BY <1>2, <1>3, AllAreBehind
<1>8. Complete' <=> Complete
    BY <1>1, <1>2 DEF Complete, BStays
<1>9. CASE thread_info.copy = "shared_a"
    <2>1. BMultiplied /\ region' = "returned"
        BY <1>1, <1>2, <1>3, <1>4, <1>9, SharedIsNotSummed DEF BValues
    <2>2. Complete
        BY <1>3, <1>7, <2>1, SlicesComplete DEF BMultiplied
    <2> QED BY <1>6, <1>8, <2>1, <2>2 DEF BValues
<1>10. CASE thread_info.copy # "shared_a" /\ ~sum_in_region
    <2>1. \A i \in Slices : PartIsRight(i)
        BY <1>2, <1>4, <1>7, <1>10 DEF BValues, BComputed
    <2>2. CASE region' = "between"
        <3>1. \A i \in Slices : PartIsRight(i)'
            <4> SUFFICES ASSUME NEW i \in Slices PROVE PartIsRight(i)'
                OBVIOUS
            <4>1. /\ Cells(i)' = Cells(i) /\ slice(i)' = slice(i) /\ IsOwn(i)' = IsOwn(i)
                BY <1>1 DEF BStays, IsOwn
            <4> QED BY <1>2, <2>1, <4>1 DEF PartIsRight
        <3>2. BBetween'
            BY <1>1, <3>1 DEF BBetween, BStays
        <3> QED BY <1>6, <2>2, <3>2 DEF BValues
    <2>3. CASE region' = "returned"
        <3>1. Complete
            BY <1>1, <1>3, <1>10, <2>1, <2>3, SlicesComplete
        <3> QED BY <1>6, <1>8, <2>3, <3>1 DEF BValues
    <2> QED BY <1>1, <2>2, <2>3
<1>11. CASE sum_in_region
    <2>1. region' = "returned"
        BY <1>1, <1>11
    <2>2. BSummed /\ Slices \subseteq Team
        BY <1>2, <1>4, <1>11, SumFacts DEF BValues
    <2>3. ASSUME NEW i \in Slices PROVE SummedAs(i, KParts)
        <3>1. OfPart(i, 0) \in Slices
            BY <1>2, <1>11, SumFacts
        <3>2. thr[i].pc = "done" /\ thr[OfPart(i, 0)].pc = "done"
            BY <1>2, <2>2, <3>1 DEF AllDone, At
        <3>3. Added(thr[i], i) = KParts
            BY <3>2 DEF Added
        <3>4. SummedAs(i, Added(thr[i], i))
            BY <2>2, <3>2 DEF BSummed
        <3> QED BY <3>3, <3>4
    <2>4. Complete
        BY <1>3, <2>3, SlicesComplete
    <2> QED BY <1>6, <1>8, <2>1, <2>4 DEF BValues
<1> QED BY <1>9, <1>10, <1>11

\* What depends on the division and the results, but not on the threads.
LEMMA ResultsStay ==
    ASSUME UNCHANGED <<prob, thread_info, thread_arg, c, c_local>>
    PROVE  /\ Slices' = Slices /\ KParts' = KParts /\ k_summing' = k_summing /\ NewC' = NewC
           /\ (Succeeded' <=> Succeeded) /\ (Complete' <=> Complete)
           /\ \A i \in Slices : /\ (IsOwn(i)' <=> IsOwn(i)) /\ (PartIsRight(i)' <=> PartIsRight(i))
                                /\ (IsWhole(i)' <=> IsWhole(i))
                                /\ Cells(i)' = Cells(i) /\ SummedCells(i)' = SummedCells(i)
                                /\ OfPart(i, 0)' = OfPart(i, 0)
           /\ \A i, P : SummedAs(i, P)' <=> SummedAs(i, P)
<1>1. /\ Slices' = Slices /\ KParts' = KParts /\ k_summing' = k_summing /\ NewC' = NewC
    BY DEF Slices, nthr_eff, KParts, k_summing, NewC
<1>2. \A i : slice(i)' = slice(i)
    BY DEF slice
<1>3. \A i : /\ Cells(i)' = Cells(i) /\ (IsOwn(i)' <=> IsOwn(i))
             /\ \A z : OfPart(i, z)' = OfPart(i, z)
    BY <1>1, <1>2 DEF Cells, IsOwn, OfPart
<1>4. \A i : SummedCells(i)' = SummedCells(i)
    BY <1>2 DEF SummedCells
<1>5. \A i, P : KOf(i, P)' = KOf(i, P)
    BY <1>2, <1>3 DEF KOf
<1>6. \A i, P : SummedAs(i, P)' <=> SummedAs(i, P)
    BY <1>4, <1>5 DEF SummedAs
<1>7. \A i : (PartIsRight(i)' <=> PartIsRight(i)) /\ (IsWhole(i)' <=> IsWhole(i))
    BY <1>2, <1>3 DEF PartIsRight, IsWhole
<1>8. (Succeeded' <=> Succeeded) /\ (Complete' <=> Complete)
    BY <1>1 DEF Succeeded, Complete
<1> QED BY <1>1, <1>3, <1>4, <1>6, <1>7, <1>8

\* Divisions of k suit every team.
LEMMA SummedSuits ==
    ASSUME Sliced, k_summing PROVE SuitsTeam
    BY SharedIsNotSummed DEF SuitsTeam, copies_a

\* Another team is to add up the parts.
LEMMA BeginLaterKeepsValues ==
    ASSUME BControl, BValues, BeginLater
    PROVE  BValues'
<1>1. /\ region' = "later" /\ UNCHANGED <<prob, thread_info, thread_arg, c, c_local>>
      /\ team' \in Nat \ {0} /\ \A t \in Team' : thr'[t].ithr = t
    BY BeginLaterKeepsControl
<1>2. region = "between"
    BY DEF BeginLater
<1>3. Sliced /\ k_summing
    BY <1>2 DEF BControl, BRegion
<1> SUFFICES ASSUME Succeeded', SuitsTeam' PROVE BShape' /\ BLater'
    BY <1>1 DEF BValues
<1>4. BShape /\ BBetween
    BY <1>1, <1>2, <1>3, ResultsStay, SummedSuits DEF BValues
<1>5. BShape'
    BY <1>1, <1>2, <1>4, ResultsStay DEF BShape
<1>6. ASSUME NEW j \in Slices PROVE ~(Taker(j)'.ithr > j)
    <2>1. PICK w \in Nat \ {0} : w = team'
        BY <1>1
    <2>2. j \in Nat
        BY <1>3, PartsOfABlock DEF Slices
    <2>3. PICK p \in Nat, q \in Nat : p = j % w /\ j = w * q + p /\ p \in 0..(w - 1)
        <3>1. /\ j \div w \in Nat /\ j % w \in 0..(w - 1)
              /\ j = w * (j \div w) + (j % w)
            BY <2>2, DivisionFacts
        <3>2. j % w \in Nat
            BY <3>1
        <3> QED BY <3>1, <3>2
    <2>4. w * q \in Nat
        OBVIOUS
    <2>5. p <= j
        BY <2>2, <2>3, <2>4
    <2>6. p \in Team'
        BY <2>1, <2>3 DEF Team
    <2>7. Taker(j)'.ithr = p
        BY <1>1, <2>1, <2>3, <2>6 DEF Taker
    <2> QED BY <2>2, <2>3, <2>5, <2>7
<1>7. ASSUME NEW j \in Slices PROVE SummedAs(j, {0})
    <2>1. 0 \in KParts
        BY <1>3, PartsOfABlock DEF KParts
    <2>2. /\ OfPart(j, 0) \in Slices /\ Cells(OfPart(j, 0)) = Cells(j)
          /\ ~IsOwn(OfPart(j, 0)) /\ SummedCells(j) \subseteq Cells(j)
        BY <1>3, <2>1, PartsOfABlock, BlocksTile, SummersOfABlock DEF IsOwn
    <2>3. PartIsRight(OfPart(j, 0))
        BY <1>4, <2>2 DEF BBetween
    <2>4. KOf(j, {0}) = slice(OfPart(j, 0)).k
        BY <1>3, <2>1, KOfFacts
    <2> QED BY <2>2, <2>3, <2>4 DEF PartIsRight, SummedAs
<1>8. BLater'
    <2>1. Slices' = Slices
        BY <1>1, ResultsStay
    <2>2. ASSUME NEW j \in Slices
          PROVE  /\ (IsOwn(j) => PartIsRight(j))'
                 /\ SummedAs(j, IF Taker(j).ithr > j THEN KParts ELSE {0})'
        <3>1. PartIsRight(j)'
            BY <1>1, <1>4, ResultsStay DEF BBetween
        <3>2. SummedAs(j, {0})'
            BY <1>1, <1>7, ResultsStay
        <3>3. (IF Taker(j).ithr > j THEN KParts ELSE {0})' = {0}
            BY <1>6
        <3> QED BY <3>1, <3>2, <3>3 DEF SummedAs, KOf
    <2> QED BY <2>1, <2>2 DEF BLater
<1> QED BY <1>5, <1>8

\* The region that adds up the parts ends.
LEMMA EndLaterKeepsValues ==
    ASSUME BControl, BValues, EndLater
    PROVE  BValues'
<1>1. /\ region = "later" /\ AllDone /\ region' = "returned"
      /\ UNCHANGED <<prob, team, thread_info, thr, thread_arg, c, c_local>>
    BY DEF EndLater
<1>2. BStays /\ Sliced /\ team # 0
    BY <1>1, EndLaterKeepsControl DEF BControl, BRegion
<1> SUFFICES ASSUME Succeeded', SuitsTeam' PROVE BShape' /\ Complete'
    BY <1>1 DEF BValues
<1>3. Succeeded /\ SuitsTeam
    BY <1>1, <1>2, ResultsStay DEF BStays
<1>4. BShape /\ BLater
    BY <1>1, <1>3 DEF BValues
<1>5. \A i \in Slices : SummedAs(i, KParts)
    BY <1>1, <1>2, <1>4, AllAreBehind DEF BLater
<1>6. Complete
    BY <1>2, <1>5, SlicesComplete
<1>7. BShape'
    BY <1>1, <1>4, ResultsStay DEF BShape
<1> QED BY <1>1, <1>6, <1>7, ResultsStay

\* A call without a region, and a call that returns.
LEMMA AloneKeepsValues ==
    ASSUME CallAlone PROVE BValues'
<1>1. region' = "returned" /\ c' = [pl \in DOMAIN NewC |-> 0..(prob.k - 1)] /\ prob' = prob
    BY DEF CallAlone
<1>2. NewC' = NewC
    BY <1>1 DEF NewC
<1> QED BY <1>1, <1>2 DEF BValues, BShape, Complete

\* Returning leaves nothing to say of the values.
LEMMA ReturnKeepsValues ==
    ASSUME Return PROVE BValues'
    BY DEF Return, BValues, BShape

\* Nothing happens.
LEMMA StutterKeepsValues ==
    ASSUME BControl, BValues, UNCHANGED vars PROVE BValues'
<1>1. UNCHANGED <<prob, thread_info, thread_arg, c, c_local>> /\ thr' = thr /\ region' = region /\ team' = team
    BY DEF vars
<1>2. BStays
    BY StutterKeepsControl
<1> SUFFICES ASSUME Succeeded', SuitsTeam' PROVE BValues'
    BY DEF BValues
<1>3. Succeeded /\ SuitsTeam
    BY <1>1, <1>2, ResultsStay DEF BStays
<1>4. /\ Slices' = Slices /\ Team' = Team /\ (sum_in_region' <=> sum_in_region)
      /\ \A i \in Slices : Taker(i)' = Taker(i)
    BY <1>1, <1>2 DEF BStays, Taker
<1>5. BShape'
    BY <1>1, <1>3, ResultsStay DEF BShape, BValues
<1>6. BMultiplied => BMultiplied'
    <2>1. \A x : IsMultiplied(x)' <=> IsMultiplied(x)
        <3>1. \A x : SizeM(x)' = SizeM(x) /\ SizeK(x)' = SizeK(x)
            BY <1>2 DEF BStays
        <3>2. \A i : Cells(i)' = Cells(i)
            BY <1>1 DEF Cells, slice
        <3> QED BY <1>1, <3>1, <3>2 DEF IsMultiplied, IsBehind
    <2>2. \A t \in Team : IsMultiplied(thr[t])' <=> IsMultiplied(thr[t])
        BY <1>1, <2>1 DEF IsMultiplied, IsBehind
    <2>3. \A i \in Slices : IsWhole(i)' <=> IsWhole(i)
        BY <1>1, ResultsStay
    <2> QED BY <1>4, <2>2, <2>3 DEF BMultiplied
<1>7. BComputed => BComputed'
    BY <1>1, <1>4, ResultsStay DEF BComputed
<1>8. BSummed => BSummed'
    <2>1. \A i \in Slices : \A x : Added(x, i)' = Added(x, i)
        BY <1>2, AddedStays
    <2> SUFFICES ASSUME BSummed, NEW i \in Slices
                 PROVE  (/\ thr[i].pc # "compute" /\ IsOwn(i) => PartIsRight(i)
                         /\ thr[OfPart(i, 0)].pc # "compute" => SummedAs(i, Added(thr[i], i)))'
        BY <1>4 DEF BSummed
    <2>2. PICK y, P : y = thr[i] /\ y = thr'[i] /\ P = Added(y, i)
        BY <1>1
    <2>3. Added(thr[i], i)' = P
        <3>1. Added(y, i)' = P
            BY <2>1, <2>2
        <3> QED BY <2>2, <3>1 DEF Added
    <2>4. /\ (thr[i].pc # "compute" /\ IsOwn(i) => PartIsRight(i))'
        BY <1>1, ResultsStay DEF BSummed
    <2>5. (thr[OfPart(i, 0)].pc # "compute")' => SummedAs(i, P)'
        <3>1. (thr[OfPart(i, 0)].pc # "compute") => SummedAs(i, P)
            BY <2>2 DEF BSummed
        <3> QED BY <1>1, <3>1, ResultsStay
    <2> QED BY <2>3, <2>4, <2>5 DEF SummedAs, KOf
<1>9. BBetween => BBetween'
    BY <1>1, ResultsStay DEF BBetween
<1>10. BLater => BLater'
    <2> SUFFICES ASSUME BLater, NEW j \in Slices
                 PROVE  /\ (IsOwn(j) => PartIsRight(j))'
                        /\ SummedAs(j, IF Taker(j).ithr > j THEN KParts ELSE {0})'
        BY <1>4 DEF BLater
    <2>1. PICK P : P = IF Taker(j).ithr > j THEN KParts ELSE {0}
        OBVIOUS
    <2>2. (IF Taker(j).ithr > j THEN KParts ELSE {0})' = P
        BY <1>1, <1>4, <2>1, ResultsStay
    <2>3. SummedAs(j, P)'
        BY <1>1, <2>1, ResultsStay DEF BLater
    <2>4. (IsOwn(j) => PartIsRight(j))'
        BY <1>1, ResultsStay DEF BLater
    <2> QED BY <2>2, <2>3, <2>4 DEF SummedAs, KOf
<1>11. Complete => Complete'
    BY <1>1, ResultsStay
<1> QED BY <1>1, <1>3, <1>4, <1>5, <1>6, <1>7, <1>8, <1>9, <1>10, <1>11 DEF BValues

\* The step of a thread that shares a copy with others.
LEMMA SharedKeepsValues ==
    ASSUME BControl, BLock, BCopied, BValues, NEW t \in Team,
           Allocate(t) \/ GetMemory(t) \/ Copy(t) \/ Multiply(t) \/ MultiplyFails(t) \/ Advance(t)
    PROVE  BValues'
<1>1. PICK r \in BThr : BMoves(t, r)
    BY SharedKeepsControl
<1>2. BStays
    BY SharedKeepsControl
<1> SUFFICES ASSUME Succeeded', SuitsTeam' PROVE BValues'
    BY DEF BValues
<1>3. thr[t].pc \in {"alloc", "get", "copy", "multiply", "advance"}
    BY DEF Allocate, GetMemory, Copy, Multiply, MultiplyFails, Multiplies, Advance, At
<1>4. /\ UNCHANGED <<prob, region, team, thread_info>> /\ Sliced /\ region = "compute"
      /\ thread_info.copy = "shared_a" /\ ~sum_in_region
    <2>1. /\ Sliced /\ region \in {"compute", "later"} /\ BFits(t, thr[t])
        BY <1>3, BWorker
    <2>2. region = "compute" /\ thread_info.copy = "shared_a"
        BY <1>3, <2>1 DEF BFits
    <2> QED BY <1>1, <2>1, <2>2, SharedIsNotSummed DEF BMoves
<1>5. Succeeded /\ SuitsTeam
    BY <1>1, <1>2, <1>3, SucceededBefore DEF BStays
<1>6. BShape /\ BMultiplied
    BY <1>4, <1>5 DEF BValues
<1>7. ~MultiplyFails(t)
    BY <1>3, ReportedFails DEF MultiplyFails
<1>8. BMultiplied'
    BY <1>2, <1>4, <1>5, <1>6, <1>7, OthersKeepMultiplied, MultiplyKeepsMultiplied, AdvanceKeepsMultiplied
<1>9. DOMAIN c' = DOMAIN c /\ c_local' = c_local
    <2>1. CASE Multiply(t)
        BY <1>2, <1>4, <1>5, <1>6, <2>1, MultiplyKeepsMultiplied DEF Multiply
    <2>2. CASE Allocate(t) \/ GetMemory(t) \/ Copy(t) \/ Advance(t)
        BY <2>2 DEF Allocate, GetMemory, Copy, Advance
    <2> QED BY <1>7, <2>1, <2>2
<1>10. BShape'
    BY <1>2, <1>4, <1>6, <1>9, ShapeStays
<1>11. sum_in_region' = sum_in_region
    BY <1>2 DEF BStays
<1> QED BY <1>4, <1>8, <1>10, <1>11 DEF BValues

\* The step of a thread that computes a slice by itself.
LEMMA ComputeKeepsValues ==
    ASSUME BControl, BValues, NEW t \in Team, Compute(t) \/ ComputeFails(t)
    PROVE  BValues'
<1>1. PICK r \in BThr : BMoves(t, r)
    BY ComputeKeepsControl
<1>2. BStays
    BY ComputeKeepsControl
<1> SUFFICES ASSUME Succeeded', SuitsTeam' PROVE BValues'
    BY DEF BValues
<1>3. thr[t].pc = "compute"
    BY DEF Compute, ComputeFails, At
<1>4. /\ UNCHANGED <<prob, region, team, thread_info>> /\ Sliced /\ region = "compute"
      /\ thread_info.copy # "shared_a" /\ thr[t].ithr \in Slices
    <2>1. /\ Sliced /\ region \in {"compute", "later"} /\ BFits(t, thr[t]) /\ thr[t].ithr \in Slices
        BY <1>3, BWorker
    <2>2. region = "compute" /\ thread_info.copy # "shared_a"
        BY <1>3, <2>1 DEF BFits
    <2> QED BY <1>1, <2>1, <2>2 DEF BMoves
<1>5. Succeeded /\ SuitsTeam
    BY <1>1, <1>2, <1>3, SucceededBefore DEF BStays
<1>6. BShape
    BY <1>5 DEF BValues
<1>7. Compute(t)
    <2>1. ~ComputeFails(t)
        BY <1>3, ReportedFails DEF ComputeFails
    <2> QED BY <2>1
<1>8. BShape'
    BY <1>2, <1>4, <1>6, <1>7, ComputedFacts
<1>9. sum_in_region' = sum_in_region
    BY <1>2 DEF BStays
<1>10. CASE sum_in_region
    <2>1. BSummed
        BY <1>4, <1>5, <1>10 DEF BValues
    <2>2. BSummed'
        BY <1>2, <1>6, <1>7, <1>10, <2>1, ComputeKeepsSummed
    <2> QED BY <1>4, <1>8, <1>9, <1>10, <2>2 DEF BValues
<1>11. CASE ~sum_in_region
    <2>1. BComputed
        BY <1>4, <1>5, <1>11 DEF BValues
    <2>2. BComputed'
        BY <1>2, <1>6, <1>7, <1>11, <2>1, ComputeKeepsComputed
    <2> QED BY <1>4, <1>8, <1>9, <1>11, <2>2 DEF BValues
<1> QED BY <1>10, <1>11

\* The step of a thread that sums in the region.
LEMMA SummingKeepsValues ==
    ASSUME BControl, BValues, NEW t \in Team, Publish(t) \/ AddOwn(t) \/ AddOther(t)
    PROVE  BValues'
<1>1. PICK r \in BThr : BMoves(t, r)
    BY PublishKeepsControl, AddKeepsControl
<1>2. BStays
    BY PublishKeepsControl, AddKeepsControl
<1> SUFFICES ASSUME Succeeded', SuitsTeam' PROVE BValues'
    BY DEF BValues
<1>3. thr[t].pc \in {"publish", "own", "others"}
    BY DEF Publish, AddOwn, AddOther, MayAddOwn, MayAddOther, At
<1>4. /\ UNCHANGED <<prob, region, team, thread_info>> /\ Sliced /\ region = "compute"
      /\ thread_info.copy # "shared_a" /\ sum_in_region /\ sum_in_region' = sum_in_region
    <2>1. Sliced /\ region = "compute" /\ sum_in_region
        BY <1>3, Summer
    <2> QED BY <1>1, <1>2, <2>1, SharedIsNotSummed DEF BMoves, BStays
<1>5. Succeeded /\ SuitsTeam
    BY <1>1, <1>2, <1>3, SucceededBefore DEF BStays
<1>6. BShape /\ BSummed
    BY <1>4, <1>5 DEF BValues
<1>7. BShape' /\ BSummed'
    <2>1. CASE Publish(t)
        <3>1. c' = c /\ c_local' = c_local
            BY <2>1 DEF Publish
        <3> QED BY <1>2, <1>4, <1>6, <2>1, <3>1, ShapeStays, PublishKeepsSummed
    <2>2. CASE AddOwn(t) \/ AddOther(t)
        BY <1>2, <1>6, <2>2, AddKeepsSummed
    <2> QED BY <2>1, <2>2
<1> QED BY <1>4, <1>7 DEF BValues

\* The step of a thread that sums in the region that follows.
LEMMA SumLaterKeepsValues ==
    ASSUME BControl, BValues, NEW t \in Team, SumLater(t)
    PROVE  BValues'
<1>1. PICK r \in BThr : BMoves(t, r)
    BY SumLaterKeepsControl
<1>2. BStays
    BY SumLaterKeepsControl
<1> SUFFICES ASSUME Succeeded', SuitsTeam' PROVE BValues'
    BY DEF BValues
<1>3. thr[t].pc = "later"
    BY Zenon DEF SumLater, At
<1>4. region = "later" /\ region' = region
    <2>1. region \in {"compute", "later"} /\ BFits(t, thr[t])
        BY <1>3, BWorker
    <2> QED BY <1>1, <1>3, <2>1 DEF BFits, BMoves
<1>5. Succeeded /\ SuitsTeam
    BY <1>1, <1>2, <1>3, SucceededBefore DEF BStays
<1>6. BShape' /\ BLater'
    BY <1>2, <1>4, <1>5, SumLaterKeepsLater DEF BValues
<1> QED BY <1>4, <1>6 DEF BValues

\* What is in C is what the threads have come to.
LEMMA ValuesHold == DriverSpec => []BValues
<1>1. DriverInit => BValues
    BY DEF DriverInit, Init, Idle, BValues, BShape
<1>2. BControl /\ BLock /\ BCopied /\ BValues /\ [DriverNext]_driver_vars => BValues'
    <2> SUFFICES ASSUME BControl, BLock, BCopied, BValues, [DriverNext]_driver_vars PROVE BValues'
        OBVIOUS
    <2>1. CASE UNCHANGED vars
        BY <2>1, StutterKeepsValues
    <2>2. CASE ~Diverted /\ Next
        <3>1. ASSUME NEW t \in Team, Step(t) PROVE BValues'
            <4>1. CASE \/ Allocate(t) \/ GetMemory(t) \/ Copy(t) \/ Multiply(t) \/ MultiplyFails(t)
                       \/ Advance(t)
                BY <4>1, SharedKeepsValues
            <4>2. CASE Compute(t) \/ ComputeFails(t)
                BY <4>2, ComputeKeepsValues
            <4>3. CASE Publish(t) \/ AddOwn(t) \/ AddOther(t)
                BY <4>3, SummingKeepsValues
            <4>4. CASE SumLater(t)
                BY <4>4, SumLaterKeepsValues
            <4>5. CASE Spin(t)
                BY <4>5, StutterKeepsValues DEF Spin
            <4> QED BY <3>1, <4>1, <4>2, <4>3, <4>4, <4>5 DEF Step
        <3> QED BY <2>2, <3>1, AloneKeepsValues, CallMakesValues, EndComputeKeepsValues,
                   BeginLaterKeepsValues, EndLaterKeepsValues, ReturnKeepsValues DEF Next
    <2> QED BY <2>1, <2>2 DEF DriverNext, driver_vars
<1> QED BY <1>1, <1>2, ControlHolds, LockHolds, CopiedHolds, PTL DEF DriverSpec

\* A call that reports success, after whatever failures, has summed every part of k,
\* once, in every place of C, on condition that its team suffices (TeamSuffices): it is
\* as large as the partition of the copy-nothing gemm, and the one that a matrix for a
\* shared copy was packed for.  With a smaller team both results can be incomplete.
THEOREM ProductIsAlwaysComplete == DriverSpec => []ProductIsComplete
<1>1. BControl /\ BValues => ResultIsComplete
    BY DEF BValues, ResultIsComplete
<1>2. KState /\ Diverted => Nocopy!ResultIsComplete
    BY NocopyCompletes DEF KState
<1>3. KState /\ BControl /\ BValues => ProductIsComplete
    BY <1>1, <1>2 DEF ProductIsComplete, TeamSuffices, SuccessMeansWhole, ResultIsComplete,
        Nocopy!ResultIsComplete, Nocopy!Returned
<1> QED BY <1>3, KStateHolds, ControlHolds, ValuesHold, PTL

\* That condition holds where OpenMP grants what a region asks for, and no matrix was
\* packed for a shared copy of A by another number of threads than there are now; then
\* every call that reports success has the whole product.
THEOREM FullTeamsSuffice ==
    ASSUME ~MayShrink,
           \A p \in Problems : p.packed = "b" /\ p.plan = "shared_a" => p.goal = p.nthr_max
    PROVE  DriverSpec => [](TeamSuffices /\ SuccessMeansWhole)
<1> DEFINE Granted == nocopy_region # "out" => Diverted /\ nocopy_team = nocopy_prob.nthr_max
<1>1. DriverInit => Granted /\ SuitsTeam
    BY DEF DriverInit, Init, Idle, Nocopy!Init, Nocopy!NotCalled, SuitsTeam, copies_a, Undivided,
        Threading
<1>2. BControl /\ SuitsTeam /\ [DriverNext]_driver_vars => SuitsTeam'
    <2> SUFFICES ASSUME BControl, SuitsTeam, [DriverNext]_driver_vars PROVE SuitsTeam'
        OBVIOUS
    <2>1. CASE UNCHANGED <<prob, team, thread_info>>
        BY <2>1 DEF SuitsTeam, copies_a, nthr_eff
    <2>2. CASE Call
        <3>1. /\ team' = prob.nthr_max /\ prob' = prob /\ prob \in Problems
              /\ thread_info' = threading_of(prob, team')
            BY <2>2 DEF Call, Teams, BControl
        <3> SUFFICES ASSUME copies_a', prob.packed = "b" PROVE team' = nthrs(thread_info')
            BY <3>1 DEF SuitsTeam, nthr_eff
        <3>2. thread_info' = set_thread_opts_nopack(prob, prob.goal, prob.goal)
            BY <3>1 DEF threading_of, force_threading, forced
        <3>3. IsProblem(prob) /\ prob.goal \in Nat \ {0} /\ thread_info'.copy = "shared_a"
            BY <3>1, ProblemsAreProblems DEF IsProblem, copies_a
        <3>4. prob.plan = "shared_a" /\ nthrs(thread_info') = prob.goal
            BY <3>2, <3>3, NopackFacts
        <3> QED BY <3>1, <3>4
    <2>3. CASE BeginLater
        <3>1. k_summing /\ Sliced /\ prob' = prob /\ thread_info' = thread_info
            BY <2>3 DEF BeginLater, BControl, BRegion
        <3> QED BY <3>1, SharedIsNotSummed DEF SuitsTeam, copies_a
    <2>4. CASE Return
        BY <2>4 DEF Return, Undivided, Threading, SuitsTeam, copies_a
    <2>5. CASE CallAlone \/ EndCompute \/ EndLater
        BY <2>1, <2>5 DEF CallAlone, EndCompute, EndLater
    <2>6. CASE UNCHANGED vars
        BY <2>1, <2>6 DEF vars
    <2> QED BY <2>1, <2>2, <2>3, <2>4, <2>5, <2>6, StepStays DEF DriverNext, driver_vars, Next
<1>3. Granted /\ [DriverNext]_driver_vars => Granted'
    <2> SUFFICES ASSUME Granted, [DriverNext]_driver_vars, nocopy_region' # "out"
                 PROVE  Diverted' /\ nocopy_team' = nocopy_prob'.nthr_max
        OBVIOUS
    <2>1. CASE UNCHANGED nocopy_vars
        <3>1. prob' = prob
            BY <2>1, CallStays DEF DriverNext, driver_vars, vars
        <3> QED BY <2>1, <3>1 DEF nocopy_vars, Diverted
    <2>2. CASE Diverted /\ Nocopy!Next /\ UNCHANGED vars
        <3>1. Diverted' /\ nocopy_prob' = nocopy_prob
            BY <2>2, NocopyCallStays DEF vars, Diverted
        <3>2. CASE Nocopy!Call
            BY <3>1, <3>2 DEF Nocopy!Call, Nocopy!Teams
        <3>3. CASE \/ Nocopy!CallFails \/ Nocopy!EndCompute \/ Nocopy!BeginLater
                   \/ Nocopy!EndLater \/ Nocopy!Return
            BY <3>1, <3>3 DEF Nocopy!CallFails, Nocopy!EndCompute, Nocopy!BeginLater,
                Nocopy!EndLater, Nocopy!Return
        <3> QED BY <2>2, <3>1, <3>2, <3>3, NocopyStepStays DEF Nocopy!Next
    <2> QED BY <2>1, <2>2 DEF DriverNext, driver_vars
<1>4. PartInv /\ PartitionIsExact /\ Granted /\ SuitsTeam => TeamSuffices
    <2> SUFFICES ASSUME PartInv, PartitionIsExact, Granted, nocopy_region # "out"
                 PROVE  ~Nocopy!sum_later
        BY DEF TeamSuffices
    <2>1. Nocopy!nthr_to_use \in 1..nocopy_prob.nthrs /\ nocopy_team = nocopy_prob.nthr_max
        BY DEF PartitionIsExact, Nocopy!PartitionIsExact
    <2>2. nocopy_prob.nthrs \in 1..nocopy_prob.nthr_max /\ nocopy_prob.nthr_max \in Nat
        BY GoalFacts, ProblemsAreProblems DEF PartInv, call_no_copy_sgemm, IsProblem
    <2> QED BY <2>1, <2>2 DEF Nocopy!sum_later
<1>5. TeamSuffices /\ ProductIsComplete => SuccessMeansWhole
    BY DEF ProductIsComplete
<1> QED BY <1>1, <1>2, <1>3, <1>4, <1>5, ControlHolds, PartInvHolds, PartitionsAreExact,
       ProductIsAlwaysComplete, PTL DEF DriverSpec

=============================================================================
