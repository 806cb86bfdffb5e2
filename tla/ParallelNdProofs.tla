-------------------------- MODULE ParallelNdProofs --------------------------
(***************************************************************************)
(* Proofs about two parts that all primitives share, ParallelNd and        *)
(* SetBeforeFirstGet.                                                      *)
(*                                                                         *)
(* parallel_nd calls f exactly once for every item, for every number of    *)
(* threads and every range.  The invariant says that the items f has been  *)
(* called for are those that the threads have walked past; that pieces are *)
(* disjoint and complete is taken from Balance211Proofs.                   *)
(*                                                                         *)
(* The setting keeps its promise for any threads and any values.  The      *)
(* inductive invariant says what each place of the code knows: between     *)
(* the CAS and the release a set owns the busy state, and a get that is    *)
(* about to read has a locked setting.                                     *)
(***************************************************************************)
EXTENDS ParallelNd, SetBeforeFirstGet, Balance211Proofs

\* The position of an item in the range.
Index(d) == d[1] * D[2] + d[2]

Walked(t, i) ==
    /\ t < nthr
    /\ i \in Piece(work_amount, nthr, t)
    /\ thr[t].pc = "end" \/ (thr[t].pc = "loop" /\ i < thr[t].iwork)

RegionInv ==
    /\ nthr = 0 => D = <<0, 0>>
    /\ \A t \in Tids : thr[t].pc = "none" <=> t >= nthr

LoopInv ==
    \A t \in Tids : thr[t].pc = "loop" =>
        /\ thr[t].end = balance211_end(work_amount, nthr, t)
        /\ balance211_start(work_amount, nthr, t) <= thr[t].iwork
        /\ AboutToCall(t) => thr[t].d \in Items /\ Index(thr[t].d) = thr[t].iwork

CalledInv == called = {d \in Items : \E t \in Tids : Walked(t, Index(d))}

IInv == TypeOK /\ RegionInv /\ LoopInv /\ CalledInv

-----------------------------------------------------------------------------
(* Items and their positions *)

\* The positions are those of the whole range.
LEMMA IndexInRange ==
    ASSUME D \in Nat \X Nat, NEW d \in Items
    PROVE  Index(d) \in 0..(work_amount - 1)
    <1> DEFINE D0 == D[1]
               D1 == D[2]
    <1>1. D0 \in Nat /\ D1 \in Nat /\ d[1] \in 0..(D0 - 1) /\ d[2] \in 0..(D1 - 1)
        BY DEF Items
    <1>2. Index(d) = d[1] * D1 + d[2] /\ work_amount = D0 * D1
        BY DEF Index, work_amount
    <1> HIDE DEF D0, D1
    <1>3. (d[1] + 1) * D1 <= D0 * D1
        BY <1>1, ProductMonotone
    <1>4. (d[1] + 1) * D1 = d[1] * D1 + D1 /\ d[1] * D1 \in Nat /\ D0 * D1 \in Nat
        BY <1>1
    <1> QED
        BY <1>1, <1>2, <1>3, <1>4

\* Two items with the same position are the same.
LEMMA IndexInjective ==
    ASSUME D \in Nat \X Nat, NEW d \in Items, NEW e \in Items, Index(d) = Index(e)
    PROVE  d = e
    <1> DEFINE D1 == D[2]
    <1>1. /\ D1 \in Nat
          /\ d[1] \in Nat /\ d[2] \in 0..(D1 - 1)
          /\ e[1] \in Nat /\ e[2] \in 0..(D1 - 1)
          /\ d = <<d[1], d[2]>> /\ e = <<e[1], e[2]>>
        BY DEF Items
    <1>2. d[1] * D1 + d[2] = e[1] * D1 + e[2]
        BY DEF Index
    <1> HIDE DEF D1
    <1>3. \A a, b \in Nat : a < b => a * D1 + D1 <= b * D1
        <2>1. SUFFICES ASSUME NEW a \in Nat, NEW b \in Nat, a < b
                       PROVE  a * D1 + D1 <= b * D1
            OBVIOUS
        <2>2. (a + 1) * D1 <= b * D1
            BY <1>1, <2>1, ProductMonotone
        <2>3. (a + 1) * D1 = a * D1 + D1
            BY <1>1
        <2> QED
            BY <2>2, <2>3
    <1>4. d[1] * D1 \in Nat /\ e[1] * D1 \in Nat
        BY <1>1
    <1>5. ~(d[1] < e[1]) /\ ~(e[1] < d[1])
        BY <1>1, <1>2, <1>3, <1>4
    <1>6. d[1] = e[1]
        BY <1>1, <1>5
    <1> QED
        BY <1>1, <1>2, <1>4, <1>6

\* nd_iterator_init gives the item at a position.
LEMMA InitGivesItem ==
    ASSUME D \in Nat \X Nat, NEW i \in 0..(work_amount - 1)
    PROVE  /\ nd_iterator_init(i, D[1], D[2]) \in Items
           /\ Index(nd_iterator_init(i, D[1], D[2])) = i
    <1> DEFINE D0 == D[1]
               D1 == D[2]
               q == i \div D1
               r == i % D1
    <1>1. D0 \in Nat /\ D1 \in Nat /\ i \in Nat /\ i < D0 * D1
        BY DEF work_amount
    <1>2. D1 # 0
        BY <1>1
    <1>3. q \in Nat /\ r \in 0..(D1 - 1) /\ i = D1 * q + r
        BY <1>1, <1>2, DivisionFacts
    <1>4. nd_iterator_init(i, D[1], D[2]) = <<q % D0, r>>
        BY DEF nd_iterator_init
    <1>5. Items = (0..(D0 - 1)) \X (0..(D1 - 1))
        BY DEF Items
    <1>6. \A a, b : Index(<<a, b>>) = a * D1 + b
        BY DEF Index
    <1> HIDE DEF D0, D1, q, r
    <1>7. q < D0
        <2>1. SUFFICES ASSUME D0 <= q PROVE FALSE
            BY <1>1, <1>3
        <2>2. D0 * D1 <= q * D1 /\ q * D1 = D1 * q
            BY <1>1, <1>3, <2>1, ProductMonotone
        <2>3. D0 * D1 \in Nat /\ q * D1 \in Nat
            BY <1>1, <1>3
        <2> QED
            BY <1>1, <1>3, <2>2, <2>3
    <1>8. q % D0 = q
        BY <1>1, <1>3, <1>7
    <1>9. q * D1 = D1 * q
        BY <1>1, <1>3
    <1>10. nd_iterator_init(i, D[1], D[2]) = <<q, r>>
        BY <1>4, <1>8
    <1>11. <<q, r>> \in Items
        BY <1>1, <1>3, <1>5, <1>7
    <1>12. Index(<<q, r>>) = i
        <2>1. Index(<<q, r>>) = q * D1 + r
            BY <1>6
        <2> QED
            BY <1>1, <1>3, <1>9, <2>1
    <1> QED
        BY <1>10, <1>11, <1>12

\* nd_iterator_step goes from an item to the next one.
LEMMA StepGivesNextItem ==
    ASSUME D \in Nat \X Nat, NEW d \in Items, Index(d) + 1 < work_amount
    PROVE  /\ nd_iterator_step(d, D[1], D[2]) \in Items
           /\ Index(nd_iterator_step(d, D[1], D[2])) = Index(d) + 1
    <1> DEFINE D0 == D[1]
               D1 == D[2]
    <1>1. D0 \in Nat /\ D1 \in Nat /\ d[1] \in 0..(D0 - 1) /\ d[2] \in 0..(D1 - 1)
        BY DEF Items
    <1>2. d[1] * D1 + d[2] + 1 < D0 * D1
        BY DEF Index, work_amount
    <1>3. Items = (0..(D0 - 1)) \X (0..(D1 - 1)) /\ Index(d) = d[1] * D1 + d[2]
        BY DEF Items, Index
    <1>4. \A a, b : Index(<<a, b>>) = a * D1 + b
        BY DEF Index
    <1>5. nd_iterator_step(d, D[1], D[2]) =
            IF d[2] + 1 < D1 THEN <<d[1], d[2] + 1>>
            ELSE <<IF d[1] + 1 = D0 THEN 0 ELSE d[1] + 1, 0>>
        BY DEF nd_iterator_step
    <1> HIDE DEF D0, D1
    <1>6. (d[1] + 1) * D1 = d[1] * D1 + D1 /\ d[1] * D1 \in Nat
        BY <1>1
    <1>7. CASE d[2] + 1 < D1
        BY <1>1, <1>3, <1>4, <1>5, <1>6, <1>7
    <1>8. CASE d[2] + 1 = D1
        <2>1. d[1] + 1 # D0
            BY <1>1, <1>2, <1>6, <1>8
        <2> QED
            BY <1>1, <1>3, <1>4, <1>5, <1>6, <1>8, <2>1
    <1> QED
        BY <1>1, <1>7, <1>8

\* Pieces of different threads have no item in common.
LEMMA PiecesAreDisjoint ==
    ASSUME NEW n \in Nat, NEW team \in Nat \ {0},
           NEW t \in 0..(team - 1), NEW u \in 0..(team - 1),
           NEW i \in Piece(n, team, t), i \in Piece(n, team, u)
    PROVE  t = u
    <1>1. /\ balance211_start(n, team, t) \in Nat /\ balance211_end(n, team, t) \in Nat
          /\ balance211_start(n, team, u) \in Nat /\ balance211_end(n, team, u) \in Nat
        BY PieceBounds
    <1>2. CASE t < u
        BY <1>1, <1>2, PiecesAreOrdered DEF Piece
    <1>3. CASE u < t
        BY <1>1, <1>3, PiecesAreOrdered DEF Piece
    <1> QED
        BY <1>2, <1>3

-----------------------------------------------------------------------------
(* The invariant *)

\* Initially no region runs.
LEMMA InitHolds == Init => IInv
    <1> SUFFICES ASSUME Init PROVE IInv
        OBVIOUS
    <1> USE DEF Init
    <1>1. NotRunning \in Thr /\ NotRunning.pc = "none"
        BY DEF NotRunning, Thr
    <1>2. TypeOK
        BY <1>1, ThreadsAssumption DEF TypeOK
    <1>3. RegionInv
        BY <1>1, ThreadsAssumption DEF RegionInv, Tids
    <1>4. LoopInv
        BY <1>1 DEF LoopInv
    <1>5. CalledInv
        BY DEF CalledInv, Items
    <1> QED
        BY <1>2, <1>3, <1>4, <1>5 DEF IInv

\* The invariant says that no item is passed to f twice.
LEMMA InvCallsOnce == IInv => CalledOnce
    <1> SUFFICES ASSUME IInv, NEW t \in Tids, AboutToCall(t)
                 PROVE  /\ thr[t].d \notin called
                        /\ \A u \in Tids \ {t} : AboutToCall(u) => thr[u].d # thr[t].d
        BY DEF CalledOnce
    <1> USE DEF IInv, AboutToCall
    <1>1. D \in Nat \X Nat /\ nthr \in Nat /\ \A u \in Tids : thr[u] \in Thr
        BY ThreadsAssumption DEF TypeOK
    <1>2. work_amount \in Nat
        BY <1>1 DEF work_amount
    <1>3. \A u \in Tids : AboutToCall(u) =>
             /\ u \in 0..(nthr - 1)
             /\ thr[u].d \in Items
             /\ Index(thr[u].d) = thr[u].iwork
             /\ thr[u].iwork \in Piece(work_amount, nthr, u)
        <2>1. SUFFICES ASSUME NEW u \in Tids, AboutToCall(u)
                       PROVE  /\ u \in 0..(nthr - 1)
                              /\ thr[u].d \in Items
                              /\ Index(thr[u].d) = thr[u].iwork
                              /\ thr[u].iwork \in Piece(work_amount, nthr, u)
            OBVIOUS
        <2>2. u \in 0..(nthr - 1)
            BY <1>1, <2>1, ThreadsAssumption DEF RegionInv, Tids
        <2>3. nthr \in Nat \ {0}
            BY <1>1, <2>2
        <2>4. /\ balance211_start(work_amount, nthr, u) \in Nat
              /\ balance211_end(work_amount, nthr, u) \in Nat
            BY <1>2, <2>2, <2>3, PieceBounds
        <2>5. thr[u].iwork \in Nat
            BY <1>1 DEF Thr
        <2> QED
            BY <2>1, <2>2, <2>4, <2>5 DEF LoopInv, Piece
    <1>4. thr[t].d \notin called
        <2>1. SUFFICES ASSUME NEW u \in Tids, Walked(u, thr[t].iwork) PROVE FALSE
            BY <1>3 DEF CalledInv
        <2>2. u \in 0..(nthr - 1) /\ thr[t].iwork \in Piece(work_amount, nthr, u)
            BY <1>1, <2>1, ThreadsAssumption DEF Walked, Tids
        <2>3. t = u
            BY <1>1, <1>2, <1>3, <2>2, PiecesAreDisjoint
        <2>4. thr[t].iwork \in Nat
            BY <1>1 DEF Thr
        <2> QED
            BY <2>1, <2>3, <2>4 DEF Walked
    <1>5. ASSUME NEW u \in Tids \ {t}, AboutToCall(u), thr[u].d = thr[t].d
          PROVE  FALSE
        <2>1. thr[u].iwork = thr[t].iwork
            BY <1>3, <1>5
        <2>2. t = u
            BY <1>1, <1>2, <1>3, <1>5, <2>1, PiecesAreDisjoint
        <2> QED
            BY <2>2
    <1> QED
        BY <1>4, <1>5

\* The invariant says that no item is left out.
LEMMA InvCallsAll == IInv => CalledForAll
    <1> SUFFICES ASSUME IInv, AllEnded, NEW d \in Items PROVE d \in called
        BY DEF CalledForAll, IInv, TypeOK
    <1> USE DEF IInv
    <1>1. D \in Nat \X Nat /\ nthr \in 0..max_threads /\ nthr > 0
        BY DEF TypeOK, AllEnded
    <1>2. work_amount \in Nat /\ Index(d) \in 0..(work_amount - 1)
        BY <1>1, IndexInRange DEF work_amount
    <1>3. nthr \in Nat \ {0}
        BY <1>1, ThreadsAssumption
    <1>4. PICK t \in 0..(nthr - 1) : Index(d) \in Piece(work_amount, nthr, t)
        BY <1>2, <1>3, EveryItemHasAThread
    <1>5. t \in Tids /\ t < nthr
        BY <1>1, <1>4, ThreadsAssumption DEF Tids
    <1>6. Walked(t, Index(d))
        BY <1>4, <1>5 DEF Walked, AllEnded
    <1> QED
        BY <1>5, <1>6 DEF CalledInv

\* A new region has called f for nothing yet.
LEMMA ParallelNdKeepsInv ==
    ASSUME IInv, NEW D0 \in 0..MaxD, NEW D1 \in 0..MaxD, NEW granted \in 1..max_threads,
           ParallelNd(D0, D1, granted)
    PROVE  IInv'
    <1> USE DEF ParallelNd
    <1>1. /\ NotRunning \in Thr /\ NotRunning.pc = "none"
          /\ [NotRunning EXCEPT !.pc = "start"] \in Thr
          /\ [NotRunning EXCEPT !.pc = "start"].pc = "start"
        BY DEF NotRunning, Thr
    <1>2. TypeOK'
        BY <1>1, ThreadsAssumption, MaxDAssumption DEF TypeOK
    <1>3. RegionInv'
        BY <1>1, ThreadsAssumption DEF RegionInv, Tids
    <1>4. \A t \in Tids : thr'[t].pc \in {"none", "start"}
        BY <1>1
    <1>5. LoopInv'
        BY <1>4 DEF LoopInv
    <1>6. CalledInv'
        BY <1>4 DEF CalledInv, Walked
    <1> QED
        BY <1>2, <1>3, <1>5, <1>6 DEF IInv

\* The region is over: nothing is left of it.
LEMMA ReturnKeepsInv ==
    ASSUME IInv, Return
    PROVE  IInv'
    <1> USE DEF Return
    <1>1. NotRunning \in Thr /\ NotRunning.pc = "none"
        BY DEF NotRunning, Thr
    <1>2. TypeOK'
        BY <1>1, ThreadsAssumption DEF TypeOK
    <1>3. RegionInv'
        BY <1>1, ThreadsAssumption DEF RegionInv, Tids
    <1>4. LoopInv'
        BY <1>1 DEF LoopInv
    <1>5. CalledInv'
        BY DEF CalledInv, Items
    <1> QED
        BY <1>2, <1>3, <1>4, <1>5 DEF IInv

\* A step of one thread that keeps the region and the types keeps the invariant
\* if the thread's own state stays right and it walks past the item it calls f
\* for and past no other.
LEMMA ThreadStepKeepsInv ==
    ASSUME IInv, NEW t \in Tids, UNCHANGED <<D, nthr>>, thr[t].pc # "none",
           NEW rec \in Thr, thr' = [thr EXCEPT ![t] = rec], rec.pc # "none",
           NEW new \in SUBSET Items, called' = called \cup new,
           \A d \in Items : Walked(t, Index(d))' <=> Walked(t, Index(d)) \/ d \in new,
           rec.pc = "loop" =>
             /\ rec.end = balance211_end(work_amount, nthr, t)
             /\ balance211_start(work_amount, nthr, t) <= rec.iwork
             /\ rec.iwork < rec.end => rec.d \in Items /\ Index(rec.d) = rec.iwork
    PROVE  IInv'
    <1>1. Items' = Items /\ work_amount' = work_amount /\ \A d : Index(d)' = Index(d)
        BY DEF Items, work_amount, Index
    <1>2. thr'[t] = rec /\ \A u \in Tids \ {t} : thr'[u] = thr[u]
        BY DEF IInv, TypeOK
    <1>3. TypeOK'
        BY <1>1 DEF IInv, TypeOK
    <1>4. RegionInv'
        BY <1>2 DEF IInv, RegionInv
    <1>5. LoopInv'
        <2>1. SUFFICES ASSUME NEW u \in Tids, thr'[u].pc = "loop"
                       PROVE  /\ thr'[u].end = balance211_end(work_amount, nthr, u)
                              /\ balance211_start(work_amount, nthr, u) <= thr'[u].iwork
                              /\ thr'[u].iwork < thr'[u].end =>
                                   thr'[u].d \in Items /\ Index(thr'[u].d) = thr'[u].iwork
            BY <1>1 DEF LoopInv, AboutToCall
        <2>2. CASE u = t
            BY <1>2, <2>1, <2>2
        <2>3. CASE u # t
            BY <1>2, <2>1, <2>3 DEF IInv, LoopInv, AboutToCall
        <2> QED
            BY <2>2, <2>3
    <1>6. CalledInv'
        <2>1. \A u \in Tids \ {t}, e \in Items : Walked(u, Index(e))' <=> Walked(u, Index(e))
            BY <1>1, <1>2 DEF Walked, Index
        <2>2. called = {d \in Items : \E u \in Tids : Walked(u, Index(d))}
            BY DEF IInv, CalledInv
        <2>3. ASSUME NEW d \in Items
              PROVE  d \in called' <=> \E u \in Tids : Walked(u, Index(d))'
            <3>1. d \in called' <=> d \in new \/ \E u \in Tids : Walked(u, Index(d))
                BY <2>2
            <3> QED
                BY <2>1, <3>1
        <2> QED
            BY <1>1, <2>2, <2>3 DEF CalledInv
    <1> QED
        BY <1>3, <1>4, <1>5, <1>6 DEF IInv

\* What the invariant says of a thread of the running region.
LEMMA RegionFacts ==
    ASSUME IInv, NEW t \in Tids, thr[t].pc # "none"
    PROVE  /\ D \in Nat \X Nat /\ work_amount \in Nat
           /\ nthr \in Nat \ {0} /\ t \in 0..(nthr - 1) /\ thr[t] \in Thr
           /\ balance211_start(work_amount, nthr, t) \in Nat
           /\ balance211_end(work_amount, nthr, t) \in 0..work_amount
           /\ balance211_start(work_amount, nthr, t) <= balance211_end(work_amount, nthr, t)
    <1>1. /\ D \in Nat \X Nat /\ nthr \in 0..max_threads /\ thr[t] \in Thr
          /\ ~(t >= nthr) /\ t \in 0..(max_threads - 1)
        BY DEF IInv, TypeOK, RegionInv, Tids
    <1>2. work_amount \in Nat
        BY <1>1 DEF work_amount
    <1>3. nthr \in Nat \ {0} /\ t \in 0..(nthr - 1)
        BY <1>1, ThreadsAssumption
    <1> QED
        BY <1>1, <1>2, <1>3, PieceBounds

\* A thread that enters its loop has walked past nothing.
LEMMA ForNdKeepsInv ==
    ASSUME IInv, NEW t \in Tids, ForNd(t)
    PROVE  IInv'
    <1> DEFINE start == balance211_start(work_amount, nthr, t)
               end   == balance211_end(work_amount, nthr, t)
               rec   == IF work_amount = 0 THEN [thr[t] EXCEPT !.pc = "end"]
                        ELSE [pc |-> "loop", iwork |-> start, end |-> end,
                              d |-> nd_iterator_init(start, D[1], D[2])]
    <1>1. /\ thr[t].pc = "start" /\ thr' = [thr EXCEPT ![t] = rec]
          /\ UNCHANGED <<D, nthr, called>>
        BY DEF ForNd
    <1>2. /\ D \in Nat \X Nat /\ work_amount \in Nat /\ thr[t] \in Thr
          /\ start \in Nat /\ end \in 0..work_amount /\ start <= end
          /\ nthr \in Nat \ {0} /\ t \in 0..(nthr - 1)
        BY <1>1, RegionFacts
    <1>3. start < end => /\ nd_iterator_init(start, D[1], D[2]) \in Items
                         /\ Index(nd_iterator_init(start, D[1], D[2])) = start
        BY <1>2, InitGivesItem
    <1>4. nd_iterator_init(start, D[1], D[2]) \in Nat \X Nat \/ work_amount = 0
        <2>1. SUFFICES ASSUME work_amount # 0
                       PROVE  nd_iterator_init(start, D[1], D[2]) \in Nat \X Nat
            OBVIOUS
        <2>2. D[1] \in Nat \ {0} /\ D[2] \in Nat \ {0}
            BY <1>2, <2>1 DEF work_amount
        <2>3. \A a \in Nat, b \in Nat \ {0} : a \div b \in Nat /\ a % b \in Nat
            <3>1. \A b \in Nat \ {0} : 0..(b - 1) \subseteq Nat
                OBVIOUS
            <3> QED
                BY <3>1, DivisionFacts
        <2>4. start \div D[2] \in Nat /\ start % D[2] \in Nat
            BY <1>2, <2>2, <2>3
        <2>5. (start \div D[2]) % D[1] \in Nat
            BY <2>2, <2>3, <2>4
        <2> QED
            BY <2>4, <2>5 DEF nd_iterator_init
    <1>5. rec \in Thr /\ rec.pc \in {"loop", "end"}
        BY <1>2, <1>4 DEF Thr
    <1>6. \A e \in Items : Walked(t, Index(e))' <=> Walked(t, Index(e))
        <2>1. SUFFICES ASSUME NEW e \in Items PROVE ~Walked(t, Index(e))'
            BY <1>1 DEF Walked
        <2>2. Index(e) \in 0..(work_amount - 1)
            BY <1>2, IndexInRange
        <2>3. /\ thr'[t] = rec /\ Index(e)' = Index(e) /\ work_amount' = work_amount
              /\ nthr' = nthr
            BY <1>1 DEF IInv, TypeOK, Index, work_amount
        <2>4. rec.pc = "loop" /\ rec.iwork = start
            BY <1>2, <2>2
        <2> QED
            BY <1>2, <2>2, <2>3, <2>4 DEF Walked, Piece
    <1>7. rec.pc = "loop" => rec.end = end /\ rec.iwork = start
                             /\ rec.d = nd_iterator_init(start, D[1], D[2])
        BY <1>1 DEF IInv, TypeOK
    <1>8. /\ called' = called \cup {} /\ {} \in SUBSET Items
          /\ \A e \in Items : Walked(t, Index(e))' <=> Walked(t, Index(e)) \/ e \in {}
        BY <1>1, <1>6
    <1>9. rec.pc # "none" /\ thr[t].pc # "none" /\ UNCHANGED <<D, nthr>>
        BY <1>1, <1>5
    <1>10. rec.pc = "loop" =>
             /\ rec.end = end /\ start <= rec.iwork
             /\ rec.iwork < rec.end => rec.d \in Items /\ Index(rec.d) = rec.iwork
        BY <1>2, <1>3, <1>7
    <1> HIDE DEF rec
    <1> QED
        BY <1>1, <1>5, <1>8, <1>9, <1>10, ThreadStepKeepsInv

\* A thread that calls f walks past the item it calls f for.
LEMMA CallFKeepsInv ==
    ASSUME IInv, NEW t \in Tids, CallF(t)
    PROVE  IInv'
    <1> DEFINE d    == thr[t].d
               step == nd_iterator_step(d, D[1], D[2])
               rec  == Advanced(thr[t])
               end  == balance211_end(work_amount, nthr, t)
               start == balance211_start(work_amount, nthr, t)
    <1>1. /\ thr[t].pc = "loop" /\ AboutToCall(t)
          /\ thr' = [thr EXCEPT ![t] = rec]
          /\ called' = called \cup {d}
          /\ UNCHANGED <<D, nthr>>
        BY DEF CallF, AboutToCall
    <1>2. /\ D \in Nat \X Nat /\ work_amount \in Nat /\ thr[t] \in Thr
          /\ start \in Nat /\ end \in 0..work_amount
          /\ nthr \in Nat \ {0} /\ t \in 0..(nthr - 1)
        BY <1>1, RegionFacts
    <1>3. /\ d \in Items /\ Index(d) = thr[t].iwork
          /\ thr[t].end = end /\ start <= thr[t].iwork /\ thr[t].iwork < end
        BY <1>1 DEF IInv, LoopInv, AboutToCall
    <1>4. thr[t].iwork \in Nat /\ thr[t].end \in Nat /\ d \in Nat \X Nat
        BY <1>2 DEF Thr
    <1>5. step \in Nat \X Nat
        BY <1>4 DEF nd_iterator_step
    <1>6. rec \in Thr
        <2>1. thr[t].iwork + 1 \in Nat
            BY <1>4
        <2> HIDE DEF step
        <2>2. rec = [thr[t] EXCEPT !.iwork = thr[t].iwork + 1, !.d = step]
            BY DEF Advanced, step
        <2> QED
            BY <1>2, <1>5, <2>1, <2>2 DEF Thr
    <1>7. rec.pc = "loop" /\ rec.iwork = thr[t].iwork + 1 /\ rec.end = end /\ rec.d = step
        BY <1>1, <1>2, <1>3 DEF Thr, Advanced
    <1>8. rec.iwork < rec.end => step \in Items /\ Index(step) = rec.iwork
        <2>1. SUFFICES ASSUME thr[t].iwork + 1 < end
                       PROVE  step \in Items /\ Index(step) = thr[t].iwork + 1
            BY <1>7
        <2>2. Index(d) + 1 < work_amount
            BY <1>2, <1>3, <1>4, <2>1
        <2> QED
            BY <1>2, <1>3, <2>2, StepGivesNextItem
    <1>9. \A e \in Items : Walked(t, Index(e))' <=> Walked(t, Index(e)) \/ e \in {d}
        <2>1. SUFFICES ASSUME NEW e \in Items
                       PROVE  Walked(t, Index(e))' <=> Walked(t, Index(e)) \/ e = d
            OBVIOUS
        <2>2. /\ thr'[t] = rec /\ Index(e)' = Index(e) /\ work_amount' = work_amount
              /\ nthr' = nthr
            BY <1>1 DEF IInv, TypeOK, Index, work_amount
        <2>3. Index(e) \in Nat
            <3>1. Index(e) \in 0..(work_amount - 1)
                BY <1>2, IndexInRange
            <3> QED
                BY <1>2, <3>1
        <2>4. Index(e) = thr[t].iwork <=> e = d
            BY <1>2, <1>3, IndexInjective
        <2>5. thr[t].iwork \in Piece(work_amount, nthr, t)
            BY <1>2, <1>3, <1>4 DEF Piece
        <2>6. /\ Walked(t, Index(e)) <=> /\ Index(e) \in Piece(work_amount, nthr, t)
                                        /\ Index(e) < thr[t].iwork
              /\ Walked(t, Index(e))' <=> /\ Index(e) \in Piece(work_amount, nthr, t)
                                         /\ Index(e) < thr[t].iwork + 1
            BY <1>1, <1>2, <1>7, <2>2 DEF Walked
        <2> QED
            BY <1>4, <2>3, <2>4, <2>5, <2>6
    <1> HIDE DEF rec
    <1>10. start <= rec.iwork /\ {d} \in SUBSET Items /\ rec.pc # "none"
        BY <1>2, <1>3, <1>4, <1>7
    <1> QED
        BY <1>1, <1>6, <1>7, <1>8, <1>9, <1>10, ThreadStepKeepsInv

\* A thread that leaves its loop has walked past its whole piece.
LEMMA LoopEndsKeepsInv ==
    ASSUME IInv, NEW t \in Tids, LoopEnds(t)
    PROVE  IInv'
    <1> DEFINE rec == [thr[t] EXCEPT !.pc = "end"]
               end == balance211_end(work_amount, nthr, t)
    <1>1. /\ thr[t].pc = "loop" /\ thr[t].iwork >= thr[t].end
          /\ thr' = [thr EXCEPT ![t] = rec]
          /\ UNCHANGED <<D, nthr, called>>
        BY DEF LoopEnds
    <1>2. /\ D \in Nat \X Nat /\ thr[t] \in Thr
          /\ balance211_start(work_amount, nthr, t) \in Nat /\ end \in Nat
        BY <1>1, RegionFacts
    <1>3. rec \in Thr /\ rec.pc = "end"
        BY <1>2 DEF Thr
    <1>4. thr[t].iwork \in Nat /\ thr[t].iwork >= end
        BY <1>1, <1>2 DEF Thr, IInv, LoopInv
    <1>5. \A e \in Items : Walked(t, Index(e))' <=> Walked(t, Index(e))
        <2>1. SUFFICES ASSUME NEW e \in Items
                       PROVE  Walked(t, Index(e))' <=> Walked(t, Index(e))
            OBVIOUS
        <2>2. thr'[t] = rec /\ Index(e)' = Index(e) /\ work_amount' = work_amount /\ nthr' = nthr
            BY <1>1 DEF IInv, TypeOK, Index, work_amount
        <2>3. Index(e) \in Piece(work_amount, nthr, t) => Index(e) < thr[t].iwork
            BY <1>2, <1>4 DEF Piece
        <2> QED
            BY <1>1, <1>3, <2>2, <2>3 DEF Walked
    <1>6. /\ called' = called \cup {} /\ {} \in SUBSET Items
          /\ \A e \in Items : Walked(t, Index(e))' <=> Walked(t, Index(e)) \/ e \in {}
        BY <1>1, <1>5
    <1>7. rec.pc # "none" /\ rec.pc # "loop" /\ thr[t].pc # "none"
        BY <1>1, <1>3
    <1> HIDE DEF rec
    <1> QED
        BY <1>1, <1>3, <1>6, <1>7, ThreadStepKeepsInv

-----------------------------------------------------------------------------
(* The theorems *)

\* The invariant holds in every reachable state.
LEMMA InvHolds == Spec => []IInv
    <1>1. IInv /\ [Next]_vars => IInv'
        <2> SUFFICES ASSUME IInv, [Next]_vars PROVE IInv'
            OBVIOUS
        <2>1. CASE \E D0, D1 \in 0..MaxD, granted \in 1..max_threads : ParallelNd(D0, D1, granted)
            BY <2>1, ParallelNdKeepsInv
        <2>2. CASE \E t \in Tids : ForNd(t)
            BY <2>2, ForNdKeepsInv
        <2>3. CASE \E t \in Tids : CallF(t)
            BY <2>3, CallFKeepsInv
        <2>4. CASE \E t \in Tids : LoopEnds(t)
            BY <2>4, LoopEndsKeepsInv
        <2>5. CASE Return
            BY <2>5, ReturnKeepsInv
        <2>6. CASE UNCHANGED vars
            BY <2>6 DEF vars, IInv, TypeOK, RegionInv, LoopInv, CalledInv, AboutToCall,
                        Items, Walked, Index, work_amount
        <2> QED
            BY <2>1, <2>2, <2>3, <2>4, <2>5, <2>6 DEF Next
    <1> QED
        BY <1>1, InitHolds, PTL DEF Spec

\* The variables keep their types and f is called for items of the range only.
THEOREM TypeCorrect == Spec => []TypeOK
    <1>1. IInv => TypeOK
        BY DEF IInv
    <1> QED
        BY <1>1, InvHolds, PTL

\* f is called at most once for every item, in every region.
THEOREM NoItemTwice == Spec => []CalledOnce
    BY InvHolds, InvCallsOnce, PTL

\* A region that is over has called f for every item.
THEOREM NoItemLeftOut == Spec => []CalledForAll
    BY InvHolds, InvCallsAll, PTL
-----------------------------------------------------------------------------
(* The setting that is final once it is read *)

\* A thread that is between the CAS and the release is the only one.
SetOwnsState ==
    \A t \in Threads : pc[t] \in {"write", "release"} =>
        /\ state = "busy_setting"
        /\ \A u \in Threads : pc[u] \in {"write", "release"} => u = t

\* A get reads only a locked setting.
GetReadsLocked ==
    \A t \in Threads :
        pc[t] = "read" /\ call[t].op = "get" => state = "locked_after_a_get"

\* Each place of the code belongs to one of the operations, and a call has
\* answered exactly when its thread is outside.
CallMatchesPlace ==
    \A t \in Threads :
        /\ pc[t] \in {"setLoad", "setCas", "write", "release"} => call[t].op = "set"
        /\ pc[t] \in {"getLoad", "getCas"} => call[t].op = "get"
        /\ pc[t] = "read" => call[t].op \in {"get", "peek"}
        /\ pc[t] # "outside" => reply[t] = NoReply
        /\ pc[t] = "outside" => call[t].op = "none" \/ reply[t] # NoReply

SettingInv == SettingTypeOK /\ SetOwnsState /\ GetReadsLocked /\ CallMatchesPlace /\ GetsAreFinal

LEMMA SettingInitHolds == SettingInit => SettingInv
<1> SUFFICES ASSUME SettingInit PROVE SettingInv
    OBVIOUS
<1>1. SettingTypeOK
    BY RepliesAssumption, MaxCallsAssumption DEF SettingInit, SettingTypeOK, States, Pcs, Calls
<1>2. SetOwnsState /\ GetReadsLocked /\ CallMatchesPlace /\ GetsAreFinal
    BY DEF SettingInit, SetOwnsState, GetReadsLocked, CallMatchesPlace, GetsAreFinal
<1> QED BY <1>1, <1>2 DEF SettingInv

-----------------------------------------------------------------------------

\* One lemma per action: it keeps the invariant, and is the step of the
\* abstract setting that its name tells or changes nothing there.

LEMMA CallItStep ==
    ASSUME SettingInv, NEW t \in Threads, CallIt(t)
    PROVE  SettingInv' /\ Promise!Begin(t)
<1>1. PICK op \in {"set", "get", "peek"}, v \in Values :
          /\ call' = [call EXCEPT ![t] = [op |-> op, arg |-> v]]
          /\ pc' = [pc EXCEPT ![t] = FirstStep[op]]
    BY DEF CallIt, Goto
<1>2. FirstStep[op] \in {"setLoad", "getLoad", "read"}
    BY DEF FirstStep
<1>3. SettingTypeOK'
    <2>1. calls' \in [Threads -> 0..MaxCalls]
        BY MaxCallsAssumption DEF SettingInv, SettingTypeOK, CallIt
    <2>2. reply' \in [Threads -> Values \cup {NoReply, Accepted, Refused}]
        BY DEF SettingInv, SettingTypeOK, CallIt
    <2>3. call' \in [Threads -> Calls] /\ pc' \in [Threads -> Pcs]
        BY <1>1, <1>2 DEF SettingInv, SettingTypeOK, Calls, Pcs
    <2> QED BY <2>1, <2>2, <2>3 DEF SettingInv, SettingTypeOK, CallIt
<1>4. SetOwnsState' /\ GetReadsLocked' /\ CallMatchesPlace' /\ GetsAreFinal'
    <2>1. op = "get" => FirstStep[op] = "getLoad"
        BY DEF FirstStep
    <2>2. op = "set" => FirstStep[op] = "setLoad"
        BY DEF FirstStep
    <2>3. op = "peek" => FirstStep[op] = "read"
        BY DEF FirstStep
    <2> QED
        BY <1>1, <2>1, <2>2, <2>3 DEF SettingInv, SettingTypeOK, CallIt, SetOwnsState, GetReadsLocked,
            CallMatchesPlace, GetsAreFinal, Calls, Pcs
<1>5. Bound' = [Bound EXCEPT ![t] = NoReply]
    <2>1. Bound'[t] = NoReply
        BY <1>1 DEF SettingInv, SettingTypeOK, CallIt, Bound, FirstStep
    <2>2. \A u \in Threads \ {t} : Bound'[u] = Bound[u]
        BY <1>1 DEF SettingInv, SettingTypeOK, CallIt, Bound
    <2>3. Bound = [u \in Threads |-> Bound[u]] /\ Bound' = [u \in Threads |-> Bound'[u]]
        BY DEF Bound
    <2> QED BY <2>1, <2>2, <2>3
<1>6. Promise!Begin(t)
    <2>1. call[t].op = "none" \/ Bound[t] # NoReply
        BY DEF SettingInv, CallMatchesPlace, CallIt, Bound
    <2>2. \E c \in Promise!Calls : c.op # "none" /\ call' = [call EXCEPT ![t] = c]
        BY <1>1 DEF Promise!Calls
    <2> QED BY <1>5, <2>1, <2>2 DEF Promise!Begin, CallIt
<1> QED BY <1>3, <1>4, <1>6 DEF SettingInv

LEMMA SetLoadStep ==
    ASSUME SettingInv, NEW t \in Threads, SetLoad(t)
    PROVE  SettingInv' /\ [Promise!DoRefuse(t)]_(Promise!promiseVars)
<1>1. CASE state = "locked_after_a_get"
    <2>1. SettingInv'
        BY <1>1, RepliesAssumption DEF SettingInv, SettingTypeOK, SetLoad, Answer, Goto, SetOwnsState,
            GetReadsLocked, CallMatchesPlace, GetsAreFinal, Pcs
    <2>2. Bound' = [Bound EXCEPT ![t] = Refused]
        BY <1>1 DEF SettingInv, SettingTypeOK, SetLoad, Answer, Goto, Bound
    <2>3. Promise!Running(t, "set")
        BY DEF SettingInv, CallMatchesPlace, SetLoad, Bound, Promise!Running
    <2> QED BY <1>1, <2>1, <2>2, <2>3 DEF Promise!DoRefuse, SetLoad
<1>2. CASE state # "locked_after_a_get"
    <2>1. SettingInv'
        BY <1>2 DEF SettingInv, SettingTypeOK, SetLoad, Goto, SetOwnsState,
            GetReadsLocked, CallMatchesPlace, GetsAreFinal, Pcs
    <2>2. Bound' = Bound
        BY <1>2 DEF SettingInv, SettingTypeOK, SetLoad, Goto, Bound
    <2> QED BY <2>1, <2>2 DEF Promise!promiseVars, SetLoad
<1> QED BY <1>1, <1>2

LEMMA SetCasStep ==
    ASSUME SettingInv, NEW t \in Threads, SetCas(t)
    PROVE  SettingInv' /\ [Promise!DoRefuse(t)]_(Promise!promiseVars)
<1>1. CASE state = "locked_after_a_get"
    <2>1. SettingInv'
        BY <1>1, RepliesAssumption DEF SettingInv, SettingTypeOK, SetCas, Answer, Goto, SetOwnsState,
            GetReadsLocked, CallMatchesPlace, GetsAreFinal, Pcs
    <2>2. Bound' = [Bound EXCEPT ![t] = Refused]
        BY <1>1 DEF SettingInv, SettingTypeOK, SetCas, Answer, Goto, Bound
    <2>3. Promise!Running(t, "set")
        BY DEF SettingInv, CallMatchesPlace, SetCas, Bound, Promise!Running
    <2> QED BY <1>1, <2>1, <2>2, <2>3 DEF Promise!DoRefuse, SetCas
<1>2. CASE state = "idle"
    <2>1. SettingTypeOK'
        BY <1>2 DEF SettingInv, SettingTypeOK, SetCas, Goto, Pcs, States
    <2>2. SetOwnsState' /\ GetReadsLocked' /\ CallMatchesPlace' /\ GetsAreFinal'
        BY <1>2 DEF SettingInv, SettingTypeOK, SetCas, Goto, SetOwnsState,
            GetReadsLocked, CallMatchesPlace, GetsAreFinal
    <2>3. Bound' = Bound
        BY <1>2 DEF SettingInv, SettingTypeOK, SetCas, Goto, Bound
    <2>4. (state = "locked_after_a_get")' = (state = "locked_after_a_get")
        BY <1>2 DEF SetCas
    <2> QED BY <2>1, <2>2, <2>3, <2>4 DEF Promise!promiseVars, SetCas, SettingInv
<1> QED BY <1>1, <1>2 DEF SetCas

\* The write is the moment at which a set takes effect.
LEMMA WriteStep ==
    ASSUME SettingInv, NEW t \in Threads, Write(t)
    PROVE  SettingInv' /\ Promise!DoSet(t)
<1>1. state = "busy_setting"
    BY DEF SettingInv, SetOwnsState, Write
<1>2. SettingTypeOK'
    BY DEF SettingInv, SettingTypeOK, Write, Goto, Pcs, Calls
<1>3. SetOwnsState' /\ GetReadsLocked' /\ CallMatchesPlace' /\ GetsAreFinal'
    BY <1>1 DEF SettingInv, SettingTypeOK, Write, Goto, SetOwnsState,
        GetReadsLocked, CallMatchesPlace, GetsAreFinal
<1>4. Bound' = [Bound EXCEPT ![t] = Accepted]
    BY <1>1 DEF SettingInv, SettingTypeOK, Write, Goto, Bound, GetReadsLocked
<1>5. Promise!Running(t, "set")
    BY DEF SettingInv, CallMatchesPlace, Write, Bound, Promise!Running
<1> QED BY <1>1, <1>2, <1>3, <1>4, <1>5 DEF Promise!DoSet, Write, SettingInv

LEMMA ReleaseStep ==
    ASSUME SettingInv, NEW t \in Threads, Release(t)
    PROVE  SettingInv' /\ UNCHANGED Promise!promiseVars
<1>1. state = "busy_setting" /\ state' = "idle"
    BY DEF SettingInv, SetOwnsState, Release
<1>2. SettingTypeOK'
    BY RepliesAssumption DEF SettingInv, SettingTypeOK, Release, Answer, Goto, Pcs, States
<1>3. SetOwnsState' /\ GetReadsLocked' /\ CallMatchesPlace' /\ GetsAreFinal'
    BY <1>1, RepliesAssumption DEF SettingInv, SettingTypeOK, Release, Answer, Goto, SetOwnsState,
        GetReadsLocked, CallMatchesPlace, GetsAreFinal
<1>4. Bound' = Bound
    BY DEF SettingInv, SettingTypeOK, Release, Answer, Goto, Bound
<1> QED BY <1>1, <1>2, <1>3, <1>4 DEF Promise!promiseVars, Release, SettingInv

LEMMA GetLoadStep ==
    ASSUME SettingInv, NEW t \in Threads, GetLoad(t)
    PROVE  SettingInv' /\ [Promise!DoGet(t)]_(Promise!promiseVars)
<1>1. SettingInv'
    BY DEF SettingInv, SettingTypeOK, GetLoad, Goto, SetOwnsState,
        GetReadsLocked, CallMatchesPlace, GetsAreFinal, Pcs
<1>2. CASE state = "locked_after_a_get"
    <2>1. Bound' = [Bound EXCEPT ![t] = value]
        BY <1>2 DEF SettingInv, SettingTypeOK, GetLoad, Goto, Bound, CallMatchesPlace
    <2>2. Promise!Running(t, "get")
        BY DEF SettingInv, CallMatchesPlace, GetLoad, Bound, Promise!Running
    <2> QED BY <1>1, <1>2, <2>1, <2>2 DEF Promise!DoGet, GetLoad
<1>3. CASE state # "locked_after_a_get"
    <2>1. Bound' = Bound
        BY <1>3 DEF SettingInv, SettingTypeOK, GetLoad, Goto, Bound
    <2> QED BY <1>1, <2>1 DEF Promise!promiseVars, GetLoad
<1> QED BY <1>2, <1>3

LEMMA GetCasStep ==
    ASSUME SettingInv, NEW t \in Threads, GetCas(t)
    PROVE  SettingInv' /\ Promise!DoGet(t)
<1>1. \A u \in Threads : pc[u] \notin {"write", "release"}
    BY DEF SettingInv, SetOwnsState, GetCas
<1>2. SettingTypeOK'
    BY DEF SettingInv, SettingTypeOK, GetCas, Goto, Pcs, States
<1>3. SetOwnsState' /\ GetReadsLocked' /\ CallMatchesPlace' /\ GetsAreFinal'
    BY <1>1 DEF SettingInv, SettingTypeOK, GetCas, Goto, SetOwnsState,
        GetReadsLocked, CallMatchesPlace, GetsAreFinal
<1>4. Bound' = [Bound EXCEPT ![t] = value]
    BY DEF SettingInv, SettingTypeOK, GetCas, Goto, Bound, CallMatchesPlace
<1>5. Promise!Running(t, "get")
    BY DEF SettingInv, CallMatchesPlace, GetCas, Bound, Promise!Running
<1> QED BY <1>2, <1>3, <1>4, <1>5 DEF Promise!DoGet, GetCas, SettingInv

LEMMA ReadStep ==
    ASSUME SettingInv, NEW t \in Threads, Read(t)
    PROVE  SettingInv' /\ [Promise!DoPeek(t)]_(Promise!promiseVars)
<1>1. SettingTypeOK'
    BY DEF SettingInv, SettingTypeOK, Read, Answer, Goto, Pcs
<1>2. SetOwnsState' /\ GetReadsLocked' /\ CallMatchesPlace' /\ GetsAreFinal'
    BY RepliesAssumption DEF SettingInv, SettingTypeOK, Read, Answer, Goto, SetOwnsState,
        GetReadsLocked, CallMatchesPlace, GetsAreFinal
<1>3. CASE call[t].op = "get"
    <2>1. Bound' = Bound
        BY <1>3 DEF SettingInv, SettingTypeOK, Read, Answer, Goto, Bound
    <2> QED BY <1>1, <1>2, <2>1 DEF Promise!promiseVars, Read, SettingInv
<1>4. CASE call[t].op = "peek"
    <2>1. Bound' = [Bound EXCEPT ![t] = value]
        BY <1>4 DEF SettingInv, SettingTypeOK, Read, Answer, Goto, Bound
    <2>2. Promise!Running(t, "peek")
        BY <1>4 DEF SettingInv, CallMatchesPlace, Read, Bound, Promise!Running
    <2> QED BY <1>1, <1>2, <2>1, <2>2 DEF Promise!DoPeek, Read, SettingInv
<1> QED BY <1>3, <1>4 DEF SettingInv, CallMatchesPlace, Read

-----------------------------------------------------------------------------

LEMMA SettingStepImplements ==
    ASSUME SettingInv, [SettingNext]_setting_vars
    PROVE  SettingInv' /\ [Promise!PromiseNext]_(Promise!promiseVars)
<1>1. CASE UNCHANGED setting_vars
    <2>1. SettingInv'
        BY <1>1 DEF setting_vars, SettingInv, SettingTypeOK, SetOwnsState, GetReadsLocked, CallMatchesPlace, GetsAreFinal
    <2>2. UNCHANGED Promise!promiseVars
        BY <1>1 DEF setting_vars, Promise!promiseVars, Bound
    <2> QED BY <2>1, <2>2
<1>2. CASE \E t \in Threads : CallIt(t) \/ Step(t)
    <2>1. PICK t \in Threads : CallIt(t) \/ Step(t)
        BY <1>2
    <2>2. CASE CallIt(t)
        BY <2>2, CallItStep DEF Promise!PromiseNext
    <2>3. CASE SetLoad(t) \/ SetCas(t)
        BY <2>3, SetLoadStep, SetCasStep DEF Promise!PromiseNext
    <2>4. CASE Write(t)
        BY <2>4, WriteStep DEF Promise!PromiseNext
    <2>5. CASE Release(t)
        BY <2>5, ReleaseStep
    <2>6. CASE GetLoad(t) \/ GetCas(t)
        BY <2>6, GetLoadStep, GetCasStep DEF Promise!PromiseNext
    <2>7. CASE Read(t)
        BY <2>7, ReadStep DEF Promise!PromiseNext
    <2> QED BY <2>1, <2>2, <2>3, <2>4, <2>5, <2>6, <2>7 DEF Step
<1> QED BY <1>1, <1>2 DEF SettingNext

THEOREM SettingInvHolds == SettingSpec => []SettingInv
<1>1. SettingInv /\ [SettingNext]_setting_vars => SettingInv'
    BY SettingStepImplements
<1> QED BY SettingInitHolds, <1>1, PTL DEF SettingSpec

\* Whoever got the setting holds what is its value for ever after.
THEOREM GetsStayFinal == SettingSpec => []GetsAreFinal
<1>1. SettingInv => GetsAreFinal
    BY DEF SettingInv
<1> QED BY SettingInvHolds, <1>1, PTL

\* value_ is never written while a get reads it or another set writes it.
THEOREM NoRaceOnValue == SettingSpec => []NoDataRace
<1>1. SettingInv => NoDataRace
    BY DEF SettingInv, SetOwnsState, GetReadsLocked, NoDataRace
<1> QED BY SettingInvHolds, <1>1, PTL

\* The spinlock-guarded setting implements the one whose calls are atomic.
THEOREM SettingIsImplemented == SettingSpec => ImplementsSetting
<1>1. SettingInit => Promise!PromiseInit
    <2> SUFFICES ASSUME SettingInit PROVE Promise!PromiseInit
        OBVIOUS
    <2>1. Bound = [t \in Threads |-> NoReply]
        BY DEF SettingInit, Bound
    <2> QED BY <2>1 DEF SettingInit, Promise!PromiseInit
<1>2. SettingInv /\ [SettingNext]_setting_vars => [Promise!PromiseNext]_(Promise!promiseVars)
    BY SettingStepImplements
<1> QED
    BY <1>1, <1>2, SettingInvHolds, PTL DEF SettingSpec, ImplementsSetting, Promise!PromiseSpec
=============================================================================
