-------------------------- MODULE Balance211Proofs --------------------------
(***************************************************************************)
(* What balance211 promises for every number of items and every team: the  *)
(* pieces are consecutive, disjoint and of almost the same size, and every *)
(* item is in one of them. After that, what the proofs about other         *)
(* divisions of work need: least and greatest numbers, loops written as    *)
(* recursive functions, and the turns of a team that takes more pieces     *)
(* than it has threads.                                                    *)
(***************************************************************************)
EXTENDS Balance211, FiniteSetTheorems, WellFoundedInduction, TLAPS

\* Division rounds down.
LEMMA DivisionFacts ==
    ASSUME NEW a \in Nat, NEW b \in Nat \ {0}
    PROVE  /\ a \div b \in Nat /\ a % b \in 0..(b - 1)
           /\ a = b * (a \div b) + (a % b)
    <1>1. a \div b \in Int /\ a % b \in 0..(b - 1)
        BY SMT
    <1>2. a = b * (a \div b) + (a % b)
        BY SMT
    <1>3. a \div b >= 0
        <2>1. SUFFICES ASSUME a \div b <= -1 PROVE FALSE
            BY <1>1
        <2>2. b * (a \div b) <= -b
            BY <1>1, <2>1
        <2> QED
            BY <1>1, <1>2, <2>2
    <1> QED
        BY <1>1, <1>2, <1>3

\* div_up(n, team) is the least n1 with n <= n1 * team.
LEMMA DivUpFacts ==
    ASSUME NEW n \in Nat \ {0}, NEW team \in Nat \ {0}
    PROVE  /\ div_up(n, team) \in Nat \ {0}
           /\ n <= div_up(n, team) * team
           /\ (div_up(n, team) - 1) * team < n
    <1> DEFINE a == n + team - 1
               q == a \div team
               r == a % team
    <1>1. a \in Nat
        OBVIOUS
    <1>2. q \in Nat /\ r \in 0..(team - 1) /\ a = team * q + r
        BY <1>1, DivisionFacts
    <1>3. div_up(n, team) = q
        BY DEF div_up
    <1> HIDE DEF q, r
    <1>4. q # 0
        BY <1>2
    <1>5. (q - 1) * team = team * q - team /\ q * team = team * q
        BY <1>2
    <1> QED
        BY <1>2, <1>3, <1>4, <1>5

\* The number of big pieces is at least one and at most the team.
LEMMA PiecesFacts ==
    ASSUME NEW n \in Nat \ {0}, NEW team \in Nat \ {0}
    PROVE  /\ BigPiece(n, team) \in Nat \ {0}
           /\ BigPieces(n, team) \in 1..team
           /\ n = team * (BigPiece(n, team) - 1) + BigPieces(n, team)
    <1> DEFINE n1 == BigPiece(n, team)
    <1>1. n1 \in Nat \ {0} /\ n <= n1 * team /\ (n1 - 1) * team < n
        BY DivUpFacts DEF BigPiece
    <1>2. BigPieces(n, team) = n - (n1 - 1) * team
        BY DEF BigPieces
    <1> HIDE DEF n1
    <1>3. n1 * team = (n1 - 1) * team + team /\ (n1 - 1) * team = team * (n1 - 1)
        BY <1>1
    <1>4. (n1 - 1) * team \in Nat
        BY <1>1
    <1> QED
        BY <1>1, <1>2, <1>3, <1>4 DEF n1

\* The start of a piece, in the two ways balance211 computes it.
LEMMA StartFacts ==
    ASSUME NEW n \in Nat \ {0}, NEW team \in Nat, team > 1, NEW tid \in 0..(team - 1)
    PROVE  LET n1 == BigPiece(n, team)
               T1 == BigPieces(n, team)
           IN  /\ tid <= T1 => balance211_start(n, team, tid) = tid * n1
               /\ tid >= T1 => balance211_start(n, team, tid) = T1 + tid * (n1 - 1)
               /\ tid < T1 => balance211_end(n, team, tid) = (tid + 1) * n1
               /\ tid >= T1 => balance211_end(n, team, tid) = T1 + (tid + 1) * (n1 - 1)
    <1> DEFINE n1 == BigPiece(n, team)
               T1 == BigPieces(n, team)
    <1>1. n1 \in Nat \ {0} /\ T1 \in 1..team
        BY PiecesFacts
    <1>2. ~NotDivided(n, team)
        BY DEF NotDivided
    <1>3. /\ tid <= T1 => balance211_start(n, team, tid) = tid * n1
          /\ tid > T1 => balance211_start(n, team, tid) = T1 * n1 + (tid - T1) * (n1 - 1)
        BY <1>1, <1>2 DEF balance211_start
    <1>4. /\ tid < T1 => balance211_size(n, team, tid) = n1
          /\ tid >= T1 => balance211_size(n, team, tid) = n1 - 1
        BY <1>1, <1>2 DEF balance211_size
    <1> HIDE DEF n1, T1
    <1>5. T1 * n1 + (tid - T1) * (n1 - 1) = T1 + tid * (n1 - 1)
        BY <1>1
    <1>6. T1 * n1 = T1 + T1 * (n1 - 1)
        BY <1>1
    <1>7. (tid + 1) * n1 = tid * n1 + n1 /\ (tid + 1) * (n1 - 1) = tid * (n1 - 1) + (n1 - 1)
        BY <1>1
    <1>8. tid >= T1 => balance211_start(n, team, tid) = T1 + tid * (n1 - 1)
        <2>1. CASE tid > T1
            BY <1>3, <1>5, <2>1
        <2>2. CASE tid = T1
            BY <1>1, <1>3, <1>6, <2>2
        <2> QED
            BY <1>1, <2>1, <2>2
    <1> QED
        BY <1>1, <1>3, <1>4, <1>7, <1>8 DEF balance211_end, n1, T1

\* A product with a larger factor is not smaller.
LEMMA ProductMonotone ==
    ASSUME NEW a \in Nat, NEW b \in Nat, NEW c \in Nat, a <= b
    PROVE  a * c <= b * c
    <1>1. b * c = a * c + (b - a) * c /\ (b - a) * c >= 0
        <2>1. PICK d \in Nat : b = a + d
            <3>1. b - a \in Nat /\ b = a + (b - a)
                OBVIOUS
            <3> QED
                BY <3>1
        <2> QED
            BY <2>1
    <1> QED
        BY <1>1

\* A product of positive numbers is positive, and as large as each.
LEMMA ProductIsPositive ==
    ASSUME NEW a \in Nat \ {0}, NEW b \in Nat \ {0}
    PROVE  a * b \in Nat \ {0} /\ a <= a * b /\ b <= a * b
    <1>1. 1 * b <= a * b /\ 1 * a <= b * a
        BY ProductMonotone
    <1>2. a * b = b * a /\ a * b \in Nat
        OBVIOUS
    <1> QED
        BY <1>1, <1>2

\* A quotient is positive when the divisor is not the larger one.
LEMMA QuotientIsPositive ==
    ASSUME NEW a \in Nat, NEW b \in Nat \ {0}, b <= a
    PROVE  a \div b \in Nat \ {0} /\ (a \div b) * b <= a /\ a \div b <= a
    <1> DEFINE q == a \div b
               r == a % b
    <1>1. q \in Nat /\ r \in 0..(b - 1) /\ a = b * q + r
        BY DivisionFacts
    <1> HIDE DEF q, r
    <1>2. q # 0
        BY <1>1
    <1>3. q * b = b * q /\ b * q \in Nat /\ q * b <= a
        BY <1>1
    <1>4. 1 * q <= b * q
        BY <1>1, ProductMonotone
    <1> QED
        BY <1>1, <1>2, <1>3, <1>4 DEF q

\* A quotient and a remainder are determined by what they make.
LEMMA DivisionIsUnique ==
    ASSUME NEW b \in Nat \ {0}, NEW q \in Nat, NEW r \in 0..(b - 1), NEW a \in Nat,
           a = b * q + r
    PROVE  a \div b = q /\ a % b = r
    <1> DEFINE p == a \div b
               s == a % b
    <1>1. p \in Nat /\ s \in 0..(b - 1) /\ a = b * p + s
        BY DivisionFacts
    <1> HIDE DEF p, s
    <1>2. b * p = p * b /\ b * q = q * b /\ (p + 1) * b = p * b + b /\ (q + 1) * b = q * b + b
        BY <1>1
    <1>3. ~(p + 1 <= q)
        <2>1. p + 1 <= q => (p + 1) * b <= q * b
            BY <1>1, ProductMonotone
        <2> QED
            BY <1>1, <1>2, <2>1
    <1>4. ~(q + 1 <= p)
        <2>1. q + 1 <= p => (q + 1) * b <= p * b
            BY <1>1, ProductMonotone
        <2> QED
            BY <1>1, <1>2, <2>1
    <1>5. p = q
        BY <1>1, <1>3, <1>4
    <1> QED
        BY <1>1, <1>2, <1>5 DEF p, s

\* A number below a * b is a pair of one below a and one below b.
LEMMA PairsOfANumber ==
    ASSUME NEW a \in Nat \ {0}, NEW b \in Nat \ {0}, NEW n \in 0..(a * b - 1)
    PROVE  /\ n \div b \in 0..(a - 1) /\ n % b \in 0..(b - 1)
           /\ n = (n \div b) * b + (n % b)
    <1> DEFINE q == n \div b
               r == n % b
    <1>1. n \in Nat /\ a * b \in Nat
        OBVIOUS
    <1>2. q \in Nat /\ r \in 0..(b - 1) /\ n = b * q + r
        BY <1>1, DivisionFacts
    <1> HIDE DEF q, r
    <1>3. b * q = q * b
        BY <1>2
    <1>4. ~(a <= q)
        <2>1. a <= q => a * b <= q * b
            BY <1>2, ProductMonotone
        <2>2. n >= q * b /\ n < a * b
            BY <1>2, <1>3
        <2> QED
            BY <1>2, <2>1, <2>2
    <1> QED
        BY <1>2, <1>3, <1>4 DEF q, r

\* A pair of numbers within bounds has its number among the products.
LEMMA NumberOfAPair ==
    ASSUME NEW a \in Nat \ {0}, NEW b \in Nat \ {0},
           NEW q \in 0..(a - 1), NEW r \in 0..(b - 1)
    PROVE  /\ q * b + r \in 0..(a * b - 1)
           /\ (q * b + r) \div b = q /\ (q * b + r) % b = r
    <1>1. q \in Nat /\ q + 1 <= a /\ q * b = b * q /\ b * q \in Nat
        OBVIOUS
    <1>2. (q + 1) * b <= a * b
        BY <1>1, ProductMonotone
    <1>3. (q + 1) * b = q * b + b /\ a * b \in Nat /\ r \in Nat /\ r < b
        BY <1>1
    <1> DEFINE n == b * q + r
    <1>4. n \in Nat
        BY <1>1, <1>3
    <1>5. n \div b = q /\ n % b = r
        BY <1>1, <1>4, DivisionIsUnique
    <1>6. q * b + r = n
        BY <1>1
    <1> HIDE DEF n
    <1>7. n \in 0..(a * b - 1)
        <2>1. n < q * b + b
            BY <1>3, <1>6
        <2> QED
            BY <1>2, <1>3, <1>4, <2>1
    <1> QED
        BY <1>5, <1>6, <1>7

\* The numbers below n are those of triples of numbers below a, b and c_.
AreTriples(n, a, b, c_) ==
    /\ \A i \in 0..(n - 1) :
         /\ i % a \in 0..(a - 1) /\ (i \div a) % b \in 0..(b - 1)
         /\ (i \div a) \div b \in 0..(c_ - 1)
         /\ i = (((i \div a) \div b) * b + ((i \div a) % b)) * a + (i % a)
    /\ \A x \in 0..(a - 1) : \A y \in 0..(b - 1) : \A z \in 0..(c_ - 1) :
         LET i == (z * b + y) * a + x
         IN  /\ i \in 0..(n - 1)
             /\ i % a = x /\ (i \div a) % b = y /\ (i \div a) \div b = z

\* Three numbers make one of them, from which they are found again.
LEMMA TriplesOfANumber ==
    ASSUME NEW a \in Nat \ {0}, NEW b \in Nat \ {0}, NEW c_ \in Nat \ {0}
    PROVE  AreTriples((c_ * b) * a, a, b, c_)
    <1>1. c_ * b \in Nat \ {0} /\ a \in Nat \ {0} /\ b \in Nat \ {0} /\ c_ \in Nat \ {0}
        BY ProductIsPositive
    <1>2. ASSUME NEW i \in 0..((c_ * b) * a - 1)
          PROVE  /\ i % a \in 0..(a - 1) /\ (i \div a) % b \in 0..(b - 1) /\ (i \div a) \div b \in 0..(c_ - 1)
                 /\ i = (((i \div a) \div b) * b + ((i \div a) % b)) * a + (i % a)
        <2>1. i \div a \in 0..(c_ * b - 1) /\ i % a \in 0..(a - 1) /\ i = (i \div a) * a + (i % a)
            BY <1>1, PairsOfANumber
        <2> DEFINE q == i \div a
        <2>2. q \in 0..(c_ * b - 1)
            BY <2>1
        <2> HIDE DEF q
        <2>3. q \div b \in 0..(c_ - 1) /\ q % b \in 0..(b - 1) /\ q = (q \div b) * b + (q % b)
            BY <1>1, <2>2, PairsOfANumber
        <2>4. i = q * a + (i % a)
            BY <2>1 DEF q
        <2>5. i = ((q \div b) * b + (q % b)) * a + (i % a)
            BY <2>3, <2>4
        <2> QED BY <2>1, <2>3, <2>5 DEF q
    <1>3. ASSUME NEW x \in 0..(a - 1), NEW y \in 0..(b - 1), NEW z \in 0..(c_ - 1)
          PROVE  LET i == (z * b + y) * a + x
                 IN  /\ i \in 0..((c_ * b) * a - 1)
                     /\ i % a = x /\ (i \div a) % b = y /\ (i \div a) \div b = z
        <2> DEFINE q == z * b + y
        <2>1. q \in 0..(c_ * b - 1) /\ q \div b = z /\ q % b = y
            BY <1>1, NumberOfAPair
        <2> HIDE DEF q
        <2>2. q * a + x \in 0..((c_ * b) * a - 1) /\ (q * a + x) \div a = q /\ (q * a + x) % a = x
            <3> DEFINE d == c_ * b
            <3>1. d \in Nat \ {0} /\ q \in 0..(d - 1) /\ a \in Nat \ {0}
                BY <1>1, <2>1
            <3> HIDE DEF d
            <3>2. q * a + x \in 0..(d * a - 1) /\ (q * a + x) \div a = q /\ (q * a + x) % a = x
                BY <3>1, NumberOfAPair
            <3> QED BY <3>2 DEF d
        <2> QED BY <2>1, <2>2 DEF q
    <1> QED BY <1>2, <1>3 DEF AreTriples

\* Pairs with a first number below u are the numbers below a * u.
LEMMA PairsBelow ==
    ASSUME NEW a \in Nat \ {0}, NEW u \in Nat, NEW x \in 0..(a - 1), NEW y \in Nat
    PROVE  y * a + x < a * u <=> y < u
    <1>1. y * a \in Nat /\ u * a \in Nat /\ a * u = u * a /\ (y + 1) * a = y * a + a
        OBVIOUS
    <1>2. ASSUME y < u PROVE y * a + x < a * u
        <2>1. (y + 1) * a <= u * a
            BY <1>2, ProductMonotone
        <2> QED BY <1>1, <2>1
    <1>3. ASSUME u <= y PROVE a * u <= y * a + x
        <2>1. u * a <= y * a
            BY <1>3, ProductMonotone
        <2> QED BY <1>1, <2>1
    <1>4. y < u \/ u <= y
        OBVIOUS
    <1>5. y * a + x \in Nat /\ a * u \in Nat
        BY <1>1
    <1> QED BY <1>2, <1>3, <1>4, <1>5

\* Pieces that are two longer than a quarter, rounded down, are still four.
LEMMA LongQuarters ==
    ASSUME NEW e \in Nat, e >= 5, NEW r \in {2, 3}
    PROVE  div_up(4 * e + r, e + 2) = 4 /\ 3 * (e + 2) <= 4 * e + r
    <1> DEFINE d == 4 * e + r
               f == e + 2
               used == div_up(d, f)
    <1>1. 3 * f < d /\ d <= 4 * f /\ f \in Nat \ {0} /\ d \in Nat \ {0}
        OBVIOUS
    <1> HIDE DEF d, f
    <1>2. used \in Nat \ {0} /\ d <= used * f /\ (used - 1) * f < d
        BY <1>1, DivUpFacts
    <1> HIDE DEF used
    <1>3. used > 3
        <2> SUFFICES ASSUME used <= 3 PROVE FALSE
            BY <1>2
        <2>1. used * f <= 3 * f
            BY <1>1, <1>2, ProductMonotone
        <2> QED BY <1>1, <1>2, <2>1
    <1>4. used - 1 < 4
        <2> SUFFICES ASSUME 4 <= used - 1 PROVE FALSE
            BY <1>2
        <2>1. 4 * f <= (used - 1) * f
            BY <1>1, <1>2, ProductMonotone
        <2> QED BY <1>1, <1>2, <2>1
    <1>5. used = 4
        BY <1>2, <1>3, <1>4
    <1> QED BY <1>1, <1>5 DEF used, d, f

\* The starts and ends are numbers of items.
THEOREM PieceBounds ==
    ASSUME NEW n \in Nat, NEW team \in Nat \ {0}, NEW tid \in 0..(team - 1)
    PROVE  /\ balance211_start(n, team, tid) \in Nat
           /\ balance211_end(n, team, tid) \in 0..n
           /\ balance211_start(n, team, tid) <= balance211_end(n, team, tid)
    <1> DEFINE n1 == BigPiece(n, team)
               T1 == BigPieces(n, team)
    <1>1. CASE NotDivided(n, team)
        BY <1>1 DEF NotDivided, balance211_start, balance211_size, balance211_end
    <1>2. CASE ~NotDivided(n, team)
        <2>1. n \in Nat \ {0} /\ team > 1
            BY <1>2 DEF NotDivided
        <2>2. n1 \in Nat \ {0} /\ T1 \in 1..team /\ n = team * (n1 - 1) + T1
            BY <2>1, PiecesFacts
        <2>3. /\ tid <= T1 => balance211_start(n, team, tid) = tid * n1
              /\ tid >= T1 => balance211_start(n, team, tid) = T1 + tid * (n1 - 1)
              /\ tid < T1 => balance211_end(n, team, tid) = (tid + 1) * n1
              /\ tid >= T1 => balance211_end(n, team, tid) = T1 + (tid + 1) * (n1 - 1)
            BY <2>1, StartFacts
        <2> HIDE DEF n1, T1
        <2>4. (tid + 1) * (n1 - 1) <= team * (n1 - 1)
            BY <2>2, ProductMonotone
        <2>5. (tid + 1) * n1 = (tid + 1) * (n1 - 1) + (tid + 1)
            BY <2>2
        <2>6. /\ tid * n1 \in Nat /\ (tid + 1) * n1 = tid * n1 + n1
              /\ tid * (n1 - 1) \in Nat /\ (tid + 1) * (n1 - 1) = tid * (n1 - 1) + (n1 - 1)
              /\ team * (n1 - 1) \in Nat
            BY <2>2
        <2>7. CASE tid < T1
            BY <2>2, <2>3, <2>4, <2>5, <2>6, <2>7
        <2>8. CASE tid >= T1
            BY <2>2, <2>3, <2>4, <2>6, <2>8
        <2> QED
            BY <2>2, <2>7, <2>8
    <1> QED
        BY <1>1, <1>2

\* The piece of a thread ends before the piece of any later thread starts.
THEOREM PiecesAreOrdered ==
    ASSUME NEW n \in Nat, NEW team \in Nat \ {0},
           NEW t \in 0..(team - 1), NEW u \in 0..(team - 1), t < u
    PROVE  balance211_end(n, team, t) <= balance211_start(n, team, u)
    <1> DEFINE n1 == BigPiece(n, team)
               T1 == BigPieces(n, team)
    <1>1. CASE n = 0
        BY <1>1 DEF NotDivided, balance211_start, balance211_size, balance211_end
    <1>2. CASE n # 0
        <2>1. n \in Nat \ {0} /\ team > 1
            BY <1>2
        <2>2. n1 \in Nat \ {0} /\ T1 \in 1..team
            BY <2>1, PiecesFacts
        <2>3. /\ u <= T1 => balance211_start(n, team, u) = u * n1
              /\ u >= T1 => balance211_start(n, team, u) = T1 + u * (n1 - 1)
            BY <2>1, StartFacts
        <2>4. /\ t < T1 => balance211_end(n, team, t) = (t + 1) * n1
              /\ t >= T1 => balance211_end(n, team, t) = T1 + (t + 1) * (n1 - 1)
            BY <2>1, StartFacts
        <2> HIDE DEF n1, T1
        <2>5. (t + 1) * n1 <= u * n1 /\ (t + 1) * (n1 - 1) <= u * (n1 - 1)
            BY <2>2, ProductMonotone
        <2>6. (t + 1) * n1 = (t + 1) * (n1 - 1) + (t + 1)
            BY <2>2
        <2>7. /\ u * n1 \in Nat /\ (t + 1) * n1 \in Nat
              /\ u * (n1 - 1) \in Nat /\ (t + 1) * (n1 - 1) \in Nat
            BY <2>2
        <2>8. CASE u <= T1
            BY <2>2, <2>3, <2>4, <2>5, <2>7, <2>8
        <2>9. CASE u > T1 /\ t < T1
            BY <2>2, <2>3, <2>4, <2>5, <2>6, <2>7, <2>9
        <2>10. CASE u > T1 /\ t >= T1
            BY <2>2, <2>3, <2>4, <2>5, <2>7, <2>10
        <2> QED
            BY <2>2, <2>8, <2>9, <2>10
    <1> QED
        BY <1>1, <1>2

\* With no more threads than items nobody is left without work.
LEMMA PiecesAreNotEmpty ==
    ASSUME NEW n \in Nat \ {0}, NEW team \in 1..n, NEW tid \in 0..(team - 1)
    PROVE  balance211_start(n, team, tid) < balance211_end(n, team, tid)
    <1> DEFINE n1 == BigPiece(n, team)
               T1 == BigPieces(n, team)
               start == balance211_start(n, team, tid)
               size == balance211_size(n, team, tid)
    <1>1. n1 \in Nat \ {0} /\ T1 \in 1..team /\ n = team * (n1 - 1) + T1
        BY PiecesFacts
    <1>2. start \in Nat
        BY PieceBounds
    <1>3. size >= 1
        <2>1. CASE NotDivided(n, team)
            BY <2>1 DEF balance211_size
        <2>2. CASE ~NotDivided(n, team) /\ tid < T1
            BY <1>1, <2>2 DEF balance211_size
        <2>3. CASE ~NotDivided(n, team) /\ ~(tid < T1)
            <3>1. size = n1 - 1
                BY <2>3 DEF balance211_size
            <3> HIDE DEF n1, T1
            <3>2. n1 # 1
                <4>1. n1 = 1 => n = T1
                    BY <1>1
                <4> QED
                    BY <1>1, <2>3, <4>1
            <3> QED
                BY <1>1, <3>1, <3>2
        <2> QED
            BY <2>1, <2>2, <2>3
    <1>4. size \in Int
        <2>1. size = n \/ size = n1 \/ size = n1 - 1
            BY DEF balance211_size
        <2> QED
            BY <1>1, <2>1
    <1> HIDE DEF start, size
    <1>5. start < start + size
        BY <1>2, <1>3, <1>4
    <1> QED
        BY <1>5 DEF start, size, balance211_end

\* Every item belongs to the piece of some thread.
THEOREM EveryItemHasAThread ==
    ASSUME NEW n \in Nat, NEW team \in Nat \ {0}, NEW i \in 0..(n - 1)
    PROVE  \E tid \in 0..(team - 1) : i \in Piece(n, team, tid)
    <1> DEFINE n1 == BigPiece(n, team)
               T1 == BigPieces(n, team)
    <1>1. n \in Nat \ {0}
        OBVIOUS
    <1>2. CASE team = 1
        <2>1. balance211_start(n, team, 0) = 0 /\ balance211_end(n, team, 0) = n
            BY <1>2 DEF NotDivided, balance211_start, balance211_size, balance211_end
        <2> QED
            BY <1>2, <2>1 DEF Piece
    <1>3. CASE team > 1
        <2>1. n1 \in Nat \ {0} /\ T1 \in 1..team /\ n = team * (n1 - 1) + T1
            BY <1>1, PiecesFacts
        <2>2. \A tid \in 0..(team - 1) :
                 /\ tid <= T1 => balance211_start(n, team, tid) = tid * n1
                 /\ tid >= T1 => balance211_start(n, team, tid) = T1 + tid * (n1 - 1)
                 /\ tid < T1 => balance211_end(n, team, tid) = (tid + 1) * n1
                 /\ tid >= T1 => balance211_end(n, team, tid) = T1 + (tid + 1) * (n1 - 1)
            BY <1>1, <1>3, StartFacts
        <2> HIDE DEF n1, T1
        <2>3. T1 * n1 = T1 * (n1 - 1) + T1
            BY <2>1
        <2>4. CASE i < T1 * n1
            <3> DEFINE q == i \div n1
                       r == i % n1
            <3>0. i \in Nat
                OBVIOUS
            <3>1. q \in Nat /\ r \in 0..(n1 - 1) /\ i = n1 * q + r
                BY <2>1, <3>0, DivisionFacts
            <3> HIDE DEF q, r
            <3>2. n1 * q = q * n1 /\ (q + 1) * n1 = q * n1 + n1
                BY <2>1, <3>1
            <3>3. q < T1
                <4>1. SUFFICES ASSUME q >= T1 PROVE FALSE
                    BY <2>1, <3>1
                <4>2. T1 * n1 <= q * n1
                    BY <2>1, <3>1, <4>1, ProductMonotone
                <4>3. T1 * n1 \in Nat /\ q * n1 \in Nat
                    BY <2>1, <3>1
                <4> QED
                    BY <2>4, <3>1, <3>2, <4>2, <4>3
            <3>4. q \in 0..(team - 1)
                BY <2>1, <3>1, <3>3
            <3>5. i \in (q * n1)..((q + 1) * n1 - 1)
                BY <2>1, <3>1, <3>2
            <3>6. /\ balance211_start(n, team, q) = q * n1
                  /\ balance211_end(n, team, q) = (q + 1) * n1
                BY <2>1, <2>2, <3>1, <3>3, <3>4
            <3>7. i \in Piece(n, team, q)
                BY <3>5, <3>6 DEF Piece
            <3> QED
                BY <3>4, <3>7
        <2>5. CASE i >= T1 * n1
            <3> DEFINE n2 == n1 - 1
                       j == i - T1
                       q == j \div n2
                       r == j % n2
            <3>1. T1 * n1 \in Nat /\ T1 * n2 \in Nat /\ team * n2 \in Nat
                BY <2>1
            <3>2. j \in Nat /\ j >= T1 * n2 /\ j < team * n2
                BY <2>1, <2>3, <2>5, <3>1
            <3>3. n2 \in Nat \ {0}
                BY <2>1, <3>2
            <3> HIDE DEF n2, j
            <3>4. q \in Nat /\ r \in 0..(n2 - 1) /\ j = n2 * q + r
                BY <3>2, <3>3, DivisionFacts
            <3> HIDE DEF q, r
            <3>5. n2 * q = q * n2 /\ (q + 1) * n2 = q * n2 + n2 /\ q * n2 \in Nat
                BY <3>3, <3>4
            <3>6. q >= T1
                <4>1. SUFFICES ASSUME q + 1 <= T1 PROVE FALSE
                    BY <2>1, <3>4
                <4>2. (q + 1) * n2 <= T1 * n2
                    BY <2>1, <3>3, <3>4, <4>1, ProductMonotone
                <4> QED
                    BY <3>1, <3>2, <3>3, <3>4, <3>5, <4>2
            <3>7. q < team
                <4>1. SUFFICES ASSUME q >= team PROVE FALSE
                    BY <3>4
                <4>2. team * n2 <= q * n2
                    BY <3>3, <3>4, <4>1, ProductMonotone
                <4> QED
                    BY <3>1, <3>2, <3>4, <3>5, <4>2
            <3>8. q \in 0..(team - 1)
                BY <3>4, <3>7
            <3>9. i = T1 + j /\ i \in Int
                BY <2>1 DEF j
            <3>10. T1 + q * n2 <= i /\ i <= T1 + (q + 1) * n2 - 1
                BY <2>1, <3>2, <3>3, <3>4, <3>5, <3>9
            <3>11. /\ balance211_start(n, team, q) = T1 + q * n2
                   /\ balance211_end(n, team, q) = T1 + (q + 1) * n2
                BY <2>2, <3>6, <3>8 DEF n2
            <3>12. i \in Piece(n, team, q)
                <4>1. /\ balance211_start(n, team, q) \in Int
                      /\ balance211_end(n, team, q) \in Int
                    BY <3>8, PieceBounds
                <4>2. /\ balance211_start(n, team, q) <= i
                      /\ i <= balance211_end(n, team, q) - 1
                    BY <2>1, <3>3, <3>4, <3>10, <3>11
                <4> QED
                    BY <3>9, <4>1, <4>2 DEF Piece
            <3> QED
                BY <3>8, <3>12
        <2> QED
            BY <2>1, <2>4, <2>5
    <1> QED
        BY <1>2, <1>3

-----------------------------------------------------------------------------
(* Sets of numbers *)

\* Every set of numbers that is not empty has a least one.
LEMMA LeastNumber ==
    ASSUME NEW T \in SUBSET Nat, T # {}
    PROVE  \E n \in T : \A m \in T : n <= m
    <1> DEFINE F == {0..(n - 1) : n \in T}
               R == StrictSubsetOrdering(Nat)
    <1>1. F \subseteq FiniteSubsetsOf(Nat)
        <2> SUFFICES ASSUME NEW n \in T PROVE 0..(n - 1) \in FiniteSubsetsOf(Nat)
            OBVIOUS
        <2>1. IsFiniteSet(0..(n - 1))
            BY FS_Interval
        <2> QED BY <2>1 DEF FiniteSubsetsOf
    <1>2. F # {}
        OBVIOUS
    <1>3. IsWellFoundedOn(R, FiniteSubsetsOf(Nat))
        BY FS_StrictSubsetOrderingWellFounded
    <1> HIDE DEF R
    <1>4. \E x \in F : \A y \in F : ~(<<y, x>> \in R)
        <2> HIDE DEF F
        <2> QED BY <1>1, <1>2, <1>3, WFMin
    <1>5. PICK n \in T : \A y \in F : ~(<<y, 0..(n - 1)>> \in R)
        BY <1>4
    <1>6. ASSUME NEW m \in T, m < n PROVE FALSE
        <2>1. <<0..(m - 1), 0..(n - 1)>> \notin R
            BY <1>5
        <2>2. 0..(m - 1) \subseteq 0..(n - 1) /\ m \in 0..(n - 1) /\ m \notin 0..(m - 1)
            BY <1>6
        <2>3. 0..(m - 1) \in SUBSET Nat /\ 0..(n - 1) \in SUBSET Nat
            OBVIOUS
        <2> QED BY <2>1, <2>2, <2>3 DEF R, StrictSubsetOrdering
    <1> QED BY <1>6

\* Every bounded set of numbers that is not empty has a greatest one.
LEMMA GreatestNumber ==
    ASSUME NEW b \in Nat, NEW T \in SUBSET (0..b), T # {}
    PROVE  \E n \in T : \A m \in T : m <= n
    <1> DEFINE F == {b - n : n \in T}
    <1>1. F \in SUBSET Nat /\ F # {}
        <2>1. \A n \in T : b - n \in Nat
            OBVIOUS
        <2> QED BY <2>1
    <1>2. PICK d \in F : \A e \in F : d <= e
        <2> HIDE DEF F
        <2> QED BY <1>1, LeastNumber
    <1>3. PICK n \in T : d = b - n
        OBVIOUS
    <1>4. ASSUME NEW m \in T PROVE m <= n
        <2>1. b - m \in F
            OBVIOUS
        <2>2. d <= b - m
            <3> HIDE DEF F
            <3> QED BY <1>2, <2>1
        <2> QED BY <1>3, <2>2
    <1> QED BY <1>4

-----------------------------------------------------------------------------
(* Loops written as recursive functions *)

\* A loop on D takes steps until it stops, and does stop: a measure decreases.
Decreases(D, Stop, step) ==
    /\ Stop \in SUBSET D
    /\ step \in [D -> D]
    /\ \E mu \in [D -> Nat] : \A p \in D \ Stop : mu[step[p]] < mu[p]

\* f is where the loop ends from each start.
IsLoop(f, D, Stop, step) == f = [p \in D |-> IF p \in Stop THEN p ELSE f[step[p]]]

\* A set of states that no step leaves.
Keeps(Inv, D, Stop, step) == Inv \in SUBSET D /\ \A p \in Inv \ Stop : step[p] \in Inv

\* A loop that always ends computes something: the recursive definition of
\* what it ends at, read as an equation, has a solution.
LEMMA LoopExists ==
    ASSUME NEW D, NEW Stop, NEW step, Decreases(D, Stop, step)
    PROVE  \E f : IsLoop(f, D, Stop, step)
    <1>0. Stop \in SUBSET D /\ step \in [D -> D]
        BY DEF Decreases
    <1> USE <1>0
    <1> DEFINE Closed(U) == \A x \in U \ Stop : step[x] \in U
               R(p) == {q \in D : \A U \in SUBSET D : p \in U /\ Closed(U) => q \in U}
               Ends(p) == R(p) \cap Stop
               g == [p \in D |-> CHOOSE q : q \in Ends(p)]
    <1>1. \A p \in Stop : Ends(p) = {p}
        <2> SUFFICES ASSUME NEW p \in Stop PROVE Ends(p) = {p}
            OBVIOUS
        <2>1. p \in R(p)
            OBVIOUS
        <2>2. {p} \in SUBSET D /\ Closed({p})
            OBVIOUS
        <2> QED BY <2>1, <2>2
    <1>2. \A p \in D \ Stop : Ends(p) = Ends(step[p])
        <2> SUFFICES ASSUME NEW p \in D \ Stop PROVE Ends(p) = Ends(step[p])
            OBVIOUS
        <2> DEFINE s == step[p]
        <2>0. s \in D
            OBVIOUS
        <2>1. R(s) \subseteq R(p)
            OBVIOUS
        <2>2. ASSUME NEW q \in R(p), q # p PROVE q \in R(s)
            <3> SUFFICES ASSUME NEW U \in SUBSET D, s \in U, Closed(U) PROVE q \in U
                BY <2>2
            <3> DEFINE V == U \cup {p}
            <3>1. V \in SUBSET D /\ Closed(V) /\ p \in V
                OBVIOUS
            <3>2. q \in V
                <4> HIDE DEF V
                <4> QED BY <3>1
            <3> QED BY <2>2, <3>2
        <2> QED BY <2>1, <2>2
    <1>3. \A p \in D : g[p] = IF p \in Stop THEN p ELSE g[step[p]]
        <2> SUFFICES ASSUME NEW p \in D PROVE g[p] = IF p \in Stop THEN p ELSE g[step[p]]
            OBVIOUS
        <2>1. CASE p \in Stop
            <3>1. g[p] = CHOOSE q : q \in {p}
                BY <1>1, <2>1
            <3> QED BY <2>1, <3>1
        <2>2. CASE p \notin Stop
            <3>1. Ends(p) = Ends(step[p]) /\ step[p] \in D
                BY <1>2, <2>2
            <3>2. g[p] = (CHOOSE q : q \in Ends(p)) /\ g[step[p]] = CHOOSE q : q \in Ends(step[p])
                <4> HIDE DEF Ends
                <4> QED BY <3>1
            <3> HIDE DEF g, Ends
            <3> QED BY <2>2, <3>1, <3>2
        <2> QED BY <2>1, <2>2
    <1>4. g = [p \in D |-> IF p \in Stop THEN p ELSE g[step[p]]]
        <2>1. g = [q \in D |-> g[q]]
            OBVIOUS
        <2> HIDE DEF g
        <2>2. [p \in D |-> g[p]] = [p \in D |-> IF p \in Stop THEN p ELSE g[step[p]]]
            BY <1>3, Zenon
        <2> QED BY <2>1, <2>2
    <1>5. IsLoop(g, D, Stop, step)
        <2> HIDE DEF g
        <2> QED BY <1>4, Zenon DEF IsLoop
    <1> HIDE DEF g
    <1> QED BY <1>5

\* The function satisfies its equation.
LEMMA LoopEquation ==
    ASSUME NEW D, NEW Stop, NEW step, NEW f, IsLoop(f, D, Stop, step), NEW p \in D
    PROVE  f[p] = IF p \in Stop THEN p ELSE f[step[p]]
    <1> DEFINE F == [q \in D |-> IF q \in Stop THEN q ELSE f[step[q]]]
    <1>1. f = F
        BY Zenon DEF IsLoop
    <1>2. F[p] = IF p \in Stop THEN p ELSE f[step[p]]
        BY Zenon
    <1> HIDE DEF F
    <1> QED BY <1>1, <1>2

\* What no step leaves holds where the loop ends.
LEMMA LoopInvariant ==
    ASSUME NEW D, NEW Stop, NEW step, Decreases(D, Stop, step),
           NEW f, IsLoop(f, D, Stop, step),
           NEW Inv, Keeps(Inv, D, Stop, step), NEW start \in Inv
    PROVE  f[start] \in Inv \cap Stop
    <1>0. PICK mu \in [D -> Nat] : \A p \in D \ Stop : mu[step[p]] < mu[p]
        BY DEF Decreases
    <1>a. /\ Stop \in SUBSET D /\ step \in [D -> D]
          /\ Inv \in SUBSET D /\ \A p \in Inv \ Stop : step[p] \in Inv
        BY DEF Decreases, Keeps
    <1> USE <1>0, <1>a
    <1> DEFINE Bad == {p \in Inv : f[p] \notin Inv \cap Stop}
               N == {mu[p] : p \in Bad}
    <1>1. SUFFICES ASSUME Bad # {} PROVE FALSE
        OBVIOUS
    <1>2. N \in SUBSET Nat /\ N # {}
        BY <1>1
    <1>3. PICK n \in N : \A m \in N : n <= m
        <2> HIDE DEF N
        <2> QED BY <1>2, LeastNumber
    <1>4. PICK p \in Bad : mu[p] = n
        OBVIOUS
    <1>5. f[p] = IF p \in Stop THEN p ELSE f[step[p]]
        <2>1. p \in D
            OBVIOUS
        <2> HIDE DEF Bad
        <2> QED BY <2>1, LoopEquation
    <1>6. p \notin Stop
        BY <1>5
    <1>7. step[p] \in Bad
        BY <1>5, <1>6
    <1>8. mu[step[p]] < mu[p] /\ mu[step[p]] \in N /\ mu[p] \in Nat /\ mu[step[p]] \in Nat
        BY <1>6, <1>7
    <1> QED
        <2> HIDE DEF N, Bad
        <2> QED BY <1>3, <1>4, <1>8

-----------------------------------------------------------------------------
(* Dimensions divided otherwise, and the turns of a team *)

\* How many of nthr blocks of b places are not empty, if all of them cover d.
LEMMA UsedFacts ==
    ASSUME NEW d \in Nat \ {0}, NEW nthr \in Nat \ {0}, NEW b \in Nat \ {0}, b * nthr >= d,
           NEW u, u = IF b * nthr > d THEN div_up(d, b) ELSE nthr
    PROVE  u \in 1..nthr /\ b * u >= d /\ b * (u - 1) < d
    <1>0. b * nthr \in Nat /\ nthr * b = b * nthr /\ b * (nthr - 1) = b * nthr - b
        OBVIOUS
    <1>1. CASE b * nthr > d
        <2>1. u = div_up(d, b)
            BY <1>1
        <2>2. u \in Nat \ {0} /\ d <= u * b /\ (u - 1) * b < d
            BY <2>1, DivUpFacts
        <2>3. u * b = b * u /\ (u - 1) * b = b * (u - 1) /\ (u - 1) * b \in Nat
            BY <2>2
        <2>4. u <= nthr
            <3> SUFFICES ASSUME nthr <= u - 1 PROVE FALSE
                BY <2>2
            <3>1. nthr * b <= (u - 1) * b
                BY <2>2, ProductMonotone
            <3> QED BY <1>0, <1>1, <2>2, <2>3, <3>1
        <2> QED BY <2>2, <2>3, <2>4
    <1>2. CASE ~(b * nthr > d)
        BY <1>0, <1>2
    <1> QED BY <1>1, <1>2

\* The parts of 0..n-1 between growing points.
Between(O, i, n) == {x \in 0..(n - 1) : O[i] <= x /\ x < O[i + 1]}

\* Growing points from 0 to n or beyond.
Divides(O, N, n) ==
    /\ O \in [0..N -> Nat] /\ O[0] = 0 /\ O[N] >= n
    /\ \A i, j \in 0..N : i <= j => O[i] <= O[j]

\* Every place is in one part.
LEMMA OnePart ==
    ASSUME NEW N \in Nat \ {0}, NEW n \in Nat, NEW O, Divides(O, N, n)
    PROVE  /\ \A x \in 0..(n - 1) : \E i \in 0..(N - 1) : x \in Between(O, i, n)
           /\ \A i, j \in 0..(N - 1) : i # j => Between(O, i, n) \cap Between(O, j, n) = {}
    <1>1. ASSUME NEW x \in 0..(n - 1) PROVE \E i \in 0..(N - 1) : x \in Between(O, i, n)
        <2> DEFINE T == {i \in 0..(N - 1) : O[i] <= x}
        <2>1. 0 \in T
            BY DEF Divides
        <2>2. PICK i \in T : \A j \in T : j <= i
            <3>1. T \in SUBSET (0..(N - 1)) /\ N - 1 \in Nat
                OBVIOUS
            <3> HIDE DEF T
            <3> QED BY <2>1, <3>1, GreatestNumber
        <2>3. x < O[i + 1]
            <3>1. CASE i = N - 1
                BY <1>1, <3>1 DEF Divides
            <3>2. CASE i # N - 1
                <4>1. i + 1 \in 0..(N - 1) /\ i + 1 \notin T
                    <5>1. i + 1 \in 0..(N - 1) /\ ~(i + 1 <= i)
                        BY <2>2, <3>2
                    <5> HIDE DEF T
                    <5> QED BY <2>2, <5>1
                <4>2. O[i + 1] \in Nat
                    BY <4>1 DEF Divides
                <4> QED BY <4>1, <4>2
            <3> QED BY <3>1, <3>2
        <2> QED BY <2>2, <2>3 DEF Between
    <1>2. ASSUME NEW i \in 0..(N - 1), NEW j \in 0..(N - 1), i < j,
                 NEW x \in Between(O, i, n), x \in Between(O, j, n)
          PROVE  FALSE
        <2>1. i + 1 \in 0..N /\ j \in 0..N /\ i + 1 <= j
            BY <1>2
        <2>2. O[i + 1] <= O[j] /\ O[i + 1] \in Nat /\ O[j] \in Nat
            BY <2>1 DEF Divides
        <2> QED BY <1>2, <2>2 DEF Between
    <1>3. ASSUME NEW i \in 0..(N - 1), NEW j \in 0..(N - 1), i # j
          PROVE  Between(O, i, n) \cap Between(O, j, n) = {}
        <2>1. i < j \/ j < i
            BY <1>3
        <2> QED BY <1>2, <2>1
    <1> QED BY <1>1, <1>3

\* P divides 0..n-1 into N intervals.
Splits(P, N, n) ==
    /\ \A i \in 0..(N - 1) : P[i] \subseteq 0..(n - 1) /\ \E a, b \in Int : P[i] = a..b
    /\ \A x \in 0..(n - 1) : \E i \in 0..(N - 1) : x \in P[i]
    /\ \A i, j \in 0..(N - 1) : i # j => P[i] \cap P[j] = {}

\* Growing points split a dimension.
LEMMA PointsSplit ==
    ASSUME NEW N \in Nat \ {0}, NEW n \in Nat, NEW O, Divides(O, N, n),
           NEW P, \A i \in 0..(N - 1) : P[i] = Between(O, i, n)
    PROVE  Splits(P, N, n)
    <1>1. /\ \A x \in 0..(n - 1) : \E i \in 0..(N - 1) : x \in Between(O, i, n)
          /\ \A i, j \in 0..(N - 1) : i # j => Between(O, i, n) \cap Between(O, j, n) = {}
        BY OnePart
    <1>2. ASSUME NEW i \in 0..(N - 1) PROVE P[i] \subseteq 0..(n - 1) /\ \E a, b \in Int : P[i] = a..b
        <2>1. P[i] = Between(O, i, n)
            BY <1>2
        <2>2. O[i] \in Nat /\ O[i + 1] \in Nat
            BY DEF Divides
        <2>3. Between(O, i, n) = O[i]..((IF O[i + 1] < n THEN O[i + 1] ELSE n) - 1)
            BY <2>2 DEF Between
        <2>4. Between(O, i, n) \subseteq 0..(n - 1)
            BY DEF Between
        <2> DEFINE hi == (IF O[i + 1] < n THEN O[i + 1] ELSE n) - 1
        <2>9. hi \in Int
            BY <2>2
        <2> HIDE DEF hi
        <2>5. P[i] = O[i]..hi /\ hi \in Int /\ O[i] \in Int
            BY <2>1, <2>2, <2>3, <2>9 DEF hi
        <2> DEFINE lo == O[i]
        <2> HIDE DEF lo
        <2>6. lo \in Int /\ hi \in Int /\ P[i] = lo..hi
            BY <2>5 DEF lo
        <2>7. \E a, b \in Int : P[i] = a..b
            BY <2>6
        <2>8. P[i] \subseteq 0..(n - 1)
            BY <2>1, <2>4
        <2> QED BY <2>7, <2>8
    <1>3. \A x \in 0..(n - 1) : \E i \in 0..(N - 1) : x \in P[i]
        BY <1>1
    <1>4. \A i, j \in 0..(N - 1) : i # j => P[i] \cap P[j] = {}
        BY <1>1
    <1>5. \A i \in 0..(N - 1) : P[i] \subseteq 0..(n - 1) /\ \E a, b \in Int : P[i] = a..b
        BY <1>2
    <1> QED BY <1>3, <1>4, <1>5 DEF Splits

\* The whole dimension is one part of itself.
LEMMA WholeSplits ==
    ASSUME NEW n \in Nat
    PROVE  Splits([i \in {0} |-> 0..(n - 1)], 1, n)
    <1>1. 0..(1 - 1) = {0}
        OBVIOUS
    <1>2. 0 \in Int /\ n - 1 \in Int
        OBVIOUS
    <1> QED BY <1>1, <1>2 DEF Splits

\* A slice's number and its thread's go round the team.
LEMMA TurnsOfATeam ==
    ASSUME NEW a \in Nat, NEW n \in Nat \ {0}
    PROVE  (a + n) % n = a % n
    <1> DEFINE q == a \div n
               r == a % n
    <1>1. q \in Nat /\ r \in 0..(n - 1) /\ a = n * q + r
        BY DivisionFacts
    <1> HIDE DEF q, r
    <1>2. a + n = n * (q + 1) + r
        BY <1>1
    <1>3. (a + n) % n = r
        BY <1>1, <1>2, DivisionIsUnique
    <1> QED BY <1>3 DEF r

\* A number below the team's size is its own turn.
LEMMA TurnOfASmallNumber ==
    ASSUME NEW a \in Nat, NEW n \in Nat \ {0}, a < n
    PROVE  a % n = a
    <1>1. a = n * 0 + a /\ a \in 0..(n - 1)
        OBVIOUS
    <1> QED BY <1>1, DivisionIsUnique

\* Numbers that are the same thread's are a team apart.
LEMMA TurnsApart ==
    ASSUME NEW a \in Nat, NEW b \in Nat, NEW n \in Nat \ {0}, a % n = b % n, a < b
    PROVE  a + n <= b
    <1>1. /\ a = n * (a \div n) + (a % n) /\ a \div n \in Nat
          /\ b = n * (b \div n) + (b % n) /\ b \div n \in Nat
        BY DivisionFacts
    <1> DEFINE p == a \div n
               q == b \div n
               r == a % n
    <1>2. p \in Nat /\ q \in Nat /\ r \in Int /\ a = n * p + r /\ b = n * q + r
        BY <1>1
    <1> HIDE DEF p, q, r
    <1>3. p < q
        <2> SUFFICES ASSUME q <= p PROVE FALSE
            BY <1>2
        <2>1. n * q <= n * p
            BY <1>2, ProductMonotone
        <2> QED BY <1>2, <2>1
    <1>4. n * (p + 1) <= n * q
        <2>1. p + 1 \in Nat /\ p + 1 <= q
            BY <1>2, <1>3
        <2> QED BY <1>2, <2>1, ProductMonotone
    <1>5. n * (p + 1) = n * p + n /\ n * p \in Nat /\ n * q \in Nat
        BY <1>2
    <1> QED BY <1>2, <1>4, <1>5
=============================================================================
