--------------------------- MODULE NocopyPartition ---------------------------
(***************************************************************************)
(* How a matrix product is divided among threads in three dimensions:      *)
(* calc_nthr_nocopy_avx and partition_unit_diff of                         *)
(* cpu/gemm/f32/gemm_utils_f32.cpp, for a runtime with barriers.  The      *)
(* blocking values are parameters.                                         *)
(***************************************************************************)
EXTENDS Balance211

CONSTANTS BM, BN, BK, BM_SMALL, BN_SMALL, BK_SMALL    \* positive numbers

Lesser(a, b) == IF a < b THEN a ELSE b

isqrt(x) == CHOOSE r \in 0..x : r * r <= x /\ x < (r + 1) * (r + 1)

\* The largest number of threads below `nthr' for the dimension k that leaves
\* more than BK of it to each, loses at most a tenth of the threads, and is
\* wanted because the other dimensions do not occupy the threads.
nthr_k_of(m, n, k, nthr) ==
    LET blocks == div_up(m, BM) * div_up(n, BN)
        \* the values nthr_other takes in the loop
        others == {o \in 1..nthr : \A i \in 1..(o - 1) : blocks * i < nthr /\ k \div (i + 1) > BK}
        kept   == {1} \cup {o \in others \ {1} : 10 * ((nthr \div o) * o) > 9 * nthr}
    IN  CHOOSE o \in kept : \A i \in kept : i <= o

\* "Simple partition reduction": <<nthr_m, nthr_n>> after both loops.
Shrunk(nthr) ==
    LET f[p \in Nat \X Nat] ==
            IF p[1] * p[2] <= nthr THEN p
            ELSE IF p[1] > p[2] THEN f[<<p[1] - 1, p[2]>>] ELSE f[<<p[1], p[2] - 1>>]
    IN  f

Grown(nthr) ==
    LET f[p \in Nat \X Nat] ==
            IF p[1] * p[2] >= nthr THEN p
            ELSE IF p[1] < p[2] THEN f[<<p[1] + 1, p[2]>>] ELSE f[<<p[1], p[2] + 1>>]
    IN  f

\* The divisor of nthr that the last loop ends at, from a start.
Divided(nthr, start) ==
    CHOOSE d \in 1..start :
        /\ d = 1 \/ d * (nthr \div d) = nthr
        /\ \A e \in (d + 1)..start : e * (nthr \div e) # nthr

\* <<nthr_m, nthr_n>> for the threads that share a part of k.
nthr_mn_of(m, n, nthr) ==
    LET m0 == div_up(m, BM)
        n0 == div_up(n, BN)
        n1 == IF m0 = 1 THEN nthr ELSE n0
        m1 == IF n1 = 1 THEN nthr ELSE m0
        p  == Grown(nthr)[Shrunk(nthr)[<<m1, n1>>]]
        dm == Divided(nthr, Lesser(isqrt(nthr), div_up(m, BM_SMALL)))
        dn == Divided(nthr, Lesser(isqrt(nthr), div_up(n, BN_SMALL)))
    IN  CASE ~(p[1] * p[2] > nthr /\ p[1] > 1 /\ p[2] > 1) -> p
          [] p[1] * p[2] > nthr /\ p[1] > 1 /\ p[2] > 1 /\ p[1] <= p[2] -> <<dm, nthr \div dm>>
          [] OTHER -> <<nthr \div dn, dn>>

\* The block of a dimension and how many threads get one that is not empty.
Block(d, nthr, small) ==
    LET b == div_up(d, nthr) + small - 1 IN b - (b % small)

\* MUTANT of Used: blocks are rounded up, the threads left as they were.
UsedAll(d, nthr, b) == nthr

Used(d, nthr, b) == IF b * nthr > d THEN div_up(d, b) ELSE nthr

calc_nthr_nocopy_avx(m, n, k, nthrs) ==
    LET nk == nthr_k_of(m, n, k, nthrs)
        mn == nthr_mn_of(m, n, nthrs \div nk)
        MB == Block(m, mn[1], BM_SMALL)
        NB == Block(n, mn[2], BN_SMALL)
        KB == Block(k, nk, BK_SMALL)
    IN  IF nthrs = 1
        THEN [nthr_m |-> 1, nthr_n |-> 1, nthr_k |-> 1, MB |-> m, NB |-> n, KB |-> k]
        ELSE [nthr_m |-> Used(m, mn[1], MB), nthr_n |-> Used(n, mn[2], NB),
              nthr_k |-> Used(k, nk, KB), MB |-> MB, NB |-> NB, KB |-> KB]

-----------------------------------------------------------------------------
(* partition_unit_diff: n values among nthr threads *)

\* The values of thread ithr: t_block of them from t_offset on.
t_range(ithr, nthr, n) ==
    LET band == IF n \div nthr = 0 THEN 1 ELSE n \div nthr
        tail == IF n > band * nthr THEN n - band * nthr ELSE 0
        size == IF ithr < tail THEN band + 1 ELSE band
        off  == IF ithr < tail THEN size * ithr ELSE band * ithr + tail
    IN  IF off >= n THEN {} ELSE off..(Lesser(off + size, n) - 1)
=============================================================================
