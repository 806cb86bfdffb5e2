---------------------------- MODULE GemmThreading ----------------------------
(***************************************************************************)
(* How the blocked gemm divides a product among threads: get_thread_slice  *)
(* (cpu/x64/gemm/gemm_threading.hpp) with partition_1d and partition_2d    *)
(* (gemm_partition.hpp), the blocking of set_thread_opts_pack, and the     *)
(* choice between this gemm and the one that copies nothing, which the     *)
(* driver makes before its parallel region and again inside it.            *)
(***************************************************************************)
EXTENDS Balance211

CONSTANTS
    nocopy,    \* thresholds of nocopy_checker_avx2
    arg        \* blocking values of gemm_info_t, get_m_padd_parallel_a and
               \* set_thread_opts_nopack

ASSUME NocopyAssumption ==
    nocopy \in [num : Nat, den : Nat, block : Nat, bm : Nat, mn : Nat, n : [BOOLEAN -> Nat],
                k : [BOOLEAN -> Nat]]
\* M2D_MIN is 384; with less than five partition_2d would leave blocks out.
ASSUME ArgAssumption ==
    arg \in [um : Nat \ {0}, bm : Nat \ {0}, un : Nat \ {0}, bn : Nat \ {0},
             uk : Nat \ {0}, bk : Nat \ {0},
             bk_traditional : Nat, k_min : Nat, multiplier : Nat \ {0},
             n2d_max : Nat, m2d_min : Nat \ (0..4)]

Lesser(a, b) == IF a < b THEN a ELSE b
Greater(a, b) == IF a > b THEN a ELSE b
rnd_up(a, b) == div_up(a, b) * b

\* size places from off on; none if size is negative.
Places(off, size) == off..(off + size - 1)

-----------------------------------------------------------------------------
(* Copying is not worth it *)

\* 1/m + 1/n >= FORCE_NOCOPY_THRESH
CopyIsCostly(m, n) == nocopy.den * (m + n) >= nocopy.num * m * n

\* MUTANT of nocopy_checker_avx2: the test of n is the wrong way round.
nocopy_checker_reversed(nthr, transb, m, n, k) ==
    \/ CopyIsCostly(m, n)
    \/ n >= nthr * nocopy.n[transb] /\ m <= nocopy.block

nocopy_checker_avx2(nthr, transb, m, n, k) ==
    \/ CopyIsCostly(m, n)
    \/ /\ ~(m <= nocopy.block /\ n <= nocopy.block /\ k >= nthr * nocopy.block)
       /\ ~(m >= nthr * nocopy.block /\ k >= nthr * nocopy.block)
       /\ \/ m <= nocopy.mn /\ n <= nocopy.mn
          \/ n <= nthr * nocopy.n[transb]
          \/ k <= nthr * nocopy.k[transb]
          \/ ~transb /\ m <= nocopy.bm /\ n >= nthr * nocopy.n[FALSE]

-----------------------------------------------------------------------------
(* A dimension divided among threads *)

partition_1d(ithr, nthrs, n) ==
    LET even == n \div nthrs
        band == IF n - (nthrs - 1) * even > even + 1 THEN even + 1 ELSE even
        off  == ithr * band
        size == IF ithr < nthrs - 1 THEN band ELSE n - (nthrs - 1) * band
    IN  IF off >= n THEN {} ELSE Places(off, Lesser(size, n - off))

\* Band of the first groups and number of groups in a dimension of a 2D
\* partition.  Where rows are divided the band may be one larger yet.
Groups(d, nthrs, rows) ==
    LET even   == d \div nthrs
        last   == d - (nthrs - 1) * even
        uneven == last > even + 1
        first  == even + (IF uneven THEN 1 ELSE 0)
                       + (IF uneven /\ rows /\ last > nthrs THEN 1 ELSE 0)
    IN  [band |-> first, used |-> IF uneven THEN div_up(d, first) ELSE nthrs]

\* The last group has the rest.
Group(i, d, g) ==
    IF i < g.used - 1 THEN Places(i * g.band, g.band)
    ELSE Places((g.used - 1) * g.band, d - (g.used - 1) * g.band)

partition_2d(ithr, nthrs_m, nthrs_n, m, n) ==
    LET gm == Groups(m, nthrs_m, TRUE)
        gn == Groups(n, nthrs_n, FALSE)
    IN  IF ithr < gm.used * gn.used
        THEN [m |-> Group(ithr % nthrs_m, m, gm), n |-> Group(ithr \div nthrs_m, n, gn)]
        ELSE [m |-> {}, n |-> {}]

\* choose_blocking of set_thread_opts_pack: places of a thread, and how many
\* threads have any.
choose_blocking(size, nthr, block_init, align) ==
    LET thread_init == div_up(size, nthr)
        num_blk     == div_up(thread_init, block_init)
        thread      == num_blk * rnd_up(div_up(thread_init, num_blk), align)
    IN  [thread |-> thread, nthr |-> IF thread * nthr > size THEN div_up(size, thread) ELSE nthr]

-----------------------------------------------------------------------------
(* A thread's slice of the product *)

nthrs(t) == t.nthrs_m * t.nthrs_n * t.nthrs_k

\* Place ithr of those that have up to `thread' places each.
Third(ithr, thread, size) == Places(ithr * thread, Lesser(thread, size - ithr * thread))

get_thread_slice(t, ithr, m, n, k) ==
    LET ithr_k == (ithr \div t.nthrs_m) \div t.nthrs_n
        two    == partition_2d(ithr, t.nthrs_m, t.nthrs_n, m, n)
        whole  == [m |-> 0..(m - 1), n |-> 0..(n - 1), k |-> 0..(k - 1), ithr_k |-> 0]
    IN  CASE t.partition = "row_1d" -> [whole EXCEPT !.m = partition_1d(ithr, nthrs(t), m)]
          [] t.partition = "col_1d" -> [whole EXCEPT !.n = partition_1d(ithr, nthrs(t), n)]
          [] t.partition = "col_major_2d" -> [whole EXCEPT !.m = two.m, !.n = two.n]
          [] t.partition = "mnk_3d" ->
               [m |-> Third(ithr % t.nthrs_m, t.thread_m, m),
                n |-> Third((ithr \div t.nthrs_m) % t.nthrs_n, t.thread_n, n),
                k |-> Third(ithr_k, t.thread_k, k),
                ithr_k |-> ithr_k]

thr_k_stride(t) == t.nthrs_m * t.nthrs_n

-----------------------------------------------------------------------------
(* Blocks of A that the threads copy together *)

\* Rows and depth of the shared copy.
get_m_padd_parallel_a(m, nthr) ==
    LET m_padd == rnd_up(Lesser(Greater(m, arg.um), arg.bm), arg.um)
                    * Greater(nthr, arg.multiplier)
    IN  IF m_padd > m THEN rnd_up(m, arg.um) ELSE m_padd

get_k_padd(k) ==
    CASE k <= arg.bk_traditional -> Greater(arg.k_min, rnd_up(k, arg.uk))
      [] k > arg.bk_traditional /\ k < 2 * arg.bk -> rnd_up((k + 1) \div 2, arg.uk)
      [] OTHER -> arg.bk

\* MUTANT of CopiedBand: the band is rounded down.
CopiedBandRoundedDown(ithr, nthr, sizeM) == Places(ithr * (sizeM \div nthr), sizeM \div nthr)

\* The rows of a block that thread ithr of nthr copies.
CopiedBand(ithr, nthr, sizeM) ==
    LET band == rnd_up(div_up(sizeM, nthr), arg.um)
    IN  Places(band * ithr, Lesser(band, sizeM - band * ithr))
=============================================================================
