-------------------------- MODULE ConvBwdWeights1x1 --------------------------
(***************************************************************************)
(* The backward pass by weights of the 1x1 convolution                     *)
(* (cpu/x64/jit_avx512_common_1x1_convolution.cpp), for the OpenMP build.  *)
(* The threads divide the images (mb), the groups and the blocks of output *)
(* and input channels.  Those that differ only in their output channels    *)
(* transpose the source together, step by step, between two passages of a  *)
(* barrier; at the end all meet at another one and add the images' sums.   *)
(*                                                                         *)
(* A source block is <<img, g, ic_b, sp_b>>.  The value of an element of   *)
(* the weights is the set of terms <<img, sp_b>> summed in it.  Of the     *)
(* barriers only what they promise is used: arrivals are counted.          *)
(***************************************************************************)
EXTENDS Balance211, FiniteSets

CONSTANT Shapes    \* problems and the settings that the kernel has for them

ASSUME ShapesAssumption ==
    /\ Shapes \subseteq [nthreads : Nat \ {0}, mb : Nat \ {0}, ngroups : Nat \ {0},
                         nb_oc : Nat \ {0}, nb_ic : Nat \ {0}, sp_nb : Nat \ {0},
                         nb_reduce_blocking : Nat \ {0}, nb_reduce_blocking_max : Nat,
                         nb_bcast_blocking : Nat \ {0}, nb_bcast_blocking_max : Nat,
                         transpose_src : BOOLEAN]
    /\ \A s \in Shapes : /\ s.nb_reduce_blocking <= s.nb_reduce_blocking_max
                         /\ s.nb_bcast_blocking <= s.nb_bcast_blocking_max

VARIABLES
    shape,     \* the problem
    jcp,       \* how balance() divides the threads
    thr,       \* per thread of the region, where it is in ker
    phase,     \* per thread, its arrivals at its barrier of tr_src_bctx
    tr_src,    \* the transposed source
    wei        \* diff_weights (0) and the parts of wei_reduction (1 and up)

vars == <<shape, jcp, thr, phase, tr_src, wei>>

-----------------------------------------------------------------------------
(* balance() *)

Least(a, b) == IF a < b THEN a ELSE b

OneThread == [nthr_mb |-> 1, nthr_g |-> 1, nthr_oc_b |-> 1, nthr_ic_b |-> 1]

Candidates(s) ==
    LET nthr == s.nthreads \div s.ngroups
    IN  UNION {{[nthr_mb |-> n, nthr_g |-> s.ngroups, nthr_oc_b |-> o,
                 nthr_ic_b |-> Least((nthr \div n) \div o, s.nb_ic)] :
                  o \in 1..Least(nthr \div n, s.nb_oc)} :
               n \in 1..Least(nthr, s.mb * s.sp_nb)}

\* MUTANT of Adjusted: the images get all threads however few they had.
AdjustedAlways(s, c) ==
    IF c.nthr_mb < s.nthreads THEN [c EXCEPT !.nthr_mb = Least(s.mb, s.nthreads)] ELSE c

\* A division that gives most threads to the images gives them all.
Adjusted(s, c) ==
    IF c.nthr_mb > s.nthreads \div 2 /\ c.nthr_mb < s.nthreads
    THEN [c EXCEPT !.nthr_mb = Least(s.mb, s.nthreads)] ELSE c

\* The divisions balance() may choose; the costs it compares are left open.
Divisions(s) ==
    IF s.nthreads < s.ngroups THEN {OneThread}
    ELSE {Adjusted(s, c) : c \in Candidates(s)}

nthr == jcp.nthr_mb * jcp.nthr_g * jcp.nthr_oc_b * jcp.nthr_ic_b
Tids == 0..(nthr - 1)

ithr_ic_b(t) == t % jcp.nthr_ic_b
ithr_oc_b(t) == (t \div jcp.nthr_ic_b) % jcp.nthr_oc_b
ithr_g(t) == ((t \div jcp.nthr_ic_b) \div jcp.nthr_oc_b) % jcp.nthr_g
ithr_mb(t) == ((t \div jcp.nthr_ic_b) \div jcp.nthr_oc_b) \div jcp.nthr_g

\* MUTANT of ithr_but_oc: the images are forgotten.
ithr_but_oc_and_mb(t) == ithr_g(t) * jcp.nthr_ic_b + ithr_ic_b(t)

\* The barrier of tr_src_bctx that thread t uses.
ithr_but_oc(t) == (ithr_mb(t) * jcp.nthr_g + ithr_g(t)) * jcp.nthr_ic_b + ithr_ic_b(t)

\* The ranges of a thread, as <<start, end>>.
Range211(n, team, tid) == <<balance211_start(n, team, tid), balance211_end(n, team, tid)>>

mb_sp_b_range(t) ==
    IF shape.transpose_src /\ jcp.nthr_mb < shape.mb \div 2
    THEN LET img == Range211(shape.mb, jcp.nthr_mb, ithr_mb(t))
         IN  <<img[1] * shape.sp_nb, img[2] * shape.sp_nb>>
    ELSE Range211(shape.mb * shape.sp_nb, jcp.nthr_mb, ithr_mb(t))

g_range(t) == Range211(shape.ngroups, jcp.nthr_g, ithr_g(t))
oc_b_range(t) == Range211(shape.nb_oc, jcp.nthr_oc_b, ithr_oc_b(t))
ic_b_range(t) == Range211(shape.nb_ic, jcp.nthr_ic_b, ithr_ic_b(t))

In(r) == r[1]..(r[2] - 1)
Work(r) == r[2] - r[1]

-----------------------------------------------------------------------------
(* The place of a thread in its loops *)

\* How far a loop goes: a short remainder is done at once.
step(default, remaining, tail) == IF remaining < tail THEN remaining ELSE default

img_sp(t) == nd_iterator_init(thr[t].mb_sp_b, shape.mb, shape.sp_nb)
img(t) == img_sp(t)[1]
sp_b(t) == img_sp(t)[2]

sp_b_step(t) ==
    step(shape.nb_reduce_blocking,
         Least(shape.sp_nb - sp_b(t), mb_sp_b_range(t)[2] - thr[t].mb_sp_b),
         shape.nb_reduce_blocking_max)

bcast_step(t) ==
    step(shape.nb_bcast_blocking, ic_b_range(t)[2] - thr[t].ic_b, shape.nb_bcast_blocking_max)

StepSp(t) == sp_b(t)..(sp_b(t) + sp_b_step(t) - 1)
StepIc(t) == thr[t].ic_b..(thr[t].ic_b + bcast_step(t) - 1)

More(t) == thr[t].mb_sp_b < mb_sp_b_range(t)[2]

\* The three nested loops go on.
NextStep(t) ==
    LET r    == thr[t]
        more == r.ic_b + bcast_step(t) < ic_b_range(t)[2]
        last == r.g + 1 = g_range(t)[2]
    IN  CASE more -> [r EXCEPT !.ic_b = @ + bcast_step(t)]
          [] ~more /\ ~last -> [r EXCEPT !.ic_b = ic_b_range(t)[1], !.g = @ + 1]
          [] OTHER -> [r EXCEPT !.ic_b = ic_b_range(t)[1], !.g = g_range(t)[1],
                                !.mb_sp_b = @ + sp_b_step(t)]

Shared == jcp.nthr_oc_b > 1

Out == [pc |-> "out", mb_sp_b |-> 0, g |-> 0, ic_b |-> 0]

At(t, place) == thr[t].pc = place
Goto(t, place) == thr' = [thr EXCEPT ![t].pc = place]

Arrives(t) == phase' = [phase EXCEPT ![t] = @ + 1]

\* MUTANT of MayPass: the barrier waits for as many as divide the input.
MayPassByIc(t) ==
    Cardinality({u \in Tids : ithr_but_oc(u) = ithr_but_oc(t) /\ phase[u] >= phase[t]})
        >= jcp.nthr_oc_b * jcp.nthr_ic_b

\* nthr_oc_b threads have arrived at the barrier as often as t.
MayPass(t) ==
    Cardinality({u \in Tids : ithr_but_oc(u) = ithr_but_oc(t) /\ phase[u] >= phase[t]})
        >= jcp.nthr_oc_b

-----------------------------------------------------------------------------
(* What a step reads and writes *)

Garbage == <<-1, -1, -1, -1>>
Wrong == <<-1, -1>>

\* Places of the transposed source; the input block is relative to the start
\* of the thread's own, as tr_src_off is called.
TrPlace(t, k, sp) == <<ithr_mb(t), thr[t].g * shape.nb_ic + ic_b_range(t)[1] + k, sp>>

\* MUTANT of MyTrans: the last block of the step is left to nobody.
MyTransButLast(t) == Piece(bcast_step(t) - 1, jcp.nthr_oc_b, ithr_oc_b(t))

\* The input blocks of the step that thread t transposes.
MyTrans(t) == Piece(bcast_step(t), jcp.nthr_oc_b, ithr_oc_b(t))

TransWrites(t) == {TrPlace(t, k, sp) : k \in MyTrans(t), sp \in StepSp(t)}

MultiplyReads(t) ==
    IF shape.transpose_src THEN {TrPlace(t, k, sp) : k \in 0..(bcast_step(t) - 1), sp \in StepSp(t)}
    ELSE {}

\* Elements of the weights: <<g, oc_b, ic_b>>.
MultiplyWrites(t) == {thr[t].g} \X In(oc_b_range(t)) \X StepIc(t)

\* The source block that the kernel takes for <<ic_b, sp_b>>.
BlockRead(t, ic, sp) ==
    IF shape.transpose_src THEN tr_src[TrPlace(t, ic - thr[t].ic_b, sp)]
    ELSE <<img(t), thr[t].g, ic, sp>>

Terms(t, ic) ==
    {IF BlockRead(t, ic, sp) = <<img(t), thr[t].g, ic, sp>> THEN <<img(t), sp>> ELSE Wrong :
       sp \in StepSp(t)}

\* The sum of the values that f lists; a term must not be added twice.
Total(f) ==
    IF \A i, j \in DOMAIN f : i # j => f[i] \cap f[j] = {}
    THEN UNION {f[i] : i \in DOMAIN f} ELSE {Wrong}

\* MUTANT of ReduceFirst: the sums are cleared at every image's first block.
ReduceFirstOfImage(t) == sp_b(t) = 0

\* FLAG_REDUCE_FIRST: the step's terms replace what was there.
ReduceFirst(t) == thr[t].mb_sp_b = mb_sp_b_range(t)[1]

\* MUTANT of MySum: the elements are divided by the threads' own number.
MySumByIc(t) == Piece(Work(g_range(t)) * Work(oc_b_range(t)) * Work(ic_b_range(t)),
                      jcp.nthr_mb, ithr_ic_b(t))

MySum(t) == Piece(Work(g_range(t)) * Work(oc_b_range(t)) * Work(ic_b_range(t)),
                  jcp.nthr_mb, ithr_mb(t))

\* The elements that thread t sums up over the images.
SumWrites(t) ==
    LET O == Work(oc_b_range(t))
        I == Work(ic_b_range(t))
    IN  {<<g_range(t)[1] + ((w \div I) \div O),
           oc_b_range(t)[1] + ((w \div I) % O),
           ic_b_range(t)[1] + (w % I)>> : w \in MySum(t)}

-----------------------------------------------------------------------------

AllOut == \A t \in Tids : At(t, "out")
AllDone == \A t \in Tids : At(t, "done")

Elements == (0..(shape.ngroups - 1)) \X (0..(shape.nb_oc - 1)) \X (0..(shape.nb_ic - 1))

\* The barriers are initialised and the region starts.
Execute ==
    /\ AllOut
    /\ thr' = [t \in Tids |-> [pc |-> "loop", mb_sp_b |-> mb_sp_b_range(t)[1],
                               g |-> g_range(t)[1], ic_b |-> ic_b_range(t)[1]]]
    /\ phase' = [t \in Tids |-> 0]
    /\ tr_src' = [p \in (0..(jcp.nthr_mb - 1)) \X (0..(shape.ngroups * shape.nb_ic - 1))
                           \X (0..(shape.sp_nb - 1)) |-> Garbage]
    /\ wei' = [m \in 0..(jcp.nthr_mb - 1) |-> [e \in Elements |-> {Wrong}]]
    /\ UNCHANGED <<shape, jcp>>

\* MUTANT of BeginStep: the step begins while others still multiply.
BeginStepAtOnce(t) ==
    /\ At(t, "loop") /\ More(t)
    /\ Goto(t, IF shape.transpose_src THEN "transpose" ELSE "multiply")
    /\ UNCHANGED <<shape, jcp, phase, tr_src, wei>>

\* One more step; the source is not transposed while others still read it.
BeginStep(t) ==
    /\ At(t, "loop") /\ More(t)
    /\ IF shape.transpose_src /\ Shared
       THEN Arrives(t) /\ Goto(t, "wait_free")
       ELSE /\ Goto(t, IF shape.transpose_src THEN "transpose" ELSE "multiply")
            /\ UNCHANGED phase
    /\ UNCHANGED <<shape, jcp, tr_src, wei>>

\* uker_trans, then the arrival at the barrier.
Transpose(t) ==
    /\ At(t, "transpose")
    /\ tr_src' = [p \in DOMAIN tr_src |->
                    IF p \in TransWrites(t)
                    THEN <<img(t), thr[t].g,
                           thr[t].ic_b + (p[2] - TrPlace(t, 0, 0)[2]), p[3]>>
                    ELSE tr_src[p]]
    /\ IF Shared THEN Arrives(t) /\ Goto(t, "wait_ready")
       ELSE Goto(t, "multiply") /\ UNCHANGED phase
    /\ UNCHANGED <<shape, jcp, wei>>

PassBarrier(t) ==
    /\ At(t, "wait_free") \/ At(t, "wait_ready")
    /\ MayPass(t)
    /\ Goto(t, IF At(t, "wait_free") THEN "transpose" ELSE "multiply")
    /\ UNCHANGED <<shape, jcp, phase, tr_src, wei>>

\* The loop over the output blocks, which calls the kernel.
Multiply(t) ==
    LET m == ithr_mb(t)
        Sum(e) == Total(<<IF ReduceFirst(t) THEN {} ELSE wei[m][e], Terms(t, e[3])>>)
    IN  /\ At(t, "multiply")
        /\ wei' = [wei EXCEPT ![m] =
                     [e \in Elements |-> IF e \in MultiplyWrites(t) THEN Sum(e) ELSE wei[m][e]]]
        /\ thr' = [thr EXCEPT ![t] = [NextStep(t) EXCEPT !.pc = "loop"]]
        /\ UNCHANGED <<shape, jcp, phase, tr_src>>

\* The loops are over: with several parts to sum up, the reduction barrier.
EndLoops(t) ==
    /\ At(t, "loop") /\ ~More(t)
    /\ Goto(t, IF jcp.nthr_mb > 1 THEN "wait_sums" ELSE "done")
    /\ UNCHANGED <<shape, jcp, phase, tr_src, wei>>

\* MUTANT of AllSummed: only the threads of the same images have to come.
AllSummedOfMb(t) ==
    \A u \in Tids : ithr_mb(u) = ithr_mb(t) => thr[u].pc \in {"wait_sums", "sum", "done"}

\* All threads have arrived at the reduction barrier.
AllSummed(t) == \A u \in Tids : thr[u].pc \in {"wait_sums", "sum", "done"}

PassReduction(t) ==
    /\ At(t, "wait_sums")
    /\ AllSummed(t)
    /\ Goto(t, "sum")
    /\ UNCHANGED <<shape, jcp, phase, tr_src, wei>>

\* diff_weights += wei_reduction, the thread's elements.
SumUp(t) ==
    LET Sum(e) == Total([m \in 0..(jcp.nthr_mb - 1) |-> wei[m][e]])
    IN  /\ At(t, "sum")
        /\ wei' = [wei EXCEPT ![0] =
                     [e \in Elements |-> IF e \in SumWrites(t) THEN Sum(e) ELSE wei[0][e]]]
        /\ Goto(t, "done")
        /\ UNCHANGED <<shape, jcp, phase, tr_src>>

\* Once more around the loop in which a barrier waits.
Spin(t) ==
    /\ \/ (At(t, "wait_free") \/ At(t, "wait_ready")) /\ ~MayPass(t)
       \/ At(t, "wait_sums") /\ ~AllSummed(t)
    /\ UNCHANGED vars

\* The region is over.
Return ==
    /\ AllDone
    /\ thr' = [t \in Tids |-> Out]
    /\ phase' = <<>> /\ tr_src' = <<>> /\ wei' = <<>>
    /\ UNCHANGED <<shape, jcp>>

Init ==
    /\ shape \in Shapes
    /\ jcp \in Divisions(shape)
    /\ thr = [t \in Tids |-> Out]
    /\ phase = <<>> /\ tr_src = <<>> /\ wei = <<>>

Step(t) ==
    \/ BeginStep(t) \/ Transpose(t) \/ PassBarrier(t) \/ Multiply(t)
    \/ EndLoops(t) \/ PassReduction(t) \/ SumUp(t) \/ Spin(t)

Next == Execute \/ (\E t \in Tids : Step(t)) \/ Return

Spec == Init /\ [][Next]_vars

\* OpenMP runs all threads of a region; the region then ends.
FairSpec ==
    /\ Spec
    /\ WF_vars(Return)
    /\ \A t \in UNION {0..(s.nthreads - 1) : s \in Shapes} : WF_vars(t \in Tids /\ Step(t))

-----------------------------------------------------------------------------
(* Correctness *)

\* The assertion at the end of balance(): the region asks for no more threads
\* than there are, whatever division was the cheapest.
FitsTheTeam == nthr <= shape.nthreads

\* What the next step of a thread writes and reads, as <<array, place>>.
Writes(t) ==
    CASE At(t, "transpose") -> {"tr_src"} \X TransWrites(t)
      [] At(t, "multiply")  -> {<<"wei", <<ithr_mb(t), e>>>> : e \in MultiplyWrites(t)}
      [] At(t, "sum")       -> {<<"wei", <<0, e>>>> : e \in SumWrites(t)}
      [] OTHER -> {}

Reads(t) ==
    CASE At(t, "multiply") -> {"tr_src"} \X MultiplyReads(t)
      [] At(t, "sum") -> {<<"wei", <<m, e>>>> : m \in 1..(jcp.nthr_mb - 1), e \in SumWrites(t)}
      [] OTHER -> {}

\* No thread writes what another one writes or reads at the same time, in the
\* transposed source or in the weights.
NoDataRace ==
    \A t, u \in Tids : t # u => Writes(t) \cap (Writes(u) \cup Reads(u)) = {}

\* When the region is over every weight is the sum of the terms of all images
\* and all places, each added once.
ResultIsComplete ==
    AllDone => \A e \in Elements :
        wei[0][e] = (0..(shape.mb - 1)) \X (0..(shape.sp_nb - 1))

\* Every execution ends: at every barrier as many threads arrive as it waits
\* for, and as often as one another.
Terminates == (\E t \in Tids : At(t, "loop")) ~> AllOut
=============================================================================
