-------------------------- MODULE ZenLibMemoryPool --------------------------
(***************************************************************************)
(* ZenLibMemoryPool (common/zendnn_utils.hpp): the pool of scratch buffers *)
(* that the convolutions of common/zendnn_convolution_gemm.cpp take their  *)
(* patch matrix from, with the convolutions that use it.                   *)
(*                                                                         *)
(* Every operation of the pool is an `omp critical' section and so one     *)
(* action.  Between them other threads run theirs.  Sizes are the byte     *)
(* counts the convolutions pass.                                           *)
(***************************************************************************)
EXTENDS Integers, FiniteSets

CONSTANTS
    Threads,             \* application threads that run convolutions
    Sizes,               \* sizes in bytes the convolutions ask for
    Blocks,              \* identities of heap blocks
    zenLibBufPoolLimit,  \* most buffers in the pool
    MaxFaults,           \* bound on the allocations that fail
    MayFree,             \* the framework frees the pool between graphs
    NULL

FLOAT == 4   \* sizeof(float)

ASSUME SizesAssumption == Sizes \subseteq Nat \ {0}
ASSUME LimitAssumption == zenLibBufPoolLimit \in Nat \ {0}
ASSUME FaultsAssumption == MaxFaults \in Nat
ASSUME FlagAssumption == MayFree \in BOOLEAN
ASSUME NullAssumption == NULL \notin Blocks

VARIABLES
    pool,               \* zenLibMemPoolArr[0]: "none", "live" or "deleted"
    zenLibBufPoolArr,   \* the slots of the pool
    zenLibBufPoolSize,  \* how many slots have been allocated
    max_size,           \* the largest size asked for so far
    max_size_enable,    \* every new buffer is as large as max_size (environment)
    heap,               \* block -> its bytes, 0 when it is not allocated
    conv,               \* per thread, the convolution it runs
    faults              \* allocations that have failed (bound, not code)

poolVars == <<pool, max_size_enable, zenLibBufPoolArr, zenLibBufPoolSize, max_size>>
vars == <<poolVars, heap, conv, faults>>

Slots == 1..zenLibBufPoolLimit

Slot == [zenLibBufPtr : Blocks \cup {NULL},
         zenLibBufPtrStatus : Int, zenLibBufSize : Nat]

Conv == [pc : {"idle", "get", "acquire", "fallback", "compute", "failed"},
         size : Nat, data_col : Blocks \cup {NULL}, pooled : BOOLEAN]

Idle == [pc |-> "idle", size |-> 0, data_col |-> NULL, pooled |-> FALSE]

InPool == 1..zenLibBufPoolSize

Free(i) == i \in InPool /\ zenLibBufPoolArr[i].zenLibBufPtrStatus = 0

TooSmall(i, n) == zenLibBufPoolArr[i].zenLibBufSize < n

-----------------------------------------------------------------------------
(* The heap *)

FreeBlocks == {b \in Blocks : heap[b] = 0}

NewBlock == CHOOSE b \in FreeBlocks : TRUE

\* malloc and aligned_alloc
Allocated(n) == [heap EXCEPT ![NewBlock] = n]

\* A realloc that succeeds: the old block is gone, a new one has n bytes.
Reallocated(p, n) ==
    [b \in Blocks |-> IF b = NewBlock THEN n ELSE IF b = p THEN 0 ELSE heap[b]]

Freed(p) == [b \in Blocks |-> IF b = p THEN 0 ELSE heap[b]]

MayFail(n) == faults + n <= MaxFaults

-----------------------------------------------------------------------------
(* acquireZenLibPoolBuf *)

\* A free slot whose realloc failed: its pointer is lost, its size stays.
LostSlots(S) ==
    [i \in Slots |-> IF i \in S THEN [zenLibBufPoolArr[i] EXCEPT !.zenLibBufPtr = NULL]
                     ELSE zenLibBufPoolArr[i]]

\* MUTANT of Taken: the slot is not marked as used.
TakenUnmarked(arr, i, p, n) ==
    [arr EXCEPT ![i] = [@ EXCEPT !.zenLibBufPtr = p, !.zenLibBufSize = n]]

\* Slot i is handed out with the pointer p, n bytes on record.
Taken(arr, i, p, n) ==
    [arr EXCEPT ![i] = [zenLibBufPtr |-> p, zenLibBufPtrStatus |-> 1, zenLibBufSize |-> n]]

\* The loop over the slots skipped every free one before `last': each was too
\* small and its realloc failed.
Skipped(n, last) == {j \in InPool : j < last /\ Free(j)}

SkippedAll(n, last) ==
    /\ \A j \in Skipped(n, last) : TooSmall(j, n)
    /\ MayFail(Cardinality(Skipped(n, last)))

\* A convolution inside acquireZenLibPoolBuf.  What a deleted pool would do is
\* undefined, and no behaviour goes on from there.
Acquiring(t) == conv[t].pc = "acquire" /\ pool = "live"

Got(t, p) ==
    conv' = [conv EXCEPT ![t] = [@ EXCEPT !.pc = IF p = NULL THEN "failed" ELSE "compute",
                                          !.data_col = p, !.pooled = TRUE]]

\* MUTANT of AcquireFree: a free slot is handed out whatever its size.
AcquireFreeOfAnySize(t, i) ==
    /\ Acquiring(t)
    /\ Free(i)
    /\ zenLibBufPoolArr' = [zenLibBufPoolArr EXCEPT ![i].zenLibBufPtrStatus = 1]
    /\ Got(t, zenLibBufPoolArr[i].zenLibBufPtr)
    /\ UNCHANGED <<pool, max_size_enable, zenLibBufPoolSize, max_size, heap, faults>>

\* A free slot that is on record as large enough is handed out.
AcquireFree(t, i) ==
    LET n == conv[t].size
        p == zenLibBufPoolArr[i].zenLibBufPtr
    IN  /\ Acquiring(t)
        /\ Free(i) /\ ~TooSmall(i, n)
        /\ SkippedAll(n, i)
        /\ zenLibBufPoolArr' =
             Taken(LostSlots(Skipped(n, i)), i, p, zenLibBufPoolArr[i].zenLibBufSize)
        /\ faults' = faults + Cardinality(Skipped(n, i))
        /\ Got(t, p)
        /\ UNCHANGED <<pool, max_size_enable, zenLibBufPoolSize, max_size, heap>>

\* A free slot that is too small is enlarged and handed out.
AcquireEnlarged(t, i) ==
    LET n == conv[t].size
    IN  /\ Acquiring(t)
        /\ Free(i) /\ TooSmall(i, n)
        /\ SkippedAll(n, i)
        /\ FreeBlocks # {}
        /\ heap' = Reallocated(zenLibBufPoolArr[i].zenLibBufPtr, n)
        /\ zenLibBufPoolArr' = Taken(LostSlots(Skipped(n, i)), i, NewBlock, n)
        /\ faults' = faults + Cardinality(Skipped(n, i))
        /\ Got(t, NewBlock)
        /\ UNCHANGED <<pool, max_size_enable, zenLibBufPoolSize, max_size>>

NextMaxSize(n) == IF n > max_size THEN n ELSE max_size

\* No slot could be handed out and the pool is not full: a new buffer.
AcquireNew(t) ==
    LET n    == conv[t].size
        size == IF max_size_enable THEN NextMaxSize(n) ELSE n
        last == zenLibBufPoolSize + 1
    IN  /\ Acquiring(t)
        /\ SkippedAll(n, last)
        /\ zenLibBufPoolSize < zenLibBufPoolLimit
        /\ FreeBlocks # {}
        /\ heap' = Allocated(FLOAT * size)
        /\ zenLibBufPoolArr' = Taken(LostSlots(Skipped(n, last)), last, NewBlock, size)
        /\ zenLibBufPoolSize' = last
        /\ max_size' = NextMaxSize(n)
        /\ faults' = faults + Cardinality(Skipped(n, last))
        /\ Got(t, NewBlock)
        /\ UNCHANGED <<pool, max_size_enable>>

\* No slot could be handed out, and the pool is full or the new buffer could
\* not be allocated: status 1, the convolution falls back.
AcquireFails(t) ==
    LET n    == conv[t].size
        last == zenLibBufPoolSize + 1
        full == zenLibBufPoolSize = zenLibBufPoolLimit
        lost == Cardinality(Skipped(n, last)) + (IF full THEN 0 ELSE 1)
    IN  /\ Acquiring(t)
        /\ SkippedAll(n, last)
        /\ MayFail(lost)
        /\ faults' = faults + lost
        /\ zenLibBufPoolArr' = LostSlots(Skipped(n, last))
        /\ max_size' = IF full THEN max_size ELSE NextMaxSize(n)
        /\ conv' = [conv EXCEPT ![t].pc = "fallback"]
        /\ UNCHANGED <<pool, max_size_enable, zenLibBufPoolSize, heap>>

-----------------------------------------------------------------------------
(* The convolutions *)

Start(t, n) ==
    /\ conv[t].pc = "idle"
    /\ conv' = [conv EXCEPT ![t] = [Idle EXCEPT !.pc = "get", !.size = n]]
    /\ UNCHANGED <<poolVars, heap, faults>>

EmptySlot == [zenLibBufPtr |-> NULL, zenLibBufPtrStatus |-> -1, zenLibBufSize |-> 0]

\* getZenLibMemPool(0): the first call creates the pool.
GetPool(t) ==
    /\ conv[t].pc = "get"
    /\ pool' = IF pool = "none" THEN "live" ELSE pool
    /\ IF pool = "none"
       THEN /\ zenLibBufPoolArr' = [i \in Slots |-> EmptySlot]
            /\ zenLibBufPoolSize' = 0
            /\ max_size' = 1
            /\ max_size_enable' \in BOOLEAN
       ELSE UNCHANGED <<max_size_enable, zenLibBufPoolArr, zenLibBufPoolSize, max_size>>
    /\ conv' = [conv EXCEPT ![t].pc = "acquire"]
    /\ UNCHANGED <<heap, faults>>

\* The default way of allocation.
Fallback(t) ==
    /\ conv[t].pc = "fallback"
    /\ \/ /\ FreeBlocks # {}
          /\ heap' = Allocated(conv[t].size)
          /\ conv' = [conv EXCEPT ![t] = [@ EXCEPT !.pc = "compute", !.data_col = NewBlock]]
          /\ UNCHANGED faults
       \/ /\ MayFail(1)
          /\ faults' = faults + 1
          /\ conv' = [conv EXCEPT ![t].pc = "failed"]
          /\ UNCHANGED heap
    /\ UNCHANGED poolVars

\* MUTANT of SlotOf: the last slot of the pool is overlooked.
SlotOfOffByOne(p) ==
    {i \in InPool : /\ zenLibBufPoolArr[i].zenLibBufPtr = p
                    /\ i < zenLibBufPoolSize
                    /\ \A j \in 1..(i - 1) : zenLibBufPoolArr[j].zenLibBufPtr # p}

\* zenLibMemPoolFree: the first slot that holds the pointer.
SlotOf(p) ==
    {i \in InPool : /\ zenLibBufPoolArr[i].zenLibBufPtr = p
                    /\ \A j \in 1..(i - 1) : zenLibBufPoolArr[j].zenLibBufPtr # p}

\* The convolution is done with a buffer of the pool.
ReleasePooled(t) ==
    LET p == conv[t].data_col
    IN  /\ conv[t].pc = "compute" /\ conv[t].pooled
        /\ zenLibBufPoolArr' =
             [i \in Slots |-> IF i \in SlotOf(p)
                              THEN [zenLibBufPoolArr[i] EXCEPT !.zenLibBufPtrStatus = @ - 1]
                              ELSE zenLibBufPoolArr[i]]
        /\ conv' = [conv EXCEPT ![t] = Idle]
        /\ UNCHANGED <<pool, max_size_enable, zenLibBufPoolSize, max_size, heap, faults>>

\* MUTANT of ReleaseOwn: the buffer is not freed.
ReleaseOwnNot(t) ==
    /\ conv[t].pc = "compute" /\ ~conv[t].pooled
    /\ conv' = [conv EXCEPT ![t] = Idle]
    /\ UNCHANGED <<poolVars, heap, faults>>

\* The convolution is done with a buffer of its own.
ReleaseOwn(t) ==
    /\ conv[t].pc = "compute" /\ ~conv[t].pooled
    /\ heap' = Freed(conv[t].data_col)
    /\ conv' = [conv EXCEPT ![t] = Idle]
    /\ UNCHANGED <<poolVars, faults>>

\* data_col == NULL: the convolution reports the error and returns.
ReturnFailed(t) ==
    /\ conv[t].pc = "failed"
    /\ conv' = [conv EXCEPT ![t] = Idle]
    /\ UNCHANGED <<poolVars, heap, faults>>

-----------------------------------------------------------------------------
(* The framework, between two executions of a graph *)

AllIdle == \A t \in Threads : conv[t].pc = "idle"

\* resetLibPoolStatus
Reset ==
    /\ AllIdle /\ pool = "live"
    /\ zenLibBufPoolArr' =
         [i \in Slots |-> IF i \in InPool
                          THEN [zenLibBufPoolArr[i] EXCEPT !.zenLibBufPtrStatus = 0]
                          ELSE zenLibBufPoolArr[i]]
    /\ UNCHANGED <<pool, max_size_enable, zenLibBufPoolSize, max_size, heap, conv, faults>>

\* freeZenLibMemPool(0): the object and its buffers go, the pointer stays.
FreePool ==
    /\ MayFree
    /\ AllIdle /\ pool = "live"
    /\ heap' = [b \in Blocks |->
                  IF \E i \in InPool : zenLibBufPoolArr[i].zenLibBufPtr = b THEN 0 ELSE heap[b]]
    /\ pool' = "deleted"
    /\ UNCHANGED <<max_size_enable, zenLibBufPoolArr, zenLibBufPoolSize, max_size, conv, faults>>

-----------------------------------------------------------------------------

Init ==
    /\ pool = "none"
    /\ zenLibBufPoolArr = [i \in Slots |-> EmptySlot]
    /\ zenLibBufPoolSize = 0
    /\ max_size = 1
    /\ max_size_enable = FALSE
    /\ heap = [b \in Blocks |-> 0]
    /\ conv = [t \in Threads |-> Idle]
    /\ faults = 0

Next ==
    \/ \E t \in Threads :
        \/ \E n \in Sizes : Start(t, n)
        \/ GetPool(t)
        \/ \E i \in Slots : AcquireFree(t, i) \/ AcquireEnlarged(t, i)
        \/ AcquireNew(t) \/ AcquireFails(t)
        \/ Fallback(t)
        \/ ReleasePooled(t) \/ ReleaseOwn(t) \/ ReturnFailed(t)
    \/ Reset
    \/ FreePool

Spec == Init /\ [][Next]_vars

-----------------------------------------------------------------------------
(* Correctness *)

Computing(t) == conv[t].pc = "compute"

\* Two convolutions that run at the same time never write the same buffer,
\* whether it comes from the pool or from the heap.
NoSharedBuffer ==
    \A t, u \in Threads : Computing(t) /\ Computing(u) /\ t # u =>
        conv[t].data_col # conv[u].data_col

\* The buffer a convolution writes is allocated and at least as large as what
\* it asked for, whatever was reallocated or freed since it got it.
BufferIsLargeEnough ==
    \A t \in Threads : Computing(t) =>
        conv[t].data_col \in Blocks /\ heap[conv[t].data_col] >= conv[t].size

\* As long as no allocation fails, a slot is marked used exactly while one
\* convolution uses its buffer, so every buffer comes back to the pool.
User(t, i) ==
    Computing(t) /\ conv[t].pooled /\ conv[t].data_col = zenLibBufPoolArr[i].zenLibBufPtr

UsedSlotHasUser ==
    faults = 0 => \A i \in InPool :
        zenLibBufPoolArr[i].zenLibBufPtrStatus =
            IF \E t \in Threads : User(t, i) THEN 1 ELSE 0

\* As long as no allocation fails, no block is lost: every allocated block is
\* a buffer of the pool or of a running convolution.
NothingLeaks ==
    faults = 0 => \A b \in Blocks : heap[b] > 0 =>
        \/ \E i \in InPool : zenLibBufPoolArr[i].zenLibBufPtr = b
        \/ \E t \in Threads : Computing(t) /\ conv[t].data_col = b
=============================================================================
