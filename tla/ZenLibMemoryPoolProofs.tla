----------------------- MODULE ZenLibMemoryPoolProofs -----------------------
(***************************************************************************)
(* Proofs about ZenLibMemoryPool, for any threads, sizes, blocks and       *)
(* failing allocations.                                                    *)
(*                                                                         *)
(* A buffer has one user because the slots of the pool hold different      *)
(* blocks and a slot in use is marked, and no block of the pool is one     *)
(* that a convolution has allocated for itself.                            *)
(***************************************************************************)
EXTENDS ZenLibMemoryPool, FiniteSetTheorems, TLAPS

Ptr(i) == zenLibBufPoolArr[i].zenLibBufPtr

TypeOK ==
    /\ pool \in {"none", "live", "deleted"}
    /\ zenLibBufPoolArr \in [Slots -> Slot]
    /\ zenLibBufPoolSize \in 0..zenLibBufPoolLimit
    /\ max_size \in Nat
    /\ heap \in [Blocks -> Nat]
    /\ conv \in [Threads -> Conv]
    /\ faults \in Nat

\* Without a pool nobody has a buffer, and before there is one it has no slots.
BeforeAndAfter ==
    /\ pool # "live" => \A t \in Threads : conv[t].pc \in {"idle", "get", "acquire"}
    /\ pool = "none" => zenLibBufPoolSize = 0

\* What a convolution has when it has no buffer yet.
Asking ==
    \A t \in Threads :
        /\ conv[t].pc # "idle" => conv[t].size \in Sizes
        /\ conv[t].pc \in {"get", "acquire", "fallback"} => ~conv[t].pooled

\* The slots hold different blocks, as large as the pool believes.
SlotsAreApart ==
    \A i, j \in InPool : i # j /\ Ptr(i) # NULL => Ptr(i) # Ptr(j)

SlotsAreAllocated ==
    pool = "live" =>
        \A i \in InPool : Ptr(i) # NULL =>
            heap[Ptr(i)] > 0 /\ heap[Ptr(i)] >= zenLibBufPoolArr[i].zenLibBufSize

\* A convolution with a buffer of the pool has a slot that is marked.
HasSlot(t, i) ==
    /\ Ptr(i) = conv[t].data_col
    /\ zenLibBufPoolArr[i].zenLibBufPtrStatus = 1
    /\ zenLibBufPoolArr[i].zenLibBufSize >= conv[t].size

PooledHaveSlots ==
    \A t \in Threads : Computing(t) /\ conv[t].pooled =>
        conv[t].data_col # NULL /\ \E i \in InPool : HasSlot(t, i)

\* One with a buffer of its own shares it with no slot.
OwnAreApart ==
    \A t \in Threads : Computing(t) /\ ~conv[t].pooled =>
        /\ conv[t].data_col # NULL
        /\ heap[conv[t].data_col] > 0 /\ heap[conv[t].data_col] >= conv[t].size
        /\ \A i \in InPool : Ptr(i) # conv[t].data_col

\* While nothing has failed every slot has a block.
NoSlotIsLost == faults = 0 => \A i \in InPool : Ptr(i) # NULL

Memory ==
    /\ SlotsAreApart /\ SlotsAreAllocated /\ PooledHaveSlots /\ OwnAreApart
    /\ NoSharedBuffer

Accounts == NoSlotIsLost /\ UsedSlotHasUser /\ NothingLeaks

IInv == TypeOK /\ BeforeAndAfter /\ Asking /\ Memory /\ Accounts

-----------------------------------------------------------------------------
(* Facts about the operators *)

LEMMA NewBlockIsFree ==
    ASSUME FreeBlocks # {}
    PROVE  NewBlock \in Blocks /\ heap[NewBlock] = 0 /\ NewBlock # NULL
BY NullAssumption DEF FreeBlocks, NewBlock

LEMMA SkippedCount ==
    ASSUME TypeOK, NEW n, NEW last
    PROVE  /\ Cardinality(Skipped(n, last)) \in Nat
           /\ Cardinality(Skipped(n, last)) = 0 => Skipped(n, last) = {}
<1>1. IsFiniteSet(1..zenLibBufPoolSize)
  BY FS_Interval, LimitAssumption DEF TypeOK
<1>2. Skipped(n, last) \subseteq 1..zenLibBufPoolSize
  BY DEF Skipped, InPool
<1>3. IsFiniteSet(Skipped(n, last))
  BY <1>1, <1>2, FS_Subset
<1> QED
  BY <1>3, FS_CardinalityType, FS_EmptySet

\* A slot that a call does not hand out is as it was, or has lost its block to
\* an allocation that failed.
Kept(j) ==
    /\ zenLibBufPoolArr'[j].zenLibBufPtrStatus = zenLibBufPoolArr[j].zenLibBufPtrStatus
    /\ zenLibBufPoolArr'[j].zenLibBufSize = zenLibBufPoolArr[j].zenLibBufSize
    /\ \/ Ptr(j)' = Ptr(j)
       \/ Ptr(j)' = NULL /\ Free(j) /\ faults' # 0

LEMMA LostKeeps ==
    ASSUME TypeOK, NEW n, NEW last, NEW more \in Nat,
           zenLibBufPoolArr' = LostSlots(Skipped(n, last)),
           faults' = faults + (Cardinality(Skipped(n, last)) + more)
    PROVE  /\ zenLibBufPoolArr' \in [Slots -> Slot]
           /\ \A j \in InPool : Kept(j)
<1>1. InPool \subseteq Slots
  BY LimitAssumption DEF InPool, Slots, TypeOK
<1>2. \A j \in Slots : zenLibBufPoolArr[j] \in Slot
  BY DEF TypeOK
<1>3. zenLibBufPoolArr' \in [Slots -> Slot]
  BY <1>2 DEF LostSlots, Slot
<1>4. Skipped(n, last) # {} => faults' # 0
  BY SkippedCount DEF TypeOK
<1>5. ASSUME NEW j \in InPool
      PROVE  Kept(j)
  <2>1. CASE j \in Skipped(n, last)
    <3>1. zenLibBufPoolArr'[j] = [zenLibBufPoolArr[j] EXCEPT !.zenLibBufPtr = NULL]
      BY <1>1, <2>1 DEF LostSlots
    <3>2. Free(j)
      BY <2>1 DEF Skipped
    <3> QED
      BY <1>1, <1>2, <1>4, <2>1, <3>1, <3>2 DEF Kept, Ptr, Slot
  <2>2. CASE j \notin Skipped(n, last)
    <3>1. zenLibBufPoolArr'[j] = zenLibBufPoolArr[j]
      BY <1>1, <2>2 DEF LostSlots
    <3> QED
      BY <3>1 DEF Kept, Ptr
  <2> QED
    BY <2>1, <2>2
<1> QED
  BY <1>3, <1>5

LEMMA TakenKeeps ==
    ASSUME TypeOK, NEW n, NEW last, NEW i \in Slots, NEW p \in Blocks \cup {NULL}, NEW size \in Nat,
           zenLibBufPoolArr' = Taken(LostSlots(Skipped(n, last)), i, p, size),
           faults' = faults + Cardinality(Skipped(n, last))
    PROVE  /\ zenLibBufPoolArr' \in [Slots -> Slot]
           /\ Ptr(i)' = p
           /\ zenLibBufPoolArr'[i].zenLibBufPtrStatus = 1
           /\ zenLibBufPoolArr'[i].zenLibBufSize = size
           /\ \A j \in InPool \ {i} : Kept(j)
           /\ faults' \in Nat
           /\ faults' = 0 => faults = 0
<1>1. InPool \subseteq Slots
  BY LimitAssumption DEF InPool, Slots, TypeOK
<1>2. \A j \in Slots : zenLibBufPoolArr[j] \in Slot
  BY DEF TypeOK
<1> DEFINE lost == LostSlots(Skipped(n, last))
           new == [zenLibBufPtr |-> p, zenLibBufPtrStatus |-> 1, zenLibBufSize |-> size]
<1>3. lost \in [Slots -> Slot]
  BY <1>2 DEF LostSlots, Slot
<1>4. new \in Slot
  BY DEF Slot
<1>5. zenLibBufPoolArr' = [lost EXCEPT ![i] = new]
  BY DEF Taken
<1>6. /\ new.zenLibBufPtr = p /\ new.zenLibBufPtrStatus = 1 /\ new.zenLibBufSize = size
  OBVIOUS
<1>7. Skipped(n, last) # {} => faults' # 0
  BY SkippedCount DEF TypeOK
<1>8. ASSUME NEW j \in InPool \ {i}
      PROVE  Kept(j)
  <2>1. zenLibBufPoolArr'[j] = lost[j]
    BY <1>1, <1>3, <1>5
  <2>2. CASE j \in Skipped(n, last)
    <3>1. lost[j] = [zenLibBufPoolArr[j] EXCEPT !.zenLibBufPtr = NULL]
      BY <1>1, <2>2 DEF LostSlots
    <3>2. Free(j)
      BY <2>2 DEF Skipped
    <3> HIDE DEF lost
    <3> QED
      BY <1>1, <1>2, <1>7, <2>1, <2>2, <3>1, <3>2 DEF Kept, Ptr, Slot
  <2>3. CASE j \notin Skipped(n, last)
    <3>1. lost[j] = zenLibBufPoolArr[j]
      BY <1>1, <2>3 DEF LostSlots
    <3> HIDE DEF lost
    <3> QED
      BY <2>1, <3>1 DEF Kept, Ptr
  <2> QED
    BY <2>2, <2>3
<1> HIDE DEF lost, new
<1>9. zenLibBufPoolArr' \in [Slots -> Slot] /\ zenLibBufPoolArr'[i] = new
  BY <1>3, <1>4, <1>5
<1> QED
  BY <1>6, <1>8, <1>9, SkippedCount DEF Ptr, TypeOK

-----------------------------------------------------------------------------
(* What the steps have in common *)

\* Nobody starts or stops computing, and no slot changes hands.
NothingHandedOut ==
    /\ \A u \in Threads : Computing(u)' <=> Computing(u)
    /\ \A u \in Threads : Computing(u) => conv'[u] = conv[u]
    /\ zenLibBufPoolSize' = zenLibBufPoolSize
    /\ \A j \in InPool : Kept(j)
    /\ faults' = 0 => faults = 0
    /\ heap' = heap
    /\ pool' = pool \/ InPool = {}

LEMMA NothingHandedOutKeeps ==
    ASSUME Memory, Accounts, NothingHandedOut
    PROVE  Memory' /\ Accounts'
<1>1. InPool' = InPool
  BY DEF NothingHandedOut, InPool
<1>2. \A j \in InPool : Ptr(j)' # NULL => Ptr(j)' = Ptr(j)
  BY DEF NothingHandedOut, Kept
<1>3. SlotsAreApart'
  BY <1>1, <1>2 DEF SlotsAreApart, Memory
<1>4. SlotsAreAllocated'
  <2> SUFFICES ASSUME pool' = "live", NEW j \in InPool, Ptr(j)' # NULL
               PROVE  /\ heap'[Ptr(j)'] > 0
                      /\ heap'[Ptr(j)'] >= zenLibBufPoolArr'[j].zenLibBufSize
    BY <1>1 DEF SlotsAreAllocated
  <2>1. pool = "live"
    BY DEF NothingHandedOut
  <2> QED
    BY <1>2, <2>1 DEF NothingHandedOut, Kept, Memory, SlotsAreAllocated
<1>5. PooledHaveSlots'
  <2> SUFFICES ASSUME NEW u \in Threads, Computing(u)', conv'[u].pooled
               PROVE  conv'[u].data_col # NULL /\ \E j \in InPool : HasSlot(u, j)'
    BY <1>1 DEF PooledHaveSlots
  <2>1. Computing(u) /\ conv'[u] = conv[u]
    BY DEF NothingHandedOut
  <2>2. PICK j \in InPool : HasSlot(u, j)
    BY <2>1 DEF Memory, PooledHaveSlots
  <2>3. HasSlot(u, j)'
    BY <2>1, <2>2 DEF NothingHandedOut, Kept, HasSlot, Free
  <2> QED
    BY <2>1, <2>3 DEF Memory, PooledHaveSlots
<1>6. OwnAreApart'
  <2> SUFFICES ASSUME NEW u \in Threads, Computing(u)', ~conv'[u].pooled
               PROVE  /\ conv'[u].data_col # NULL
                      /\ heap'[conv'[u].data_col] > 0
                      /\ heap'[conv'[u].data_col] >= conv'[u].size
                      /\ \A j \in InPool : Ptr(j)' # conv'[u].data_col
    BY <1>1 DEF OwnAreApart
  <2>1. Computing(u) /\ conv'[u] = conv[u] /\ heap' = heap
    BY DEF NothingHandedOut
  <2> QED
    BY <1>2, <2>1 DEF Memory, OwnAreApart
<1>7. NoSharedBuffer'
  BY DEF NothingHandedOut, NoSharedBuffer, Memory
<1>8. ASSUME faults' = 0
      PROVE  faults = 0 /\ \A j \in InPool : Ptr(j)' = Ptr(j)
  BY <1>8 DEF NothingHandedOut, Kept
<1>9. NoSlotIsLost'
  BY <1>1, <1>8 DEF NoSlotIsLost, Accounts
<1>10. UsedSlotHasUser'
  <2> SUFFICES ASSUME faults' = 0, NEW j \in InPool
               PROVE  zenLibBufPoolArr'[j].zenLibBufPtrStatus =
                        IF \E u \in Threads : User(u, j)' THEN 1 ELSE 0
    BY <1>1 DEF UsedSlotHasUser
  <2>1. \A u \in Threads : User(u, j)' <=> User(u, j)
    BY <1>8 DEF User, NothingHandedOut, Ptr
  <2>2. zenLibBufPoolArr'[j].zenLibBufPtrStatus = zenLibBufPoolArr[j].zenLibBufPtrStatus
    BY DEF NothingHandedOut, Kept
  <2> QED
    BY <1>8, <2>1, <2>2 DEF Accounts, UsedSlotHasUser
<1>11. NothingLeaks'
  <2> SUFFICES ASSUME faults' = 0, NEW b \in Blocks, heap'[b] > 0
               PROVE  \/ \E j \in InPool : Ptr(j)' = b
                      \/ \E u \in Threads : Computing(u)' /\ conv'[u].data_col = b
    BY <1>1 DEF NothingLeaks, Ptr
  <2>1. \/ \E j \in InPool : Ptr(j) = b
        \/ \E u \in Threads : Computing(u) /\ conv[u].data_col = b
    BY <1>8 DEF NothingHandedOut, Accounts, NothingLeaks, Ptr
  <2> QED
    BY <1>8, <2>1 DEF NothingHandedOut
<1> QED
  BY <1>3, <1>4, <1>5, <1>6, <1>7, <1>9, <1>10, <1>11 DEF Memory, Accounts

\* Slot i, free until now or new, is handed out with the block p: its own, or
\* one that was free, and then its own is gone.
HandedOut(t, i, p, size) ==
    /\ \/ Free(i) /\ zenLibBufPoolSize' = zenLibBufPoolSize
       \/ i = zenLibBufPoolSize + 1 /\ zenLibBufPoolSize' = i
    /\ Ptr(i)' = p
    /\ zenLibBufPoolArr'[i].zenLibBufPtrStatus = 1
    /\ zenLibBufPoolArr'[i].zenLibBufSize = size
    /\ size >= conv[t].size
    /\ \A j \in InPool \ {i} : Kept(j)
    /\ faults' = 0 => faults = 0
    /\ p = NULL => faults # 0
    /\ p # NULL => heap'[p] > 0 /\ heap'[p] >= size
    /\ (Free(i) /\ p = Ptr(i)) \/ (p # NULL /\ heap[p] = 0)
    /\ \A b \in Blocks : b # p =>
          heap'[b] = IF Free(i) /\ b = Ptr(i) THEN 0 ELSE heap[b]
    /\ Got(t, p)
    /\ pool' = pool

LEMMA HandedOutKeeps ==
    ASSUME TypeOK, Memory, Accounts, NEW t \in Threads, NEW i \in Slots,
           NEW p \in Blocks \cup {NULL}, NEW size \in Nat,
           Acquiring(t), HandedOut(t, i, p, size)
    PROVE  Memory' /\ Accounts'
<1>1. pool = "live" /\ pool' = "live"
  BY DEF Acquiring, HandedOut
<1>2. InPool' = InPool \cup {i}
  BY LimitAssumption DEF HandedOut, InPool, Free, TypeOK
<1>3. i \in InPool => Free(i)
  BY LimitAssumption DEF HandedOut, InPool, Free, TypeOK
<1>4. \A j \in InPool : Ptr(j) \in Blocks \cup {NULL}
  BY LimitAssumption DEF InPool, Slots, Slot, TypeOK, Ptr
<1>5. \A j \in InPool \ {i} : Ptr(j)' # NULL => Ptr(j)' = Ptr(j)
  BY DEF HandedOut, Kept
\* No other slot holds p, and no other convolution.
<1>6. \A j \in InPool \ {i} : Ptr(j) # NULL => Ptr(j) # p
  BY <1>1, <1>3 DEF HandedOut, Memory, SlotsAreApart, SlotsAreAllocated, Free
<1>7. /\ ~Computing(t)
      /\ conv'[t].data_col = p /\ conv'[t].pooled /\ conv'[t].size = conv[t].size
      /\ Computing(t)' => p # NULL
      /\ p # NULL => Computing(t)'
      /\ \A u \in Threads \ {t} : conv'[u] = conv[u]
  BY DEF HandedOut, Got, Acquiring, Computing, TypeOK, Conv
<1>8. ASSUME NEW u \in Threads, Computing(u), conv[u].pooled
      PROVE  \E j \in InPool \ {i} : HasSlot(u, j)
  BY <1>3, <1>8 DEF Memory, PooledHaveSlots, HasSlot, Free
<1>9. \A u \in Threads : Computing(u) => conv[u].data_col # NULL /\ conv[u].data_col # p
  <2> SUFFICES ASSUME NEW u \in Threads, Computing(u)
               PROVE  conv[u].data_col # NULL /\ conv[u].data_col # p
    OBVIOUS
  <2>1. CASE conv[u].pooled
    BY <1>6, <1>8, <2>1 DEF Memory, PooledHaveSlots, HasSlot
  <2>2. CASE ~conv[u].pooled
    BY <2>2 DEF Memory, OwnAreApart, HandedOut, Free
  <2> QED
    BY <2>1, <2>2
<1>10. \A j \in InPool \ {i} : Ptr(j) # NULL => heap'[Ptr(j)] = heap[Ptr(j)]
  BY <1>3, <1>4, <1>6 DEF HandedOut, Memory, SlotsAreApart, Free
<1>11. SlotsAreApart'
  BY <1>2, <1>5, <1>6 DEF SlotsAreApart, Memory, HandedOut
<1>12. SlotsAreAllocated'
  <2> SUFFICES ASSUME NEW j \in InPool \cup {i}, Ptr(j)' # NULL
               PROVE  /\ heap'[Ptr(j)'] > 0
                      /\ heap'[Ptr(j)'] >= zenLibBufPoolArr'[j].zenLibBufSize
    BY <1>2 DEF SlotsAreAllocated
  <2>1. CASE j = i
    BY <2>1 DEF HandedOut
  <2>2. CASE j # i
    BY <1>1, <1>5, <1>10, <2>2 DEF HandedOut, Kept, Memory, SlotsAreAllocated
  <2> QED
    BY <2>1, <2>2
<1>13. PooledHaveSlots'
  <2> SUFFICES ASSUME NEW u \in Threads, Computing(u)', conv'[u].pooled
               PROVE  /\ conv'[u].data_col # NULL
                      /\ \E j \in InPool \cup {i} : HasSlot(u, j)'
    BY <1>2 DEF PooledHaveSlots
  <2>1. CASE u = t
    BY <1>7, <2>1 DEF HandedOut, HasSlot
  <2>2. CASE u # t
    <3>1. Computing(u) /\ conv'[u] = conv[u] /\ conv[u].pooled
      BY <1>7, <2>2 DEF Computing
    <3>2. PICK j \in InPool \ {i} : HasSlot(u, j)
      BY <1>8, <3>1
    <3>3. HasSlot(u, j)'
      BY <3>1, <3>2 DEF HandedOut, Kept, HasSlot, Free
    <3> QED
      BY <1>9, <3>1, <3>3
  <2> QED
    BY <2>1, <2>2
<1>14. OwnAreApart'
  <2> SUFFICES ASSUME NEW u \in Threads, Computing(u)', ~conv'[u].pooled
               PROVE  /\ conv'[u].data_col # NULL
                      /\ heap'[conv'[u].data_col] > 0
                      /\ heap'[conv'[u].data_col] >= conv'[u].size
                      /\ \A j \in InPool \cup {i} : Ptr(j)' # conv'[u].data_col
    BY <1>2 DEF OwnAreApart
  <2>1. Computing(u) /\ conv'[u] = conv[u] /\ ~conv[u].pooled
    BY <1>7 DEF Computing
  <2>2. conv[u].data_col \in Blocks
    BY <1>9, <2>1 DEF TypeOK, Conv
  <2>3. \A j \in InPool : Ptr(j) # conv[u].data_col
    BY <2>1 DEF Memory, OwnAreApart
  <2>4. heap'[conv[u].data_col] = heap[conv[u].data_col]
    BY <1>9, <2>1, <2>2, <2>3 DEF HandedOut, Free
  <2>5. \A j \in InPool \cup {i} : Ptr(j)' # conv[u].data_col
    BY <1>5, <1>9, <2>1, <2>3 DEF HandedOut
  <2> QED
    BY <1>9, <2>1, <2>4, <2>5 DEF Memory, OwnAreApart
<1>15. NoSharedBuffer'
  <2> SUFFICES ASSUME NEW u \in Threads, NEW v \in Threads, u # v,
                      Computing(u)', Computing(v)'
               PROVE  conv'[u].data_col # conv'[v].data_col
    BY DEF NoSharedBuffer
  <2>1. \A w \in Threads : w # t /\ Computing(w)' => Computing(w) /\ conv'[w] = conv[w]
    BY <1>7 DEF Computing
  <2> QED
    BY <1>7, <1>9, <2>1 DEF Memory, NoSharedBuffer
<1>16. ASSUME faults' = 0
       PROVE  faults = 0 /\ p # NULL /\ \A j \in InPool \ {i} : Ptr(j)' = Ptr(j)
  BY <1>16 DEF HandedOut, Kept
<1>17. NoSlotIsLost'
  BY <1>2, <1>16 DEF NoSlotIsLost, Accounts, HandedOut
<1>18. UsedSlotHasUser'
  <2> SUFFICES ASSUME faults' = 0, NEW j \in InPool \cup {i}
               PROVE  zenLibBufPoolArr'[j].zenLibBufPtrStatus =
                        IF \E u \in Threads : User(u, j)' THEN 1 ELSE 0
    BY <1>2 DEF UsedSlotHasUser
  <2>1. CASE j = i
    <3>1. User(t, i)'
      BY <1>7, <1>16 DEF User, HandedOut, Ptr
    <3> QED
      BY <2>1, <3>1 DEF HandedOut
  <2>2. CASE j # i
    <3>1. Ptr(j) # NULL
      BY <1>16, <2>2 DEF Accounts, NoSlotIsLost
    <3>2. ~User(t, j)' /\ ~User(t, j)
      BY <1>6, <1>7, <1>16, <2>2, <3>1 DEF User, Ptr
    <3>3. \A u \in Threads \ {t} : User(u, j)' <=> User(u, j)
      BY <1>7, <1>16, <2>2 DEF User, Ptr, Computing
    <3>4. zenLibBufPoolArr'[j].zenLibBufPtrStatus = zenLibBufPoolArr[j].zenLibBufPtrStatus
      BY <2>2 DEF HandedOut, Kept
    <3>5. (\E u \in Threads : User(u, j)') <=> \E u \in Threads : User(u, j)
      BY <3>2, <3>3
    <3> QED
      BY <1>16, <2>2, <3>4, <3>5 DEF Accounts, UsedSlotHasUser
  <2> QED
    BY <2>1, <2>2
<1>19. NothingLeaks'
  <2> SUFFICES ASSUME faults' = 0, NEW b \in Blocks, heap'[b] > 0, b # p
               PROVE  \/ \E j \in InPool \cup {i} : Ptr(j)' = b
                      \/ \E u \in Threads : Computing(u)' /\ conv'[u].data_col = b
    BY <1>2 DEF NothingLeaks, Ptr, HandedOut
  <2>1. heap[b] > 0 /\ (i \in InPool => b # Ptr(i))
    BY <1>3 DEF HandedOut
  <2>2. \/ \E j \in InPool : Ptr(j) = b
        \/ \E u \in Threads : Computing(u) /\ conv[u].data_col = b
    BY <1>16, <2>1 DEF Accounts, NothingLeaks, Ptr
  <2>3. CASE \E j \in InPool : Ptr(j) = b
    BY <1>16, <2>1, <2>3
  <2>4. CASE \E u \in Threads : Computing(u) /\ conv[u].data_col = b
    BY <1>7, <2>4 DEF Computing
  <2> QED
    BY <2>2, <2>3, <2>4
<1> QED
  BY <1>11, <1>12, <1>13, <1>14, <1>15, <1>17, <1>18, <1>19 DEF Memory, Accounts

-----------------------------------------------------------------------------
(* The steps *)

LEMMA InitInv == Init => IInv
<1> SUFFICES ASSUME Init PROVE IInv
  OBVIOUS
<1>1. TypeOK
  BY LimitAssumption, NullAssumption DEF Init, TypeOK, Slot, EmptySlot, Conv, Idle
<1>2. InPool = {}
  BY DEF Init, InPool
<1>3. \A t \in Threads : ~Computing(t) /\ conv[t].pc = "idle"
  BY DEF Init, Computing, Idle
<1>4. BeforeAndAfter /\ Asking
  BY <1>3 DEF Init, BeforeAndAfter, Asking
<1>5. Memory
  BY <1>2, <1>3 DEF Memory, SlotsAreApart, SlotsAreAllocated, PooledHaveSlots, OwnAreApart,
       NoSharedBuffer
<1>6. Accounts
  BY <1>2 DEF Init, Accounts, NoSlotIsLost, UsedSlotHasUser, NothingLeaks
<1> QED
  BY <1>1, <1>4, <1>5, <1>6 DEF IInv

\* What the convolution knows after it got p.
LEMMA GotKeeps ==
    ASSUME TypeOK, BeforeAndAfter, Asking, NEW t \in Threads, NEW p \in Blocks \cup {NULL},
           Acquiring(t), Got(t, p), pool' = pool
    PROVE  conv' \in [Threads -> Conv] /\ BeforeAndAfter' /\ Asking'
<1>1. conv' \in [Threads -> Conv]
  BY DEF Got, TypeOK, Conv
<1>2. BeforeAndAfter'
  BY DEF Acquiring, BeforeAndAfter
<1>3. Asking'
  BY DEF Acquiring, Got, Asking, TypeOK, Conv
<1> QED
  BY <1>1, <1>2, <1>3

\* Types that matter for a convolution that asks.
LEMMA AskingTypes ==
    ASSUME TypeOK, Asking, NEW t \in Threads, Acquiring(t)
    PROVE  conv[t].size \in Nat \ {0} /\ pool = "live"
BY SizesAssumption DEF Asking, Acquiring

LEMMA AcquireFreeKeeps ==
    ASSUME IInv, NEW t \in Threads, NEW i \in Slots, AcquireFree(t, i)
    PROVE  IInv'
<1> USE DEF IInv
<1> DEFINE n == conv[t].size
           p == Ptr(i)
           size == zenLibBufPoolArr[i].zenLibBufSize
<1>1. p \in Blocks \cup {NULL} /\ size \in Nat /\ n \in Nat
  BY AskingTypes DEF AcquireFree, TypeOK, Slot, Ptr
<1>2. /\ Acquiring(t) /\ Free(i) /\ size >= n
      /\ zenLibBufPoolArr' = Taken(LostSlots(Skipped(n, i)), i, p, size)
      /\ faults' = faults + Cardinality(Skipped(n, i))
      /\ Got(t, p)
      /\ UNCHANGED <<pool, zenLibBufPoolSize, max_size, heap>>
  BY <1>1 DEF AcquireFree, Ptr, TooSmall
<1> HIDE DEF n, p, size
<1>3. /\ zenLibBufPoolArr' \in [Slots -> Slot]
      /\ Ptr(i)' = p
      /\ zenLibBufPoolArr'[i].zenLibBufPtrStatus = 1
      /\ zenLibBufPoolArr'[i].zenLibBufSize = size
      /\ \A j \in InPool \ {i} : Kept(j)
      /\ faults' \in Nat
      /\ faults' = 0 => faults = 0
  BY <1>1, <1>2, TakenKeeps
<1>4. p = NULL => faults # 0
  BY <1>2 DEF Accounts, NoSlotIsLost, Free, p
<1>5. p # NULL => heap'[p] > 0 /\ heap'[p] >= size
  BY <1>2, AskingTypes DEF Memory, SlotsAreAllocated, Free, p, size
<1>6. HandedOut(t, i, p, size)
  <2>1. p = Ptr(i)
    BY DEF p
  <2> QED
    BY <1>2, <1>3, <1>4, <1>5, <2>1 DEF HandedOut, n
<1>7. Memory' /\ Accounts'
  BY <1>1, <1>2, <1>6, HandedOutKeeps
<1>8. conv' \in [Threads -> Conv] /\ BeforeAndAfter' /\ Asking'
  BY <1>1, <1>2, GotKeeps
<1>9. TypeOK'
  BY <1>2, <1>3, <1>8 DEF TypeOK
<1> QED
  BY <1>7, <1>8, <1>9

LEMMA AcquireEnlargedKeeps ==
    ASSUME IInv, NEW t \in Threads, NEW i \in Slots, AcquireEnlarged(t, i)
    PROVE  IInv'
<1> USE DEF IInv
<1> DEFINE n == conv[t].size
           p == NewBlock
<1>1. p \in Blocks /\ heap[p] = 0 /\ p # NULL /\ n \in Nat \ {0}
  BY NewBlockIsFree, AskingTypes DEF AcquireEnlarged
<1>2. /\ Acquiring(t) /\ Free(i)
      /\ heap' = Reallocated(Ptr(i), n)
      /\ zenLibBufPoolArr' = Taken(LostSlots(Skipped(n, i)), i, p, n)
      /\ faults' = faults + Cardinality(Skipped(n, i))
      /\ Got(t, p)
      /\ UNCHANGED <<pool, zenLibBufPoolSize, max_size>>
  BY DEF AcquireEnlarged, Ptr
<1>3. \A b \in Blocks : heap'[b] = IF b = p THEN n ELSE IF b = Ptr(i) THEN 0 ELSE heap[b]
  BY <1>2 DEF Reallocated
<1>4. heap' \in [Blocks -> Nat]
  BY <1>1, <1>2 DEF Reallocated, TypeOK
<1> HIDE DEF p
<1>5. /\ zenLibBufPoolArr' \in [Slots -> Slot]
      /\ Ptr(i)' = p
      /\ zenLibBufPoolArr'[i].zenLibBufPtrStatus = 1
      /\ zenLibBufPoolArr'[i].zenLibBufSize = n
      /\ \A j \in InPool \ {i} : Kept(j)
      /\ faults' \in Nat
      /\ faults' = 0 => faults = 0
  BY <1>1, <1>2, TakenKeeps
<1>6. HandedOut(t, i, p, n)
  BY <1>1, <1>2, <1>3, <1>5 DEF HandedOut
<1>7. Memory' /\ Accounts'
  BY <1>1, <1>2, <1>6, HandedOutKeeps
<1>8. conv' \in [Threads -> Conv] /\ BeforeAndAfter' /\ Asking'
  BY <1>1, <1>2, GotKeeps
<1>9. TypeOK'
  BY <1>2, <1>4, <1>5, <1>8 DEF TypeOK
<1> QED
  BY <1>7, <1>8, <1>9

LEMMA AcquireNewKeeps ==
    ASSUME IInv, NEW t \in Threads, AcquireNew(t)
    PROVE  IInv'
<1> USE DEF IInv
<1> DEFINE n == conv[t].size
           size == IF max_size_enable THEN NextMaxSize(n) ELSE n
           p == NewBlock
<1>0. PICK i \in Nat : i = zenLibBufPoolSize + 1
  BY DEF TypeOK
<1>1. p \in Blocks /\ heap[p] = 0 /\ p # NULL /\ n \in Nat \ {0}
  BY NewBlockIsFree, AskingTypes DEF AcquireNew
<1>2. NextMaxSize(n) \in Nat /\ size \in Nat \ {0} /\ size >= n
  BY <1>1 DEF NextMaxSize, TypeOK
<1>3. /\ Acquiring(t) /\ zenLibBufPoolSize < zenLibBufPoolLimit
      /\ heap' = Allocated(FLOAT * size)
      /\ zenLibBufPoolArr' = Taken(LostSlots(Skipped(n, i)), i, p, size)
      /\ zenLibBufPoolSize' = i
      /\ max_size' = NextMaxSize(n)
      /\ faults' = faults + Cardinality(Skipped(n, i))
      /\ Got(t, p)
      /\ pool' = pool
  BY <1>0 DEF AcquireNew
<1>4. i \in Slots /\ i \in 0..zenLibBufPoolLimit /\ ~Free(i)
  BY <1>0, <1>3, LimitAssumption DEF TypeOK, Slots, Free, InPool
<1> HIDE DEF size, p, n
<1>5. FLOAT * size \in Nat /\ FLOAT * size >= size /\ FLOAT * size > 0
  BY <1>2 DEF FLOAT
<1>6. heap' = [heap EXCEPT ![p] = FLOAT * size]
  BY <1>3 DEF Allocated, p
<1>7. /\ heap' \in [Blocks -> Nat]
      /\ heap'[p] = FLOAT * size
      /\ \A b \in Blocks : b # p => heap'[b] = heap[b]
  BY <1>1, <1>5, <1>6 DEF TypeOK
<1>8. /\ zenLibBufPoolArr' \in [Slots -> Slot]
      /\ Ptr(i)' = p
      /\ zenLibBufPoolArr'[i].zenLibBufPtrStatus = 1
      /\ zenLibBufPoolArr'[i].zenLibBufSize = size
      /\ \A j \in InPool \ {i} : Kept(j)
      /\ faults' \in Nat
      /\ faults' = 0 => faults = 0
  BY <1>1, <1>2, <1>3, <1>4, TakenKeeps
<1>9. HandedOut(t, i, p, size)
  BY <1>0, <1>1, <1>2, <1>3, <1>4, <1>5, <1>7, <1>8 DEF HandedOut, n
<1>10. Memory' /\ Accounts'
  BY <1>1, <1>2, <1>3, <1>4, <1>9, HandedOutKeeps
<1>11. conv' \in [Threads -> Conv] /\ BeforeAndAfter' /\ Asking'
  BY <1>1, <1>3, GotKeeps
<1>12. TypeOK'
  BY <1>2, <1>3, <1>4, <1>7, <1>8, <1>11 DEF TypeOK
<1> QED
  BY <1>10, <1>11, <1>12

LEMMA AcquireFailsKeeps ==
    ASSUME IInv, NEW t \in Threads, AcquireFails(t)
    PROVE  IInv'
<1> USE DEF IInv
<1> DEFINE n    == conv[t].size
           last == zenLibBufPoolSize + 1
           more == IF zenLibBufPoolSize = zenLibBufPoolLimit THEN 0 ELSE 1
<1>1. n \in Nat /\ more \in Nat
  BY AskingTypes DEF AcquireFails
<1>2. /\ Acquiring(t)
      /\ zenLibBufPoolArr' = LostSlots(Skipped(n, last))
      /\ faults' = faults + (Cardinality(Skipped(n, last)) + more)
      /\ conv' = [conv EXCEPT ![t].pc = "fallback"]
      /\ UNCHANGED <<pool, zenLibBufPoolSize, heap>>
  BY DEF AcquireFails
<1>3. max_size' \in Nat
  BY <1>1 DEF AcquireFails, NextMaxSize, TypeOK
<1> HIDE DEF n, last, more
<1>4. zenLibBufPoolArr' \in [Slots -> Slot] /\ \A j \in InPool : Kept(j)
  BY <1>1, <1>2, LostKeeps
<1>5. faults' \in Nat /\ (faults' = 0 => faults = 0)
  BY <1>1, <1>2, SkippedCount DEF TypeOK
<1>6. /\ conv' \in [Threads -> Conv]
      /\ ~Computing(t) /\ ~Computing(t)'
      /\ \A u \in Threads \ {t} : conv'[u] = conv[u]
  BY <1>2 DEF TypeOK, Conv, Computing, Acquiring
<1>7. TypeOK'
  BY <1>2, <1>3, <1>4, <1>5, <1>6 DEF TypeOK
<1>8. BeforeAndAfter' /\ Asking'
  BY <1>2 DEF Acquiring, BeforeAndAfter, Asking, TypeOK, Conv
<1>9. NothingHandedOut
  BY <1>2, <1>4, <1>5, <1>6 DEF NothingHandedOut, Computing
<1> QED
  BY <1>7, <1>8, <1>9, NothingHandedOutKeeps

LEMMA StartKeeps ==
    ASSUME IInv, NEW t \in Threads, NEW n \in Sizes, Start(t, n)
    PROVE  IInv'
<1> USE DEF IInv
<1>1. /\ conv' = [conv EXCEPT ![t] = [Idle EXCEPT !.pc = "get", !.size = n]]
      /\ conv[t].pc = "idle"
      /\ UNCHANGED <<pool, zenLibBufPoolArr, zenLibBufPoolSize, max_size, heap, faults>>
  BY DEF Start, poolVars
<1>2. [Idle EXCEPT !.pc = "get", !.size = n] \in Conv
  BY SizesAssumption, NullAssumption DEF Idle, Conv
<1>3. /\ conv' \in [Threads -> Conv]
      /\ ~Computing(t) /\ ~Computing(t)'
      /\ \A u \in Threads \ {t} : conv'[u] = conv[u]
      /\ conv'[t].pc = "get" /\ conv'[t].size = n /\ conv'[t].pooled = FALSE
  BY <1>1, <1>2 DEF TypeOK, Computing, Idle
<1>4. TypeOK'
  BY <1>1, <1>3 DEF TypeOK
<1>5. BeforeAndAfter' /\ Asking'
  BY <1>1, <1>3 DEF BeforeAndAfter, Asking
<1>6. NothingHandedOut
  BY <1>1, <1>3 DEF NothingHandedOut, Computing, Kept, Ptr
<1> QED
  BY <1>4, <1>5, <1>6, NothingHandedOutKeeps

LEMMA GetPoolKeeps ==
    ASSUME IInv, NEW t \in Threads, GetPool(t)
    PROVE  IInv'
<1> USE DEF IInv
<1>1. /\ conv' = [conv EXCEPT ![t].pc = "acquire"]
      /\ conv[t].pc = "get"
      /\ UNCHANGED <<heap, faults>>
      /\ pool' = IF pool = "none" THEN "live" ELSE pool
  BY DEF GetPool
<1>2. /\ conv' \in [Threads -> Conv]
      /\ ~Computing(t) /\ ~Computing(t)'
      /\ \A u \in Threads \ {t} : conv'[u] = conv[u]
      /\ conv'[t] = [conv[t] EXCEPT !.pc = "acquire"]
      /\ conv'[t].pc = "acquire" /\ conv'[t].size = conv[t].size
      /\ conv'[t].pooled = conv[t].pooled
  BY <1>1 DEF TypeOK, Conv, Computing
<1>3. BeforeAndAfter' /\ Asking'
  BY <1>1, <1>2 DEF GetPool, BeforeAndAfter, Asking
<1>4. CASE pool = "none"
  <2>1. /\ zenLibBufPoolArr' \in [Slots -> Slot]
        /\ zenLibBufPoolSize' = 0 /\ max_size' = 1
        /\ zenLibBufPoolSize = 0 /\ InPool = {}
    BY <1>4, NullAssumption DEF GetPool, EmptySlot, Slot, BeforeAndAfter, InPool
  <2>2. TypeOK'
    BY <1>1, <1>2, <2>1, LimitAssumption DEF TypeOK
  <2>3. NothingHandedOut
    BY <1>1, <1>2, <2>1 DEF NothingHandedOut, Computing
  <2> QED
    BY <1>3, <2>2, <2>3, NothingHandedOutKeeps
<1>5. CASE pool # "none"
  <2>1. UNCHANGED <<pool, zenLibBufPoolArr, zenLibBufPoolSize, max_size>>
    BY <1>5 DEF GetPool
  <2>2. TypeOK'
    BY <1>1, <1>2, <2>1 DEF TypeOK
  <2>3. NothingHandedOut
    BY <1>1, <1>2, <2>1 DEF NothingHandedOut, Computing, Kept, Ptr
  <2> QED
    BY <1>3, <2>2, <2>3, NothingHandedOutKeeps
<1> QED
  BY <1>4, <1>5

LEMMA ReturnFailedKeeps ==
    ASSUME IInv, NEW t \in Threads, ReturnFailed(t)
    PROVE  IInv'
<1> USE DEF IInv
<1>1. /\ conv' = [conv EXCEPT ![t] = Idle]
      /\ conv[t].pc = "failed"
      /\ UNCHANGED <<pool, zenLibBufPoolArr, zenLibBufPoolSize, max_size, heap, faults>>
  BY DEF ReturnFailed, poolVars
<1>2. Idle \in Conv
  BY NullAssumption DEF Idle, Conv
<1>3. /\ conv' \in [Threads -> Conv]
      /\ ~Computing(t) /\ ~Computing(t)'
      /\ \A u \in Threads \ {t} : conv'[u] = conv[u]
      /\ conv'[t].pc = "idle"
  BY <1>1, <1>2 DEF TypeOK, Computing, Idle
<1>4. TypeOK'
  BY <1>1, <1>3 DEF TypeOK
<1>5. BeforeAndAfter' /\ Asking'
  BY <1>1, <1>3 DEF BeforeAndAfter, Asking
<1>6. NothingHandedOut
  BY <1>1, <1>3 DEF NothingHandedOut, Computing, Kept, Ptr
<1> QED
  BY <1>4, <1>5, <1>6, NothingHandedOutKeeps

LEMMA FallbackKeeps ==
    ASSUME IInv, NEW t \in Threads, Fallback(t)
    PROVE  IInv'
<1> USE DEF IInv
<1>1. /\ conv[t].pc = "fallback" /\ ~Computing(t)
      /\ UNCHANGED <<pool, zenLibBufPoolArr, zenLibBufPoolSize, max_size>>
  BY DEF Fallback, poolVars, Computing
<1>2. InPool' = InPool
  BY <1>1 DEF InPool
<1>3. pool = "live"
  BY <1>1 DEF BeforeAndAfter
<1>4. conv[t].size \in Nat \ {0} /\ ~conv[t].pooled
  BY <1>1, SizesAssumption DEF Asking
<1>5. CASE /\ faults' = faults + 1
           /\ conv' = [conv EXCEPT ![t].pc = "failed"]
           /\ UNCHANGED heap
  <2>1. /\ conv' \in [Threads -> Conv]
        /\ ~Computing(t)'
        /\ \A u \in Threads \ {t} : conv'[u] = conv[u]
        /\ conv'[t].pc = "failed" /\ conv'[t].size = conv[t].size
    BY <1>5 DEF TypeOK, Conv, Computing
  <2>2. TypeOK'
    BY <1>1, <1>5, <2>1 DEF TypeOK
  <2>3. BeforeAndAfter' /\ Asking'
    BY <1>1, <1>3, <2>1 DEF BeforeAndAfter, Asking
  <2>4. NothingHandedOut
    BY <1>1, <1>5, <2>1 DEF NothingHandedOut, Computing, Kept, Ptr, TypeOK
  <2> QED
    BY <2>2, <2>3, <2>4, NothingHandedOutKeeps
<1>6. CASE /\ FreeBlocks # {}
           /\ heap' = Allocated(conv[t].size)
           /\ conv' = [conv EXCEPT ![t] = [@ EXCEPT !.pc = "compute", !.data_col = NewBlock]]
           /\ UNCHANGED faults
  <2> DEFINE p == NewBlock
  <2>1. p \in Blocks /\ heap[p] = 0 /\ p # NULL
    BY <1>6, NewBlockIsFree
  <2>2. heap' = [heap EXCEPT ![p] = conv[t].size]
    BY <1>6 DEF Allocated
  <2> HIDE DEF p
  <2>3. /\ heap' \in [Blocks -> Nat]
        /\ heap'[p] = conv[t].size
        /\ \A b \in Blocks : b # p => heap'[b] = heap[b]
    BY <1>4, <2>1, <2>2 DEF TypeOK
  <2>4. conv' = [conv EXCEPT ![t] = [@ EXCEPT !.pc = "compute", !.data_col = p]]
    BY <1>6 DEF p
  <2>5. /\ conv' \in [Threads -> Conv]
        /\ conv'[t].pc = "compute" /\ conv'[t].size = conv[t].size
        /\ conv'[t].data_col = p /\ ~conv'[t].pooled
        /\ \A u \in Threads \ {t} : conv'[u] = conv[u]
    BY <1>4, <2>1, <2>4 DEF TypeOK, Conv
  <2>6. \A j \in InPool : Ptr(j)' = Ptr(j) /\ Ptr(j) \in Blocks \cup {NULL}
    BY <1>1, LimitAssumption DEF Ptr, InPool, Slots, Slot, TypeOK
  <2>7. \A j \in InPool : Ptr(j) # p
    BY <1>3, <2>1 DEF Memory, SlotsAreAllocated
  <2>8. \A u \in Threads : Computing(u) =>
          /\ conv[u].data_col \in Blocks /\ conv[u].data_col # p
          /\ heap'[conv[u].data_col] = heap[conv[u].data_col]
    <3> SUFFICES ASSUME NEW u \in Threads, Computing(u)
                 PROVE  conv[u].data_col \in Blocks /\ conv[u].data_col # p
      BY <2>3
    <3>1. CASE conv[u].pooled
      BY <2>7, <3>1 DEF Memory, PooledHaveSlots, HasSlot, TypeOK, Conv
    <3>2. CASE ~conv[u].pooled
      BY <2>1, <3>2 DEF Memory, OwnAreApart, TypeOK, Conv
    <3> QED
      BY <3>1, <3>2
  <2>9. TypeOK'
    BY <1>1, <1>6, <2>3, <2>5 DEF TypeOK
  <2>10. BeforeAndAfter' /\ Asking'
    BY <1>1, <1>3, <1>4, <2>5 DEF BeforeAndAfter, Asking
  <2>11. SlotsAreApart'
    BY <1>2, <2>6 DEF Memory, SlotsAreApart
  <2>12. SlotsAreAllocated'
    <3> SUFFICES ASSUME NEW j \in InPool, Ptr(j) # NULL
                 PROVE  /\ heap'[Ptr(j)] > 0
                        /\ heap'[Ptr(j)] >= zenLibBufPoolArr[j].zenLibBufSize
      BY <1>1, <1>2, <2>6 DEF SlotsAreAllocated
    <3>1. heap'[Ptr(j)] = heap[Ptr(j)]
      BY <2>3, <2>6, <2>7
    <3> QED
      BY <1>3, <3>1 DEF Memory, SlotsAreAllocated
  <2>13. \A u \in Threads \ {t} : Computing(u)' <=> Computing(u)
    BY <2>5 DEF Computing
  <2>14. PooledHaveSlots'
    BY <1>1, <1>2, <2>5, <2>13 DEF Memory, PooledHaveSlots, HasSlot, Ptr
  <2>15. OwnAreApart'
    <3> SUFFICES ASSUME NEW u \in Threads, Computing(u)', ~conv'[u].pooled
                 PROVE  /\ conv'[u].data_col # NULL
                        /\ heap'[conv'[u].data_col] > 0
                        /\ heap'[conv'[u].data_col] >= conv'[u].size
                        /\ \A j \in InPool : Ptr(j) # conv'[u].data_col
      BY <1>2, <2>6 DEF OwnAreApart
    <3>1. CASE u = t
      BY <1>4, <2>1, <2>3, <2>5, <2>7, <3>1
    <3>2. CASE u # t
      BY <2>5, <2>8, <2>13, <3>2 DEF Memory, OwnAreApart
    <3> QED
      BY <3>1, <3>2
  <2>16. NoSharedBuffer'
    <3> SUFFICES ASSUME NEW u \in Threads, NEW v \in Threads, u # v,
                        Computing(u)', Computing(v)'
                 PROVE  conv'[u].data_col # conv'[v].data_col
      BY DEF NoSharedBuffer
    <3> QED
      BY <2>5, <2>8, <2>13 DEF Memory, NoSharedBuffer
  <2>17. NoSlotIsLost'
    BY <1>2, <1>6, <2>6 DEF Accounts, NoSlotIsLost
  <2>18. UsedSlotHasUser'
    <3> SUFFICES ASSUME faults' = 0, NEW j \in InPool
                 PROVE  zenLibBufPoolArr'[j].zenLibBufPtrStatus =
                          IF \E u \in Threads : User(u, j)' THEN 1 ELSE 0
      BY <1>2 DEF UsedSlotHasUser
    <3>1. ~User(t, j)' /\ ~User(t, j)
      BY <1>1, <2>5 DEF User
    <3>2. \A u \in Threads \ {t} : User(u, j)' <=> User(u, j)
      BY <1>1, <2>5, <2>13 DEF User
    <3>3. (\E u \in Threads : User(u, j)') <=> \E u \in Threads : User(u, j)
      BY <3>1, <3>2
    <3> QED
      BY <1>1, <1>6, <3>3 DEF Accounts, UsedSlotHasUser
  <2>19. NothingLeaks'
    <3> SUFFICES ASSUME faults' = 0, NEW b \in Blocks, heap'[b] > 0
                 PROVE  \/ \E j \in InPool : Ptr(j) = b
                        \/ \E u \in Threads : Computing(u)' /\ conv'[u].data_col = b
      BY <1>2, <2>6 DEF NothingLeaks, Ptr
    <3>1. CASE b = p
      BY <2>5, <3>1 DEF Computing
    <3>2. CASE b # p
      <4>1. \/ \E j \in InPool : Ptr(j) = b
            \/ \E u \in Threads : Computing(u) /\ conv[u].data_col = b
        BY <1>6, <2>3, <3>2 DEF Accounts, NothingLeaks, Ptr
      <4> QED
        BY <1>1, <2>5, <2>13, <4>1
    <3> QED
      BY <3>1, <3>2
  <2> QED
    BY <2>9, <2>10, <2>11, <2>12, <2>14, <2>15, <2>16, <2>17, <2>18, <2>19
       DEF Memory, Accounts
<1> QED
  BY <1>5, <1>6 DEF Fallback

\* A convolution that is done.
LEMMA DoneConv ==
    ASSUME TypeOK, BeforeAndAfter, Asking, NEW t \in Threads, Computing(t),
           conv' = [conv EXCEPT ![t] = Idle], pool' = pool
    PROVE  /\ conv' \in [Threads -> Conv] /\ BeforeAndAfter' /\ Asking'
           /\ pool = "live"
           /\ ~Computing(t)'
           /\ \A u \in Threads \ {t} : conv'[u] = conv[u]
<1>1. Idle \in Conv
  BY NullAssumption DEF Idle, Conv
<1>2. pool = "live"
  BY DEF BeforeAndAfter, Computing
<1>3. /\ conv' \in [Threads -> Conv]
      /\ conv'[t].pc = "idle"
      /\ \A u \in Threads \ {t} : conv'[u] = conv[u]
  BY <1>1 DEF TypeOK, Idle
<1> QED
  BY <1>2, <1>3 DEF BeforeAndAfter, Asking, Computing

LEMMA ReleasePooledKeeps ==
    ASSUME IInv, NEW t \in Threads, ReleasePooled(t)
    PROVE  IInv'
<1> USE DEF IInv
<1>1. /\ Computing(t) /\ conv[t].pooled
      /\ conv' = [conv EXCEPT ![t] = Idle]
      /\ UNCHANGED <<pool, zenLibBufPoolSize, max_size, heap, faults>>
  BY DEF ReleasePooled, Computing
<1>2. /\ conv' \in [Threads -> Conv] /\ BeforeAndAfter' /\ Asking'
      /\ pool = "live"
      /\ ~Computing(t)'
      /\ \A u \in Threads \ {t} : conv'[u] = conv[u]
  BY <1>1, DoneConv
<1>3. InPool' = InPool /\ InPool \subseteq Slots
  BY <1>1, LimitAssumption DEF InPool, Slots, TypeOK
\* The slot that is released is the convolution's.
<1>4. PICK i \in InPool : HasSlot(t, i)
  BY <1>1 DEF Memory, PooledHaveSlots
<1>5. Ptr(i) # NULL /\ Ptr(i) = conv[t].data_col
  BY <1>1, <1>4 DEF Memory, PooledHaveSlots, HasSlot
<1>6. \A j \in InPool : Ptr(j) = conv[t].data_col => j = i
  BY <1>5 DEF Memory, SlotsAreApart
<1>7. SlotOf(conv[t].data_col) = {i}
  <2>1. \A j \in 1..(i - 1) : Ptr(j) # conv[t].data_col
    BY <1>6 DEF InPool, TypeOK
  <2> QED
    BY <1>5, <1>6, <2>1 DEF SlotOf, Ptr
<1>8. zenLibBufPoolArr' =
        [j \in Slots |-> IF j = i
                         THEN [zenLibBufPoolArr[j] EXCEPT !.zenLibBufPtrStatus = @ - 1]
                         ELSE zenLibBufPoolArr[j]]
  BY <1>7 DEF ReleasePooled
<1>9. \A j \in Slots : zenLibBufPoolArr[j] \in Slot
  BY DEF TypeOK
<1>10. zenLibBufPoolArr' \in [Slots -> Slot]
  BY <1>8, <1>9 DEF Slot
<1>11. \A j \in InPool \ {i} : zenLibBufPoolArr'[j] = zenLibBufPoolArr[j]
  BY <1>3, <1>8
<1>12. /\ zenLibBufPoolArr'[i].zenLibBufPtr = zenLibBufPoolArr[i].zenLibBufPtr
       /\ zenLibBufPoolArr'[i].zenLibBufSize = zenLibBufPoolArr[i].zenLibBufSize
       /\ zenLibBufPoolArr'[i].zenLibBufPtrStatus = 0
  <2>1. zenLibBufPoolArr'[i] = [zenLibBufPoolArr[i] EXCEPT !.zenLibBufPtrStatus = @ - 1]
    BY <1>3, <1>8
  <2>2. zenLibBufPoolArr[i] \in Slot /\ zenLibBufPoolArr[i].zenLibBufPtrStatus = 1
    BY <1>3, <1>4, <1>9 DEF HasSlot
  <2> QED
    BY <2>1, <2>2 DEF Slot
<1>13. \A j \in InPool :
         Ptr(j)' = Ptr(j) /\ zenLibBufPoolArr'[j].zenLibBufSize = zenLibBufPoolArr[j].zenLibBufSize
  BY <1>11, <1>12 DEF Ptr
<1>14. \A u \in Threads : Computing(u)' => u # t /\ Computing(u) /\ conv'[u] = conv[u]
  BY <1>2 DEF Computing
<1>15. TypeOK'
  BY <1>1, <1>2, <1>10 DEF TypeOK
<1>16. SlotsAreApart' /\ SlotsAreAllocated'
  BY <1>1, <1>3, <1>13 DEF Memory, SlotsAreApart, SlotsAreAllocated
<1>17. PooledHaveSlots'
  <2> SUFFICES ASSUME NEW u \in Threads, Computing(u)', conv'[u].pooled
               PROVE  conv'[u].data_col # NULL /\ \E j \in InPool : HasSlot(u, j)'
    BY <1>3 DEF PooledHaveSlots
  <2>1. u # t /\ Computing(u) /\ conv'[u] = conv[u]
    BY <1>14
  <2>2. PICK j \in InPool : HasSlot(u, j)
    BY <2>1 DEF Memory, PooledHaveSlots
  <2>3. j # i
    BY <1>1, <1>5, <2>1, <2>2 DEF Memory, NoSharedBuffer, HasSlot
  <2>4. HasSlot(u, j)'
    BY <1>11, <2>1, <2>2, <2>3 DEF HasSlot, Ptr
  <2> QED
    BY <2>1, <2>4 DEF Memory, PooledHaveSlots
<1>18. OwnAreApart'
  BY <1>1, <1>3, <1>13, <1>14 DEF Memory, OwnAreApart
<1>19. NoSharedBuffer'
  BY <1>14 DEF Memory, NoSharedBuffer
<1>20. NoSlotIsLost'
  BY <1>1, <1>3, <1>13 DEF Accounts, NoSlotIsLost
<1>21. UsedSlotHasUser'
  <2> SUFFICES ASSUME faults' = 0, NEW j \in InPool
               PROVE  zenLibBufPoolArr'[j].zenLibBufPtrStatus =
                        IF \E u \in Threads : User(u, j)' THEN 1 ELSE 0
    BY <1>3 DEF UsedSlotHasUser
  <2>1. CASE j = i
    <3>1. ~\E u \in Threads : User(u, j)'
      BY <1>1, <1>5, <1>13, <1>14, <2>1 DEF User, Memory, NoSharedBuffer, Ptr
    <3> QED
      BY <1>12, <2>1, <3>1
  <2>2. CASE j # i
    <3>1. ~User(t, j)' /\ ~User(t, j)
      BY <1>2, <1>6, <2>2 DEF User, Ptr
    <3>2. \A u \in Threads \ {t} : User(u, j)' <=> User(u, j)
      BY <1>2, <1>11, <2>2 DEF User, Computing
    <3>3. (\E u \in Threads : User(u, j)') <=> \E u \in Threads : User(u, j)
      BY <3>1, <3>2
    <3> QED
      BY <1>1, <1>11, <2>2, <3>3 DEF Accounts, UsedSlotHasUser
  <2> QED
    BY <2>1, <2>2
<1>22. NothingLeaks'
  <2> SUFFICES ASSUME faults' = 0, NEW b \in Blocks, heap'[b] > 0
               PROVE  \/ \E j \in InPool : Ptr(j) = b
                      \/ \E u \in Threads : Computing(u)' /\ conv'[u].data_col = b
    BY <1>3, <1>13 DEF NothingLeaks, Ptr
  <2>1. \/ \E j \in InPool : Ptr(j) = b
        \/ \E u \in Threads : Computing(u) /\ conv[u].data_col = b
    BY <1>1 DEF Accounts, NothingLeaks, Ptr
  <2> QED
    BY <1>2, <1>5, <2>1 DEF Computing
<1> QED
  BY <1>2, <1>15, <1>16, <1>17, <1>18, <1>19, <1>20, <1>21, <1>22 DEF Memory, Accounts

LEMMA ReleaseOwnKeeps ==
    ASSUME IInv, NEW t \in Threads, ReleaseOwn(t)
    PROVE  IInv'
<1> USE DEF IInv
<1>1. /\ Computing(t) /\ ~conv[t].pooled
      /\ conv' = [conv EXCEPT ![t] = Idle]
      /\ UNCHANGED <<pool, zenLibBufPoolArr, zenLibBufPoolSize, max_size, faults>>
  BY DEF ReleaseOwn, Computing, poolVars
<1>2. /\ conv' \in [Threads -> Conv] /\ BeforeAndAfter' /\ Asking'
      /\ pool = "live"
      /\ ~Computing(t)'
      /\ \A u \in Threads \ {t} : conv'[u] = conv[u]
  BY <1>1, DoneConv
<1>3. heap' = [b \in Blocks |-> IF b = conv[t].data_col THEN 0 ELSE heap[b]]
  BY DEF ReleaseOwn, Freed
<1>4. InPool' = InPool /\ \A j \in InPool : Ptr(j)' = Ptr(j) /\ Ptr(j) \in Blocks \cup {NULL}
  BY <1>1, LimitAssumption DEF Ptr, InPool, Slots, Slot, TypeOK
<1>5. \A j \in InPool : Ptr(j) # NULL => heap'[Ptr(j)] = heap[Ptr(j)]
  BY <1>1, <1>3, <1>4 DEF Memory, OwnAreApart
<1>6. \A u \in Threads : Computing(u)' => u # t /\ Computing(u) /\ conv'[u] = conv[u]
  BY <1>2 DEF Computing
<1>7. TypeOK'
  BY <1>1, <1>2, <1>3 DEF TypeOK
<1>8. SlotsAreApart' /\ SlotsAreAllocated'
  BY <1>1, <1>4, <1>5 DEF Memory, SlotsAreApart, SlotsAreAllocated
<1>9. PooledHaveSlots'
  BY <1>1, <1>4, <1>6 DEF Memory, PooledHaveSlots, HasSlot
<1>10. OwnAreApart'
  <2> SUFFICES ASSUME NEW u \in Threads, Computing(u)', ~conv'[u].pooled
               PROVE  /\ conv'[u].data_col # NULL
                      /\ heap'[conv'[u].data_col] > 0
                      /\ heap'[conv'[u].data_col] >= conv'[u].size
                      /\ \A j \in InPool : Ptr(j) # conv'[u].data_col
    BY <1>4 DEF OwnAreApart
  <2>1. u # t /\ Computing(u) /\ conv'[u] = conv[u]
    BY <1>6
  <2>2. conv[u].data_col \in Blocks
    BY <2>1 DEF Memory, OwnAreApart, TypeOK, Conv
  <2>3. heap'[conv[u].data_col] = heap[conv[u].data_col]
    BY <1>1, <1>3, <2>1, <2>2 DEF Memory, NoSharedBuffer
  <2> QED
    BY <2>1, <2>3 DEF Memory, OwnAreApart
<1>11. NoSharedBuffer'
  BY <1>6 DEF Memory, NoSharedBuffer
<1>12. NoSlotIsLost'
  BY <1>1, <1>4 DEF Accounts, NoSlotIsLost
<1>13. UsedSlotHasUser'
  <2> SUFFICES ASSUME faults' = 0, NEW j \in InPool
               PROVE  zenLibBufPoolArr'[j].zenLibBufPtrStatus =
                        IF \E u \in Threads : User(u, j)' THEN 1 ELSE 0
    BY <1>4 DEF UsedSlotHasUser
  <2>1. \A u \in Threads : User(u, j)' <=> User(u, j)
    BY <1>1, <1>2, <1>6 DEF User, Computing
  <2> QED
    BY <1>1, <2>1 DEF Accounts, UsedSlotHasUser
<1>14. NothingLeaks'
  <2> SUFFICES ASSUME faults' = 0, NEW b \in Blocks, heap'[b] > 0
               PROVE  \/ \E j \in InPool : Ptr(j) = b
                      \/ \E u \in Threads : Computing(u)' /\ conv'[u].data_col = b
    BY <1>4 DEF NothingLeaks, Ptr
  <2>1. heap[b] > 0 /\ b # conv[t].data_col
    BY <1>3
  <2>2. \/ \E j \in InPool : Ptr(j) = b
        \/ \E u \in Threads : Computing(u) /\ conv[u].data_col = b
    BY <1>1, <2>1 DEF Accounts, NothingLeaks, Ptr
  <2> QED
    BY <1>2, <2>1, <2>2 DEF Computing
<1> QED
  BY <1>2, <1>7, <1>8, <1>9, <1>10, <1>11, <1>12, <1>13, <1>14 DEF Memory, Accounts

LEMMA ResetKeeps ==
    ASSUME IInv, Reset
    PROVE  IInv'
<1> USE DEF IInv
<1>1. /\ \A t \in Threads : conv[t].pc = "idle" /\ ~Computing(t) /\ ~Computing(t)'
      /\ UNCHANGED <<pool, zenLibBufPoolSize, max_size, heap, conv, faults>>
  BY DEF Reset, AllIdle, Computing
<1>2. InPool' = InPool /\ InPool \subseteq Slots
  BY <1>1, LimitAssumption DEF InPool, Slots, TypeOK
<1>3. \A j \in Slots : zenLibBufPoolArr[j] \in Slot
  BY DEF TypeOK
<1>4. zenLibBufPoolArr' \in [Slots -> Slot]
  BY <1>3 DEF Reset, Slot
<1>5. ASSUME NEW j \in InPool
      PROVE  /\ Ptr(j)' = Ptr(j)
             /\ zenLibBufPoolArr'[j].zenLibBufSize = zenLibBufPoolArr[j].zenLibBufSize
             /\ zenLibBufPoolArr'[j].zenLibBufPtrStatus = 0
  <2>1. zenLibBufPoolArr'[j] = [zenLibBufPoolArr[j] EXCEPT !.zenLibBufPtrStatus = 0]
    BY <1>2 DEF Reset
  <2> QED
    BY <1>2, <1>3, <2>1 DEF Slot, Ptr
<1>6. TypeOK'
  BY <1>1, <1>4 DEF TypeOK
<1>7. BeforeAndAfter' /\ Asking'
  BY <1>1 DEF BeforeAndAfter, Asking
<1>8. Memory'
  BY <1>1, <1>2, <1>5 DEF Memory, SlotsAreApart, SlotsAreAllocated, PooledHaveSlots, OwnAreApart,
       NoSharedBuffer
<1>9. NoSlotIsLost' /\ UsedSlotHasUser'
  BY <1>1, <1>2, <1>5 DEF Accounts, NoSlotIsLost, UsedSlotHasUser, User
<1>10. NothingLeaks'
  BY <1>1, <1>2, <1>5 DEF Accounts, NothingLeaks, Ptr
<1> QED
  BY <1>6, <1>7, <1>8, <1>9, <1>10 DEF Accounts

LEMMA FreePoolKeeps ==
    ASSUME IInv, FreePool
    PROVE  IInv'
<1> USE DEF IInv
<1>1. /\ \A t \in Threads : conv[t].pc = "idle" /\ ~Computing(t) /\ ~Computing(t)'
      /\ pool' = "deleted"
      /\ UNCHANGED <<zenLibBufPoolArr, zenLibBufPoolSize, max_size, conv, faults>>
  BY DEF FreePool, AllIdle, Computing
<1>2. heap' = [b \in Blocks |-> IF \E j \in InPool : Ptr(j) = b THEN 0 ELSE heap[b]]
  BY DEF FreePool, Ptr
<1>3. InPool' = InPool /\ \A j \in InPool : Ptr(j)' = Ptr(j)
  BY <1>1 DEF InPool, Ptr
<1>4. TypeOK'
  BY <1>1, <1>2 DEF TypeOK
<1>5. BeforeAndAfter' /\ Asking'
  BY <1>1 DEF BeforeAndAfter, Asking
<1>6. Memory'
  BY <1>1, <1>3 DEF Memory, SlotsAreApart, SlotsAreAllocated, PooledHaveSlots, OwnAreApart,
       NoSharedBuffer
<1>7. NoSlotIsLost' /\ UsedSlotHasUser'
  BY <1>1, <1>3 DEF Accounts, NoSlotIsLost, UsedSlotHasUser, User
<1>8. NothingLeaks'
  <2> SUFFICES ASSUME faults' = 0, NEW b \in Blocks, heap'[b] > 0
               PROVE  \E j \in InPool : Ptr(j) = b
    BY <1>3 DEF NothingLeaks, Ptr
  <2>1. heap[b] > 0
    BY <1>2
  <2> QED
    BY <1>1, <2>1 DEF Accounts, NothingLeaks, Ptr
<1> QED
  BY <1>4, <1>5, <1>6, <1>7, <1>8 DEF Accounts

LEMMA StutterKeeps ==
    ASSUME IInv, UNCHANGED vars
    PROVE  IInv'
<1> USE DEF IInv
<1>1. UNCHANGED <<pool, zenLibBufPoolArr, zenLibBufPoolSize, max_size, heap, conv, faults>>
  BY DEF vars, poolVars
<1>2. TypeOK' /\ BeforeAndAfter' /\ Asking'
  BY <1>1 DEF TypeOK, BeforeAndAfter, Asking
<1>3. NothingHandedOut
  BY <1>1 DEF NothingHandedOut, Computing, Kept, Ptr
<1> QED
  BY <1>2, <1>3, NothingHandedOutKeeps

LEMMA NextKeeps ==
    ASSUME IInv, [Next]_vars
    PROVE  IInv'
<1>1. CASE UNCHANGED vars
  BY <1>1, StutterKeeps
<1>2. CASE Reset
  BY <1>2, ResetKeeps
<1>3. CASE FreePool
  BY <1>3, FreePoolKeeps
<1>4. ASSUME NEW t \in Threads,
             \/ \E n \in Sizes : Start(t, n)
             \/ GetPool(t)
             \/ \E i \in Slots : AcquireFree(t, i) \/ AcquireEnlarged(t, i)
             \/ AcquireNew(t) \/ AcquireFails(t)
             \/ Fallback(t)
             \/ ReleasePooled(t) \/ ReleaseOwn(t) \/ ReturnFailed(t)
      PROVE  IInv'
  BY <1>4, StartKeeps, GetPoolKeeps, AcquireFreeKeeps, AcquireEnlargedKeeps, AcquireNewKeeps,
     AcquireFailsKeeps, FallbackKeeps, ReleasePooledKeeps, ReleaseOwnKeeps, ReturnFailedKeeps
<1> QED
  BY <1>1, <1>2, <1>3, <1>4 DEF Next

\* A slot's block is as large as its record, and its record as its convolution.
LEMMA InvIsLargeEnough == IInv => BufferIsLargeEnough
<1> SUFFICES ASSUME IInv, NEW t \in Threads, Computing(t)
             PROVE  /\ conv[t].data_col \in Blocks
                    /\ heap[conv[t].data_col] >= conv[t].size
  BY DEF BufferIsLargeEnough
<1> USE DEF IInv
<1>1. pool = "live" /\ InPool \subseteq Slots
  BY LimitAssumption DEF BeforeAndAfter, Computing, InPool, Slots, TypeOK
<1>2. CASE ~conv[t].pooled
  BY <1>2 DEF Memory, OwnAreApart, TypeOK, Conv
<1>3. CASE conv[t].pooled
  <2>1. PICK i \in InPool : HasSlot(t, i)
    BY <1>3 DEF Memory, PooledHaveSlots
  <2>2. conv[t].data_col # NULL /\ conv[t].data_col \in Blocks
    BY <1>3 DEF Memory, PooledHaveSlots, TypeOK, Conv
  <2>3. heap[conv[t].data_col] >= zenLibBufPoolArr[i].zenLibBufSize
    BY <1>1, <2>1, <2>2 DEF Memory, SlotsAreAllocated, HasSlot
  <2>4. /\ heap[conv[t].data_col] \in Nat
        /\ zenLibBufPoolArr[i].zenLibBufSize \in Nat
        /\ conv[t].size \in Nat
    BY <1>1, <2>1, <2>2 DEF TypeOK, Slot, Conv
  <2> QED
    BY <2>1, <2>2, <2>3, <2>4 DEF HasSlot
<1> QED
  BY <1>2, <1>3

-----------------------------------------------------------------------------
(* The theorems *)

LEMMA AlwaysIInv == Spec => []IInv
<1>1. Init => IInv
  BY InitInv
<1>2. IInv /\ [Next]_vars => IInv'
  BY NextKeeps
<1> QED
  BY <1>1, <1>2, PTL DEF Spec

\* Two convolutions that run at the same time never write the same buffer, for
\* any number of threads and any slot limit: acquireZenLibPoolBuf hands out a
\* slot only while its status is 0, and no realloc or malloc gives a block twice.
THEOREM BuffersAreNotShared == Spec => []NoSharedBuffer
<1>1. IInv => NoSharedBuffer
  BY DEF IInv, Memory
<1> QED
  BY <1>1, AlwaysIInv, PTL

\* A convolution's buffer is allocated and large enough until it is released,
\* whatever acquireZenLibPoolBuf reallocates and whichever allocations fail.
THEOREM BuffersAreLargeEnough == Spec => []BufferIsLargeEnough
BY InvIsLargeEnough, AlwaysIInv, PTL

\* While no allocation has failed, a slot of the pool is marked exactly while
\* one convolution uses it: zenLibMemPoolFree always finds the slot again.
THEOREM UsedSlotsHaveUsers == Spec => []UsedSlotHasUser
<1>1. IInv => UsedSlotHasUser
  BY DEF IInv, Accounts
<1> QED
  BY <1>1, AlwaysIInv, PTL

\* While no allocation has failed, every block that is allocated belongs to the
\* pool or to a running convolution.
THEOREM PoolLosesNothing == Spec => []NothingLeaks
<1>1. IInv => NothingLeaks
  BY DEF IInv, Accounts
<1> QED
  BY <1>1, AlwaysIInv, PTL

=============================================================================
