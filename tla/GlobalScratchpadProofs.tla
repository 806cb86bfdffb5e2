----------------------- MODULE GlobalScratchpadProofs -----------------------
(***************************************************************************)
(* Proofs about GlobalScratchpad, for any threads, primitives, sizes and   *)
(* failing allocations.                                                    *)
(*                                                                         *)
(* A thread's storage is as large as its primitives need because it only   *)
(* shrinks when it is lost, which forsakes them, or freed; it is freed at  *)
(* count 0, so what is to be shown is that the count of a thread on which  *)
(* no foreign primitive was destroyed is the number of its primitives.     *)
(***************************************************************************)
EXTENDS GlobalScratchpad, FiniteSetTheorems, TLAPS

Private == {p \in Living : ~prims[p].global}

\* Every storage has one owner, a thread or a primitive, who knows its size.
ThreadsKnowTheirs ==
    \A t \in Threads :
        /\ mem_storage_[t] = Null => size_[t] = 0
        /\ mem_storage_[t] # Null =>
             mem_storage_[t] \in DOMAIN heap /\ heap[mem_storage_[t]] = size_[t]

PrimitivesKnowTheirs ==
    \A p \in Private : prims[p].own \in DOMAIN heap /\ heap[prims[p].own] = prims[p].size

ThreadsShareNothing ==
    \A t, u \in Threads : t # u /\ mem_storage_[t] # Null => mem_storage_[t] # mem_storage_[u]

PrimitivesShareNothing == \A p, q \in Private : p # q => prims[p].own # prims[q].own

NoStorageOfBoth == \A t \in Threads : \A p \in Private : mem_storage_[t] # prims[p].own

EveryStorageIsOwned ==
    \A s \in DOMAIN heap : (\E t \in Threads : mem_storage_[t] = s) \/ (\E p \in Private : prims[p].own = s)

Memory ==
    /\ ThreadsKnowTheirs /\ PrimitivesKnowTheirs /\ ThreadsShareNothing
    /\ PrimitivesShareNothing /\ NoStorageOfBoth /\ EveryStorageIsOwned

\* The count, and what it stands for.
Counted ==
    \A t \in Threads \ disturbed :
        /\ reference_count_[t] = Cardinality(Mine(t))
        /\ Mine(t) = {} => mem_storage_[t] = Null

Enough ==
    \A t \in Threads \ disturbed : \A p \in Mine(t) : ~prims[p].forsaken => size_[t] >= prims[p].size

Executions ==
    /\ \A t \in DOMAIN running :
         /\ running[t].prim \in Living
         /\ running[t].storage =
              IF prims[running[t].prim].global THEN mem_storage_[t] ELSE prims[running[t].prim].own
    /\ \A t, u \in DOMAIN running : t # u => running[t].prim # running[u].prim

IInv == TypeOK /\ Memory /\ Counted /\ Enough /\ Executions

-----------------------------------------------------------------------------
(* What a thread may be given in place of the storage it has *)

Fits(t, scratch) ==
    /\ DOMAIN scratch.heap \subseteq Storages /\ scratch.heap \in [DOMAIN scratch.heap -> Nat]
    /\ scratch.storage \in Storages \cup {Null} /\ scratch.size \in Nat
    /\ \A s \in DOMAIN heap \ {mem_storage_[t]} :
         s \in DOMAIN scratch.heap /\ scratch.heap[s] = heap[s] /\ s # scratch.storage
    /\ \A s \in DOMAIN scratch.heap : s \in DOMAIN heap \ {mem_storage_[t]} \/ s = scratch.storage
    /\ scratch.storage = Null => scratch.size = 0
    /\ scratch.storage # Null =>
         scratch.storage \in DOMAIN scratch.heap /\ scratch.heap[scratch.storage] = scratch.size

\* What it has does.
LEMMA CurrentFits ==
    ASSUME TypeOK, Memory, NEW t \in Threads
    PROVE  Fits(t, Current(t))
BY NullAssumption DEF TypeOK, Memory, ThreadsKnowTheirs, Fits, Current, Scratchpad

\* So does what the constructor leaves; a thread that gets less than it had
\* has lost its storage to an allocation that failed twice.
LEMMA ConstructedFits ==
    ASSUME TypeOK, Memory, NEW t \in Threads, NEW size \in Sizes,
           NEW scratch \in Constructed(t, size)
    PROVE  /\ Fits(t, scratch)
           /\ scratch.failed \in {0, 1, 2}
           /\ scratch.failed # 2 => scratch.size >= size_[t]
           /\ scratch.failed = 2 => scratch.storage = Null
<1>1. CASE size <= size_[t]
  <2>1. scratch = Current(t)
    BY <1>1 DEF Constructed
  <2> QED
    BY <2>1, CurrentFits DEF Current, Scratchpad, TypeOK
<1>2. CASE ~(size <= size_[t])
  <2> DEFINE left == Without(heap, mem_storage_[t])
  <2>1. /\ DOMAIN left = DOMAIN heap \ {mem_storage_[t]}
        /\ \A s \in DOMAIN left : left[s] = heap[s]
        /\ left \in [DOMAIN left -> Nat]
    BY DEF Without, TypeOK
  <2>2. size \in Nat /\ size_[t] \in Nat /\ size >= size_[t]
    BY <1>2, SizesAssumption DEF TypeOK
  <2>3. ASSUME NEW s \in Storages \ DOMAIN left, NEW amount \in Nat, NEW failed \in {0, 1},
               scratch = Scratchpad(With(left, s, amount), s, amount, failed)
        PROVE  Fits(t, scratch) /\ scratch.size = amount /\ scratch.failed = failed
    <3>1. /\ DOMAIN scratch.heap = DOMAIN left \cup {s}
          /\ \A x \in DOMAIN left : scratch.heap[x] = left[x]
          /\ scratch.heap[s] = amount
          /\ scratch.heap \in [DOMAIN left \cup {s} -> Nat]
      BY <2>1, <2>3 DEF With, Scratchpad
    <3> HIDE DEF left
    <3>2. scratch.storage = s /\ scratch.size = amount /\ scratch.failed = failed
      BY <2>3 DEF Scratchpad
    <3> QED
      BY <2>1, <3>1, <3>2, NullAssumption DEF Fits, TypeOK
  <2>4. ASSUME scratch = Scratchpad(left, Null, 0, 2)
        PROVE  Fits(t, scratch) /\ scratch.failed = 2 /\ scratch.storage = Null
    <3>1. scratch.heap = left /\ scratch.storage = Null /\ scratch.size = 0 /\ scratch.failed = 2
      BY <2>4 DEF Scratchpad
    <3> HIDE DEF left
    <3> QED
      BY <2>1, <3>1, NullAssumption DEF Fits, TypeOK
  <2>5. \/ \E s \in Storages \ DOMAIN left : scratch = Scratchpad(With(left, s, size), s, size, 0)
        \/ \E s \in Storages \ DOMAIN left : scratch = Scratchpad(With(left, s, size_[t]), s, size_[t], 1)
        \/ scratch = Scratchpad(left, Null, 0, 2)
    BY <1>2 DEF Constructed
  <2> HIDE DEF left
  <2> QED
    BY <2>2, <2>3, <2>4, <2>5
<1> QED
  BY <1>1, <1>2

\* So does what the destructor leaves.
LEMMA ReleasedFits ==
    ASSUME TypeOK, NEW t \in Threads, NEW scratch, Fits(t, scratch), NEW count
    PROVE  Fits(t, Released(count, scratch))
<1>1. CASE count = 0
  <2> DEFINE less == Without(scratch.heap, scratch.storage)
             new == Scratchpad(less, Null, 0, scratch.failed)
  <2>1. /\ DOMAIN less = DOMAIN scratch.heap \ {scratch.storage}
        /\ \A s \in DOMAIN less : less[s] = scratch.heap[s]
        /\ less \in [DOMAIN less -> Nat]
    BY DEF Without, Fits
  <2>2. new.heap = less /\ new.storage = Null /\ new.size = 0
    BY DEF Scratchpad
  <2>3. Released(count, scratch) = new
    BY <1>1 DEF Released
  <2> HIDE DEF less, new
  <2>4. Fits(t, new)
    BY <2>1, <2>2, NullAssumption DEF Fits, TypeOK
  <2> QED
    BY <2>3, <2>4
<1> QED
  BY <1>1 DEF Released

MemoryTypes ==
    /\ mem_storage_ \in [Threads -> Storages \cup {Null}]
    /\ size_ \in [Threads -> Nat]
    /\ DOMAIN heap \subseteq Storages /\ heap \in [DOMAIN heap -> Nat]

\* Installing it leaves every storage with one owner.
LEMMA InstallKeepsMemory ==
    ASSUME TypeOK, Memory, NEW t \in Threads, NEW scratch, Fits(t, scratch), Install(t, scratch),
           Private' = Private, \A p \in Private : prims'[p] = prims[p]
    PROVE  /\ MemoryTypes' /\ Memory'
           /\ mem_storage_'[t] = scratch.storage /\ size_'[t] = scratch.size
           /\ \A u \in Threads \ {t} : mem_storage_'[u] = mem_storage_[u] /\ size_'[u] = size_[u]
<1>1. /\ mem_storage_'[t] = scratch.storage /\ size_'[t] = scratch.size
      /\ \A u \in Threads \ {t} : mem_storage_'[u] = mem_storage_[u] /\ size_'[u] = size_[u]
      /\ heap' = scratch.heap
  BY DEF Install, TypeOK
<1>2. MemoryTypes'
  BY DEF Install, TypeOK, Fits, MemoryTypes
<1>3. \A u \in Threads \ {t} : mem_storage_[u] # Null =>
        mem_storage_[u] \in DOMAIN heap \ {mem_storage_[t]}
  BY DEF Memory, ThreadsKnowTheirs, ThreadsShareNothing
<1>4. \A p \in Private : prims[p].own \in DOMAIN heap \ {mem_storage_[t]}
  BY DEF Memory, PrimitivesKnowTheirs, NoStorageOfBoth
<1>5. ThreadsKnowTheirs'
  BY <1>1, <1>3 DEF Memory, ThreadsKnowTheirs, Fits
<1>6. PrimitivesKnowTheirs'
  BY <1>1, <1>4 DEF Memory, PrimitivesKnowTheirs, Fits
<1>7. ThreadsShareNothing'
  BY <1>1, <1>3 DEF Memory, ThreadsShareNothing, Fits
<1>8. PrimitivesShareNothing'
  BY DEF Memory, PrimitivesShareNothing
<1>9. NoStorageOfBoth'
  BY <1>1, <1>4 DEF Memory, NoStorageOfBoth, Fits
<1>10. EveryStorageIsOwned'
  BY <1>1 DEF Memory, EveryStorageIsOwned, Fits
<1> QED
  BY <1>1, <1>2, <1>5, <1>6, <1>7, <1>8, <1>9, <1>10 DEF Memory

-----------------------------------------------------------------------------
(* Primitives that come and go *)

\* The primitives of a thread can be counted without a wrap of the count.
LEMMA MineIsFinite ==
    ASSUME TypeOK, NEW t \in Threads
    PROVE  /\ IsFiniteSet(Mine(t)) /\ Cardinality(Mine(t)) \in Nat
           /\ Cardinality(Mine(t)) <= Cardinality(Primitives)
           /\ Cardinality(Mine(t)) = 0 <=> Mine(t) = {}
           /\ Cardinality(Primitives) \in Nat
<1>1. Mine(t) \subseteq Primitives
  BY DEF Mine, TypeOK
<1> QED
  BY <1>1, PrimitivesAssumption, FS_Subset, FS_CardinalityType, FS_EmptySet

\* A primitive more.
LEMMA PrimitiveAdded ==
    ASSUME TypeOK, NEW p \in Primitives \ Living, NEW rec \in Primitive,
           prims' = With(prims, p, rec)
    PROVE  /\ Living' = Living \cup {p} /\ prims' \in [Living' -> Primitive]
           /\ prims'[p] = rec /\ \A q \in Living : prims'[q] = prims[q]
           /\ \A u \in Threads : Mine(u)' =
                IF rec.global /\ rec.home = u THEN Mine(u) \cup {p} ELSE Mine(u)
           /\ Private' = IF rec.global THEN Private ELSE Private \cup {p}
<1>1. /\ DOMAIN prims' = Living \cup {p} /\ prims'[p] = rec
      /\ \A q \in Living : prims'[q] = prims[q]
      /\ prims' \in [Living \cup {p} -> Primitive]
  BY DEF With, Living, TypeOK
<1>2. Living' = Living \cup {p}
  BY <1>1 DEF Living
<1>3. \A u \in Threads : Mine(u)' =
        IF rec.global /\ rec.home = u THEN Mine(u) \cup {p} ELSE Mine(u)
  BY <1>1, <1>2 DEF Mine
<1>4. Private' = IF rec.global THEN Private ELSE Private \cup {p}
  BY <1>1, <1>2 DEF Private
<1> QED
  BY <1>1, <1>2, <1>3, <1>4

\* A primitive less.
LEMMA PrimitiveRemoved ==
    ASSUME TypeOK, NEW p \in Living, prims' = Without(prims, p)
    PROVE  /\ Living' = Living \ {p} /\ prims' \in [Living' -> Primitive]
           /\ \A q \in Living \ {p} : prims'[q] = prims[q]
           /\ \A u \in Threads : Mine(u)' = Mine(u) \ {p}
           /\ Private' = Private \ {p}
<1>1. /\ DOMAIN prims' = Living \ {p} /\ \A q \in Living \ {p} : prims'[q] = prims[q]
      /\ prims' \in [Living \ {p} -> Primitive]
  BY DEF Without, Living, TypeOK
<1>2. Living' = Living \ {p}
  BY <1>1 DEF Living
<1>3. \A u \in Threads : Mine(u)' = Mine(u) \ {p}
  BY <1>1, <1>2 DEF Mine
<1>4. Private' = Private \ {p}
  BY <1>1, <1>2 DEF Private
<1> QED
  BY <1>1, <1>2, <1>3, <1>4

\* The executions of other threads keep the storage that they found.
LEMMA OthersGoOn ==
    ASSUME TypeOK, Executions, NEW t \in Threads, Idle(t), UNCHANGED running,
           \A u \in Threads \ {t} : mem_storage_'[u] = mem_storage_[u],
           \A u \in DOMAIN running :
             /\ running[u].prim \in Living'
             /\ prims'[running[u].prim].global = prims[running[u].prim].global
             /\ prims'[running[u].prim].own = prims[running[u].prim].own
    PROVE  Executions'
<1>1. \A u \in DOMAIN running : u \in Threads \ {t}
  BY DEF TypeOK, Idle
<1> QED
  BY <1>1 DEF Executions

-----------------------------------------------------------------------------
(* Every action keeps the invariant *)

LEMMA CreateGlobalKeeps ==
    ASSUME IInv, NEW t \in Threads, NEW p \in Primitives, NEW size \in Sizes,
           CreateGlobal(t, p, size)
    PROVE  IInv'
<1> DEFINE rec == [size |-> size, global |-> TRUE, home |-> t, own |-> Null, forsaken |-> FALSE]
<1>1. PICK scratch \in Constructed(t, size) :
        /\ scratch.storage # Null /\ scratch.size >= size
        /\ Install(t, scratch)
  BY DEF CreateGlobal, Local
<1>2. /\ Fits(t, scratch) /\ scratch.size >= size_[t]
  BY <1>1, ConstructedFits DEF IInv
<1>3. rec \in Primitive /\ rec.global /\ rec.home = t /\ rec.size = size
  BY DEF Primitive
<1>4. p \in Primitives \ Living /\ prims' = With(prims, p, rec)
  BY DEF CreateGlobal
<1> HIDE DEF rec
<1>5. /\ Living' = Living \cup {p} /\ prims' \in [Living' -> Primitive]
      /\ prims'[p] = rec /\ \A q \in Living : prims'[q] = prims[q]
      /\ \A u \in Threads : Mine(u)' = IF u = t THEN Mine(u) \cup {p} ELSE Mine(u)
      /\ Private' = Private
  BY <1>3, <1>4, PrimitiveAdded DEF IInv
<1>6. \A q \in Private : prims'[q] = prims[q]
  BY <1>5 DEF Private
<1>7. /\ MemoryTypes' /\ Memory'
      /\ mem_storage_'[t] = scratch.storage /\ size_'[t] = scratch.size
      /\ \A u \in Threads \ {t} : mem_storage_'[u] = mem_storage_[u] /\ size_'[u] = size_[u]
  BY <1>1, <1>2, <1>5, <1>6, InstallKeepsMemory DEF IInv
<1>8. /\ reference_count_' \in [Threads -> 0..(UINT - 1)]
      /\ \A u \in Threads \ {t} : reference_count_'[u] = reference_count_[u]
      /\ reference_count_'[t] = (reference_count_[t] + 1) % UINT
  BY UintAssumption, PrimitivesAssumption, MineIsFinite DEF CreateGlobal, Local, IInv, TypeOK
<1>9. TypeOK'
  <2>1. \A q \in Living' : prims'[q].global => prims'[q].home \in Threads
    BY <1>3, <1>5 DEF IInv, TypeOK
  <2> QED
    BY <1>5, <1>7, <1>8, <2>1 DEF CreateGlobal, IInv, TypeOK, MemoryTypes
<1>10. Counted'
  <2> SUFFICES ASSUME NEW u \in Threads \ disturbed
               PROVE  /\ reference_count_'[u] = Cardinality(Mine(u)')
                      /\ Mine(u)' = {} => mem_storage_'[u] = Null
    BY DEF CreateGlobal, Counted
  <2>1. CASE u = t
    <3>1. p \notin Mine(t)
      BY <1>4 DEF Mine
    <3>2. Cardinality(Mine(t)') = reference_count_[t] + 1
      BY <1>5, <2>1, <3>1, MineIsFinite, FS_AddElement DEF IInv, Counted
    <3>3. Cardinality(Mine(t)') < UINT
      <4>1. Mine(t) \cup {p} \subseteq Primitives
        BY DEF Mine, IInv, TypeOK
      <4> QED
        BY <1>5, <4>1, MineIsFinite, PrimitivesAssumption, UintAssumption, FS_Subset,
           FS_CardinalityType DEF IInv
    <3>4. (reference_count_[t] + 1) % UINT = reference_count_[t] + 1
      BY <3>2, <3>3, UintAssumption DEF IInv, TypeOK
    <3> QED
      BY <1>5, <1>8, <2>1, <3>2, <3>4
  <2>2. CASE u # t
    BY <1>5, <1>7, <1>8, <2>2 DEF IInv, Counted
  <2> QED
    BY <2>1, <2>2
<1>11. Enough'
  <2> SUFFICES ASSUME NEW u \in Threads \ disturbed, NEW q \in Mine(u)', ~prims'[q].forsaken
               PROVE  size_'[u] >= prims'[q].size
    BY DEF CreateGlobal, Enough
  <2>1. CASE q = p
    BY <1>1, <1>3, <1>5, <1>7, <2>1 DEF Mine
  <2>2. CASE q # p
    <3>1. q \in Mine(u) /\ prims'[q] = prims[q] /\ prims[q].size \in Nat
      BY <1>5, <2>2, SizesAssumption DEF Mine, IInv, TypeOK, Primitive
    <3>2. size_[u] >= prims[q].size
      BY <3>1 DEF IInv, Enough
    <3>3. size_[u] \in Nat /\ size_'[u] \in Nat /\ size_'[u] >= size_[u]
      BY <1>2, <1>7, <1>9 DEF IInv, TypeOK
    <3> QED
      BY <3>1, <3>2, <3>3
  <2> QED
    BY <2>1, <2>2
<1>12. Executions'
  BY <1>5, <1>7, OthersGoOn DEF CreateGlobal, IInv, Executions
<1> QED
  BY <1>7, <1>9, <1>10, <1>11, <1>12 DEF IInv

LEMMA CreateGlobalFailsKeeps ==
    ASSUME IInv, NEW t \in Threads, NEW size \in Sizes, CreateGlobalFails(t, size)
    PROVE  IInv'
<1>1. PICK built \in Constructed(t, size) :
        /\ Install(t, Released(reference_count_[t], built))
        /\ prims' = [p \in Living |-> IF p \in Mine(t) /\ built.failed = 2
                                     THEN [prims[p] EXCEPT !.forsaken = TRUE] ELSE prims[p]]
  BY DEF CreateGlobalFails, Local
<1> DEFINE scratch == Released(reference_count_[t], built)
<1>2. /\ Fits(t, built) /\ (built.failed # 2 => built.size >= size_[t])
  BY ConstructedFits DEF IInv
<1>3. Fits(t, scratch)
  BY <1>2, ReleasedFits DEF IInv
<1>4. IF reference_count_[t] = 0 THEN scratch.storage = Null ELSE scratch = built
  BY DEF Released, Scratchpad
<1>5. /\ Living' = Living /\ prims' \in [Living -> Primitive]
      /\ \A p \in Living : /\ prims'[p].global = prims[p].global
                           /\ prims'[p].home = prims[p].home
                           /\ prims'[p].own = prims[p].own
                           /\ prims'[p].size = prims[p].size
                           /\ ~prims'[p].forsaken => ~prims[p].forsaken /\ ~(p \in Mine(t) /\ built.failed = 2)
                           /\ p \notin Mine(t) => prims'[p] = prims[p]
  <2>1. \A p \in Living : prims[p] \in Primitive
    BY DEF IInv, TypeOK
  <2>2. ASSUME NEW p \in Living
        PROVE  /\ prims'[p] \in Primitive
               /\ prims'[p].global = prims[p].global
               /\ prims'[p].home = prims[p].home
               /\ prims'[p].own = prims[p].own
               /\ prims'[p].size = prims[p].size
               /\ ~prims'[p].forsaken => ~prims[p].forsaken /\ ~(p \in Mine(t) /\ built.failed = 2)
               /\ p \notin Mine(t) => prims'[p] = prims[p]
    <3>1. prims'[p] = IF p \in Mine(t) /\ built.failed = 2
                      THEN [prims[p] EXCEPT !.forsaken = TRUE] ELSE prims[p]
      BY <1>1
    <3> QED
      BY <2>1, <3>1 DEF Primitive
  <2> QED
    BY <1>1, <2>2 DEF Living
<1> HIDE DEF scratch
<1>6. Private' = Private /\ \A p \in Private : prims'[p] = prims[p]
  BY <1>5 DEF Private, Mine
<1>7. /\ MemoryTypes' /\ Memory'
      /\ mem_storage_'[t] = scratch.storage /\ size_'[t] = scratch.size
      /\ \A u \in Threads \ {t} : mem_storage_'[u] = mem_storage_[u] /\ size_'[u] = size_[u]
  <2>1. Install(t, scratch)
    BY <1>1 DEF scratch
  <2> QED
    BY <1>3, <1>6, <2>1, InstallKeepsMemory DEF IInv
<1>8. \A u \in Threads : Mine(u)' = Mine(u)
  BY <1>5 DEF Mine
<1>9. TypeOK'
  BY <1>5, <1>7 DEF CreateGlobalFails, IInv, TypeOK, MemoryTypes
<1>10. Counted'
  BY <1>4, <1>7, <1>8, MineIsFinite DEF CreateGlobalFails, IInv, Counted
<1>11. Enough'
  <2> SUFFICES ASSUME NEW u \in Threads \ disturbed, NEW p \in Mine(u), ~prims'[p].forsaken
               PROVE  size_'[u] >= prims'[p].size
    BY <1>8 DEF CreateGlobalFails, Enough
  <2>1. p \in Living /\ prims'[p].size = prims[p].size /\ ~prims[p].forsaken
    BY <1>5 DEF Mine
  <2>2. size_[u] >= prims[p].size
    BY <2>1 DEF IInv, Enough
  <2>3. CASE u = t
    <3>1. scratch = built /\ built.size >= size_[t]
      BY <1>2, <1>4, <1>5, <2>1, <2>3, MineIsFinite DEF IInv, Counted
    <3> QED
      BY <1>7, <1>9, <2>1, <2>2, <2>3, <3>1, SizesAssumption DEF IInv, TypeOK, Primitive
  <2>4. CASE u # t
    BY <1>7, <2>1, <2>2, <2>4
  <2> QED
    BY <2>3, <2>4
<1>12. Executions'
  BY <1>5, <1>7, OthersGoOn DEF CreateGlobalFails, IInv, Executions
<1> QED
  BY <1>7, <1>9, <1>10, <1>11, <1>12 DEF IInv

LEMMA CreatePrivateKeeps ==
    ASSUME IInv, NEW t \in Threads, NEW p \in Primitives, NEW size \in Sizes,
           CreatePrivate(t, p, size)
    PROVE  IInv'
<1>1. PICK s \in Storages \ DOMAIN heap :
        /\ heap' = With(heap, s, size)
        /\ prims' = With(prims, p, [size |-> size, global |-> FALSE, home |-> Null, own |-> s,
                                    forsaken |-> FALSE])
  BY DEF CreatePrivate
<1> DEFINE rec == [size |-> size, global |-> FALSE, home |-> Null, own |-> s, forsaken |-> FALSE]
<1>2. rec \in Primitive /\ ~rec.global /\ rec.own = s /\ rec.size = size
  BY DEF Primitive
<1>3. p \in Primitives \ Living /\ prims' = With(prims, p, rec)
  BY <1>1 DEF CreatePrivate
<1> HIDE DEF rec
<1>4. /\ Living' = Living \cup {p} /\ prims' \in [Living' -> Primitive]
      /\ prims'[p] = rec /\ \A q \in Living : prims'[q] = prims[q]
      /\ \A u \in Threads : Mine(u)' = Mine(u)
      /\ Private' = Private \cup {p} /\ p \notin Private
  BY <1>2, <1>3, PrimitiveAdded DEF IInv, Private
<1>5. /\ DOMAIN heap' = DOMAIN heap \cup {s} /\ heap'[s] = size
      /\ \A x \in DOMAIN heap : heap'[x] = heap[x]
      /\ heap' \in [DOMAIN heap' -> Nat]
  BY <1>1, SizesAssumption DEF With, IInv, TypeOK
<1>6. UNCHANGED <<mem_storage_, size_, reference_count_, running, disturbed>>
  BY DEF CreatePrivate
<1>7. TypeOK'
  <2>1. \A q \in Living' : prims'[q].global => prims'[q].home \in Threads
    BY <1>2, <1>4 DEF IInv, TypeOK
  <2> QED
    BY <1>3, <1>4, <1>5, <1>6, <2>1 DEF IInv, TypeOK
<1>8. Memory'
  <2>1. /\ \A q \in Private : prims'[q] = prims[q] /\ prims[q].own # s
        /\ \A u \in Threads : mem_storage_[u] # s
    BY <1>4, NullAssumption DEF IInv, Memory, PrimitivesKnowTheirs, ThreadsKnowTheirs, Private
  <2>2. ThreadsKnowTheirs' /\ ThreadsShareNothing'
    BY <1>5, <1>6 DEF IInv, Memory, ThreadsKnowTheirs, ThreadsShareNothing
  <2>3. PrimitivesKnowTheirs' /\ PrimitivesShareNothing'
    BY <1>2, <1>4, <1>5, <2>1 DEF IInv, Memory, PrimitivesKnowTheirs, PrimitivesShareNothing
  <2>4. NoStorageOfBoth'
    BY <1>2, <1>4, <1>6, <2>1 DEF IInv, Memory, NoStorageOfBoth
  <2>5. EveryStorageIsOwned'
    BY <1>2, <1>4, <1>5, <1>6, <2>1 DEF IInv, Memory, EveryStorageIsOwned
  <2> QED
    BY <2>2, <2>3, <2>4, <2>5 DEF Memory
<1>9. Counted'
  BY <1>4, <1>6 DEF IInv, Counted
<1>10. Enough'
  BY <1>4, <1>6 DEF IInv, Enough, Mine
<1>11. Executions'
  BY <1>4, <1>6 DEF IInv, Executions
<1> QED
  BY <1>7, <1>8, <1>9, <1>10, <1>11 DEF IInv

LEMMA ExecutionKeeps ==
    ASSUME IInv, NEW t \in Threads, NEW p, ExecuteBegins(t, p) \/ ExecuteEnds(t)
    PROVE  IInv'
<1>1. UNCHANGED <<mem_storage_, size_, reference_count_, heap, prims, disturbed>>
  BY DEF ExecuteBegins, ExecuteEnds
<1>2. Memory' /\ Counted' /\ Enough'
  <2>1. Living' = Living /\ Private' = Private /\ \A u : Mine(u)' = Mine(u)
    BY <1>1 DEF Private, Mine, Living
  <2>2. ThreadsKnowTheirs' /\ ThreadsShareNothing'
    BY <1>1 DEF IInv, Memory, ThreadsKnowTheirs, ThreadsShareNothing
  <2>3. PrimitivesKnowTheirs' /\ PrimitivesShareNothing'
    BY <1>1, <2>1 DEF IInv, Memory, PrimitivesKnowTheirs, PrimitivesShareNothing
  <2>4. NoStorageOfBoth' /\ EveryStorageIsOwned'
    BY <1>1, <2>1 DEF IInv, Memory, NoStorageOfBoth, EveryStorageIsOwned
  <2>5. Counted' /\ Enough'
    BY <1>1, <2>1 DEF IInv, Counted, Enough
  <2> QED
    BY <2>2, <2>3, <2>4, <2>5 DEF Memory
<1>3. CASE ExecuteBegins(t, p)
  <2> DEFINE storage == IF prims[p].global THEN mem_storage_[t] ELSE prims[p].own
             exec == [prim |-> p, storage |-> storage]
  <2>1. p \in Living /\ ~IsRun(p) /\ running' = With(running, t, exec)
    BY <1>3 DEF ExecuteBegins, Local
  <2>2. exec \in Execution /\ exec.prim = p /\ exec.storage = storage
    BY <2>1 DEF Execution, IInv, TypeOK, Primitive
  <2> HIDE DEF exec
  <2>3. /\ DOMAIN running' = DOMAIN running \cup {t} /\ running'[t] = exec
        /\ t \notin DOMAIN running
        /\ \A u \in DOMAIN running : running'[u] = running[u]
        /\ running' \in [DOMAIN running' -> Execution]
    BY <1>3, <2>1, <2>2 DEF ExecuteBegins, Idle, With, IInv, TypeOK
  <2>4. TypeOK'
    BY <1>1, <2>3 DEF IInv, TypeOK, Living
  <2>5. Executions'
    BY <1>1, <2>1, <2>2, <2>3 DEF IInv, Executions, IsRun, Living
  <2> QED
    BY <1>2, <2>4, <2>5 DEF IInv
<1>4. CASE ExecuteEnds(t)
  <2>1. /\ DOMAIN running' = DOMAIN running \ {t}
        /\ \A u \in DOMAIN running' : running'[u] = running[u]
        /\ running' \in [DOMAIN running' -> Execution]
    BY <1>4 DEF ExecuteEnds, Without, IInv, TypeOK
  <2>2. TypeOK'
    BY <1>1, <2>1 DEF IInv, TypeOK, Living
  <2>3. Executions'
    BY <1>1, <2>1 DEF IInv, Executions, Living
  <2> QED
    BY <1>2, <2>2, <2>3 DEF IInv
<1> QED
  BY <1>3, <1>4

LEMMA DestroyGlobalKeeps ==
    ASSUME IInv, NEW t \in Threads, NEW p \in Primitives, DestroyGlobal(t, p)
    PROVE  IInv'
<1> DEFINE count == (reference_count_[t] + UINT - 1) % UINT
           scratch == Released(count, Current(t))
<1>1. /\ Idle(t) /\ p \in Living /\ ~IsRun(p) /\ prims[p].global
      /\ prims' = Without(prims, p)
      /\ reference_count_' = [reference_count_ EXCEPT ![t] = count]
      /\ Install(t, scratch)
      /\ disturbed' = IF prims[p].home = t THEN disturbed ELSE disturbed \cup {t, prims[p].home}
      /\ UNCHANGED running
  BY DEF DestroyGlobal, Local
<1>2. Fits(t, scratch)
  BY CurrentFits, ReleasedFits DEF IInv
<1>3. IF count = 0 THEN scratch.storage = Null ELSE scratch = Current(t)
  BY DEF Released, Scratchpad
<1>4. Current(t).storage = mem_storage_[t] /\ Current(t).size = size_[t]
  BY DEF Current, Scratchpad
<1>5. count \in 0..(UINT - 1)
  BY UintAssumption, PrimitivesAssumption, MineIsFinite DEF IInv, TypeOK
<1> HIDE DEF scratch, count
<1>6. /\ Living' = Living \ {p} /\ prims' \in [Living' -> Primitive]
      /\ \A q \in Living \ {p} : prims'[q] = prims[q]
      /\ \A u \in Threads : Mine(u)' = Mine(u) \ {p}
      /\ Private' = Private
  BY <1>1, PrimitiveRemoved DEF IInv, Private
<1>7. /\ MemoryTypes' /\ Memory'
      /\ mem_storage_'[t] = scratch.storage /\ size_'[t] = scratch.size
      /\ \A u \in Threads \ {t} : mem_storage_'[u] = mem_storage_[u] /\ size_'[u] = size_[u]
  <2>1. \A q \in Private : prims'[q] = prims[q]
    BY <1>1, <1>6 DEF Private
  <2> QED
    BY <1>1, <1>2, <1>6, <2>1, InstallKeepsMemory DEF IInv
<1>8. /\ reference_count_' \in [Threads -> 0..(UINT - 1)] /\ reference_count_'[t] = count
      /\ \A u \in Threads \ {t} : reference_count_'[u] = reference_count_[u]
  BY <1>1, <1>5 DEF IInv, TypeOK
<1>9. TypeOK'
  BY <1>1, <1>6, <1>7, <1>8 DEF IInv, TypeOK, MemoryTypes, Primitive
\* A thread that stays undisturbed lost a primitive of its own, or none.
<1>10. ASSUME NEW u \in Threads \ disturbed'
       PROVE  /\ u \notin disturbed
              /\ u = t => p \in Mine(t)
              /\ u # t => Mine(u)' = Mine(u)
  BY <1>1, <1>6, <1>10 DEF Mine
<1>11. t \notin disturbed' => count = Cardinality(Mine(t)')
  <2> SUFFICES ASSUME t \notin disturbed'
               PROVE  count = Cardinality(Mine(t)')
    OBVIOUS
  <2>1. /\ Cardinality(Mine(t)') = reference_count_[t] - 1
        /\ reference_count_[t] \in 1..(UINT - 1)
    BY <1>6, <1>10, MineIsFinite, FS_RemoveElement DEF IInv, TypeOK, Counted
  <2>2. (reference_count_[t] + UINT - 1) % UINT = reference_count_[t] - 1
    BY <2>1, UintAssumption
  <2> QED
    BY <2>1, <2>2 DEF count
<1>12. Counted'
  <2> SUFFICES ASSUME NEW u \in Threads \ disturbed'
               PROVE  /\ reference_count_'[u] = Cardinality(Mine(u)')
                      /\ Mine(u)' = {} => mem_storage_'[u] = Null
    BY DEF Counted
  <2>1. CASE u = t
    BY <1>3, <1>7, <1>8, <1>11, <2>1, FS_EmptySet
  <2>2. CASE u # t
    BY <1>7, <1>8, <1>10, <2>2 DEF IInv, Counted
  <2> QED
    BY <2>1, <2>2
<1>13. Enough'
  <2> SUFFICES ASSUME NEW u \in Threads \ disturbed', NEW q \in Mine(u)', ~prims'[q].forsaken
               PROVE  size_'[u] >= prims'[q].size
    BY DEF Enough
  <2>1. q \in Mine(u) /\ prims'[q] = prims[q]
    BY <1>6 DEF Mine
  <2>2. size_[u] >= prims[q].size
    BY <1>10, <2>1 DEF IInv, Enough
  <2>3. CASE u = t
    <3>1. Mine(t)' # {} /\ IsFiniteSet(Mine(t)')
      BY <1>6, <2>3, MineIsFinite, FS_RemoveElement DEF IInv
    <3>2. count # 0
      BY <1>11, <2>3, <3>1, FS_EmptySet
    <3> QED
      BY <1>3, <1>4, <1>7, <2>1, <2>2, <2>3, <3>2
  <2>4. CASE u # t
    BY <1>7, <2>1, <2>2, <2>4
  <2> QED
    BY <2>3, <2>4
<1>14. Executions'
  <2>1. \A u \in DOMAIN running : running[u].prim \in Living \ {p}
    BY <1>1 DEF IInv, Executions, IsRun
  <2> QED
    BY <1>1, <1>6, <1>7, <2>1, OthersGoOn DEF IInv
<1> QED
  BY <1>7, <1>9, <1>12, <1>13, <1>14 DEF IInv

LEMMA DestroyPrivateKeeps ==
    ASSUME IInv, NEW t \in Threads, NEW p \in Primitives, DestroyPrivate(t, p)
    PROVE  IInv'
<1>1. /\ p \in Living /\ ~IsRun(p) /\ ~prims[p].global
      /\ prims' = Without(prims, p) /\ heap' = Without(heap, prims[p].own)
      /\ UNCHANGED <<mem_storage_, size_, reference_count_, running, disturbed>>
  BY DEF DestroyPrivate
<1>2. /\ Living' = Living \ {p} /\ prims' \in [Living' -> Primitive]
      /\ \A q \in Living \ {p} : prims'[q] = prims[q]
      /\ \A u \in Threads : Mine(u)' = Mine(u)
      /\ Private' = Private \ {p} /\ p \in Private
  BY <1>1, PrimitiveRemoved DEF IInv, Mine, Private
<1>3. /\ DOMAIN heap' = DOMAIN heap \ {prims[p].own}
      /\ \A s \in DOMAIN heap' : heap'[s] = heap[s]
      /\ heap' \in [DOMAIN heap' -> Nat]
  BY <1>1 DEF Without, IInv, TypeOK
<1>4. TypeOK'
  BY <1>1, <1>2, <1>3 DEF IInv, TypeOK
<1>5. Memory'
  <2>1. ThreadsKnowTheirs' /\ ThreadsShareNothing'
    BY <1>1, <1>2, <1>3 DEF IInv, Memory, ThreadsKnowTheirs, ThreadsShareNothing, NoStorageOfBoth
  <2>2. \A q \in Private' : q \in Private /\ q # p /\ prims'[q] = prims[q]
    BY <1>2 DEF Private
  <2>3. PrimitivesKnowTheirs' /\ PrimitivesShareNothing'
    BY <1>2, <1>3, <2>2 DEF IInv, Memory, PrimitivesKnowTheirs, PrimitivesShareNothing
  <2>4. NoStorageOfBoth'
    BY <1>1, <2>2 DEF IInv, Memory, NoStorageOfBoth
  <2>5. EveryStorageIsOwned'
    BY <1>1, <1>2, <1>3, <2>2 DEF IInv, Memory, EveryStorageIsOwned
  <2> QED
    BY <2>1, <2>3, <2>4, <2>5 DEF Memory
<1>6. Counted'
  BY <1>1, <1>2 DEF IInv, Counted
<1>7. Enough'
  BY <1>1, <1>2 DEF IInv, Enough, Mine
<1>8. Executions'
  BY <1>1, <1>2 DEF IInv, Executions, IsRun
<1> QED
  BY <1>4, <1>5, <1>6, <1>7, <1>8 DEF IInv

-----------------------------------------------------------------------------

LEMMA InitHolds ==
    ASSUME Init
    PROVE  IInv
<1>1. Living = {} /\ Private = {} /\ \A t : Mine(t) = {}
  BY DEF Init, Living, Private, Mine
<1>2. TypeOK
  BY <1>1, UintAssumption, PrimitivesAssumption, FS_CardinalityType DEF Init, TypeOK, Living
<1>3. Memory
  BY <1>1 DEF Init, Memory, ThreadsKnowTheirs, PrimitivesKnowTheirs, ThreadsShareNothing,
     PrimitivesShareNothing, NoStorageOfBoth, EveryStorageIsOwned
<1>4. Counted /\ Enough /\ Executions
  BY <1>1, FS_EmptySet DEF Init, Counted, Enough, Executions
<1> QED
  BY <1>2, <1>3, <1>4 DEF IInv

LEMMA StutteringKeeps ==
    ASSUME IInv, UNCHANGED vars
    PROVE  IInv'
<1>1. UNCHANGED <<mem_storage_, size_, reference_count_, heap, prims, running, disturbed>>
  BY DEF vars
<1>2. Living' = Living /\ Private' = Private /\ \A u : Mine(u)' = Mine(u)
  BY <1>1 DEF Private, Mine, Living
<1>3. TypeOK' /\ Executions' /\ Counted' /\ Enough'
  BY <1>1, <1>2 DEF IInv, TypeOK, Executions, Counted, Enough
<1>4. Memory'
  BY <1>1, <1>2 DEF IInv, Memory, ThreadsKnowTheirs, PrimitivesKnowTheirs, ThreadsShareNothing,
     PrimitivesShareNothing, NoStorageOfBoth, EveryStorageIsOwned
<1> QED
  BY <1>3, <1>4 DEF IInv

LEMMA Inductive == Spec => []IInv
<1>1. ASSUME IInv, [Next]_vars
      PROVE  IInv'
  <2>1. CASE UNCHANGED vars
    BY <1>1, <2>1, StutteringKeeps
  <2>2. CASE Next
    BY <1>1, <2>2, CreateGlobalKeeps, CreateGlobalFailsKeeps, CreatePrivateKeeps, ExecutionKeeps,
       DestroyGlobalKeeps, DestroyPrivateKeeps DEF Next
  <2> QED
    BY <1>1, <2>1, <2>2
<1> QED
  BY <1>1, InitHolds, PTL DEF Spec

\* scratchpad.cpp, primitive.cpp: a primitive that has a scratchpad (HasScratchpad:
\* its own, or its thread's if that is undisturbed and did not forsake it) executes
\* with a storage that exists and is large enough.
THEOREM ScratchpadsSuffice == Spec => []EveryExecutionIsServed
<1>1. ASSUME IInv
      PROVE  EveryExecutionIsServed
  <2> SUFFICES ASSUME NEW t \in DOMAIN running, HasScratchpad(t, running[t].prim)
               PROVE  /\ running[t].storage \in DOMAIN heap
                      /\ heap[running[t].storage] >= prims[running[t].prim].size
    BY DEF EveryExecutionIsServed
  <2> DEFINE p == running[t].prim
  <2>1. /\ p \in Living /\ t \in Threads
        /\ running[t].storage = IF prims[p].global THEN mem_storage_[t] ELSE prims[p].own
        /\ prims[p].size \in Nat \ {0}
    BY <1>1, SizesAssumption DEF IInv, TypeOK, Executions, Primitive
  <2>2. CASE prims[p].global
    <3>1. size_[t] >= prims[p].size
      BY <1>1, <2>1, <2>2 DEF IInv, Enough, HasScratchpad, Mine
    <3>2. mem_storage_[t] # Null
      BY <1>1, <2>1, <3>1 DEF IInv, Memory, ThreadsKnowTheirs
    <3> QED
      BY <1>1, <2>1, <2>2, <3>1, <3>2 DEF IInv, Memory, ThreadsKnowTheirs
  <2>3. CASE ~prims[p].global
    BY <1>1, <2>1, <2>3 DEF IInv, Memory, PrimitivesKnowTheirs, Private
  <2> QED
    BY <2>2, <2>3
<1> QED
  BY <1>1, Inductive, PTL

\* No two executions have a storage in common.
THEOREM StoragesAreNotShared == Spec => []NoSharedStorage
<1>1. ASSUME IInv
      PROVE  NoSharedStorage
  <2> SUFFICES ASSUME NEW t \in DOMAIN running, NEW u \in DOMAIN running, t # u,
                      running[t].storage # Null
               PROVE  running[t].storage # running[u].storage
    BY DEF NoSharedStorage
  <2>1. \A v \in {t, u} :
          /\ v \in Threads /\ running[v].prim \in Living
          /\ running[v].storage =
               IF prims[running[v].prim].global THEN mem_storage_[v] ELSE prims[running[v].prim].own
          /\ ~prims[running[v].prim].global => running[v].prim \in Private
    BY <1>1 DEF IInv, TypeOK, Executions, Private
  <2>2. running[t].prim # running[u].prim
    BY <1>1 DEF IInv, Executions
  <2> QED
    BY <1>1, <2>1, <2>2 DEF IInv, Memory, ThreadsShareNothing, PrimitivesShareNothing, NoStorageOfBoth
<1> QED
  BY <1>1, Inductive, PTL

\* Every storage has an owner, and the last primitive of a thread whose count is
\* undisturbed takes the thread's storage with it.
THEOREM NoStorageLeaks == Spec => []NothingLeaks
<1>1. ASSUME IInv
      PROVE  NothingLeaks
  BY <1>1 DEF IInv, Memory, EveryStorageIsOwned, Counted, NothingLeaks, Private
<1> QED
  BY <1>1, Inductive, PTL
=============================================================================
