-------------------------- MODULE GlobalScratchpad --------------------------
(***************************************************************************)
(* The library's scratchpads (common/scratchpad.cpp) and the primitives    *)
(* that use them (zendnn_primitive in common/primitive.cpp): a primitive   *)
(* has either a storage of its own or, if the build and its implementation *)
(* say so, the one of the thread that runs it, which all such primitives   *)
(* of the thread have in common.  That one grows with the primitives, and  *)
(* goes with the last of them.                                             *)
(*                                                                         *)
(* What a thread does to its thread-local variables nobody else sees, so   *)
(* creating and destroying a primitive are one action each.  An execution  *)
(* is two: it keeps the storage that it found at its start.                *)
(***************************************************************************)
EXTENDS Integers, FiniteSets

CONSTANTS
    Threads,
    Primitives,    \* identities of zendnn_primitive
    Storages,      \* identities of memory_storage_t
    Sizes,         \* scratchpad sizes that primitives need
    ENABLE_CONCURRENT_EXEC,    \* the macro: 0 or 1
    UINT,          \* values of an unsigned int
    MaxFaults,     \* bound on the allocations that fail
    Null

ASSUME SizesAssumption == Sizes \subseteq Nat \ {0}
ASSUME NullAssumption == Null \notin Storages \cup Threads
ASSUME PrimitivesAssumption == IsFiniteSet(Primitives) /\ Cardinality(Primitives) < UINT
ASSUME UintAssumption == UINT \in Nat
ASSUME FaultsAssumption == MaxFaults \in Nat

VARIABLES
    mem_storage_, size_, reference_count_,    \* per thread
    heap,         \* the storages there are, and how large they really are
    prims,        \* per primitive there is, what it needs and has
    running,      \* per thread that executes, the primitive and the storage
    disturbed,    \* threads whose count a foreign primitive was counted off
    faults        \* allocations that have failed (bound, not code)

vars == <<mem_storage_, size_, reference_count_, heap, prims, running, disturbed, faults>>

\* home: the thread it was created on, if that matters.  forsaken:
\* its thread's storage was lost to an allocation that failed twice.
Primitive == [size : Sizes, global : BOOLEAN, home : Threads \cup {Null}, own : Storages \cup {Null},
              forsaken : BOOLEAN]

Execution == [prim : Primitives, storage : Storages \cup {Null}]

\* MUTANT of Local: the static members are not thread-local.
LocalToNobody(t) == CHOOSE u \in Threads : TRUE

\* The instance of the thread-local variables that a thread sees.
Local(t) == t

Living == DOMAIN prims
Mine(t) == {p \in Living : prims[p].global /\ prims[p].home = t}
Idle(t) == t \notin DOMAIN running
IsRun(p) == \E t \in DOMAIN running : running[t].prim = p

-----------------------------------------------------------------------------
(* Memory *)

\* Partial functions: the storages, the primitives and the executions there are.
Without(f, x) == [y \in DOMAIN f \ {x} |-> f[y]]
With(f, x, val) == [y \in DOMAIN f \cup {x} |-> IF y = x THEN val ELSE f[y]]

\* The thread's storage and what the heap is with it.
Scratchpad(h, storage, size, failed) ==
    [heap |-> h, storage |-> storage, size |-> size, failed |-> failed]

Current(t) == Scratchpad(heap, mem_storage_[t], size_[t], 0)

\* MUTANT of Constructed: size_ is set before the allocation succeeds.
ConstructedTooSoon(t, size) ==
    LET left == Without(heap, mem_storage_[t])
    IN  IF size <= size_[t] THEN {Current(t)}
        ELSE {Scratchpad(With(left, s, size), s, size, 0) : s \in Storages \ DOMAIN left}
             \cup {Scratchpad(With(left, s, size_[t]), s, size, 1) : s \in Storages \ DOMAIN left}
             \cup {Scratchpad(left, Null, 0, 2)}

\* global_scratchpad_t: a storage that is too small goes first; when there is no
\* memory for a larger one, one of the old size is asked for.
Constructed(t, size) ==
    LET left == Without(heap, mem_storage_[t])
    IN  IF size <= size_[t] THEN {Current(t)}
        ELSE {Scratchpad(With(left, s, size), s, size, 0) : s \in Storages \ DOMAIN left}
             \cup {Scratchpad(With(left, s, size_[t]), s, size_[t], 1) : s \in Storages \ DOMAIN left}
             \cup {Scratchpad(left, Null, 0, 2)}

\* MUTANT of Released: the pointer is cleared, but the storage is not deleted.
ReleasedPointer(count, scratch) ==
    IF count = 0 THEN Scratchpad(scratch.heap, Null, 0, scratch.failed) ELSE scratch

\* ~global_scratchpad_t, behind the decrement.
Released(count, scratch) ==
    IF count = 0 THEN Scratchpad(Without(scratch.heap, scratch.storage), Null, 0, scratch.failed)
    ELSE scratch

Install(t, scratch) ==
    /\ heap' = scratch.heap
    /\ mem_storage_' = [mem_storage_ EXCEPT ![t] = scratch.storage]
    /\ size_' = [size_ EXCEPT ![t] = scratch.size]

Fail(n) == faults + n <= MaxFaults /\ faults' = faults + n

-----------------------------------------------------------------------------
(* The application's calls *)

\* zendnn_primitive::init: what an implementation with use_global_scratchpad
\* gets is enough.
CreateGlobal(t, p, size) ==
    /\ Idle(t) /\ p \notin Living /\ ENABLE_CONCURRENT_EXEC = 1
    /\ \E scratch \in Constructed(Local(t), size) :
         /\ scratch.storage # Null /\ scratch.size >= size
         /\ Fail(scratch.failed)
         /\ Install(Local(t), scratch)
    /\ reference_count_' = [reference_count_ EXCEPT ![Local(t)] = (@ + 1) % UINT]
    /\ prims' = With(prims, p, [size |-> size, global |-> TRUE, home |-> t, own |-> Null,
                                forsaken |-> FALSE])
    /\ UNCHANGED <<running, disturbed>>

\* It is not, or create_resource fails: the scratchpad is destroyed again, with
\* the primitive or before.
CreateGlobalFails(t, size) ==
    /\ Idle(t) /\ ENABLE_CONCURRENT_EXEC = 1
    /\ \E scratch \in Constructed(Local(t), size) :
         /\ Fail(scratch.failed)
         /\ Install(Local(t), Released(reference_count_[Local(t)], scratch))
         /\ prims' = [p \in Living |->
                        IF p \in Mine(t) /\ scratch.failed = 2
                        THEN [prims[p] EXCEPT !.forsaken = TRUE] ELSE prims[p]]
    /\ UNCHANGED <<reference_count_, running, disturbed>>

\* concurrent_scratchpad_t
CreatePrivate(t, p, size) ==
    /\ Idle(t) /\ p \notin Living
    /\ \E s \in Storages \ DOMAIN heap :
         /\ heap' = With(heap, s, size)
         /\ prims' = With(prims, p, [size |-> size, global |-> FALSE, home |-> Null, own |-> s,
                                     forsaken |-> FALSE])
    /\ UNCHANGED <<mem_storage_, size_, reference_count_, running, disturbed, faults>>

\* No primitive is run by two threads at a time.
ExecuteBegins(t, p) ==
    /\ Idle(t) /\ p \in Living /\ ~IsRun(p)
    /\ running' = With(running, t,
         [prim |-> p, storage |-> IF prims[p].global THEN mem_storage_[Local(t)] ELSE prims[p].own])
    /\ UNCHANGED <<mem_storage_, size_, reference_count_, heap, prims, disturbed, faults>>

ExecuteEnds(t) ==
    /\ ~Idle(t)
    /\ running' = Without(running, t)
    /\ UNCHANGED <<mem_storage_, size_, reference_count_, heap, prims, disturbed, faults>>

\* The last reference to a primitive goes, on whatever thread.
DestroyGlobal(t, p) ==
    LET count == (reference_count_[Local(t)] + UINT - 1) % UINT
    IN  /\ Idle(t) /\ p \in Living /\ ~IsRun(p) /\ prims[p].global
        /\ prims' = Without(prims, p)
        /\ reference_count_' = [reference_count_ EXCEPT ![Local(t)] = count]
        /\ Install(Local(t), Released(count, Current(Local(t))))
        /\ disturbed' = IF prims[p].home = t THEN disturbed ELSE disturbed \cup {t, prims[p].home}
        /\ UNCHANGED <<running, faults>>

DestroyPrivate(t, p) ==
    /\ Idle(t) /\ p \in Living /\ ~IsRun(p) /\ ~prims[p].global
    /\ prims' = Without(prims, p)
    /\ heap' = Without(heap, prims[p].own)
    /\ UNCHANGED <<mem_storage_, size_, reference_count_, running, disturbed, faults>>

Init ==
    /\ mem_storage_ = [t \in Threads |-> Null]
    /\ size_ = [t \in Threads |-> 0]
    /\ reference_count_ = [t \in Threads |-> 0]
    /\ heap = [s \in {} |-> 0]
    /\ prims = [p \in {} |-> 0]
    /\ running = [t \in {} |-> 0]
    /\ disturbed = {}
    /\ faults = 0

Next ==
    \E t \in Threads :
        \/ \E size \in Sizes : CreateGlobalFails(t, size)
        \/ \E p \in Primitives, size \in Sizes : CreateGlobal(t, p, size) \/ CreatePrivate(t, p, size)
        \/ \E p \in Primitives : ExecuteBegins(t, p) \/ DestroyGlobal(t, p) \/ DestroyPrivate(t, p)
        \/ ExecuteEnds(t)

Spec == Init /\ [][Next]_vars

-----------------------------------------------------------------------------
(* Correctness *)

\* The variables have the types of the code's.
TypeOK ==
    /\ mem_storage_ \in [Threads -> Storages \cup {Null}]
    /\ size_ \in [Threads -> Nat]
    /\ reference_count_ \in [Threads -> 0..(UINT - 1)]
    /\ DOMAIN heap \subseteq Storages /\ heap \in [DOMAIN heap -> Nat]
    /\ Living \subseteq Primitives /\ prims \in [Living -> Primitive]
    /\ \A p \in Living : prims[p].global => prims[p].home \in Threads
    /\ DOMAIN running \subseteq Threads /\ running \in [DOMAIN running -> Execution]
    /\ disturbed \subseteq Threads

\* The scratchpad is the primitive's own; or that of the thread it was created
\* on, from which no foreign primitive was counted off.
HasScratchpad(t, p) ==
    prims[p].global => prims[p].home = t /\ t \notin disturbed /\ ~prims[p].forsaken

\* However the common storage grew, shrank back or was freed meanwhile: a
\* primitive that was created and is executed on one thread, or that has a
\* scratchpad of its own, executes with a storage that exists and is as large
\* as it needs.  Excepted are, of the former, those on threads whose count is
\* disturbed, and those whose storage was lost to two failures (forsaken).
EveryExecutionIsServed ==
    \A t \in DOMAIN running : HasScratchpad(t, running[t].prim) =>
        /\ running[t].storage \in DOMAIN heap
        /\ heap[running[t].storage] >= prims[running[t].prim].size

\* Two threads never work in one storage, whatever primitives they execute.
NoSharedStorage ==
    \A t, u \in DOMAIN running :
        t # u /\ running[t].storage # Null => running[t].storage # running[u].storage

\* Every storage is somebody's, and a thread without primitives has none, unless
\* its count is disturbed: it may then keep its storage for ever.
NothingLeaks ==
    /\ DOMAIN heap \subseteq {mem_storage_[t] : t \in Threads} \cup {prims[p].own : p \in Living}
    /\ \A t \in Threads \ disturbed : Mine(t) = {} => mem_storage_[t] = Null
=============================================================================
