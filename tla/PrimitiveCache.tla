--------------------------- MODULE PrimitiveCache ---------------------------
(***************************************************************************)
(* The primitive cache (common/primitive_cache.cpp) together with the one  *)
(* protocol that uses it, primitive_t::create_primitive_common             *)
(* (common/primitive.hpp).                                                 *)
(*                                                                         *)
(* A thread that creates a primitive looks its key up.  On a hit it waits  *)
(* for the shared future of the entry; on a miss it has inserted its own   *)
(* future, builds the primitive (which may create a nested one through the *)
(* same cache), sets the promise and then repairs or removes its entry.    *)
(* Between any two of those steps other threads may hit, evict, re-insert  *)
(* or resize.                                                              *)
(*                                                                         *)
(* Every section under the write lock is one action, except the removal of *)
(* an invalidated entry: it waits for a future while it holds the lock.    *)
(***************************************************************************)
EXTENDS Naturals, FiniteSets, Sequences, Functions, SequencesExt

CONSTANTS
    Threads,     \* application threads
    Keys,        \* primitive_hashing::key_t, up to operator==
    Futures,     \* identities of promise / shared state / primitive
    NestedOf,    \* the key of the primitive that init() of a key creates
    Checks,      \* the keys whose init() checks the status of that creation
    CanFail,     \* the keys whose own init() may fail
    Capacities,  \* capacities the cache is given (environment, set_capacity)
    MaxCalls,    \* bound on the API calls of a behaviour
    NoKey, NoFuture, NoThread

ASSUME NestedAssumption == NestedOf \in [Keys -> Keys \cup {NoKey}]
\* No chain of creations comes back to a key: it would never end.
ASSUME NestingAssumption == \A S \in SUBSET Keys : S # {} => \E k \in S : NestedOf[k] \notin S
ASSUME CapacityAssumption == Capacities \subseteq Nat
ASSUME MaxCallsAssumption == MaxCalls \in Nat
ASSUME NoneAssumption ==
    /\ NoKey \notin Keys
    /\ NoFuture \notin Futures
    /\ NoThread \notin Threads
ASSUME KeySetsAssumption == Checks \subseteq Keys /\ CanFail \subseteq Keys

VARIABLES
    capacity_,      \* size_t capacity_
    cache_list_,    \* the nodes of the list, most recently used first
    cache_mapper_,  \* key -> its copy of the key's pointers and the list node
    shared,         \* the shared states: what each promise has been set to
    writer,         \* the thread that holds rw_mutex() across actions
    stack,          \* per thread, the active calls, innermost first
    calls           \* API calls made so far (bound, not code)

vars == <<capacity_, cache_list_, cache_mapper_, shared, writer, stack, calls>>

-----------------------------------------------------------------------------
(* Data *)

\* A created primitive is "hollow" when a primitive it needs was not created.
Primitives == {"whole", "hollow"}
Outcomes == Primitives \cup {"failed"}

\* Where the op_desc_ and attr_ pointers of a key point: into the primitive
\* descriptor of the caller, or into the copy that the primitive keeps.
Descs == [in : {"pd", "primitive"}, of : Futures]

Nodes == [key : Keys, thread_id_ : Threads, desc : Descs, value : Futures]
Slots == [thread_id_ : Threads, desc : Descs, node : Futures]

Pcs == {"get_or_add", "lock_write", "wait", "init", "nested",
        "update_entry", "remove_if_invalidated", "removing"}

Frames == [pc : Pcs, key : Keys, fut : Futures \cup {NoFuture},
           nested : Outcomes \cup {"none"}]

\* A node of the list is identified by the future it carries, so an iterator
\* into the list is that future.
IndexOf(f) == CHOOSE i \in DOMAIN cache_list_ : cache_list_[i].value = f

NodeAt(f) == cache_list_[IndexOf(f)]

Cached == DOMAIN cache_mapper_

Active(t) == stack[t] # <<>>

Top(t) == stack[t][1]

FramesOf(t) == {stack[t][i] : i \in DOMAIN stack[t]}

AllFrames == UNION {FramesOf(t) : t \in Threads}

\* A shared state, with the primitive in it, is freed with its last reference.
Referenced ==
    {n.value : n \in ToSet(cache_list_)}
        \cup {n.desc.of : n \in ToSet(cache_list_)}
        \cup {cache_mapper_[k].desc.of : k \in Cached}
        \cup {fr.fut : fr \in AllFrames}

FreshFuture == CHOOSE f \in Futures : f \notin Referenced

SomeFutureIsFree == \E f \in Futures : f \notin Referenced

-----------------------------------------------------------------------------
(* The private operations of lru_primitive_cache_t, on a list and a map    *)

\* evict(n): the last n nodes go, and the map's keys with them.
EvictedList(list, n) == SubSeq(list, 1, Len(list) - n)

EvictedMapper(list, mapper, n) ==
    LET gone == {list[i].key : i \in (Len(list) - n + 1)..Len(list)}
    IN  Restrict(mapper, DOMAIN mapper \ gone)

\* MUTANT of Spliced: a hit does not refresh the entry.
SplicedNowhere(list, i) == list

\* get(key) on a hit: splice the node to the front.
Spliced(list, i) == <<list[i]>> \o RemoveAt(list, i)

\* MUTANT of Add: the list is compared with the capacity after the insertion of
\* one node too many.
AddEvictsTooLate(t, k, f) ==
    LET excess  == IF Cardinality(Cached) > capacity_ THEN 1 ELSE 0
        desc    == [in |-> "pd", of |-> f]
        node    == [key |-> k, thread_id_ |-> t, desc |-> desc, value |-> f]
        slot    == [thread_id_ |-> t, desc |-> desc, node |-> f]
        smaller == EvictedMapper(cache_list_, cache_mapper_, excess)
    IN  /\ cache_list_' = <<node>> \o EvictedList(cache_list_, excess)
        /\ cache_mapper_' =
             [x \in DOMAIN smaller \cup {k} |-> IF x = k THEN slot ELSE smaller[x]]

\* add(key, value): evict one node of a full cache, put the new one in front.
Add(t, k, f) ==
    LET excess  == IF Cardinality(Cached) = capacity_ THEN 1 ELSE 0
        desc    == [in |-> "pd", of |-> f]
        node    == [key |-> k, thread_id_ |-> t, desc |-> desc, value |-> f]
        slot    == [thread_id_ |-> t, desc |-> desc, node |-> f]
        smaller == EvictedMapper(cache_list_, cache_mapper_, excess)
    IN  /\ cache_list_' = <<node>> \o EvictedList(cache_list_, excess)
        /\ cache_mapper_' =
             [x \in DOMAIN smaller \cup {k} |-> IF x = k THEN slot ELSE smaller[x]]

-----------------------------------------------------------------------------
(* Frames *)

NewFrame(k) == [pc |-> "get_or_add", key |-> k, fut |-> NoFuture, nested |-> "none"]

GoTo(t, pc) == stack' = [stack EXCEPT ![t] = <<[Top(t) EXCEPT !.pc = pc]>> \o Tail(@)]

GoToWith(t, pc, f) ==
    stack' = [stack EXCEPT ![t] = <<[Top(t) EXCEPT !.pc = pc, !.fut = f]>> \o Tail(@)]

\* create_primitive_common returns: to the init() that called it, which keeps
\* the outcome, or to the application.
Return(t, outcome) ==
    LET below == Tail(stack[t])
    IN  stack' = [stack EXCEPT ![t] =
            IF below = <<>> THEN <<>>
            ELSE <<[below[1] EXCEPT !.pc = "init", !.nested = outcome]>> \o Tail(below)]

Unlocked == writer = NoThread

-----------------------------------------------------------------------------
(* The application *)

\* zendnn_primitive_create
Call(t, k) ==
    /\ ~Active(t)
    /\ calls < MaxCalls
    /\ calls' = calls + 1
    /\ stack' = [stack EXCEPT ![t] = <<NewFrame(k)>>]
    /\ UNCHANGED <<capacity_, cache_list_, cache_mapper_, shared, writer>>

\* zendnn_set_primitive_cache_capacity
SetCapacity(t, c) ==
    LET excess == IF Len(cache_list_) > c THEN Len(cache_list_) - c ELSE 0
    IN  /\ ~Active(t)
        /\ calls < MaxCalls
        /\ calls' = calls + 1
        /\ Unlocked
        /\ capacity_' = c
        /\ cache_list_' = EvictedList(cache_list_, excess)
        /\ cache_mapper_' = EvictedMapper(cache_list_, cache_mapper_, excess)
        /\ UNCHANGED <<shared, writer, stack>>

-----------------------------------------------------------------------------
(* create_primitive_common, step by step *)

\* get_or_add, the section under the read lock.
ReadCapacity(t) ==
    /\ Active(t) /\ Top(t).pc = "get_or_add"
    /\ Unlocked
    /\ IF capacity_ = 0
       THEN /\ SomeFutureIsFree
            /\ GoToWith(t, "init", FreshFuture)
            /\ shared' = [shared EXCEPT ![FreshFuture] = "unset"]
       ELSE /\ GoTo(t, "lock_write")
            /\ UNCHANGED shared
    /\ UNCHANGED <<capacity_, cache_list_, cache_mapper_, writer, calls>>

\* get_or_add under the write lock: the capacity became 0 in between.
FindDisabled(t) ==
    /\ Active(t) /\ Top(t).pc = "lock_write"
    /\ Unlocked
    /\ capacity_ = 0
    /\ SomeFutureIsFree
    /\ GoToWith(t, "init", FreshFuture)
    /\ shared' = [shared EXCEPT ![FreshFuture] = "unset"]
    /\ UNCHANGED <<capacity_, cache_list_, cache_mapper_, writer, calls>>

\* MUTANT of Hit: an entry that is still being built is built once more.
HitBuildsAgain(t) ==
    LET f == cache_mapper_[Top(t).key].node
    IN  /\ Active(t) /\ Top(t).pc = "lock_write"
        /\ Unlocked
        /\ capacity_ # 0
        /\ Top(t).key \in Cached
        /\ GoToWith(t, IF shared[f] = "unset" THEN "init" ELSE "wait", f)
        /\ UNCHANGED <<capacity_, cache_list_, cache_mapper_, shared, writer, calls>>

\* get_or_add under the write lock: the key is there and becomes the newest.
Hit(t) ==
    LET k == Top(t).key
    IN  /\ Active(t) /\ Top(t).pc = "lock_write"
        /\ Unlocked
        /\ capacity_ # 0
        /\ k \in Cached
        /\ cache_list_' = Spliced(cache_list_, IndexOf(cache_mapper_[k].node))
        /\ GoToWith(t, "wait", cache_mapper_[k].node)
        /\ UNCHANGED <<capacity_, cache_mapper_, shared, writer, calls>>

\* get_or_add under the write lock: the key is added with the caller's future.
Miss(t) ==
    LET k == Top(t).key
    IN  /\ Active(t) /\ Top(t).pc = "lock_write"
        /\ Unlocked
        /\ capacity_ # 0
        /\ k \notin Cached
        /\ SomeFutureIsFree
        /\ Add(t, k, FreshFuture)
        /\ shared' = [shared EXCEPT ![FreshFuture] = "unset"]
        /\ GoToWith(t, "init", FreshFuture)
        /\ UNCHANGED <<capacity_, writer, calls>>

\* MUTANT of GetFuture: the future is read without waiting for the promise.
GetFutureEarly(t) ==
    /\ Active(t) /\ Top(t).pc = "wait"
    /\ Return(t, shared[Top(t).fut])
    /\ UNCHANGED <<capacity_, cache_list_, cache_mapper_, shared, writer, calls>>

\* p_future.get() of a hit: blocks until the promise is set, then returns the
\* primitive or the error status.
GetFuture(t) ==
    /\ Active(t) /\ Top(t).pc = "wait"
    /\ shared[Top(t).fut] # "unset"
    /\ Return(t, shared[Top(t).fut])
    /\ UNCHANGED <<capacity_, cache_list_, cache_mapper_, shared, writer, calls>>

\* init() creates a nested primitive through the same protocol.
CreateNested(t) ==
    /\ Active(t) /\ Top(t).pc = "init"
    /\ NestedOf[Top(t).key] # NoKey
    /\ Top(t).nested = "none"
    /\ stack' = [stack EXCEPT ![t] =
            <<NewFrame(NestedOf[Top(t).key]), [Top(t) EXCEPT !.pc = "nested"]>> \o Tail(@)]
    /\ UNCHANGED <<capacity_, cache_list_, cache_mapper_, shared, writer, calls>>

\* init() is about to return: nothing nested is left to create.
InitEnds(t) ==
    /\ Active(t) /\ Top(t).pc = "init"
    /\ NestedOf[Top(t).key] = NoKey \/ Top(t).nested # "none"

\* What init() makes of the outcome of the nested creation.
Built(fr) == IF fr.nested \in {"none", "whole"} THEN "whole" ELSE "hollow"

\* init() succeeded: p_promise.set_value({p, status}).
InitSucceeds(t) ==
    /\ InitEnds(t)
    /\ ~(Top(t).nested = "failed" /\ Top(t).key \in Checks)
    /\ shared' = [shared EXCEPT ![Top(t).fut] = Built(Top(t))]
    /\ GoTo(t, "update_entry")
    /\ UNCHANGED <<capacity_, cache_list_, cache_mapper_, writer, calls>>

\* MUTANT of InitFails: the invalidated entry stays in the cache.
InitFailsAndLeaves(t) ==
    /\ InitEnds(t)
    /\ Top(t).key \in CanFail
    /\ shared' = [shared EXCEPT ![Top(t).fut] = "failed"]
    /\ Return(t, "failed")
    /\ UNCHANGED <<capacity_, cache_list_, cache_mapper_, writer, calls>>

\* init() failed: p_promise.set_value({nullptr, status}).
InitFails(t) ==
    /\ InitEnds(t)
    /\ \/ Top(t).key \in CanFail
       \/ Top(t).nested = "failed" /\ Top(t).key \in Checks
    /\ shared' = [shared EXCEPT ![Top(t).fut] = "failed"]
    /\ GoTo(t, "remove_if_invalidated")
    /\ UNCHANGED <<capacity_, cache_list_, cache_mapper_, writer, calls>>

\* MUTANT of MayUpdate: any entry of the key is taken for the own one.
MayUpdateAnyEntry(t) == Top(t).key \in Cached

\* The entry in the cache is still the one this thread inserted, as far as
\* the thread identifier tells.
MayUpdate(t) ==
    /\ Top(t).key \in Cached
    /\ cache_mapper_[Top(t).key].thread_id_ = t

\* MUTANT of UpdateEntry: the key in the list is forgotten.
UpdateEntryInMapperOnly(t) ==
    LET fr == Top(t)
    IN  /\ Active(t) /\ fr.pc = "update_entry"
        /\ Unlocked
        /\ cache_mapper_' = IF MayUpdate(t)
             THEN [cache_mapper_ EXCEPT ![fr.key].desc = [in |-> "primitive", of |-> fr.fut]]
             ELSE cache_mapper_
        /\ Return(t, shared[fr.fut])
        /\ UNCHANGED <<capacity_, cache_list_, shared, writer, calls>>

\* update_entry: both copies of the key now point into the primitive.
UpdateEntry(t) ==
    LET fr   == Top(t)
        desc == [in |-> "primitive", of |-> fr.fut]
    IN  /\ Active(t) /\ fr.pc = "update_entry"
        /\ Unlocked
        /\ IF MayUpdate(t)
           THEN /\ cache_mapper_' = [cache_mapper_ EXCEPT ![fr.key].desc = desc]
                /\ cache_list_' =
                     [cache_list_ EXCEPT ![IndexOf(cache_mapper_[fr.key].node)].desc = desc]
           ELSE UNCHANGED <<cache_list_, cache_mapper_>>
        /\ Return(t, shared[fr.fut])
        /\ UNCHANGED <<capacity_, shared, writer, calls>>

\* MUTANT of LockAndFind: the early return does not unlock.
LockAndFindKeepsLock(t) ==
    /\ Active(t) /\ Top(t).pc = "remove_if_invalidated"
    /\ Unlocked
    /\ writer' = t
    /\ IF Top(t).key \in Cached THEN GoTo(t, "removing") ELSE Return(t, "failed")
    /\ UNCHANGED <<capacity_, cache_list_, cache_mapper_, shared, calls>>

\* remove_if_invalidated, up to value.get(): the lock is taken and the entry
\* looked up.  Without an entry the call is over.
LockAndFind(t) ==
    /\ Active(t) /\ Top(t).pc = "remove_if_invalidated"
    /\ Unlocked
    /\ IF Top(t).key \in Cached
       THEN /\ writer' = t
            /\ GoTo(t, "removing")
       ELSE /\ Return(t, "failed")
            /\ UNCHANGED writer
    /\ UNCHANGED <<capacity_, cache_list_, cache_mapper_, shared, calls>>

\* MUTANT of EraseInvalidated: whatever entry the key has by now is erased.
EraseWhatIsThere(t) ==
    LET k == Top(t).key
        f == cache_mapper_[k].node
    IN  /\ Active(t) /\ Top(t).pc = "removing"
        /\ writer = t
        /\ shared[f] # "unset"
        /\ cache_list_' = RemoveAt(cache_list_, IndexOf(f))
        /\ cache_mapper_' = Restrict(cache_mapper_, Cached \ {k})
        /\ writer' = NoThread
        /\ Return(t, "failed")
        /\ UNCHANGED <<capacity_, shared, calls>>

\* remove_if_invalidated, from value.get(): waits, with the lock held, until
\* the entry's promise is set, and erases the entry if that was a failure.
EraseInvalidated(t) ==
    LET k == Top(t).key
        f == cache_mapper_[k].node
    IN  /\ Active(t) /\ Top(t).pc = "removing"
        /\ writer = t
        /\ shared[f] # "unset"
        /\ IF shared[f] = "failed"
           THEN /\ cache_list_' = RemoveAt(cache_list_, IndexOf(f))
                /\ cache_mapper_' = Restrict(cache_mapper_, Cached \ {k})
           ELSE UNCHANGED <<cache_list_, cache_mapper_>>
        /\ writer' = NoThread
        /\ Return(t, "failed")
        /\ UNCHANGED <<capacity_, shared, calls>>

-----------------------------------------------------------------------------

Init ==
    /\ capacity_ \in Capacities
    /\ cache_list_ = <<>>
    /\ cache_mapper_ = [k \in {} |-> NoFuture]
    /\ shared = [f \in Futures |-> "unset"]
    /\ writer = NoThread
    /\ stack = [t \in Threads |-> <<>>]
    /\ calls = 0

\* What a thread does once it is inside the library.
Step(t) ==
    \/ ReadCapacity(t) \/ FindDisabled(t) \/ Hit(t) \/ Miss(t)
    \/ GetFuture(t)
    \/ CreateNested(t) \/ InitSucceeds(t) \/ InitFails(t)
    \/ UpdateEntry(t)
    \/ LockAndFind(t) \/ EraseInvalidated(t)

Next ==
    \E t \in Threads :
        \/ \E k \in Keys : Call(t, k)
        \/ \E c \in Capacities : SetCapacity(t, c)
        \/ Step(t)

Spec == Init /\ [][Next]_vars

\* A thread inside the library keeps being scheduled while it can run.
FairSpec == Spec /\ \A t \in Threads : WF_vars(Step(t))
-----------------------------------------------------------------------------
(* Correctness *)

\* The variables have the types of the code's.
TypeOK ==
    /\ capacity_ \in Nat
    /\ cache_list_ \in Seq(Nodes)
    /\ Cached \subseteq Keys
    /\ cache_mapper_ \in [Cached -> Slots]
    /\ shared \in [Futures -> Outcomes \cup {"unset"}]
    /\ writer \in Threads \cup {NoThread}
    /\ stack \in [Threads -> Seq(Frames)]
    /\ calls \in 0..MaxCalls

\* At every moment the list and the map hold the same entries: no key and no
\* node twice, every iterator of the map at the node of its own key, and the
\* two copies of a key (thread and pointers) equal.
Agree(list, mapper) ==
    /\ \A i, j \in DOMAIN list :
            i # j => list[i].key # list[j].key /\ list[i].value # list[j].value
    /\ DOMAIN mapper = {list[i].key : i \in DOMAIN list}
    /\ \A i \in DOMAIN list :
            mapper[list[i].key] = [thread_id_ |-> list[i].thread_id_,
                                   desc       |-> list[i].desc,
                                   node       |-> list[i].value]

ListAndMapperAgree == Agree(cache_list_, cache_mapper_)

\* The cache never holds more entries than its capacity, whatever evictions,
\* resizes and insertions interleave.
WithinCapacity == Len(cache_list_) <= capacity_

\* An object a key may point into still exists: the descriptor of a caller
\* while that call is active, the copy in a primitive while an entry of the
\* cache or an active call holds the primitive.
Alive(desc) ==
    \/ /\ desc.in = "pd"
       /\ \E fr \in AllFrames :
            fr.fut = desc.of /\ fr.pc \notin {"get_or_add", "lock_write", "wait"}
    \/ /\ desc.in = "primitive"
       /\ shared[desc.of] \in Primitives
       /\ \/ \E n \in ToSet(cache_list_) : n.value = desc.of
          \/ \E fr \in AllFrames : fr.fut = desc.of

\* A lookup compares the keys in the cache through their op_desc_ and attr_
\* pointers, so those point to living objects at every moment, although the
\* descriptor they first point into belongs to a caller that returns.
KeysPointToLivingObjects ==
    \A k \in Cached : Alive(cache_mapper_[k].desc)

\* An invalidated entry does not stay: the call that failed is still on its
\* way to remove it.
InvalidatedEntryIsBeingRemoved ==
    \A n \in ToSet(cache_list_) : shared[n.value] = "failed" =>
        \E fr \in AllFrames : /\ fr.key = n.key
                              /\ fr.pc \in {"remove_if_invalidated", "removing"}

\* An entry whose creation has not failed leaves the cache only for room, that
\* is, when the cache is full afterwards: a call that removes the entry of its
\* own failure does not take a newer one of the same key with it, pending or
\* built, whoever evicted the one and inserted the other in between.
OnlyFailuresAreRemoved ==
    [][\A n \in ToSet(cache_list_) :
            \/ shared[n.value] = "failed"
            \/ \E m \in ToSet(cache_list_') : m.value = n.value
            \/ Len(cache_list_') = capacity_']_vars

\* The interface of zendnn_primitive_create promises success "and a status
\* describing the error otherwise": a call of the application whose primitive
\* lacks a part, because a nested creation failed, does not return success.
ErrorsAreReported ==
    [][\A t \in Threads :
            Len(stack[t]) = 1 /\ stack'[t] = <<>> => shared[Top(t).fut] # "hollow"]_vars

\* A promise is set once: while anyone holds a future, what it says is final.
OutcomesAreFinal ==
    [][\A f \in Referenced \cap Futures :
            shared[f] # "unset" /\ f \in Referenced' => shared'[f] = shared[f]]_vars

\* A thread that waits for a future is told its value: the one that hit a
\* pending entry, and the one that looks at an entry to see if it is invalid.
Waiting(t) == Active(t) /\ Top(t).pc \in {"wait", "removing"}

WaitersAreNotified == \A t \in Threads : Waiting(t) ~> ~Waiting(t)

\* Every call that enters the library returns.
EveryCallReturns == \A t \in Threads : Active(t) ~> ~Active(t)
=============================================================================
