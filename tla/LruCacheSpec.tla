---------------------------- MODULE LruCacheSpec ----------------------------
(***************************************************************************)
(* What lru_primitive_cache_t promises, without its list, its map and its  *)
(* mutex: a bounded set of keys ordered by last use.  A key that must make *)
(* room is always the least recently used one.                             *)
(***************************************************************************)
EXTENDS Naturals, FiniteSets

CONSTANTS
    Keys,        \* what primitives are looked up by
    Capacities   \* the capacities the cache is ever given

VARIABLES
    capacity,    \* the largest number of keys the cache may hold
    cached,      \* the keys it holds
    older        \* <<k, l>> in older: k was used less recently than l

lruVars == <<capacity, cached, older>>

\* The order kept on the set S, and the order in which k becomes the newest.
OrderOn(S) == {p \in older : p[1] \in S /\ p[2] \in S}

NewestIs(k, S) == OrderOn(S \ {k}) \cup {<<l, k>> : l \in S \ {k}}

\* The subsets of cached that survive when only n keys may: everything that
\* goes is older than everything that stays.
Survivors(n) ==
    {S \in SUBSET cached :
        /\ Cardinality(S) = IF Cardinality(cached) > n THEN n ELSE Cardinality(cached)
        /\ \A gone \in cached \ S, kept \in S : <<gone, kept>> \in older}

LruInit ==
    /\ capacity \in Capacities
    /\ cached = {}
    /\ older = {}

\* A key that is there is used.
Use(k) ==
    /\ capacity > 0
    /\ k \in cached
    /\ older' = NewestIs(k, cached)
    /\ UNCHANGED <<capacity, cached>>

\* A key that is not there is inserted; a full cache gives up its oldest key.
Insert(k) ==
    /\ capacity > 0
    /\ k \notin cached
    /\ \E kept \in Survivors(capacity - 1) :
        /\ cached' = kept \cup {k}
        /\ older' = NewestIs(k, kept \cup {k})
    /\ UNCHANGED capacity

\* A key is invalidated; the order of the others does not change.
Drop(k) ==
    /\ k \in cached
    /\ cached' = cached \ {k}
    /\ older' = OrderOn(cached \ {k})
    /\ UNCHANGED capacity

\* A new capacity; the keys in excess go, oldest first.
Resize(c) ==
    /\ capacity' = c
    /\ \E kept \in Survivors(c) :
        /\ cached' = kept
        /\ older' = OrderOn(kept)

LruNext ==
    \/ \E k \in Keys : Use(k) \/ Insert(k) \/ Drop(k)
    \/ \E c \in Capacities : Resize(c)

LruSpec == LruInit /\ [][LruNext]_lruVars

=============================================================================
