------------------------- MODULE PrimitiveCacheLru -------------------------
(***************************************************************************)
(* PrimitiveCache with a history of the lookups, and the claim that gives  *)
(* lru_primitive_cache_t its name.  The order of use is taken from the     *)
(* lookups themselves, not from the list that is meant to record it.       *)
(***************************************************************************)
EXTENDS PrimitiveCache

VARIABLE
    earlier      \* history: <<k, l>> if l was looked up and k not since then

lruCacheVars == <<vars, earlier>>

\* The threads whose get_or_add this step performs, with the cache enabled.
LookUps ==
    {t \in Threads : /\ Active(t) /\ Top(t).pc = "lock_write"
                     /\ capacity_ # 0
                     /\ stack'[t] # stack[t]}

LookedUp == {Top(t).key : t \in LookUps}

\* A key that is looked up comes after every other.
RecordLookUp ==
    earlier' = {p \in earlier : p[1] \notin LookedUp /\ p[2] \notin LookedUp}
                    \cup ((Keys \ LookedUp) \X LookedUp)

InitLru == Init /\ earlier = {}

NextLru == Next /\ RecordLookUp

SpecLru == InitLru /\ [][NextLru]_lruCacheVars

-----------------------------------------------------------------------------

\* <<k, l>>: both are cached and k was looked up longer ago than l.
OrderOfUse == {p \in earlier : p[1] \in Cached /\ p[2] \in Cached}

\* The cache keeps its promise: whenever a key must make room, on an insertion
\* or a resize, it is the one looked up longest ago, and nothing else changes
\* what is cached but the removal of an invalidated entry.
Lru == INSTANCE LruCacheSpec WITH
    capacity <- capacity_, cached <- Cached, older <- OrderOfUse

ImplementsLru == Lru!LruSpec
=============================================================================
