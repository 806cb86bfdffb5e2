------------------------ MODULE PrimitiveCacheProofs ------------------------
(***************************************************************************)
(* Theorems about PrimitiveCache, for any number of threads, any keys and  *)
(* any capacities: the list and the map, who owns which promise and which  *)
(* entry, what leaves the cache, and that all of it is an LRU cache.       *)
(***************************************************************************)
EXTENDS PrimitiveCacheLru, FiniteSetTheorems, TLAPS

-----------------------------------------------------------------------------
(* Sequences *)

\* What pushing an element in front of a sequence gives.
LEMMA PushFront ==
    ASSUME NEW S, NEW s \in Seq(S), NEW a \in S
    PROVE  /\ <<a>> \o s \in Seq(S)
           /\ Len(<<a>> \o s) = Len(s) + 1
           /\ (<<a>> \o s)[1] = a
           /\ \A j \in 1..Len(s) : (<<a>> \o s)[j + 1] = s[j]
    OBVIOUS

\* What dropping the last n elements of a sequence gives.
LEMMA DropLast ==
    ASSUME NEW S, NEW s \in Seq(S), NEW n \in 0..Len(s)
    PROVE  /\ SubSeq(s, 1, Len(s) - n) \in Seq(S)
           /\ Len(SubSeq(s, 1, Len(s) - n)) = Len(s) - n
           /\ \A j \in 1..(Len(s) - n) : SubSeq(s, 1, Len(s) - n)[j] = s[j]
    OBVIOUS

\* What a concatenation holds where.
LEMMA Concatenated ==
    ASSUME NEW S, NEW r \in Seq(S), NEW s \in Seq(S)
    PROVE  /\ r \o s \in Seq(S)
           /\ Len(r \o s) = Len(r) + Len(s)
           /\ \A j \in 1..(Len(r) + Len(s)) :
                (r \o s)[j] = IF j <= Len(r) THEN r[j] ELSE s[j - Len(r)]
    OBVIOUS

\* What removing the i-th element of a sequence gives.
LEMMA RemovedAt ==
    ASSUME NEW S, NEW s \in Seq(S), NEW i \in 1..Len(s)
    PROVE  /\ RemoveAt(s, i) \in Seq(S)
           /\ Len(RemoveAt(s, i)) = Len(s) - 1
           /\ \A j \in 1..(Len(s) - 1) :
                RemoveAt(s, i)[j] = IF j < i THEN s[j] ELSE s[j + 1]
<1> DEFINE front == SubSeq(s, 1, i - 1)
           back  == SubSeq(s, i + 1, Len(s))
<1>1. /\ front \in Seq(S) /\ Len(front) = i - 1
      /\ \A j \in 1..(i - 1) : front[j] = s[j]
    OBVIOUS
<1>2. /\ back \in Seq(S) /\ Len(back) = Len(s) - i
      /\ \A j \in 1..(Len(s) - i) : back[j] = s[i + j]
    OBVIOUS
<1>3. RemoveAt(s, i) = front \o back
    BY DEF RemoveAt
<1> HIDE DEF front, back
<1>4. /\ front \o back \in Seq(S)
      /\ Len(front \o back) = Len(front) + Len(back)
      /\ \A j \in 1..(Len(front) + Len(back)) :
            (front \o back)[j] =
                IF j <= Len(front) THEN front[j] ELSE back[j - Len(front)]
    BY <1>1, <1>2, Concatenated
<1>6. Len(front) = i - 1 /\ Len(front) + Len(back) = Len(s) - 1
    BY <1>1, <1>2
<1>5. ASSUME NEW j \in 1..(Len(s) - 1)
      PROVE  (front \o back)[j] = IF j < i THEN s[j] ELSE s[j + 1]
    <2>1. CASE j < i
        BY <1>1, <1>4, <1>6, <2>1
    <2>2. CASE ~(j < i)
        <3>1. j - (i - 1) \in 1..(Len(s) - i) /\ i + (j - (i - 1)) = j + 1
            BY <2>2
        <3> QED BY <1>2, <1>4, <1>6, <2>2, <3>1
    <2> QED BY <2>1, <2>2
<1> QED BY <1>3, <1>4, <1>5, <1>6

\* A stack frame popped.
LEMMA Popped ==
    ASSUME NEW S, NEW s \in Seq(S), s # <<>>
    PROVE  /\ Tail(s) \in Seq(S)
           /\ Len(Tail(s)) = Len(s) - 1
           /\ s[1] \in S
           /\ \A j \in 1..(Len(s) - 1) : Tail(s)[j] = s[j + 1]
    OBVIOUS
-----------------------------------------------------------------------------
(* The list and the map *)

IsMapper(m) == m \in [DOMAIN m -> Slots]

KeysOf(list) == {list[i].key : i \in DOMAIN list}

\* Some of the nodes, in any order, and the map cut down to their keys agree.
LEMMA SelectionAgrees ==
    ASSUME NEW list \in Seq(Nodes), NEW mapper, Agree(list, mapper),
           NEW r \in Seq(Nodes), NEW g \in [DOMAIN r -> DOMAIN list],
           \A i, j \in DOMAIN r : i # j => g[i] # g[j],
           \A j \in DOMAIN r : r[j] = list[g[j]]
    PROVE  Agree(r, Restrict(mapper, KeysOf(r)))
<1> DEFINE m == Restrict(mapper, KeysOf(r))
<1>1. ASSUME NEW i \in DOMAIN r, NEW j \in DOMAIN r, i # j
      PROVE  r[i].key # r[j].key /\ r[i].value # r[j].value
    BY <1>1 DEF Agree
<1>2. DOMAIN m = KeysOf(r)
    BY DEF Restrict
<1>3. ASSUME NEW j \in DOMAIN r
      PROVE  m[r[j].key] = [thread_id_ |-> r[j].thread_id_, desc |-> r[j].desc,
                            node |-> r[j].value]
    <2>1. m[r[j].key] = mapper[r[j].key]
        BY DEF Restrict, KeysOf
    <2>2. g[j] \in DOMAIN list /\ r[j] = list[g[j]]
        OBVIOUS
    <2> QED BY <2>1, <2>2 DEF Agree
<1> HIDE DEF m
<1>4. Agree(r, m)
    BY <1>1, <1>2, <1>3 DEF Agree, KeysOf
<1> QED BY <1>4 DEF m

\* evict keeps list and map in agreement.
LEMMA EvictAgrees ==
    ASSUME NEW list \in Seq(Nodes), NEW mapper, Agree(list, mapper),
           NEW n \in 0..Len(list)
    PROVE  /\ Agree(EvictedList(list, n), EvictedMapper(list, mapper, n))
           /\ EvictedList(list, n) \in Seq(Nodes)
           /\ Len(EvictedList(list, n)) = Len(list) - n
           /\ \A j \in 1..(Len(list) - n) : EvictedList(list, n)[j] = list[j]
<1> DEFINE r == EvictedList(list, n)
           g == [j \in DOMAIN r |-> j]
           gone == {list[i].key : i \in (Len(list) - n + 1)..Len(list)}
<1>1. /\ r \in Seq(Nodes) /\ Len(r) = Len(list) - n
      /\ \A j \in 1..(Len(list) - n) : r[j] = list[j]
    BY DropLast DEF EvictedList
<1> HIDE DEF r
<1>2. DOMAIN r = 1..(Len(list) - n) /\ DOMAIN list = 1..Len(list)
    BY <1>1
<1>3. Agree(r, Restrict(mapper, KeysOf(r)))
    <2>1. /\ g \in [DOMAIN r -> DOMAIN list]
          /\ \A i, j \in DOMAIN r : i # j => g[i] # g[j]
          /\ \A j \in DOMAIN r : r[j] = list[g[j]]
        BY <1>1, <1>2
    <2> HIDE DEF g
    <2> QED BY <1>1, <2>1, SelectionAgrees
<1>4. DOMAIN mapper \ gone = KeysOf(r)
    <2>1. DOMAIN mapper = {list[i].key : i \in 1..Len(list)}
        BY <1>2 DEF Agree
    <2>2. \A i, j \in 1..Len(list) : i # j => list[i].key # list[j].key
        BY <1>2 DEF Agree
    <2>3. KeysOf(r) = {list[i].key : i \in 1..(Len(list) - n)}
        BY <1>1, <1>2 DEF KeysOf
    <2> QED BY <2>1, <2>2, <2>3
<1>5. EvictedMapper(list, mapper, n) = Restrict(mapper, KeysOf(r))
    BY <1>4 DEF EvictedMapper
<1> QED BY <1>1, <1>3, <1>5 DEF r

\* A hit moves a node to the front and keeps list and map in agreement.
LEMMA SpliceAgrees ==
    ASSUME NEW list \in Seq(Nodes), NEW mapper, Agree(list, mapper),
           IsMapper(mapper), NEW i \in 1..Len(list)
    PROVE  /\ Agree(Spliced(list, i), mapper)
           /\ Spliced(list, i) \in Seq(Nodes)
           /\ Len(Spliced(list, i)) = Len(list)
<1> DEFINE r == Spliced(list, i)
           g == [j \in DOMAIN r |-> IF j = 1 THEN i ELSE IF j <= i THEN j - 1 ELSE j]
<1>1. /\ RemoveAt(list, i) \in Seq(Nodes) /\ Len(RemoveAt(list, i)) = Len(list) - 1
      /\ \A j \in 1..(Len(list) - 1) :
            RemoveAt(list, i)[j] = IF j < i THEN list[j] ELSE list[j + 1]
    BY RemovedAt
<1>2. /\ r \in Seq(Nodes) /\ Len(r) = Len(list) /\ r[1] = list[i]
      /\ \A j \in 1..(Len(list) - 1) : r[j + 1] = RemoveAt(list, i)[j]
    <2>1. list[i] \in Nodes
        OBVIOUS
    <2> QED BY <1>1, <2>1, PushFront DEF Spliced
<1> HIDE DEF r
<1>3. DOMAIN r = 1..Len(list) /\ DOMAIN list = 1..Len(list)
    BY <1>2
<1>4. \A j \in DOMAIN r : r[j] = list[g[j]]
    <2> TAKE j \in DOMAIN r
    <2>1. CASE j = 1
        BY <1>2, <2>1
    <2>2. CASE j # 1
        <3>1. j - 1 \in 1..(Len(list) - 1) /\ (j - 1) + 1 = j
            BY <1>3, <2>2
        <3>2. r[j] = IF j - 1 < i THEN list[j - 1] ELSE list[j]
            BY <1>1, <1>2, <3>1
        <3>3. j - 1 < i <=> j <= i
            BY <1>3
        <3> QED BY <2>2, <3>2, <3>3
    <2> QED BY <2>1, <2>2
<1>5. g \in [DOMAIN r -> DOMAIN list]
    BY <1>3
<1>6. \A j, l \in DOMAIN r : j # l => g[j] # g[l]
    BY <1>3
<1>7. \A l \in DOMAIN list : \E j \in DOMAIN r : g[j] = l
    <2> TAKE l \in DOMAIN list
    <2>1. CASE l = i
        <3>1. 1 \in DOMAIN r /\ g[1] = l
            BY <1>3, <2>1
        <3> QED BY <3>1
    <2>2. CASE l < i
        <3>1. l + 1 \in DOMAIN r /\ g[l + 1] = l
            BY <1>3, <2>2
        <3> QED BY <3>1
    <2>3. CASE l > i
        <3>1. l \in DOMAIN r /\ g[l] = l
            BY <1>3, <2>3
        <3> QED BY <3>1
    <2> QED BY <1>3, <2>1, <2>2, <2>3
<1> HIDE DEF g
<1>8. Agree(r, Restrict(mapper, KeysOf(r)))
    BY <1>2, <1>4, <1>5, <1>6, SelectionAgrees
<1>9. KeysOf(r) = DOMAIN mapper
    BY <1>4, <1>5, <1>7 DEF KeysOf, Agree
<1>10. Restrict(mapper, DOMAIN mapper) = mapper
    BY DEF Restrict, IsMapper
<1> QED BY <1>2, <1>8, <1>9, <1>10 DEF r

\* Erasing a node and its key keeps list and map in agreement.
LEMMA EraseAgrees ==
    ASSUME NEW list \in Seq(Nodes), NEW mapper, Agree(list, mapper),
           NEW i \in 1..Len(list)
    PROVE  /\ Agree(RemoveAt(list, i), Restrict(mapper, DOMAIN mapper \ {list[i].key}))
           /\ RemoveAt(list, i) \in Seq(Nodes)
           /\ Len(RemoveAt(list, i)) = Len(list) - 1
<1> DEFINE r == RemoveAt(list, i)
           g == [j \in DOMAIN r |-> IF j < i THEN j ELSE j + 1]
<1>1. /\ r \in Seq(Nodes) /\ Len(r) = Len(list) - 1
      /\ \A j \in 1..(Len(list) - 1) : r[j] = IF j < i THEN list[j] ELSE list[j + 1]
    BY RemovedAt
<1> HIDE DEF r
<1>2. DOMAIN r = 1..(Len(list) - 1) /\ DOMAIN list = 1..Len(list)
    BY <1>1
<1>3. /\ g \in [DOMAIN r -> DOMAIN list]
      /\ \A j, l \in DOMAIN r : j # l => g[j] # g[l]
      /\ \A j \in DOMAIN r : r[j] = list[g[j]]
      /\ \A j \in DOMAIN r : g[j] # i
    BY <1>1, <1>2
<1>4. \A l \in DOMAIN list \ {i} : \E j \in DOMAIN r : g[j] = l
    <2> TAKE l \in DOMAIN list \ {i}
    <2>1. CASE l < i
        <3>1. l \in DOMAIN r /\ g[l] = l
            BY <1>2, <2>1
        <3> QED BY <3>1
    <2>2. CASE l > i
        <3>1. l - 1 \in DOMAIN r /\ g[l - 1] = l
            BY <1>2, <2>2
        <3> QED BY <3>1
    <2> QED BY <1>2, <2>1, <2>2
<1> HIDE DEF g
<1>5. Agree(r, Restrict(mapper, KeysOf(r)))
    BY <1>1, <1>3, SelectionAgrees
<1>6. KeysOf(r) = DOMAIN mapper \ {list[i].key}
    <2>1. DOMAIN mapper = {list[l].key : l \in DOMAIN list}
        BY DEF Agree
    <2>2. \A l, j \in DOMAIN list : l # j => list[l].key # list[j].key
        BY DEF Agree
    <2>3. i \in DOMAIN list
        BY <1>2
    <2> QED BY <1>3, <1>4, <2>1, <2>2, <2>3 DEF KeysOf
<1> QED BY <1>1, <1>5, <1>6 DEF r

\* Adding a node of a new key and a new future keeps list and map in agreement.
LEMMA AddAgrees ==
    ASSUME NEW list \in Seq(Nodes), NEW mapper, Agree(list, mapper),
           NEW node \in Nodes, node.key \notin DOMAIN mapper,
           \A i \in DOMAIN list : list[i].value # node.value
    PROVE  Agree(<<node>> \o list,
                 [x \in DOMAIN mapper \cup {node.key} |->
                    IF x = node.key
                    THEN [thread_id_ |-> node.thread_id_, desc |-> node.desc,
                          node |-> node.value]
                    ELSE mapper[x]])
<1> DEFINE r == <<node>> \o list
           slot == [thread_id_ |-> node.thread_id_, desc |-> node.desc, node |-> node.value]
           m == [x \in DOMAIN mapper \cup {node.key} |-> IF x = node.key THEN slot ELSE mapper[x]]
<1>1. /\ r \in Seq(Nodes) /\ Len(r) = Len(list) + 1 /\ r[1] = node
      /\ \A j \in 1..Len(list) : r[j + 1] = list[j]
    BY PushFront
<1> HIDE DEF r
<1>2. DOMAIN r = 1..(Len(list) + 1) /\ DOMAIN list = 1..Len(list)
    BY <1>1
<1>3. \A j \in DOMAIN r : \/ j = 1 /\ r[j] = node
                          \/ j - 1 \in DOMAIN list /\ r[j] = list[j - 1]
    <2> TAKE j \in DOMAIN r
    <2>1. CASE j = 1
        BY <1>1, <2>1
    <2>2. CASE j # 1
        <3>1. j - 1 \in 1..Len(list) /\ (j - 1) + 1 = j
            BY <1>2, <2>2
        <3> QED BY <1>1, <1>2, <3>1
    <2> QED BY <2>1, <2>2
<1>4. ASSUME NEW j \in DOMAIN list
      PROVE  /\ list[j].key \in DOMAIN mapper
             /\ list[j].key # node.key /\ list[j].value # node.value
    BY DEF Agree
<1>5. ASSUME NEW i \in DOMAIN r, NEW j \in DOMAIN r, i # j
      PROVE  r[i].key # r[j].key /\ r[i].value # r[j].value
    <2>1. CASE i = 1
        BY <1>2, <1>3, <1>4, <1>5, <2>1
    <2>2. CASE j = 1
        BY <1>2, <1>3, <1>4, <1>5, <2>2
    <2>3. CASE i # 1 /\ j # 1
        <3>1. /\ i - 1 \in DOMAIN list /\ r[i] = list[i - 1]
              /\ j - 1 \in DOMAIN list /\ r[j] = list[j - 1]
              /\ i - 1 # j - 1
            BY <1>2, <1>3, <1>5, <2>3
        <3> QED BY <3>1 DEF Agree
    <2> QED BY <2>1, <2>2, <2>3
<1>6. DOMAIN m = KeysOf(r)
    <2>1. ASSUME NEW x \in DOMAIN m PROVE x \in KeysOf(r)
        <3>1. CASE x = node.key
            <4>1. 1 \in DOMAIN r
                BY <1>2
            <4> QED BY <1>1, <3>1, <4>1 DEF KeysOf
        <3>2. CASE x # node.key
            <4>1. PICK j \in DOMAIN list : x = list[j].key
                BY <2>1, <3>2 DEF Agree
            <4>2. j + 1 \in DOMAIN r /\ r[j + 1] = list[j]
                BY <1>1, <1>2
            <4> QED BY <4>1, <4>2 DEF KeysOf
        <3> QED BY <3>1, <3>2
    <2>2. ASSUME NEW j \in DOMAIN r PROVE r[j].key \in DOMAIN m
        BY <1>3, <1>4
    <2> HIDE DEF m
    <2> QED BY <2>1, <2>2 DEF KeysOf
<1>7. ASSUME NEW j \in DOMAIN r
      PROVE  m[r[j].key] = [thread_id_ |-> r[j].thread_id_, desc |-> r[j].desc,
                            node |-> r[j].value]
    <2>1. CASE j = 1
        BY <1>1, <2>1
    <2>2. CASE j # 1
        <3>1. j - 1 \in DOMAIN list /\ r[j] = list[j - 1]
            BY <1>3, <2>2
        <3>2. m[r[j].key] = mapper[r[j].key]
            BY <1>4, <3>1
        <3> HIDE DEF m
        <3> QED BY <3>1, <3>2 DEF Agree
    <2> QED BY <2>1, <2>2
<1> HIDE DEF m
<1>8. Agree(r, m)
    BY <1>5, <1>6, <1>7 DEF Agree, KeysOf
<1> QED BY <1>8 DEF r, m, slot

\* Changing the pointers of both copies of a key keeps them in agreement.
LEMMA UpdateAgrees ==
    ASSUME NEW list \in Seq(Nodes), NEW mapper, Agree(list, mapper),
           IsMapper(mapper), NEW i \in DOMAIN list, NEW d \in Descs
    PROVE  /\ Agree([list EXCEPT ![i].desc = d],
                    [mapper EXCEPT ![list[i].key].desc = d])
           /\ [list EXCEPT ![i].desc = d] \in Seq(Nodes)
           /\ Len([list EXCEPT ![i].desc = d]) = Len(list)
<1> DEFINE r == [list EXCEPT ![i].desc = d]
           m == [mapper EXCEPT ![list[i].key].desc = d]
<1>1. list[i] \in Nodes /\ [list[i] EXCEPT !.desc = d] \in Nodes
    <2>1. list[i] \in Nodes
        OBVIOUS
    <2> QED BY <2>1 DEF Nodes
<1>2. /\ r \in Seq(Nodes) /\ Len(r) = Len(list) /\ DOMAIN r = DOMAIN list
      /\ r[i] = [list[i] EXCEPT !.desc = d]
      /\ \A j \in DOMAIN list : j # i => r[j] = list[j]
    BY <1>1
<1>3. \A j \in DOMAIN list : /\ r[j].key = list[j].key
                           /\ r[j].value = list[j].value
                           /\ r[j].thread_id_ = list[j].thread_id_
                           /\ r[j].desc = IF j = i THEN d ELSE list[j].desc
    BY <1>1, <1>2 DEF Nodes
<1> HIDE DEF r
<1>4. list[i].key \in DOMAIN mapper
    BY DEF Agree
<1>5. /\ DOMAIN m = DOMAIN mapper
      /\ m[list[i].key] = [mapper[list[i].key] EXCEPT !.desc = d]
      /\ \A x \in DOMAIN mapper : x # list[i].key => m[x] = mapper[x]
    BY <1>4 DEF IsMapper
<1> HIDE DEF m
<1>6. ASSUME NEW j \in DOMAIN r
      PROVE  m[r[j].key] = [thread_id_ |-> r[j].thread_id_, desc |-> r[j].desc,
                            node |-> r[j].value]
    <2>1. mapper[list[j].key] = [thread_id_ |-> list[j].thread_id_,
                                 desc |-> list[j].desc, node |-> list[j].value]
        BY <1>2 DEF Agree
    <2>2. CASE j = i
        <3>1. j \in DOMAIN list
            BY <1>2
        <3>2. m[list[i].key] = [thread_id_ |-> list[i].thread_id_, desc |-> d,
                                node |-> list[i].value]
            BY <1>5, <2>1, <2>2
        <3>3. /\ r[j].key = list[i].key /\ r[j].value = list[i].value
              /\ r[j].thread_id_ = list[i].thread_id_ /\ r[j].desc = d
            BY <1>3, <2>2, <3>1
        <3> QED BY <3>2, <3>3
    <2>3. CASE j # i
        <3>1. list[j].key # list[i].key /\ list[j].key \in DOMAIN mapper
            BY <1>2, <2>3 DEF Agree
        <3> QED BY <1>2, <1>3, <1>5, <2>1, <2>3, <3>1
    <2> QED BY <2>2, <2>3
<1>7. Agree(r, m)
    <2>1. KeysOf(r) = KeysOf(list)
        BY <1>2, <1>3 DEF KeysOf
    <2>2. ASSUME NEW j \in DOMAIN r, NEW l \in DOMAIN r, j # l
          PROVE  r[j].key # r[l].key /\ r[j].value # r[l].value
        BY <1>2, <1>3, <2>2 DEF Agree
    <2>3. DOMAIN m = KeysOf(r)
        BY <1>5, <2>1 DEF Agree, KeysOf
    <2> QED BY <1>6, <2>2, <2>3 DEF Agree, KeysOf
<1> QED BY <1>2, <1>7 DEF r, m

\* list and map have the same size, so a full map is a full list.
LEMMA SizesAgree ==
    ASSUME NEW list \in Seq(Nodes), NEW mapper, Agree(list, mapper)
    PROVE  Cardinality(DOMAIN mapper) = Len(list)
<1> DEFINE f == [i \in 1..Len(list) |-> list[i].key]
<1>0. /\ DOMAIN list = 1..Len(list) /\ DOMAIN mapper = KeysOf(list)
      /\ \A i, j \in 1..Len(list) : i # j => list[i].key # list[j].key
    BY DEF Agree, KeysOf
<1>4. f \in [1..Len(list) -> DOMAIN mapper]
    BY <1>0 DEF KeysOf
<1>1. f \in Surjection(1..Len(list), DOMAIN mapper)
    <2>1. \A k \in DOMAIN mapper : \E i \in 1..Len(list) : f[i] = k
        BY <1>0 DEF KeysOf
    <2> HIDE DEF f
    <2> QED BY <1>4, <2>1 DEF Surjection
<1>2. f \in Injection(1..Len(list), DOMAIN mapper)
    <2>1. \A i, j \in 1..Len(list) : f[i] = f[j] => i = j
        BY <1>0
    <2> HIDE DEF f
    <2> QED BY <1>4, <2>1 DEF Injection, IsInjective
<1>3. IsFiniteSet(1..Len(list)) /\ Cardinality(1..Len(list)) = Len(list)
    <2>1. Len(list) \in Nat /\ 1 \in Int /\ Len(list) \in Int
        OBVIOUS
    <2> HIDE DEF f
    <2>2. /\ IsFiniteSet(1..Len(list))
          /\ Cardinality(1..Len(list)) = IF 1 > Len(list) THEN 0 ELSE Len(list) - 1 + 1
        BY <2>1, FS_Interval
    <2> QED BY <2>1, <2>2
<1> QED BY <1>1, <1>2, <1>3, FS_Surjection

\* The node an iterator of the map stands for is in the list, under its key.
LEMMA IteratorIsValid ==
    ASSUME cache_list_ \in Seq(Nodes), ListAndMapperAgree, NEW k \in Cached
    PROVE  /\ IndexOf(cache_mapper_[k].node) \in 1..Len(cache_list_)
           /\ NodeAt(cache_mapper_[k].node).key = k
           /\ cache_mapper_[k].node \in Futures
<1>1. PICK i \in DOMAIN cache_list_ : cache_list_[i].key = k
    BY DEF ListAndMapperAgree, Agree, Cached
<1>2. cache_mapper_[k].node = cache_list_[i].value
    <2>1. cache_mapper_[k] = [thread_id_ |-> cache_list_[i].thread_id_,
                              desc       |-> cache_list_[i].desc,
                              node       |-> cache_list_[i].value]
        BY <1>1 DEF ListAndMapperAgree, Agree
    <2> QED BY <2>1
<1>3. IndexOf(cache_mapper_[k].node) = i
    BY <1>2 DEF IndexOf, ListAndMapperAgree, Agree
<1>4. cache_list_[i] \in Nodes
    OBVIOUS
<1> QED BY <1>1, <1>2, <1>3, <1>4 DEF NodeAt, Nodes

-----------------------------------------------------------------------------
(* The stacks *)

\* A frame that owns or awaits a future has one, and its promise is set
\* before the entry is repaired; only the innermost frame runs.
FrameOK(fr, sh) ==
    /\ fr.pc \notin {"get_or_add", "lock_write"} => fr.fut \in Futures
    /\ fr.pc = "update_entry" => sh[fr.fut] # "unset"

StackOK(st, sh) ==
    \A i \in DOMAIN st : FrameOK(st[i], sh) /\ (i # 1 => st[i].pc = "nested")

\* The invariant of the cache's own fields.
CacheInv ==
    /\ capacity_ \in Nat
    /\ cache_list_ \in Seq(Nodes)
    /\ IsMapper(cache_mapper_)
    /\ ListAndMapperAgree
    /\ WithinCapacity

\* The invariant of the threads: their frames, and who holds the lock.
ThreadInv ==
    /\ shared \in [Futures -> Outcomes \cup {"unset"}]
    /\ writer \in Threads \cup {NoThread}
    /\ stack \in [Threads -> Seq(Frames)]
    /\ calls \in 0..MaxCalls
    /\ \A t \in Threads : StackOK(stack[t], shared)

\* A thread between the two halves of remove_if_invalidated holds the lock,
\* and the entry it looked up is still there.
LockInv ==
    \A t \in Threads : Active(t) /\ Top(t).pc = "removing" =>
        writer = t /\ Top(t).key \in Cached

IInv == CacheInv /\ ThreadInv /\ LockInv

\* A new innermost frame in place of the old one.
LEMMA TopReplaced ==
    ASSUME NEW st \in Seq(Frames), st # <<>>, NEW sh, StackOK(st, sh),
           NEW fr \in Frames, FrameOK(fr, sh)
    PROVE  /\ <<fr>> \o Tail(st) \in Seq(Frames)
           /\ StackOK(<<fr>> \o Tail(st), sh)
           /\ (<<fr>> \o Tail(st))[1] = fr
<1> DEFINE new == <<fr>> \o Tail(st)
<1>1. /\ Tail(st) \in Seq(Frames) /\ Len(Tail(st)) = Len(st) - 1
      /\ \A j \in 1..(Len(st) - 1) : Tail(st)[j] = st[j + 1]
    BY Popped
<1>2. /\ new \in Seq(Frames) /\ Len(new) = Len(st) /\ new[1] = fr
      /\ \A j \in 1..(Len(st) - 1) : new[j + 1] = st[j + 1]
    BY <1>1, PushFront
<1> HIDE DEF new
<1>3. ASSUME NEW i \in DOMAIN new
      PROVE  FrameOK(new[i], sh) /\ (i # 1 => new[i].pc = "nested")
    <2>1. CASE i = 1
        BY <1>2, <2>1
    <2>2. CASE i # 1
        <3>1. i - 1 \in 1..(Len(st) - 1) /\ (i - 1) + 1 = i /\ i \in DOMAIN st
            BY <1>2, <2>2
        <3>2. new[i] = st[i]
            BY <1>2, <3>1
        <3> QED BY <2>2, <3>1, <3>2 DEF StackOK
    <2> QED BY <2>1, <2>2
<1>4. StackOK(new, sh)
    BY <1>3 DEF StackOK
<1> QED BY <1>2, <1>4 DEF new

\* A new innermost frame on top of the old one, which waits for it.
LEMMA FramePushed ==
    ASSUME NEW st \in Seq(Frames), st # <<>>, NEW sh, StackOK(st, sh),
           NEW fr \in Frames, FrameOK(fr, sh),
           NEW new \in Frames, FrameOK(new, sh), fr.pc = "nested"
    PROVE  /\ <<new, fr>> \o Tail(st) \in Seq(Frames)
           /\ StackOK(<<new, fr>> \o Tail(st), sh)
           /\ (<<new, fr>> \o Tail(st))[1] = new
<1> DEFINE mid == <<fr>> \o Tail(st)
           res == <<new>> \o mid
<1>1. mid \in Seq(Frames) /\ StackOK(mid, sh) /\ mid[1] = fr
    BY TopReplaced
<1>2. <<new, fr>> \o Tail(st) = res
    BY Popped
<1> HIDE DEF mid
<1>3. /\ res \in Seq(Frames) /\ Len(res) = Len(mid) + 1 /\ res[1] = new
      /\ \A j \in 1..Len(mid) : res[j + 1] = mid[j]
    BY <1>1, PushFront
<1> HIDE DEF res
<1>4. ASSUME NEW i \in DOMAIN res
      PROVE  FrameOK(res[i], sh) /\ (i # 1 => res[i].pc = "nested")
    <2>1. CASE i = 1
        BY <1>3, <2>1
    <2>2. CASE i # 1
        <3>1. i - 1 \in 1..Len(mid) /\ (i - 1) + 1 = i /\ i - 1 \in DOMAIN mid
            BY <1>1, <1>3, <2>2
        <3>2. res[i] = mid[i - 1]
            BY <1>3, <3>1
        <3> QED BY <1>1, <2>2, <3>1, <3>2 DEF StackOK
    <2> QED BY <2>1, <2>2
<1>5. StackOK(res, sh)
    BY <1>4 DEF StackOK
<1> QED BY <1>2, <1>3, <1>5

\* The stack that a return leaves.
Returned(st, outcome) ==
    LET below == Tail(st)
    IN  IF below = <<>> THEN <<>>
        ELSE <<[below[1] EXCEPT !.pc = "init", !.nested = outcome]>> \o Tail(below)

LEMMA FrameReturned ==
    ASSUME NEW st \in Seq(Frames), st # <<>>, NEW sh, StackOK(st, sh),
           NEW outcome \in Outcomes
    PROVE  /\ Returned(st, outcome) \in Seq(Frames)
           /\ StackOK(Returned(st, outcome), sh)
           /\ Returned(st, outcome) # <<>> => Returned(st, outcome)[1].pc = "init"
<1> DEFINE below == Tail(st)
           fr    == [below[1] EXCEPT !.pc = "init", !.nested = outcome]
<1>1. /\ below \in Seq(Frames) /\ Len(below) = Len(st) - 1
      /\ \A j \in 1..(Len(st) - 1) : below[j] = st[j + 1]
    BY Popped
<1>2. CASE below = <<>>
    BY <1>2 DEF Returned, StackOK
<1>3. CASE below # <<>>
    <2> HIDE DEF below
    <2>1. \A j \in DOMAIN below : FrameOK(below[j], sh) /\ below[j].pc = "nested"
        <3> TAKE j \in DOMAIN below
        <3>1. j \in 1..(Len(st) - 1) /\ j + 1 \in DOMAIN st /\ j + 1 # 1
            BY <1>1
        <3> QED BY <1>1, <3>1 DEF StackOK
    <2>2. below[1] \in Frames /\ 1 \in DOMAIN below
        BY <1>1, <1>3, Popped
    <2>3. fr \in Frames /\ FrameOK(fr, sh) /\ fr.pc = "init"
        BY <2>1, <2>2 DEF Frames, FrameOK, Pcs
    <2>4. StackOK(below, sh)
        BY <2>1 DEF StackOK
    <2>5. Returned(st, outcome) = <<fr>> \o Tail(below)
        BY <1>3 DEF Returned, below
    <2> HIDE DEF fr
    <2> QED BY <1>1, <1>3, <2>3, <2>4, <2>5, TopReplaced
<1> QED BY <1>2, <1>3

-----------------------------------------------------------------------------
(* Init and the actions *)

LEMMA InitHolds == Init => IInv
<1> SUFFICES ASSUME Init PROVE IInv
    OBVIOUS
<1>1. CacheInv
    BY CapacityAssumption
       DEF Init, CacheInv, IsMapper, ListAndMapperAgree, Agree, WithinCapacity
<1>2. ThreadInv
    BY MaxCallsAssumption DEF Init, ThreadInv, StackOK
<1>3. LockInv
    BY DEF Init, LockInv, Active
<1> QED BY <1>1, <1>2, <1>3 DEF IInv

\* A free shared state is not one that anybody refers to.
LEMMA FreshIsFree ==
    ASSUME SomeFutureIsFree
    PROVE  FreshFuture \in Futures /\ FreshFuture \notin Referenced
BY DEF SomeFutureIsFree, FreshFuture

\* What the actions of t do to its stack preserves the invariant of the
\* threads, when the promises only change for futures nobody's frame is
\* about to publish.
LEMMA StackChanged ==
    ASSUME ThreadInv, NEW t \in Threads, NEW st \in Seq(Frames),
           stack' = [stack EXCEPT ![t] = st], StackOK(st, shared'),
           shared' \in [Futures -> Outcomes \cup {"unset"}],
           writer' \in Threads \cup {NoThread}, calls' \in 0..MaxCalls,
           \A u \in Threads \ {t} : StackOK(stack[u], shared')
    PROVE  ThreadInv'
<1>1. stack' \in [Threads -> Seq(Frames)]
    BY DEF ThreadInv
<1>2. ASSUME NEW u \in Threads PROVE StackOK(stack'[u], shared')
    BY DEF ThreadInv
<1> QED BY <1>1, <1>2 DEF ThreadInv

\* The lock invariant survives a step of t that leaves the lock alone, or
\* that finds it free, and does not go on to hold it.
LEMMA LockKept ==
    ASSUME LockInv, ThreadInv, NEW t \in Threads, NEW st,
           stack' = [stack EXCEPT ![t] = st],
           st # <<>> => st[1].pc # "removing",
           \/ UNCHANGED <<cache_mapper_, writer>>
           \/ Unlocked
           \/ writer = t
    PROVE  LockInv'
<1> SUFFICES ASSUME NEW u \in Threads, Active(u)', (Top(u)').pc = "removing"
             PROVE  writer' = u /\ (Top(u)').key \in Cached'
    BY DEF LockInv
<1>1. u # t
    BY DEF Active, Top, ThreadInv
<1>2. stack'[u] = stack[u]
    BY <1>1 DEF ThreadInv
<1>3. writer = u /\ Top(u).key \in Cached
    BY <1>2 DEF LockInv, Active, Top
<1>4. UNCHANGED <<cache_mapper_, writer>>
    BY <1>1, <1>3, NoneAssumption DEF Unlocked
<1> QED BY <1>2, <1>3, <1>4 DEF Top, Cached

\* Allocating a future disturbs no frame.
LEMMA SharedAllocated ==
    ASSUME ThreadInv, SomeFutureIsFree,
           shared' = [shared EXCEPT ![FreshFuture] = "unset"]
    PROVE  /\ shared' \in [Futures -> Outcomes \cup {"unset"}]
           /\ \A u \in Threads : StackOK(stack[u], shared')
<1>1. FreshFuture \in Futures /\ FreshFuture \notin Referenced
    BY FreshIsFree
<1>2. ASSUME NEW u \in Threads, NEW i \in DOMAIN stack[u]
      PROVE  stack[u][i].fut # FreshFuture
    <2>1. stack[u][i] \in AllFrames
        BY DEF AllFrames, FramesOf
    <2> QED BY <1>1, <2>1 DEF Referenced
<1>3. ASSUME NEW u \in Threads, NEW i \in DOMAIN stack[u]
      PROVE  FrameOK(stack[u][i], shared') /\ (i # 1 => stack[u][i].pc = "nested")
    <2>1. FrameOK(stack[u][i], shared) /\ (i # 1 => stack[u][i].pc = "nested")
        BY DEF ThreadInv, StackOK
    <2>2. stack[u][i].pc = "update_entry" => stack[u][i].fut \in Futures
        BY <2>1 DEF FrameOK
    <2> QED BY <1>1, <1>2, <2>1, <2>2 DEF FrameOK, ThreadInv
<1> QED BY <1>1, <1>3 DEF ThreadInv, StackOK

\* Setting a promise disturbs no frame.
LEMMA SharedPublished ==
    ASSUME ThreadInv, NEW f \in Futures, NEW v \in Outcomes,
           shared' = [shared EXCEPT ![f] = v]
    PROVE  /\ shared' \in [Futures -> Outcomes \cup {"unset"}]
           /\ \A u \in Threads : StackOK(stack[u], shared')
           /\ shared'[f] # "unset"
<1>1. v # "unset"
    BY DEF Outcomes, Primitives
<1>2. ASSUME NEW u \in Threads, NEW i \in DOMAIN stack[u]
      PROVE  FrameOK(stack[u][i], shared') /\ (i # 1 => stack[u][i].pc = "nested")
    <2>1. FrameOK(stack[u][i], shared) /\ (i # 1 => stack[u][i].pc = "nested")
        BY DEF ThreadInv, StackOK
    <2>2. stack[u][i].pc = "update_entry" => stack[u][i].fut \in Futures
        BY <2>1 DEF FrameOK
    <2> QED BY <1>1, <2>1, <2>2 DEF FrameOK, ThreadInv
<1> QED BY <1>1, <1>2 DEF ThreadInv, StackOK

\* The innermost frame of a thread inside the library.
LEMMA TopIsFrame ==
    ASSUME ThreadInv, NEW t \in Threads, Active(t)
    PROVE  /\ stack[t] \in Seq(Frames) /\ stack[t] # <<>>
           /\ Top(t) \in Frames /\ FrameOK(Top(t), shared)
<1>1. stack[t] \in Seq(Frames) /\ stack[t] # <<>>
    BY DEF ThreadInv, Active
<1>2. stack[t][1] \in Frames /\ 1 \in DOMAIN stack[t]
    BY <1>1, Popped
<1> QED BY <1>1, <1>2 DEF ThreadInv, StackOK, Top

LEMMA NewFrameOK ==
    ASSUME NEW k \in Keys, NEW sh
    PROVE  NewFrame(k) \in Frames /\ FrameOK(NewFrame(k), sh)
BY DEF NewFrame, Frames, Pcs, FrameOK

\* A step that only replaces the innermost frame by fr.
LEMMA FrameStep ==
    ASSUME IInv, NEW t \in Threads, Active(t), NEW fr \in Frames,
           FrameOK(fr, shared'), fr.pc # "removing",
           stack' = [stack EXCEPT ![t] = <<fr>> \o Tail(@)],
           shared' \in [Futures -> Outcomes \cup {"unset"}],
           \A u \in Threads : StackOK(stack[u], shared'),
           UNCHANGED <<writer, calls>>,
           UNCHANGED cache_mapper_ \/ Unlocked
    PROVE  ThreadInv' /\ LockInv'
<1> DEFINE st == <<fr>> \o Tail(stack[t])
<1>1. stack[t] \in Seq(Frames) /\ stack[t] # <<>> /\ StackOK(stack[t], shared')
    BY TopIsFrame DEF IInv
<1>2. st \in Seq(Frames) /\ StackOK(st, shared') /\ st[1] = fr
    BY <1>1, TopReplaced
<1>3. stack' = [stack EXCEPT ![t] = st]
    OBVIOUS
<1> HIDE DEF st
<1>4. ThreadInv'
    <2>1. writer' \in Threads \cup {NoThread} /\ calls' \in 0..MaxCalls
        BY DEF IInv, ThreadInv
    <2> QED BY <1>2, <1>3, <2>1, StackChanged DEF IInv
<1>5. LockInv'
    BY <1>2, <1>3, LockKept DEF IInv
<1> QED BY <1>4, <1>5

\* A step that only returns from the innermost frame.
LEMMA ReturnStep ==
    ASSUME IInv, NEW t \in Threads, Active(t), NEW outcome \in Outcomes,
           Return(t, outcome), UNCHANGED <<shared, calls>>,
           \/ UNCHANGED <<writer, cache_mapper_>>
           \/ UNCHANGED writer /\ Unlocked
           \/ writer = t /\ writer' = NoThread
    PROVE  ThreadInv' /\ LockInv'
<1> DEFINE st == Returned(stack[t], outcome)
<1>1. stack[t] \in Seq(Frames) /\ stack[t] # <<>> /\ StackOK(stack[t], shared)
    BY TopIsFrame DEF IInv, ThreadInv
<1>2. st \in Seq(Frames) /\ StackOK(st, shared) /\ (st # <<>> => st[1].pc = "init")
    BY <1>1, FrameReturned
<1>3. stack' = [stack EXCEPT ![t] = st]
    BY DEF Return, Returned
<1> HIDE DEF st
<1>4. ThreadInv'
    <2>1. /\ writer' \in Threads \cup {NoThread} /\ calls' \in 0..MaxCalls
          /\ shared' \in [Futures -> Outcomes \cup {"unset"}]
          /\ \A u \in Threads : StackOK(stack[u], shared')
          /\ StackOK(st, shared')
        BY <1>2 DEF IInv, ThreadInv
    <2> QED BY <1>2, <1>3, <2>1, StackChanged DEF IInv
<1>5. LockInv'
    BY <1>2, <1>3, LockKept DEF IInv
<1> QED BY <1>4, <1>5

\* The cache fields when nothing touches them.
LEMMA CacheUntouched ==
    ASSUME CacheInv, UNCHANGED <<capacity_, cache_list_, cache_mapper_>>
    PROVE  CacheInv'
BY DEF CacheInv, ListAndMapperAgree, WithinCapacity

LEMMA CallKeepsInv ==
    ASSUME IInv, NEW t \in Threads, NEW k \in Keys, Call(t, k)
    PROVE  IInv'
<1> DEFINE st == <<NewFrame(k)>>
<1>1. NewFrame(k) \in Frames /\ FrameOK(NewFrame(k), shared)
    BY NewFrameOK
<1>2. st \in Seq(Frames) /\ StackOK(st, shared) /\ st[1] = NewFrame(k)
    BY <1>1 DEF StackOK
<1>3. st[1].pc # "removing"
    BY <1>2 DEF NewFrame
<1>4. stack' = [stack EXCEPT ![t] = st]
    BY DEF Call
<1> HIDE DEF st
<1>5. /\ writer' \in Threads \cup {NoThread} /\ calls' \in 0..MaxCalls
      /\ shared' \in [Futures -> Outcomes \cup {"unset"}]
      /\ \A u \in Threads : StackOK(stack[u], shared')
      /\ StackOK(st, shared')
    BY <1>2, MaxCallsAssumption DEF IInv, ThreadInv, Call
<1>6. ThreadInv'
    BY <1>2, <1>4, <1>5, StackChanged DEF IInv
<1>7. LockInv'
    BY <1>3, <1>4, LockKept DEF IInv, Call
<1>8. CacheInv'
    BY CacheUntouched DEF Call, IInv
<1> QED BY <1>6, <1>7, <1>8 DEF IInv

LEMMA SetCapacityKeepsInv ==
    ASSUME IInv, NEW t \in Threads, NEW c \in Capacities, SetCapacity(t, c)
    PROVE  IInv'
<1> DEFINE n == IF Len(cache_list_) > c THEN Len(cache_list_) - c ELSE 0
<1>1. c \in Nat /\ Len(cache_list_) \in Nat
    BY CapacityAssumption DEF IInv, CacheInv
<1>2. n \in 0..Len(cache_list_) /\ Len(cache_list_) - n <= c
    BY <1>1
<1>3. /\ cache_list_' = EvictedList(cache_list_, n)
      /\ cache_mapper_' = EvictedMapper(cache_list_, cache_mapper_, n)
      /\ capacity_' = c
    BY DEF SetCapacity
<1> HIDE DEF n
<1>4. /\ Agree(cache_list_', cache_mapper_') /\ cache_list_' \in Seq(Nodes)
      /\ Len(cache_list_') = Len(cache_list_) - n
    BY <1>2, <1>3, EvictAgrees DEF IInv, CacheInv, ListAndMapperAgree
<1>5. IsMapper(cache_mapper_')
    BY <1>3 DEF EvictedMapper, Restrict, IsMapper, IInv, CacheInv
<1>6. CacheInv'
    BY <1>1, <1>2, <1>3, <1>4, <1>5 DEF CacheInv, ListAndMapperAgree, WithinCapacity
<1>7. ThreadInv'
    BY MaxCallsAssumption DEF SetCapacity, IInv, ThreadInv
<1>8. LockInv'
    <2>1. \A u \in Threads : ~(Active(u) /\ Top(u).pc = "removing")
        BY NoneAssumption DEF SetCapacity, Unlocked, IInv, LockInv
    <2> QED BY <2>1 DEF SetCapacity, LockInv, Active, Top
<1> QED BY <1>6, <1>7, <1>8 DEF IInv

\* The actions that start to build allocate a future and go to init.
LEMMA BuildStarts ==
    ASSUME IInv, NEW t \in Threads, Active(t), SomeFutureIsFree, Unlocked,
           GoToWith(t, "init", FreshFuture),
           shared' = [shared EXCEPT ![FreshFuture] = "unset"],
           UNCHANGED <<writer, calls>>
    PROVE  ThreadInv' /\ LockInv'
<1> DEFINE fr == [Top(t) EXCEPT !.pc = "init", !.fut = FreshFuture]
<1>1. fr \in Frames /\ fr.pc = "init" /\ fr.fut \in Futures
    <2>1. Top(t) \in Frames /\ "init" \in Pcs /\ FreshFuture \in Futures
        BY TopIsFrame, FreshIsFree DEF Pcs, IInv
    <2>2. FreshFuture \in Futures \cup {NoFuture}
        BY <2>1
    <2> QED BY <2>1, <2>2 DEF Frames
<1>2. stack' = [stack EXCEPT ![t] = <<fr>> \o Tail(@)]
    BY DEF GoToWith
<1> HIDE DEF fr
<1>3. FrameOK(fr, shared') /\ fr.pc # "removing"
    BY <1>1 DEF FrameOK
<1>4. /\ shared' \in [Futures -> Outcomes \cup {"unset"}]
      /\ \A u \in Threads : StackOK(stack[u], shared')
    BY SharedAllocated DEF IInv
<1> QED BY <1>1, <1>2, <1>3, <1>4, FrameStep

LEMMA ReadCapacityKeepsInv ==
    ASSUME IInv, NEW t \in Threads, ReadCapacity(t)
    PROVE  IInv'
<1>1. CacheInv'
    BY CacheUntouched DEF ReadCapacity, IInv
<1>2. Active(t) /\ Top(t) \in Frames /\ UNCHANGED <<writer, calls>> /\ Unlocked
    BY TopIsFrame DEF ReadCapacity, IInv
<1>3. CASE capacity_ = 0
    <2>1. /\ SomeFutureIsFree /\ shared' = [shared EXCEPT ![FreshFuture] = "unset"]
          /\ GoToWith(t, "init", FreshFuture)
        BY <1>3 DEF ReadCapacity
    <2> QED BY <1>1, <1>2, <2>1, BuildStarts DEF IInv
<1>4. CASE capacity_ # 0
    <2> DEFINE fr == [Top(t) EXCEPT !.pc = "lock_write"]
    <2>1. fr \in Frames /\ fr.pc = "lock_write"
        BY <1>2 DEF Frames, Pcs
    <2>2. stack' = [stack EXCEPT ![t] = <<fr>> \o Tail(@)]
        BY <1>4 DEF ReadCapacity, GoTo
    <2> HIDE DEF fr
    <2>3. FrameOK(fr, shared') /\ fr.pc # "removing"
        BY <2>1 DEF FrameOK
    <2>4. /\ shared' \in [Futures -> Outcomes \cup {"unset"}]
          /\ \A u \in Threads : StackOK(stack[u], shared')
        BY <1>4 DEF ReadCapacity, IInv, ThreadInv
    <2>5. ThreadInv' /\ LockInv'
        BY <1>2, <2>1, <2>2, <2>3, <2>4, FrameStep
    <2> QED BY <1>1, <2>5 DEF IInv
<1> QED BY <1>3, <1>4


LEMMA FindDisabledKeepsInv ==
    ASSUME IInv, NEW t \in Threads, FindDisabled(t)
    PROVE  IInv'
<1>1. CacheInv'
    BY CacheUntouched DEF FindDisabled, IInv
<1>2. ThreadInv' /\ LockInv'
    BY BuildStarts DEF FindDisabled
<1> QED BY <1>1, <1>2 DEF IInv

\* A frame that goes on to pc with a future of its own or of an entry.
LEMMA GoesOn ==
    ASSUME IInv, NEW t \in Threads, Active(t), NEW pc \in Pcs,
           pc \notin {"update_entry", "removing"}, NEW f \in Futures,
           \/ GoToWith(t, pc, f)
           \/ GoTo(t, pc) /\ f = Top(t).fut,
           UNCHANGED <<writer, calls>>,
           UNCHANGED cache_mapper_ \/ Unlocked,
           shared' \in [Futures -> Outcomes \cup {"unset"}],
           \A u \in Threads : StackOK(stack[u], shared')
    PROVE  ThreadInv' /\ LockInv'
<1>1. PICK fr \in Frames : /\ fr.pc = pc /\ fr.fut \in Futures
                           /\ stack' = [stack EXCEPT ![t] = <<fr>> \o Tail(@)]
    <2>1. Top(t) \in Frames /\ f \in Futures \cup {NoFuture}
        BY TopIsFrame DEF IInv
    <2>2. CASE GoToWith(t, pc, f)
        <3> DEFINE new == [Top(t) EXCEPT !.pc = pc, !.fut = f]
        <3>1. new \in Frames /\ new.pc = pc /\ new.fut = f
            BY <2>1 DEF Frames
        <3>2. stack' = [stack EXCEPT ![t] = <<new>> \o Tail(@)]
            BY <2>2 DEF GoToWith
        <3> HIDE DEF new
        <3> QED BY <3>1, <3>2
    <2>3. CASE GoTo(t, pc) /\ f = Top(t).fut
        <3> DEFINE new == [Top(t) EXCEPT !.pc = pc]
        <3>1. new \in Frames /\ new.pc = pc /\ new.fut = f
            BY <2>1, <2>3 DEF Frames
        <3>2. stack' = [stack EXCEPT ![t] = <<new>> \o Tail(@)]
            BY <2>3 DEF GoTo
        <3> HIDE DEF new
        <3> QED BY <3>1, <3>2
    <2> QED BY <2>2, <2>3
<1>2. FrameOK(fr, shared') /\ fr.pc # "removing"
    BY <1>1 DEF FrameOK
<1> QED BY <1>1, <1>2, FrameStep

LEMMA HitKeepsInv ==
    ASSUME IInv, NEW t \in Threads, Hit(t)
    PROVE  IInv'
<1> DEFINE k == Top(t).key
           i == IndexOf(cache_mapper_[k].node)
<1>1. /\ k \in Cached /\ Active(t) /\ Unlocked
      /\ cache_list_' = Spliced(cache_list_, i)
      /\ UNCHANGED <<capacity_, cache_mapper_, shared, writer, calls>>
      /\ GoToWith(t, "wait", cache_mapper_[k].node)
    BY DEF Hit
<1>2. i \in 1..Len(cache_list_) /\ cache_mapper_[k].node \in Futures
    BY <1>1, IteratorIsValid DEF IInv, CacheInv
<1> HIDE DEF k, i
<1>3. CacheInv'
    BY <1>1, <1>2, SpliceAgrees DEF IInv, CacheInv, ListAndMapperAgree, WithinCapacity
<1>4. ThreadInv' /\ LockInv'
    <2>1. "wait" \in Pcs /\ "wait" \notin {"update_entry", "removing"}
        BY DEF Pcs
    <2>2. /\ shared' \in [Futures -> Outcomes \cup {"unset"}]
          /\ \A u \in Threads : StackOK(stack[u], shared')
        BY <1>1 DEF IInv, ThreadInv
    <2> QED BY <1>1, <1>2, <2>1, <2>2, GoesOn
<1> QED BY <1>3, <1>4 DEF IInv

LEMMA MissKeepsInv ==
    ASSUME IInv, NEW t \in Threads, Miss(t)
    PROVE  IInv'
<1> DEFINE k       == Top(t).key
           f       == FreshFuture
           n       == IF Cardinality(Cached) = capacity_ THEN 1 ELSE 0
           desc    == [in |-> "pd", of |-> f]
           node    == [key |-> k, thread_id_ |-> t, desc |-> desc, value |-> f]
           slot    == [thread_id_ |-> t, desc |-> desc, node |-> f]
           smaller == EvictedMapper(cache_list_, cache_mapper_, n)
           shorter == EvictedList(cache_list_, n)
           bigger  == [x \in DOMAIN smaller \cup {k} |-> IF x = k THEN slot ELSE smaller[x]]
<1>1. /\ k \notin Cached /\ Active(t) /\ Unlocked /\ capacity_ # 0 /\ SomeFutureIsFree
      /\ cache_list_' = <<node>> \o shorter /\ cache_mapper_' = bigger
      /\ UNCHANGED <<capacity_, writer, calls>>
      /\ shared' = [shared EXCEPT ![FreshFuture] = "unset"]
      /\ GoToWith(t, "init", FreshFuture)
    BY DEF Miss, Add
<1>2. f \in Futures /\ f \notin Referenced
    BY <1>1, FreshIsFree
<1>3. node \in Nodes /\ slot \in Slots /\ k \in Keys
    <2>1. k \in Keys
        BY <1>1, TopIsFrame DEF IInv, Frames
    <2> QED BY <1>2, <2>1 DEF Nodes, Slots, Descs
<1>4. /\ Len(cache_list_) \in Nat /\ Cardinality(Cached) = Len(cache_list_)
      /\ capacity_ \in Nat /\ Len(cache_list_) <= capacity_
    BY SizesAgree DEF IInv, CacheInv, ListAndMapperAgree, Cached, WithinCapacity
<1>5. n \in 0..Len(cache_list_) /\ Len(cache_list_) - n + 1 <= capacity_
    BY <1>1, <1>4
<1>6. /\ Agree(shorter, smaller) /\ shorter \in Seq(Nodes)
      /\ Len(shorter) = Len(cache_list_) - n
      /\ \A j \in 1..(Len(cache_list_) - n) : shorter[j] = cache_list_[j]
    BY <1>5, EvictAgrees DEF IInv, CacheInv, ListAndMapperAgree
<1>7. IsMapper(smaller) /\ DOMAIN smaller \subseteq Cached
    BY DEF EvictedMapper, Restrict, IsMapper, IInv, CacheInv, Cached
<1>8. \A j \in DOMAIN shorter : shorter[j].value # f
    <2> SUFFICES ASSUME NEW j \in DOMAIN shorter PROVE shorter[j].value # f
        OBVIOUS
    <2>1. j \in 1..Len(cache_list_) /\ shorter[j] = cache_list_[j]
        BY <1>4, <1>5, <1>6
    <2>2. cache_list_[j] \in ToSet(cache_list_)
        BY <1>4, <2>1 DEF ToSet, IInv, CacheInv
    <2> QED BY <1>2, <2>1, <2>2 DEF Referenced
<1>9. node.key = k /\ node.value = f /\ node.thread_id_ = t /\ node.desc = desc
    OBVIOUS
<1> HIDE DEF node, slot, smaller, shorter, n, f, k
<1>10. Agree(<<node>> \o shorter, bigger)
    <2>1. k \notin DOMAIN smaller
        BY <1>1, <1>7
    <2>2. slot = [thread_id_ |-> node.thread_id_, desc |-> node.desc, node |-> node.value]
        BY <1>9 DEF slot
    <2>3. node.key \notin DOMAIN smaller
        BY <1>9, <2>1
    <2>4. \A j \in DOMAIN shorter : shorter[j].value # node.value
        BY <1>8, <1>9
    <2>5. bigger = [x \in DOMAIN smaller \cup {node.key} |->
                        IF x = node.key
                        THEN [thread_id_ |-> node.thread_id_, desc |-> node.desc,
                              node |-> node.value]
                        ELSE smaller[x]]
        BY <1>9, <2>2
    <2> HIDE DEF bigger
    <2>6. Agree(<<node>> \o shorter,
                [x \in DOMAIN smaller \cup {node.key} |->
                    IF x = node.key
                    THEN [thread_id_ |-> node.thread_id_, desc |-> node.desc,
                          node |-> node.value]
                    ELSE smaller[x]])
        BY <1>3, <1>6, <2>3, <2>4, AddAgrees
    <2> QED BY <2>5, <2>6
<1>11. <<node>> \o shorter \in Seq(Nodes) /\ Len(<<node>> \o shorter) <= capacity_
    BY <1>3, <1>4, <1>5, <1>6, PushFront
<1>12. IsMapper(bigger)
    BY <1>3, <1>7 DEF IsMapper
<1>13. CacheInv'
    BY <1>1, <1>4, <1>10, <1>11, <1>12 DEF CacheInv, ListAndMapperAgree, WithinCapacity
<1>14. ThreadInv' /\ LockInv'
    BY <1>1, BuildStarts
<1> QED BY <1>13, <1>14 DEF IInv

LEMMA GetFutureKeepsInv ==
    ASSUME IInv, NEW t \in Threads, GetFuture(t)
    PROVE  IInv'
<1>1. CacheInv'
    BY CacheUntouched DEF GetFuture, IInv
<1>2. shared[Top(t).fut] \in Outcomes
    <2>1. Top(t).fut \in Futures
        BY TopIsFrame DEF GetFuture, FrameOK, IInv
    <2> QED BY <2>1 DEF GetFuture, IInv, ThreadInv
<1>3. ThreadInv' /\ LockInv'
    BY <1>2, ReturnStep DEF GetFuture
<1> QED BY <1>1, <1>3 DEF IInv

LEMMA CreateNestedKeepsInv ==
    ASSUME IInv, NEW t \in Threads, CreateNested(t)
    PROVE  IInv'
<1> DEFINE fr  == [Top(t) EXCEPT !.pc = "nested"]
           new == NewFrame(NestedOf[Top(t).key])
           st  == <<new, fr>> \o Tail(stack[t])
<1>1. /\ stack[t] \in Seq(Frames) /\ stack[t] # <<>> /\ Active(t)
      /\ Top(t) \in Frames /\ FrameOK(Top(t), shared) /\ Top(t).pc = "init"
      /\ StackOK(stack[t], shared)
    BY TopIsFrame DEF CreateNested, IInv, ThreadInv
<1>2. fr \in Frames /\ fr.pc = "nested" /\ FrameOK(fr, shared)
    BY <1>1 DEF Frames, Pcs, FrameOK
<1>3. new \in Frames /\ FrameOK(new, shared) /\ new.pc = "get_or_add"
    <2>1. Top(t).key \in Keys
        BY <1>1 DEF Frames
    <2>2. NestedOf[Top(t).key] \in Keys
        BY <2>1, NestedAssumption DEF CreateNested
    <2> QED BY <2>2, NewFrameOK DEF NewFrame
<1>4. stack' = [stack EXCEPT ![t] = st]
    BY DEF CreateNested
<1> HIDE DEF fr, new
<1>5. st \in Seq(Frames) /\ StackOK(st, shared) /\ st[1].pc # "removing"
    BY <1>1, <1>2, <1>3, FramePushed
<1> HIDE DEF st
<1>6. /\ writer' \in Threads \cup {NoThread} /\ calls' \in 0..MaxCalls
      /\ shared' \in [Futures -> Outcomes \cup {"unset"}]
      /\ \A u \in Threads : StackOK(stack[u], shared')
      /\ StackOK(st, shared')
    BY <1>5 DEF IInv, ThreadInv, CreateNested
<1>7. ThreadInv'
    BY <1>4, <1>5, <1>6, StackChanged DEF IInv
<1>8. LockInv'
    BY <1>4, <1>5, LockKept DEF IInv, CreateNested
<1>9. CacheInv'
    BY CacheUntouched DEF CreateNested, IInv
<1> QED BY <1>7, <1>8, <1>9 DEF IInv

LEMMA InitSucceedsKeepsInv ==
    ASSUME IInv, NEW t \in Threads, InitSucceeds(t)
    PROVE  IInv'
<1> DEFINE fr == [Top(t) EXCEPT !.pc = "update_entry"]
<1>1. Active(t) /\ Top(t) \in Frames /\ Top(t).fut \in Futures
    BY TopIsFrame DEF InitSucceeds, InitEnds, IInv, FrameOK
<1>2. Built(Top(t)) \in Outcomes
    BY DEF Built, Outcomes, Primitives
<1>3. shared' = [shared EXCEPT ![Top(t).fut] = Built(Top(t))]
    BY DEF InitSucceeds
<1>4. /\ shared' \in [Futures -> Outcomes \cup {"unset"}]
      /\ \A u \in Threads : StackOK(stack[u], shared')
      /\ shared'[Top(t).fut] # "unset"
    BY <1>1, <1>2, <1>3, SharedPublished DEF IInv
<1>5. fr \in Frames /\ fr.pc = "update_entry" /\ fr.fut = Top(t).fut
    BY <1>1 DEF Frames, Pcs
<1>6. /\ stack' = [stack EXCEPT ![t] = <<fr>> \o Tail(@)]
      /\ UNCHANGED <<capacity_, cache_list_, cache_mapper_, writer, calls>>
    BY DEF InitSucceeds, GoTo
<1> HIDE DEF fr
<1>7. FrameOK(fr, shared') /\ fr.pc # "removing"
    BY <1>1, <1>4, <1>5 DEF FrameOK
<1>8. ThreadInv' /\ LockInv'
    BY <1>1, <1>4, <1>5, <1>6, <1>7, FrameStep
<1>9. CacheInv'
    BY <1>6, CacheUntouched DEF IInv
<1> QED BY <1>8, <1>9 DEF IInv

LEMMA InitFailsKeepsInv ==
    ASSUME IInv, NEW t \in Threads, InitFails(t)
    PROVE  IInv'
<1>1. Active(t) /\ Top(t).fut \in Futures
    BY TopIsFrame DEF InitFails, InitEnds, IInv, FrameOK
<1>2. "failed" \in Outcomes
    BY DEF Outcomes
<1>3. /\ shared' = [shared EXCEPT ![Top(t).fut] = "failed"]
      /\ GoTo(t, "remove_if_invalidated")
      /\ UNCHANGED <<capacity_, cache_list_, cache_mapper_, writer, calls>>
    BY DEF InitFails
<1>4. /\ shared' \in [Futures -> Outcomes \cup {"unset"}]
      /\ \A u \in Threads : StackOK(stack[u], shared')
    BY <1>1, <1>2, <1>3, SharedPublished DEF IInv
<1>5. /\ "remove_if_invalidated" \in Pcs
      /\ "remove_if_invalidated" \notin {"update_entry", "removing"}
    BY DEF Pcs
<1>6. ThreadInv' /\ LockInv'
    BY <1>1, <1>3, <1>4, <1>5, GoesOn
<1>7. CacheInv'
    BY <1>3, CacheUntouched DEF IInv
<1> QED BY <1>6, <1>7 DEF IInv

LEMMA UpdateEntryKeepsInv ==
    ASSUME IInv, NEW t \in Threads, UpdateEntry(t)
    PROVE  IInv'
<1> DEFINE fr   == Top(t)
           desc == [in |-> "primitive", of |-> fr.fut]
           i    == IndexOf(cache_mapper_[fr.key].node)
<1>1. /\ Active(t) /\ fr.pc = "update_entry" /\ Unlocked
      /\ Return(t, shared[fr.fut]) /\ UNCHANGED <<capacity_, shared, writer, calls>>
    BY DEF UpdateEntry
<1>2. fr.fut \in Futures /\ shared[fr.fut] \in Outcomes
    <2>1. fr.fut \in Futures /\ shared[fr.fut] # "unset"
        BY <1>1, TopIsFrame DEF IInv, FrameOK
    <2> QED BY <2>1 DEF IInv, ThreadInv
<1>3. CacheInv'
    <2>1. CASE MayUpdate(t)
        <3>1. /\ fr.key \in Cached
              /\ cache_mapper_' = [cache_mapper_ EXCEPT ![fr.key].desc = desc]
              /\ cache_list_' = [cache_list_ EXCEPT ![i].desc = desc]
            BY <2>1 DEF UpdateEntry, MayUpdate
        <3>2. i \in DOMAIN cache_list_ /\ cache_list_[i].key = fr.key
            BY <3>1, IteratorIsValid DEF IInv, CacheInv, NodeAt
        <3>3. desc \in Descs
            BY <1>2 DEF Descs
        <3> HIDE DEF i, desc, fr
        <3>4. /\ Agree(cache_list_', cache_mapper_') /\ cache_list_' \in Seq(Nodes)
              /\ Len(cache_list_') = Len(cache_list_)
            BY <3>1, <3>2, <3>3, UpdateAgrees DEF IInv, CacheInv, ListAndMapperAgree
        <3>5. IsMapper(cache_mapper_')
            BY <3>1, <3>3 DEF IsMapper, IInv, CacheInv, Cached, Slots
        <3> QED BY <1>1, <3>4, <3>5
                DEF IInv, CacheInv, ListAndMapperAgree, WithinCapacity
    <2>2. CASE ~MayUpdate(t)
        BY <1>1, <2>2, CacheUntouched DEF UpdateEntry, IInv
    <2> QED BY <2>1, <2>2
<1>4. ThreadInv' /\ LockInv'
    BY <1>1, <1>2, ReturnStep
<1> QED BY <1>3, <1>4 DEF IInv

LEMMA LockAndFindKeepsInv ==
    ASSUME IInv, NEW t \in Threads, LockAndFind(t)
    PROVE  IInv'
<1>1. CacheInv'
    BY CacheUntouched DEF LockAndFind, IInv
<1>2. /\ Active(t) /\ Top(t) \in Frames /\ FrameOK(Top(t), shared) /\ Unlocked
      /\ Top(t).pc = "remove_if_invalidated"
      /\ stack[t] \in Seq(Frames) /\ stack[t] # <<>> /\ StackOK(stack[t], shared)
    BY TopIsFrame DEF LockAndFind, IInv, ThreadInv
<1>3. CASE Top(t).key \in Cached
    <2> DEFINE fr == [Top(t) EXCEPT !.pc = "removing"]
               st == <<fr>> \o Tail(stack[t])
    <2>1. /\ fr \in Frames /\ FrameOK(fr, shared) /\ fr.key \in Cached
        BY <1>2, <1>3 DEF Frames, Pcs, FrameOK
    <2>2. stack' = [stack EXCEPT ![t] = st] /\ writer' = t
        BY <1>3 DEF LockAndFind, GoTo
    <2> HIDE DEF fr
    <2>3. st \in Seq(Frames) /\ StackOK(st, shared) /\ st[1] = fr
        BY <1>2, <2>1, TopReplaced
    <2> HIDE DEF st
    <2>4. ThreadInv'
        <3>1. /\ writer' \in Threads \cup {NoThread} /\ calls' \in 0..MaxCalls
              /\ shared' \in [Futures -> Outcomes \cup {"unset"}]
              /\ \A u \in Threads : StackOK(stack[u], shared')
              /\ StackOK(st, shared')
            BY <2>2, <2>3 DEF LockAndFind, IInv, ThreadInv
        <3> QED BY <2>2, <2>3, <3>1, StackChanged DEF IInv
    <2>5. LockInv'
        <3> SUFFICES ASSUME NEW u \in Threads, Active(u)', (Top(u)').pc = "removing"
                     PROVE  writer' = u /\ (Top(u)').key \in Cached'
            BY DEF LockInv
        <3>1. CASE u = t
            <4>1. Top(u)' = fr
                BY <2>2, <2>3, <3>1 DEF Top, IInv, ThreadInv
            <4> QED BY <2>1, <2>2, <3>1, <4>1 DEF LockAndFind, Cached
        <3>2. CASE u # t
            <4>1. Active(u) /\ Top(u).pc = "removing"
                BY <2>2, <3>2 DEF Active, Top, IInv, ThreadInv
            <4> QED BY <1>2, <4>1, NoneAssumption DEF IInv, LockInv, Unlocked
        <3> QED BY <3>1, <3>2
    <2> QED BY <1>1, <2>4, <2>5 DEF IInv
<1>4. CASE Top(t).key \notin Cached
    <2>1. "failed" \in Outcomes
        BY DEF Outcomes
    <2>2. Return(t, "failed") /\ UNCHANGED <<writer, cache_mapper_, shared, calls>>
        BY <1>4 DEF LockAndFind
    <2>3. ThreadInv' /\ LockInv'
        BY <1>2, <2>1, <2>2, ReturnStep
    <2> QED BY <1>1, <2>3 DEF IInv
<1> QED BY <1>3, <1>4

LEMMA EraseInvalidatedKeepsInv ==
    ASSUME IInv, NEW t \in Threads, EraseInvalidated(t)
    PROVE  IInv'
<1> DEFINE k == Top(t).key
           f == cache_mapper_[k].node
<1>1. /\ Active(t) /\ Top(t).pc = "removing" /\ writer = t /\ writer' = NoThread
      /\ Return(t, "failed") /\ UNCHANGED <<capacity_, shared, calls>>
    BY DEF EraseInvalidated
<1>2. k \in Cached
    BY <1>1 DEF IInv, LockInv
<1>3. IndexOf(f) \in 1..Len(cache_list_) /\ cache_list_[IndexOf(f)].key = k
    BY <1>2, IteratorIsValid DEF IInv, CacheInv, NodeAt
<1>4. CacheInv'
    <2>1. CASE shared[f] = "failed"
        <3>1. /\ cache_list_' = RemoveAt(cache_list_, IndexOf(f))
              /\ cache_mapper_' = Restrict(cache_mapper_, Cached \ {k})
            BY <2>1 DEF EraseInvalidated
        <3> HIDE DEF k, f
        <3>2. /\ Agree(cache_list_', cache_mapper_') /\ cache_list_' \in Seq(Nodes)
              /\ Len(cache_list_') = Len(cache_list_) - 1
            BY <1>3, <3>1, EraseAgrees DEF IInv, CacheInv, ListAndMapperAgree, Cached
        <3>3. IsMapper(cache_mapper_')
            BY <3>1 DEF IsMapper, Restrict, IInv, CacheInv, Cached
        <3>4. Len(cache_list_') <= capacity_'
            <4>1. Len(cache_list_) \in Nat /\ capacity_ \in Nat
                BY DEF IInv, CacheInv
            <4> QED BY <1>1, <3>2, <4>1 DEF IInv, CacheInv, WithinCapacity
        <3> QED BY <1>1, <3>2, <3>3, <3>4
                DEF IInv, CacheInv, ListAndMapperAgree, WithinCapacity
    <2>2. CASE shared[f] # "failed"
        BY <1>1, <2>2, CacheUntouched DEF EraseInvalidated, IInv
    <2> QED BY <2>1, <2>2
<1>5. ThreadInv' /\ LockInv'
    <2>1. "failed" \in Outcomes
        BY DEF Outcomes
    <2> QED BY <1>1, <2>1, ReturnStep
<1> QED BY <1>4, <1>5 DEF IInv

-----------------------------------------------------------------------------
(* Who builds what *)

\* What a frame that owns a promise is doing for which key.
Owns(fr) ==
    fr.pc \in {"init", "nested", "update_entry", "remove_if_invalidated", "removing"}

Phase(pc) ==
    IF pc \in {"init", "nested"} THEN "building"
    ELSE IF pc = "update_entry" THEN "built" ELSE "failed"

Task(fr) == [key |-> fr.key, fut |-> fr.fut, phase |-> Phase(fr.pc)]

TasksOf(st) == {Task(st[i]) : i \in {j \in DOMAIN st : Owns(st[j])}}

Tasks(t) == TasksOf(stack[t])

\* Each frame was called by the one below it.
Chain(st) ==
    \A i \in DOMAIN st : i + 1 \in DOMAIN st => st[i].key = NestedOf[st[i + 1].key]

Chains == \A t \in Threads : Chain(stack[t])

\* A promise is not set while its primitive is built, and says afterwards how
\* that ended.
PromiseIsKept(task, sh) ==
    CASE task.phase = "building" -> sh[task.fut] = "unset"
      [] task.phase = "built"    -> sh[task.fut] \in Primitives
      [] task.phase = "failed"   -> sh[task.fut] = "failed"

PromisesAreKept == \A t \in Threads : \A task \in Tasks(t) : PromiseIsKept(task, shared)

\* No promise has two owners.
OwnersAreApart ==
    \A t, u \in Threads : \A a \in Tasks(t), b \in Tasks(u) :
        a.fut = b.fut => t = u /\ a = b

Entries == {cache_list_[i] : i \in DOMAIN cache_list_}

\* An entry points into its own primitive, which is complete, or into the
\* descriptor of the call that inserted it and still owns its promise.
EntryIsOwned(n) ==
    /\ n.desc.of = n.value
    /\ n.desc.in = "primitive" => shared[n.value] \in Primitives
    /\ n.desc.in = "pd" =>
         \E task \in Tasks(n.thread_id_) : task.key = n.key /\ task.fut = n.value

EntriesAreOwned == \A n \in Entries : EntryIsOwned(n)

\* The thread identifier of an entry tells whose it is: a call of that thread
\* that owns a promise for the key owns the one in the entry.
ThreadTells ==
    \A n \in Entries : \A task \in Tasks(n.thread_id_) :
        task.key = n.key => task.fut = n.value

OwnerInv == Chains /\ PromisesAreKept /\ OwnersAreApart /\ EntriesAreOwned /\ ThreadTells

\* The tasks of a stack with one frame more, or another on top.
LEMMA TasksPushed ==
    ASSUME NEW st \in Seq(Frames), NEW fr \in Frames
    PROVE  /\ TasksOf(<<fr>> \o st) =
                TasksOf(st) \cup (IF Owns(fr) THEN {Task(fr)} ELSE {})
           /\ <<fr>> \o st \in Seq(Frames)
<1> DEFINE r == <<fr>> \o st
<1>1. /\ r \in Seq(Frames) /\ Len(r) = Len(st) + 1 /\ r[1] = fr
      /\ \A j \in 1..Len(st) : r[j + 1] = st[j]
    BY PushFront
<1> HIDE DEF r
<1>2. DOMAIN r = 1..(Len(st) + 1) /\ DOMAIN st = 1..Len(st)
    BY <1>1
<1>3. ASSUME NEW i \in DOMAIN r, Owns(r[i])
      PROVE  Task(r[i]) \in TasksOf(st) \cup (IF Owns(fr) THEN {Task(fr)} ELSE {})
    <2>1. CASE i = 1
        BY <1>1, <1>3, <2>1
    <2>2. CASE i # 1
        <3>1. i - 1 \in 1..Len(st) /\ (i - 1) + 1 = i
            BY <1>2, <2>2
        <3> QED BY <1>1, <1>2, <1>3, <3>1 DEF TasksOf
    <2> QED BY <2>1, <2>2
<1>4. ASSUME NEW i \in DOMAIN st, Owns(st[i])
      PROVE  Task(st[i]) \in TasksOf(r)
    <2>1. i + 1 \in DOMAIN r /\ r[i + 1] = st[i]
        BY <1>1, <1>2
    <2> QED BY <1>4, <2>1 DEF TasksOf
<1>5. ASSUME Owns(fr) PROVE Task(fr) \in TasksOf(r)
    <2>1. 1 \in DOMAIN r /\ r[1] = fr
        BY <1>1, <1>2
    <2> QED BY <1>5, <2>1 DEF TasksOf
<1>6. \A x : x \in TasksOf(r) <=>
                x \in TasksOf(st) \cup (IF Owns(fr) THEN {Task(fr)} ELSE {})
    <2> TAKE x
    <2>1. ASSUME x \in TasksOf(r)
          PROVE  x \in TasksOf(st) \cup (IF Owns(fr) THEN {Task(fr)} ELSE {})
        BY <1>3, <2>1 DEF TasksOf
    <2>2. ASSUME x \in TasksOf(st) PROVE x \in TasksOf(r)
        BY <1>4, <2>2 DEF TasksOf
    <2> QED BY <1>5, <2>1, <2>2
<1>7. TasksOf(r) = TasksOf(st) \cup (IF Owns(fr) THEN {Task(fr)} ELSE {})
    BY <1>6
<1> QED BY <1>1, <1>7 DEF r

\* A stack is its first frame on top of the others.
LEMMA TopOnRest ==
    ASSUME NEW st \in Seq(Frames), st # <<>>
    PROVE  st[1] \in Frames /\ Tail(st) \in Seq(Frames) /\ st = <<st[1]>> \o Tail(st)
BY Popped

\* The chain of calls, with a frame pushed or popped.
LEMMA ChainPushed ==
    ASSUME NEW st \in Seq(Frames), Chain(st), NEW fr \in Frames,
           st # <<>> => fr.key = NestedOf[st[1].key]
    PROVE  Chain(<<fr>> \o st)
<1> DEFINE r == <<fr>> \o st
<1>1. /\ r \in Seq(Frames) /\ Len(r) = Len(st) + 1 /\ r[1] = fr
      /\ \A j \in 1..Len(st) : r[j + 1] = st[j]
    BY PushFront
<1> HIDE DEF r
<1>2. ASSUME NEW i \in DOMAIN r, i + 1 \in DOMAIN r
      PROVE  r[i].key = NestedOf[r[i + 1].key]
    <2>1. i \in 1..Len(st)
        BY <1>1, <1>2
    <2>2. CASE i = 1
        <3>1. 1 \in 1..Len(st) /\ st # <<>> /\ r[1 + 1] = st[1]
            BY <1>1, <2>1, <2>2
        <3> QED BY <1>1, <2>2, <3>1
    <2>3. CASE i # 1
        <3>1. /\ i - 1 \in DOMAIN st /\ i \in DOMAIN st /\ (i - 1) + 1 = i
              /\ r[i] = st[i - 1] /\ r[i + 1] = st[i]
            <4>1. i - 1 \in 1..Len(st) /\ (i - 1) + 1 = i
                BY <2>1, <2>3
            <4> QED BY <1>1, <2>1, <4>1
        <3> QED BY <3>1 DEF Chain
    <2> QED BY <2>2, <2>3
<1>3. Chain(r)
    BY <1>2 DEF Chain
<1> QED BY <1>3 DEF r

LEMMA ChainPopped ==
    ASSUME NEW st \in Seq(Frames), st # <<>>, Chain(st)
    PROVE  /\ Chain(Tail(st))
           /\ Tail(st) # <<>> => st[1].key = NestedOf[Tail(st)[1].key]
<1>1. /\ Tail(st) \in Seq(Frames) /\ Len(Tail(st)) = Len(st) - 1
      /\ \A j \in 1..(Len(st) - 1) : Tail(st)[j] = st[j + 1]
    BY Popped
<1>2. ASSUME NEW i \in DOMAIN Tail(st), i + 1 \in DOMAIN Tail(st)
      PROVE  Tail(st)[i].key = NestedOf[Tail(st)[i + 1].key]
    <2>1. /\ i + 1 \in DOMAIN st /\ (i + 1) + 1 \in DOMAIN st
          /\ Tail(st)[i] = st[i + 1] /\ Tail(st)[i + 1] = st[(i + 1) + 1]
        BY <1>1, <1>2
    <2> QED BY <2>1 DEF Chain
<1>3. ASSUME Tail(st) # <<>> PROVE st[1].key = NestedOf[Tail(st)[1].key]
    <2>1. 1 \in DOMAIN st /\ 1 + 1 \in DOMAIN st /\ Tail(st)[1] = st[1 + 1]
        BY <1>1, <1>3
    <2> QED BY <2>1 DEF Chain
<1> QED BY <1>2, <1>3 DEF Chain

\* A call does not create, through others, a primitive of its own key.
LEMMA KeysDiffer ==
    ASSUME NEW st \in Seq(Frames), Chain(st),
           NEW i \in DOMAIN st, NEW j \in DOMAIN st, i < j
    PROVE  st[i].key # st[j].key
<1> SUFFICES ASSUME st[i].key = st[j].key PROVE FALSE
    OBVIOUS
<1> DEFINE S == {st[m].key : m \in (i + 1)..j}
<1>1. ASSUME NEW m \in DOMAIN st PROVE st[m].key \in Keys
    <2>1. st[m] \in Frames
        OBVIOUS
    <2> QED BY <2>1 DEF Frames
<1>2. DOMAIN st = 1..Len(st) /\ Len(st) \in Nat
    OBVIOUS
<1>3. S \subseteq Keys /\ st[j].key \in S
    BY <1>1, <1>2
<1>4. PICK k \in S : NestedOf[k] \notin S
    BY <1>3, NestingAssumption
<1>5. PICK m \in (i + 1)..j : k = st[m].key
    BY <1>4
<1>6. m - 1 \in DOMAIN st /\ (m - 1) + 1 = m /\ m \in DOMAIN st
    BY <1>2, <1>5
<1>7. st[m - 1].key = NestedOf[k]
    BY <1>5, <1>6 DEF Chain
<1>8. CASE m = i + 1
    BY <1>3, <1>4, <1>7, <1>8
<1>9. CASE m # i + 1
    <2>1. m - 1 \in (i + 1)..j
        BY <1>5, <1>9
    <2> QED BY <1>4, <1>7, <2>1
<1> QED BY <1>8, <1>9

\* What the calls below the innermost one are doing is for other keys.
LEMMA BelowForOthers ==
    ASSUME NEW st \in Seq(Frames), st # <<>>, Chain(st), NEW task \in TasksOf(Tail(st))
    PROVE  task.key # st[1].key
<1>1. /\ Tail(st) \in Seq(Frames) /\ Len(Tail(st)) = Len(st) - 1
      /\ \A j \in 1..(Len(st) - 1) : Tail(st)[j] = st[j + 1]
    BY Popped
<1>2. PICK j \in DOMAIN Tail(st) : task = Task(Tail(st)[j])
    BY DEF TasksOf
<1>3. /\ 1 \in DOMAIN st /\ j + 1 \in DOMAIN st /\ 1 < j + 1
      /\ Tail(st)[j] = st[j + 1]
    BY <1>1
<1>4. st[1].key # st[j + 1].key
    BY <1>3, KeysDiffer
<1> QED BY <1>2, <1>3, <1>4 DEF Task


\* What the calls below the innermost one of t are doing.
Rest(t) == TasksOf(Tail(stack[t]))

\* The task of a frame, if it has one.
Own(fr) == IF Owns(fr) THEN {Task(fr)} ELSE {}

LEMMA TasksOfTop ==
    ASSUME ThreadInv, Chains, NEW t \in Threads, Active(t)
    PROVE  /\ Tasks(t) = Rest(t) \cup Own(Top(t))
           /\ \A task \in Rest(t) : task.key # Top(t).key
<1>1. stack[t] \in Seq(Frames) /\ stack[t] # <<>> /\ Chain(stack[t])
    BY TopIsFrame DEF Chains
<1>2. /\ Top(t) \in Frames /\ Tail(stack[t]) \in Seq(Frames)
      /\ stack[t] = <<Top(t)>> \o Tail(stack[t])
    BY <1>1, TopOnRest DEF Top
<1>3. TasksOf(stack[t]) = TasksOf(Tail(stack[t])) \cup (IF Owns(Top(t)) THEN {Task(Top(t))} ELSE {})
    BY <1>2, TasksPushed
<1> QED BY <1>1, <1>3, BelowForOthers DEF Tasks, Rest, Own, Top

\* A step that replaces the innermost frame of t by one of the same key.
LEMMA TopChanged ==
    ASSUME ThreadInv, Chains, NEW t \in Threads, Active(t), NEW fr \in Frames,
           fr.key = Top(t).key, stack' = [stack EXCEPT ![t] = <<fr>> \o Tail(@)]
    PROVE  /\ Chains'
           /\ Tasks(t)' = Rest(t) \cup Own(fr)
           /\ \A u \in Threads \ {t} : Tasks(u)' = Tasks(u)
<1>1. stack[t] \in Seq(Frames) /\ stack[t] # <<>> /\ Chain(stack[t])
    BY TopIsFrame DEF Chains
<1>2. Tail(stack[t]) \in Seq(Frames)
    BY <1>1, TopOnRest
<1>3. /\ stack'[t] = <<fr>> \o Tail(stack[t])
      /\ \A u \in Threads \ {t} : stack'[u] = stack[u]
    BY DEF ThreadInv
<1>4. Chain(stack'[t])
    <2>1. /\ Chain(Tail(stack[t]))
          /\ Tail(stack[t]) # <<>> => fr.key = NestedOf[Tail(stack[t])[1].key]
        BY <1>1, ChainPopped DEF Top
    <2> QED BY <1>2, <1>3, <2>1, ChainPushed
<1>5. Tasks(t)' = Rest(t) \cup Own(fr)
    BY <1>2, <1>3, TasksPushed DEF Tasks, Rest, Own
<1> QED BY <1>3, <1>4, <1>5 DEF Chains, Tasks

\* A step that returns from the innermost frame of t.
LEMMA TopReturned ==
    ASSUME ThreadInv, Chains, NEW t \in Threads, Active(t), NEW outcome \in Outcomes,
           Return(t, outcome)
    PROVE  /\ Chains'
           /\ Tasks(t)' = Rest(t)
           /\ \A u \in Threads \ {t} : Tasks(u)' = Tasks(u)
<1> DEFINE below == Tail(stack[t])
           fr    == [below[1] EXCEPT !.pc = "init", !.nested = outcome]
<1>1. /\ stack[t] \in Seq(Frames) /\ stack[t] # <<>> /\ Chain(stack[t])
      /\ StackOK(stack[t], shared)
    BY TopIsFrame DEF Chains, ThreadInv
<1>2. /\ below \in Seq(Frames) /\ Chain(below)
      /\ \A j \in 1..(Len(stack[t]) - 1) : below[j] = stack[t][j + 1]
      /\ Len(below) = Len(stack[t]) - 1
    BY <1>1, ChainPopped, Popped
<1>3. /\ stack'[t] = IF below = <<>> THEN <<>> ELSE <<fr>> \o Tail(below)
      /\ \A u \in Threads \ {t} : stack'[u] = stack[u]
    BY DEF Return, ThreadInv
<1>4. CASE below = <<>>
    <2>1. stack'[t] = below
        BY <1>3, <1>4
    <2> HIDE DEF below
    <2>2. Chain(stack'[t]) /\ Tasks(t)' = TasksOf(below)
        BY <1>2, <2>1 DEF Tasks
    <2> QED BY <1>3, <2>2 DEF Chains, Tasks, Rest, below
<1>5. CASE below # <<>>
    <2>0. 2 \in DOMAIN stack[t] /\ below[1] = stack[t][2]
        BY <1>1, <1>2, <1>5
    <2>1. below[1].pc = "nested"
        BY <2>0, <1>1 DEF StackOK
    <2> HIDE DEF below
    <2>2. /\ below[1] \in Frames /\ Tail(below) \in Seq(Frames)
          /\ below = <<below[1]>> \o Tail(below)
        BY <1>2, <1>5, TopOnRest
    <2>3. fr \in Frames /\ fr.key = below[1].key /\ Own(fr) = Own(below[1])
        BY <2>1, <2>2 DEF Frames, Pcs, Own, Owns, Task, Phase
    <2> HIDE DEF fr
    <2>4. Chain(stack'[t])
        <3>1. /\ Chain(Tail(below))
              /\ Tail(below) # <<>> => fr.key = NestedOf[Tail(below)[1].key]
            BY <1>2, <1>5, <2>3, ChainPopped
        <3> QED BY <1>3, <1>5, <2>2, <2>3, <3>1, ChainPushed
    <2>5. TasksOf(<<fr>> \o Tail(below)) = TasksOf(Tail(below)) \cup Own(fr)
        BY <2>2, <2>3, TasksPushed DEF Own
    <2>6. TasksOf(<<below[1]>> \o Tail(below)) = TasksOf(Tail(below)) \cup Own(below[1])
        BY <2>2, TasksPushed DEF Own
    <2>7. Tasks(t)' = TasksOf(below)
        BY <1>3, <1>5, <2>2, <2>3, <2>5, <2>6 DEF Tasks
    <2> QED BY <1>3, <2>4, <2>7 DEF Chains, Tasks, Rest, below
<1> QED BY <1>4, <1>5

-----------------------------------------------------------------------------
(* What the steps do to owners and entries *)

\* Nothing is begun, published or given up.
LEMMA NothingBegun ==
    ASSUME OwnerInv, Chains', \A u \in Threads : Tasks(u)' = Tasks(u),
           UNCHANGED shared, Entries' \subseteq Entries,
           \A n \in Entries : n.thread_id_ \in Threads
    PROVE  OwnerInv'
<1>1. PromisesAreKept' /\ OwnersAreApart'
    BY DEF OwnerInv, PromisesAreKept, OwnersAreApart
<1>2. EntriesAreOwned'
    BY DEF OwnerInv, EntriesAreOwned, EntryIsOwned
<1>3. ThreadTells'
    BY DEF OwnerInv, ThreadTells
<1> QED BY <1>1, <1>2, <1>3 DEF OwnerInv

\* A new promise for the key k, unless k has an entry already.
LEMMA TaskBegun ==
    ASSUME OwnerInv, Chains', NEW t \in Threads, NEW k \in Keys, NEW f \in Futures,
           shared \in [Futures -> Outcomes \cup {"unset"}],
           shared' = [shared EXCEPT ![f] = "unset"],
           \A u \in Threads : \A task \in Tasks(u) : task.fut \in Futures /\ task.fut # f,
           \A task \in Tasks(t) : task.key # k,
           \A u \in Threads \ {t} : Tasks(u)' = Tasks(u),
           Tasks(t)' = Tasks(t) \cup {[key |-> k, fut |-> f, phase |-> "building"]},
           \A n \in Entries : n \in Nodes /\ n.value # f /\ n.key # k,
           \A n \in Entries' : \/ n \in Entries
                               \/ n = [key |-> k, thread_id_ |-> t, value |-> f,
                                       desc |-> [in |-> "pd", of |-> f]]
    PROVE  OwnerInv'
<1> DEFINE new == [key |-> k, fut |-> f, phase |-> "building"]
<1>0. new.key = k /\ new.fut = f /\ new.phase = "building"
    OBVIOUS
<1> HIDE DEF new
<1>1. \A u \in Threads : \A task \in Tasks(u)' :
        \/ task \in Tasks(u)
        \/ u = t /\ task = new
    BY DEF new
<1>2. PromisesAreKept'
    <2> SUFFICES ASSUME NEW u \in Threads, NEW task \in Tasks(u)'
                 PROVE  PromiseIsKept(task, shared')
        BY DEF PromisesAreKept
    <2>1. CASE task \in Tasks(u)
        <3>1. PromiseIsKept(task, shared) /\ shared'[task.fut] = shared[task.fut]
            BY <2>1 DEF OwnerInv, PromisesAreKept
        <3> QED BY <3>1 DEF PromiseIsKept
    <2>2. CASE task = new
        BY <1>0, <2>2 DEF PromiseIsKept
    <2> QED BY <1>1, <2>1, <2>2
<1>3. OwnersAreApart'
    <2> SUFFICES ASSUME NEW u \in Threads, NEW v \in Threads, NEW a \in Tasks(u)',
                        NEW b \in Tasks(v)', a.fut = b.fut
                 PROVE  u = v /\ a = b
        BY DEF OwnersAreApart
    <2> QED BY <1>0, <1>1 DEF OwnerInv, OwnersAreApart
<1>4. \A n \in Entries : n.thread_id_ \in Threads /\ n.value \in Futures
    BY DEF Nodes
<1>5. EntriesAreOwned'
    <2> SUFFICES ASSUME NEW n \in Entries' PROVE EntryIsOwned(n)'
        BY DEF EntriesAreOwned
    <2>1. CASE n \in Entries
        BY <1>4, <2>1 DEF OwnerInv, EntriesAreOwned, EntryIsOwned
    <2>2. CASE n \notin Entries
        <3>1. /\ n.desc.of = n.value /\ n.desc.in = "pd"
              /\ n.thread_id_ = t /\ n.key = k /\ n.value = f
            BY <2>2
        <3>2. new \in Tasks(t)'
            BY DEF new
        <3> QED BY <1>0, <3>1, <3>2 DEF EntryIsOwned
    <2> QED BY <2>1, <2>2
<1>6. ThreadTells'
    <2> SUFFICES ASSUME NEW n \in Entries', NEW task \in Tasks(n.thread_id_)',
                        task.key = n.key
                 PROVE  task.fut = n.value
        BY DEF ThreadTells
    <2>1. CASE n \in Entries
        BY <1>0, <1>1, <1>4, <2>1 DEF OwnerInv, ThreadTells
    <2>2. CASE n \notin Entries
        <3>1. n.thread_id_ = t /\ n.key = k /\ n.value = f
            BY <2>2
        <3> QED BY <1>0, <1>1, <3>1
    <2> QED BY <2>1, <2>2
<1> QED BY <1>2, <1>3, <1>5, <1>6 DEF OwnerInv

\* The promise of a task is set.
LEMMA TaskEnds ==
    ASSUME OwnerInv, Chains', NEW t \in Threads, NEW a \in Tasks(t), NEW b,
           shared \in [Futures -> Outcomes \cup {"unset"}],
           NEW outcome, shared' = [shared EXCEPT ![a.fut] = outcome],
           \A u \in Threads : \A task \in Tasks(u) : task.fut \in Futures,
           a.phase = "building", b.fut = a.fut, b.key = a.key,
           PromiseIsKept(b, shared'),
           Tasks(t)' = (Tasks(t) \ {a}) \cup {b},
           \A u \in Threads \ {t} : Tasks(u)' = Tasks(u),
           \A n \in Entries : n \in Nodes, UNCHANGED cache_list_
    PROVE  OwnerInv'
<1>0. a \in Tasks(t) /\ a.fut \in Futures
    OBVIOUS
<1>1. \A u \in Threads : \A task \in Tasks(u)' :
        \/ task \in Tasks(u) /\ (u # t \/ task # a)
        \/ u = t /\ task = b
    OBVIOUS
<1>2. ASSUME NEW u \in Threads, NEW task \in Tasks(u), u # t \/ task # a
      PROVE  task.fut # a.fut /\ shared'[task.fut] = shared[task.fut]
    <2>1. task.fut # a.fut
        BY <1>0, <1>2 DEF OwnerInv, OwnersAreApart
    <2> QED BY <1>0, <2>1
<1>3. shared[a.fut] = "unset"
    BY <1>0 DEF OwnerInv, PromisesAreKept, PromiseIsKept
<1>4. PromisesAreKept'
    <2> SUFFICES ASSUME NEW u \in Threads, NEW task \in Tasks(u)'
                 PROVE  PromiseIsKept(task, shared')
        BY DEF PromisesAreKept
    <2>1. CASE task \in Tasks(u) /\ (u # t \/ task # a)
        BY <1>2, <2>1 DEF OwnerInv, PromisesAreKept, PromiseIsKept
    <2> QED BY <1>1, <2>1
<1>5. OwnersAreApart'
    <2> SUFFICES ASSUME NEW u \in Threads, NEW v \in Threads, NEW x \in Tasks(u)',
                        NEW y \in Tasks(v)', x.fut = y.fut
                 PROVE  u = v /\ x = y
        BY DEF OwnersAreApart
    <2> QED BY <1>1, <1>2 DEF OwnerInv, OwnersAreApart
<1>6. Entries' = Entries /\ \A n \in Entries : n.thread_id_ \in Threads /\ n.value \in Futures
    BY DEF Entries, Nodes
\* A task of before is there, perhaps as b.
<1>7. \A u \in Threads : \A task \in Tasks(u) :
        \E x \in Tasks(u)' : x.key = task.key /\ x.fut = task.fut
    BY <1>0
<1>8. EntriesAreOwned'
    <2> SUFFICES ASSUME NEW n \in Entries PROVE EntryIsOwned(n)'
        BY <1>6 DEF EntriesAreOwned
    <2>1. n.desc.of = n.value
        BY DEF OwnerInv, EntriesAreOwned, EntryIsOwned
    <2>2. ASSUME n.desc.in = "primitive" PROVE shared'[n.value] \in Primitives
        <3>1. shared[n.value] \in Primitives
            BY <2>2 DEF OwnerInv, EntriesAreOwned, EntryIsOwned
        <3>2. n.value # a.fut
            BY <1>3, <3>1 DEF Primitives
        <3> QED BY <1>0, <3>1, <3>2
    <2>3. ASSUME n.desc.in = "pd"
          PROVE  \E task \in Tasks(n.thread_id_)' : task.key = n.key /\ task.fut = n.value
        <3>1. PICK task \in Tasks(n.thread_id_) : task.key = n.key /\ task.fut = n.value
            BY <2>3 DEF OwnerInv, EntriesAreOwned, EntryIsOwned
        <3> QED BY <1>6, <1>7, <3>1
    <2> QED BY <2>1, <2>2, <2>3 DEF EntryIsOwned
<1>9. ThreadTells'
    <2> SUFFICES ASSUME NEW n \in Entries, NEW task \in Tasks(n.thread_id_)',
                        task.key = n.key
                 PROVE  task.fut = n.value
        BY <1>6 DEF ThreadTells
    <2> QED BY <1>0, <1>1, <1>6 DEF OwnerInv, ThreadTells
<1> QED BY <1>4, <1>5, <1>8, <1>9 DEF OwnerInv

\* An owner gives up: its entry is repaired, or gone.
LEMMA TaskGivenUp ==
    ASSUME OwnerInv, Chains', NEW t \in Threads, NEW a,
           UNCHANGED shared, NEW rest, Tasks(t) = rest \cup {a}, Tasks(t)' = rest,
           \A u \in Threads \ {t} : Tasks(u)' = Tasks(u),
           \A n \in Entries : n \in Nodes,
           \A n \in Entries' :
              \/ n \in Entries /\ ~(n.key = a.key /\ n.thread_id_ = t)
              \/ n \in Entries /\ ~(n.key = a.key /\ n.value = a.fut)
              \/ \E old \in Entries :
                    /\ n.key = old.key /\ n.thread_id_ = old.thread_id_
                    /\ n.value = old.value
                    /\ n.desc = [in |-> "primitive", of |-> n.value]
                    /\ shared[n.value] \in Primitives
    PROVE  OwnerInv'
<1>1. \A u \in Threads : Tasks(u)' \subseteq Tasks(u)
    OBVIOUS
<1>2. PromisesAreKept' /\ OwnersAreApart'
    BY <1>1 DEF OwnerInv, PromisesAreKept, OwnersAreApart
<1>3. \A n \in Entries : n.thread_id_ \in Threads
    BY DEF Nodes
<1>4. EntriesAreOwned'
    <2> SUFFICES ASSUME NEW n \in Entries' PROVE EntryIsOwned(n)'
        BY DEF EntriesAreOwned
    <2>1. CASE n \in Entries /\ (~(n.key = a.key /\ n.thread_id_ = t)
                                 \/ ~(n.key = a.key /\ n.value = a.fut))
        <3>1. EntryIsOwned(n)
            BY <2>1 DEF OwnerInv, EntriesAreOwned
        <3>2. ASSUME n.desc.in = "pd"
              PROVE  \E task \in Tasks(n.thread_id_)' : task.key = n.key /\ task.fut = n.value
            <4>1. PICK task \in Tasks(n.thread_id_) : task.key = n.key /\ task.fut = n.value
                BY <3>1, <3>2 DEF EntryIsOwned
            <4>2. task \in Tasks(n.thread_id_)'
                BY <1>3, <2>1, <4>1
            <4> QED BY <4>1, <4>2
        <3> QED BY <3>1, <3>2 DEF EntryIsOwned
    <2>2. CASE /\ n.desc = [in |-> "primitive", of |-> n.value]
               /\ shared[n.value] \in Primitives
        BY <2>2 DEF EntryIsOwned
    <2> QED BY <2>1, <2>2
<1>5. ThreadTells'
    <2> SUFFICES ASSUME NEW n \in Entries', NEW task \in Tasks(n.thread_id_)',
                        task.key = n.key
                 PROVE  task.fut = n.value
        BY DEF ThreadTells
    <2>1. PICK old \in Entries : /\ n.key = old.key /\ n.thread_id_ = old.thread_id_
                                 /\ n.value = old.value
        OBVIOUS
    <2>2. task \in Tasks(old.thread_id_)
        BY <1>1, <1>3, <2>1
    <2> QED BY <2>1, <2>2 DEF OwnerInv, ThreadTells
<1> QED BY <1>2, <1>4, <1>5 DEF OwnerInv

-----------------------------------------------------------------------------
(* The actions, for owners and entries *)

\* An owner has a future and refers to it.
LEMMA TasksTyped ==
    ASSUME IInv, NEW u \in Threads, NEW task \in Tasks(u)
    PROVE  task.fut \in Futures /\ task.fut \in Referenced
<1>1. PICK i \in DOMAIN stack[u] : Owns(stack[u][i]) /\ task = Task(stack[u][i])
    BY DEF Tasks, TasksOf
<1>2. FrameOK(stack[u][i], shared)
    BY DEF IInv, ThreadInv, StackOK
<1>3. stack[u][i] \in AllFrames
    BY DEF AllFrames, FramesOf
<1> QED BY <1>1, <1>2, <1>3 DEF Owns, Task, FrameOK, Referenced

\* An entry refers to its future, and the map says the same of it.
LEMMA EntriesTyped ==
    ASSUME IInv, NEW n \in Entries
    PROVE  /\ n \in Nodes /\ n.value \in Referenced /\ n.key \in Cached
           /\ n.value \in Futures /\ n.thread_id_ \in Threads
           /\ cache_mapper_[n.key].thread_id_ = n.thread_id_
           /\ cache_mapper_[n.key].node = n.value
           /\ cache_mapper_[n.key].desc = n.desc
<1>1. PICK i \in DOMAIN cache_list_ : n = cache_list_[i]
    BY DEF Entries
<1>2. n \in Nodes
    BY <1>1 DEF IInv, CacheInv
<1>3. n \in ToSet(cache_list_)
    BY <1>1 DEF ToSet
<1>4. cache_mapper_[n.key] = [thread_id_ |-> n.thread_id_, desc |-> n.desc, node |-> n.value]
    BY <1>1 DEF IInv, CacheInv, ListAndMapperAgree, Agree
<1>5. n.key \in Cached
    BY <1>1 DEF IInv, CacheInv, ListAndMapperAgree, Agree, Cached
<1> QED BY <1>2, <1>3, <1>4, <1>5 DEF Referenced, Nodes

\* The innermost frame moves on with the same task, or with none as before.
LEMMA FrameMoves ==
    ASSUME IInv, OwnerInv, NEW t \in Threads, Active(t), NEW fr \in Frames,
           fr.key = Top(t).key, stack' = [stack EXCEPT ![t] = <<fr>> \o Tail(@)],
           Own(fr) = Own(Top(t)), UNCHANGED shared, Entries' \subseteq Entries
    PROVE  OwnerInv'
<1>1. Tasks(t) = Rest(t) \cup Own(Top(t))
    BY TasksOfTop DEF IInv, OwnerInv
<1>2. /\ Chains' /\ Tasks(t)' = Rest(t) \cup Own(fr)
      /\ \A u \in Threads \ {t} : Tasks(u)' = Tasks(u)
    BY TopChanged DEF IInv, OwnerInv
<1>3. \A u \in Threads : Tasks(u)' = Tasks(u)
    BY <1>1, <1>2
<1>4. \A n \in Entries : n.thread_id_ \in Threads
    BY EntriesTyped
<1> QED BY <1>2, <1>3, <1>4, NothingBegun

\* A frame without a promise begins to build with a fresh one.
LEMMA BuildBegins ==
    ASSUME IInv, OwnerInv, NEW t \in Threads, Active(t), ~Owns(Top(t)),
           SomeFutureIsFree, GoToWith(t, "init", FreshFuture),
           shared' = [shared EXCEPT ![FreshFuture] = "unset"],
           \A n \in Entries : n.key # Top(t).key,
           \A n \in Entries' :
              \/ n \in Entries
              \/ n = [key |-> Top(t).key, thread_id_ |-> t, value |-> FreshFuture,
                      desc |-> [in |-> "pd", of |-> FreshFuture]]
    PROVE  OwnerInv'
<1> DEFINE k  == Top(t).key
           f  == FreshFuture
           fr == [Top(t) EXCEPT !.pc = "init", !.fut = f]
<1>1. f \in Futures /\ f \notin Referenced
    BY FreshIsFree
<1>2. Top(t) \in Frames /\ k \in Keys
    BY TopIsFrame DEF IInv, Frames
<1>3. /\ fr \in Frames /\ fr.key = k
      /\ Own(fr) = {[key |-> k, fut |-> f, phase |-> "building"]}
    <2>1. fr.pc = "init" /\ fr.fut = f /\ fr.key = k /\ fr \in Frames
        BY <1>1, <1>2 DEF Frames, Pcs
    <2> HIDE DEF fr
    <2> QED BY <2>1 DEF Own, Owns, Task, Phase
<1>4. stack' = [stack EXCEPT ![t] = <<fr>> \o Tail(@)]
    BY DEF GoToWith
<1> HIDE DEF fr
<1>5. Tasks(t) = Rest(t) /\ \A task \in Tasks(t) : task.key # k
    BY TasksOfTop DEF IInv, OwnerInv, Own
<1>6. /\ Chains' /\ Tasks(t)' = Rest(t) \cup Own(fr)
      /\ \A u \in Threads \ {t} : Tasks(u)' = Tasks(u)
    BY <1>3, <1>4, TopChanged DEF IInv, OwnerInv
<1>7. \A u \in Threads : \A task \in Tasks(u) : task.fut \in Futures /\ task.fut # f
    BY <1>1, TasksTyped
<1>8. \A n \in Entries : n \in Nodes /\ n.value # f /\ n.key # k
    BY <1>1, EntriesTyped
<1>9. Tasks(t)' = Tasks(t) \cup {[key |-> k, fut |-> f, phase |-> "building"]}
    BY <1>3, <1>5, <1>6
<1>10. shared \in [Futures -> Outcomes \cup {"unset"}]
    BY DEF IInv, ThreadInv
<1>11. \A n \in Entries' : \/ n \in Entries
                           \/ n = [key |-> k, thread_id_ |-> t, value |-> f,
                                   desc |-> [in |-> "pd", of |-> f]]
    OBVIOUS
<1>12. shared' = [shared EXCEPT ![f] = "unset"]
    OBVIOUS
<1> HIDE DEF f, k
<1> QED BY <1>1, <1>2, <1>5, <1>6, <1>7, <1>8, <1>9, <1>10, <1>11, <1>12, TaskBegun

LEMMA CallKeepsOwners ==
    ASSUME IInv, OwnerInv, NEW t \in Threads, NEW k \in Keys, Call(t, k)
    PROVE  OwnerInv'
<1> DEFINE fr == NewFrame(k)
<1>1. /\ stack'[t] = <<fr>> /\ stack[t] = <<>>
      /\ \A u \in Threads \ {t} : stack'[u] = stack[u]
      /\ UNCHANGED <<shared, cache_list_>>
    BY DEF Call, Active, IInv, ThreadInv
<1>2. ~Owns(fr)
    BY DEF NewFrame, Owns
<1> HIDE DEF fr
<1>3. Tasks(t)' = {} /\ Tasks(t) = {}
    BY <1>1, <1>2 DEF Tasks, TasksOf
<1>4. Chains'
    BY <1>1 DEF OwnerInv, Chains, Chain
<1>5. \A u \in Threads : Tasks(u)' = Tasks(u)
    BY <1>1, <1>3 DEF Tasks
<1>6. Entries' \subseteq Entries /\ \A n \in Entries : n.thread_id_ \in Threads
    BY <1>1, EntriesTyped DEF Entries
<1> QED BY <1>1, <1>4, <1>5, <1>6, NothingBegun

\* What an eviction leaves was there before.
LEMMA EvictedEntries ==
    ASSUME IInv, NEW n \in 0..Len(cache_list_)
    PROVE  \A i \in DOMAIN EvictedList(cache_list_, n) :
                EvictedList(cache_list_, n)[i] \in Entries
<1> DEFINE shorter == EvictedList(cache_list_, n)
<1>1. /\ shorter \in Seq(Nodes) /\ Len(shorter) = Len(cache_list_) - n
      /\ \A j \in 1..(Len(cache_list_) - n) : shorter[j] = cache_list_[j]
    BY EvictAgrees DEF IInv, CacheInv, ListAndMapperAgree
<1>2. cache_list_ \in Seq(Nodes)
    BY DEF IInv, CacheInv
<1> HIDE DEF shorter
<1>3. ASSUME NEW i \in DOMAIN shorter PROVE shorter[i] \in Entries
    <2>1. i \in 1..(Len(cache_list_) - n) /\ i \in DOMAIN cache_list_
        BY <1>1, <1>2
    <2> QED BY <1>1, <2>1 DEF Entries
<1> QED BY <1>3 DEF shorter

LEMMA SetCapacityKeepsOwners ==
    ASSUME IInv, OwnerInv, NEW t \in Threads, NEW c \in Capacities, SetCapacity(t, c)
    PROVE  OwnerInv'
<1> DEFINE n == IF Len(cache_list_) > c THEN Len(cache_list_) - c ELSE 0
<1>1. n \in 0..Len(cache_list_)
    BY CapacityAssumption DEF IInv, CacheInv
<1>2. cache_list_' = EvictedList(cache_list_, n) /\ UNCHANGED <<shared, stack>>
    BY DEF SetCapacity
<1> HIDE DEF n
<1>3. Entries' \subseteq Entries
    BY <1>1, <1>2, EvictedEntries DEF Entries
<1>4. Chains' /\ \A u \in Threads : Tasks(u)' = Tasks(u)
    BY <1>2 DEF OwnerInv, Chains, Tasks
<1>5. \A n_ \in Entries : n_.thread_id_ \in Threads
    BY EntriesTyped
<1> QED BY <1>2, <1>3, <1>4, <1>5, NothingBegun

LEMMA ReadCapacityKeepsOwners ==
    ASSUME IInv, OwnerInv, NEW t \in Threads, ReadCapacity(t)
    PROVE  OwnerInv'
<1>1. /\ Active(t) /\ Top(t).pc = "get_or_add" /\ Top(t) \in Frames
      /\ UNCHANGED cache_list_
    BY TopIsFrame DEF ReadCapacity, IInv
<1>2. CASE capacity_ = 0
    <2>1. Entries = {} /\ Entries' = {}
        BY <1>1, <1>2 DEF Entries, IInv, CacheInv, WithinCapacity
    <2>2. /\ SomeFutureIsFree /\ shared' = [shared EXCEPT ![FreshFuture] = "unset"]
          /\ GoToWith(t, "init", FreshFuture)
        BY <1>2 DEF ReadCapacity
    <2>3. ~Owns(Top(t))
        BY <1>1 DEF Owns
    <2> QED BY <1>1, <2>1, <2>2, <2>3, BuildBegins
<1>3. CASE capacity_ # 0
    <2> DEFINE fr == [Top(t) EXCEPT !.pc = "lock_write"]
    <2>1. fr \in Frames /\ fr.key = Top(t).key /\ fr.pc = "lock_write"
        BY <1>1 DEF Frames, Pcs
    <2>2. stack' = [stack EXCEPT ![t] = <<fr>> \o Tail(@)] /\ UNCHANGED shared
        BY <1>3 DEF ReadCapacity, GoTo
    <2> HIDE DEF fr
    <2>3. Own(fr) = Own(Top(t))
        BY <1>1, <2>1 DEF Own, Owns
    <2>4. Entries' \subseteq Entries
        BY <1>1 DEF Entries
    <2> QED BY <1>1, <2>1, <2>2, <2>3, <2>4, FrameMoves
<1> QED BY <1>2, <1>3

LEMMA FindDisabledKeepsOwners ==
    ASSUME IInv, OwnerInv, NEW t \in Threads, FindDisabled(t)
    PROVE  OwnerInv'
<1>1. /\ Active(t) /\ Top(t).pc = "lock_write" /\ UNCHANGED cache_list_ /\ capacity_ = 0
      /\ SomeFutureIsFree /\ shared' = [shared EXCEPT ![FreshFuture] = "unset"]
      /\ GoToWith(t, "init", FreshFuture)
    BY DEF FindDisabled
<1>2. Entries = {} /\ Entries' = {}
    BY <1>1 DEF Entries, IInv, CacheInv, WithinCapacity
<1>3. ~Owns(Top(t))
    BY <1>1 DEF Owns
<1> QED BY <1>1, <1>2, <1>3, BuildBegins

\* A hit only moves a node.
LEMMA SplicedEntries ==
    ASSUME IInv, NEW i \in 1..Len(cache_list_)
    PROVE  \A j \in DOMAIN Spliced(cache_list_, i) : Spliced(cache_list_, i)[j] \in Entries
<1> DEFINE r == Spliced(cache_list_, i)
<1>0. cache_list_ \in Seq(Nodes) /\ cache_list_[i] \in Nodes
    BY DEF IInv, CacheInv
<1>1. /\ RemoveAt(cache_list_, i) \in Seq(Nodes)
      /\ Len(RemoveAt(cache_list_, i)) = Len(cache_list_) - 1
      /\ \A j \in 1..(Len(cache_list_) - 1) :
            RemoveAt(cache_list_, i)[j] = IF j < i THEN cache_list_[j] ELSE cache_list_[j + 1]
    BY <1>0, RemovedAt
<1>2. /\ r \in Seq(Nodes) /\ Len(r) = Len(cache_list_) /\ r[1] = cache_list_[i]
      /\ \A j \in 1..(Len(cache_list_) - 1) : r[j + 1] = RemoveAt(cache_list_, i)[j]
    BY <1>0, <1>1, PushFront DEF Spliced
<1> HIDE DEF r
<1>3. ASSUME NEW j \in DOMAIN r PROVE r[j] \in Entries
    <2>1. CASE j = 1
        BY <1>0, <1>2, <2>1 DEF Entries
    <2>2. CASE j # 1
        <3>1. /\ j - 1 \in 1..(Len(cache_list_) - 1) /\ (j - 1) + 1 = j
              /\ j - 1 \in DOMAIN cache_list_ /\ j \in DOMAIN cache_list_
            BY <1>0, <1>2, <2>2
        <3>2. r[j] = IF j - 1 < i THEN cache_list_[j - 1] ELSE cache_list_[j]
            BY <1>1, <1>2, <3>1
        <3> QED BY <3>1, <3>2 DEF Entries
    <2> QED BY <2>1, <2>2
<1> QED BY <1>3 DEF r

LEMMA HitKeepsOwners ==
    ASSUME IInv, OwnerInv, NEW t \in Threads, Hit(t)
    PROVE  OwnerInv'
<1> DEFINE f  == cache_mapper_[Top(t).key].node
           fr == [Top(t) EXCEPT !.pc = "wait", !.fut = f]
<1>1. /\ Top(t).key \in Cached /\ Active(t) /\ Top(t).pc = "lock_write"
      /\ cache_list_' = Spliced(cache_list_, IndexOf(f))
      /\ UNCHANGED shared /\ Top(t) \in Frames
      /\ stack' = [stack EXCEPT ![t] = <<fr>> \o Tail(@)]
    BY TopIsFrame DEF Hit, GoToWith, IInv
<1>2. IndexOf(f) \in 1..Len(cache_list_) /\ f \in Futures
    BY <1>1, IteratorIsValid DEF IInv, CacheInv
<1> HIDE DEF f
<1>3. fr \in Frames /\ fr.key = Top(t).key /\ fr.pc = "wait"
    BY <1>1, <1>2 DEF Frames, Pcs
<1> HIDE DEF fr
<1>4. Own(fr) = Own(Top(t))
    BY <1>1, <1>3 DEF Own, Owns
<1>5. Entries' \subseteq Entries
    BY <1>1, <1>2, SplicedEntries DEF Entries
<1> QED BY <1>1, <1>3, <1>4, <1>5, FrameMoves

LEMMA MissKeepsOwners ==
    ASSUME IInv, OwnerInv, NEW t \in Threads, Miss(t)
    PROVE  OwnerInv'
<1> DEFINE f       == FreshFuture
           n       == IF Cardinality(Cached) = capacity_ THEN 1 ELSE 0
           node    == [key |-> Top(t).key, thread_id_ |-> t,
                       desc |-> [in |-> "pd", of |-> f], value |-> f]
           shorter == EvictedList(cache_list_, n)
<1>1. /\ Top(t).key \notin Cached /\ Active(t) /\ capacity_ # 0 /\ SomeFutureIsFree
      /\ Top(t).pc = "lock_write"
      /\ cache_list_' = <<node>> \o shorter
      /\ shared' = [shared EXCEPT ![f] = "unset"]
      /\ GoToWith(t, "init", f)
    BY DEF Miss, Add
<1>2. n \in 0..Len(cache_list_)
    <2>1. /\ Len(cache_list_) \in Nat /\ Cardinality(Cached) = Len(cache_list_)
          /\ capacity_ \in Nat
        BY SizesAgree DEF IInv, CacheInv, ListAndMapperAgree, Cached
    <2> QED BY <1>1, <2>1
<1>3. /\ shorter \in Seq(Nodes)
      /\ \A i \in DOMAIN shorter : shorter[i] \in Entries
    BY <1>2, EvictAgrees, EvictedEntries DEF IInv, CacheInv, ListAndMapperAgree
<1>4. node \in Nodes
    <2>1. Top(t).key \in Keys /\ f \in Futures
        BY <1>1, TopIsFrame, FreshIsFree DEF IInv, Frames
    <2> QED BY <2>1 DEF Nodes, Descs
<1> HIDE DEF shorter, node, n
<1>5. ASSUME NEW m \in Entries' PROVE m \in Entries \/ m = node
    <2>1. /\ Len(<<node>> \o shorter) = Len(shorter) + 1 /\ (<<node>> \o shorter)[1] = node
          /\ \A j \in 1..Len(shorter) : (<<node>> \o shorter)[j + 1] = shorter[j]
          /\ <<node>> \o shorter \in Seq(Nodes)
        BY <1>3, <1>4, PushFront
    <2>2. PICK i \in DOMAIN (<<node>> \o shorter) : m = (<<node>> \o shorter)[i]
        BY <1>1, <1>5 DEF Entries
    <2>3. CASE i = 1
        BY <2>1, <2>2, <2>3
    <2>4. CASE i # 1
        <3>1. i - 1 \in 1..Len(shorter) /\ (i - 1) + 1 = i /\ i - 1 \in DOMAIN shorter
            BY <1>3, <2>1, <2>2, <2>4
        <3> QED BY <1>3, <2>1, <2>2, <3>1
    <2> QED BY <2>3, <2>4
<1>6. \A m \in Entries : m.key # Top(t).key
    BY <1>1, EntriesTyped
<1>7. ~Owns(Top(t))
    BY <1>1 DEF Owns
<1>8. \A m \in Entries' :
              \/ m \in Entries
              \/ m = [key |-> Top(t).key, thread_id_ |-> t, value |-> FreshFuture,
                      desc |-> [in |-> "pd", of |-> FreshFuture]]
    BY <1>5 DEF node
<1> QED BY <1>1, <1>6, <1>7, <1>8, BuildBegins

LEMMA GetFutureKeepsOwners ==
    ASSUME IInv, OwnerInv, NEW t \in Threads, GetFuture(t)
    PROVE  OwnerInv'
<1>1. /\ Active(t) /\ Top(t).pc = "wait" /\ Return(t, shared[Top(t).fut])
      /\ UNCHANGED <<shared, cache_list_>>
    BY DEF GetFuture
<1>2. shared[Top(t).fut] \in Outcomes
    <2>1. Top(t).fut \in Futures
        BY <1>1, TopIsFrame DEF FrameOK, IInv
    <2> QED BY <2>1 DEF GetFuture, IInv, ThreadInv
<1>3. /\ Chains' /\ Tasks(t)' = Rest(t)
      /\ \A u \in Threads \ {t} : Tasks(u)' = Tasks(u)
    BY <1>1, <1>2, TopReturned DEF IInv, OwnerInv
<1>4. Tasks(t) = Rest(t)
    BY <1>1, TasksOfTop DEF IInv, OwnerInv, Own, Owns
<1>5. \A u \in Threads : Tasks(u)' = Tasks(u)
    BY <1>3, <1>4
<1>6. Entries' \subseteq Entries /\ \A n \in Entries : n.thread_id_ \in Threads
    BY <1>1, EntriesTyped DEF Entries
<1> QED BY <1>1, <1>3, <1>5, <1>6, NothingBegun

LEMMA CreateNestedKeepsOwners ==
    ASSUME IInv, OwnerInv, NEW t \in Threads, CreateNested(t)
    PROVE  OwnerInv'
<1> DEFINE fr  == [Top(t) EXCEPT !.pc = "nested"]
           new == NewFrame(NestedOf[Top(t).key])
           mid == <<fr>> \o Tail(stack[t])
<1>1. /\ stack[t] \in Seq(Frames) /\ stack[t] # <<>> /\ Active(t)
      /\ Top(t) \in Frames /\ Top(t).pc = "init" /\ Chain(stack[t])
      /\ UNCHANGED <<shared, cache_list_>>
    BY TopIsFrame DEF CreateNested, IInv, ThreadInv, OwnerInv, Chains
<1>2. /\ Tail(stack[t]) \in Seq(Frames) /\ Chain(Tail(stack[t]))
      /\ Tail(stack[t]) # <<>> => Top(t).key = NestedOf[Tail(stack[t])[1].key]
    BY <1>1, TopOnRest, ChainPopped DEF Top
<1>3. fr \in Frames /\ fr.key = Top(t).key /\ fr.pc = "nested" /\ Own(fr) = Own(Top(t))
    <2>1. /\ fr \in Frames /\ fr.key = Top(t).key /\ fr.pc = "nested"
          /\ fr.fut = Top(t).fut
        BY <1>1 DEF Frames, Pcs
    <2> HIDE DEF fr
    <2> QED BY <1>1, <2>1 DEF Own, Owns, Task, Phase
<1>4. new \in Frames /\ new.key = NestedOf[Top(t).key] /\ ~Owns(new)
    <2>1. Top(t).key \in Keys
        BY <1>1 DEF Frames
    <2>2. NestedOf[Top(t).key] \in Keys
        BY <2>1, NestedAssumption DEF CreateNested
    <2> QED BY <2>2, NewFrameOK DEF NewFrame, Owns
<1>5. /\ stack'[t] = <<new, fr>> \o Tail(stack[t])
      /\ \A u \in Threads \ {t} : stack'[u] = stack[u]
    BY DEF CreateNested, IInv, ThreadInv
<1> HIDE DEF fr, new
<1>6. /\ mid \in Seq(Frames) /\ Chain(mid)
      /\ TasksOf(mid) = TasksOf(Tail(stack[t])) \cup Own(fr)
    BY <1>2, <1>3, TasksPushed, ChainPushed DEF Own
<1>7. mid # <<>> /\ mid[1] = fr /\ <<new, fr>> \o Tail(stack[t]) = <<new>> \o mid
    BY <1>2, <1>3, <1>4
<1> HIDE DEF mid
<1>8. /\ Chain(<<new>> \o mid)
      /\ TasksOf(<<new>> \o mid) = TasksOf(mid)
    BY <1>3, <1>4, <1>6, <1>7, TasksPushed, ChainPushed
<1>9. Tasks(t)' = Rest(t) \cup Own(Top(t))
    BY <1>3, <1>5, <1>6, <1>7, <1>8 DEF Tasks, Rest
<1>10. Chains'
    BY <1>5, <1>7, <1>8 DEF OwnerInv, Chains
<1>11. \A u \in Threads : Tasks(u)' = Tasks(u)
    <2>1. Tasks(t) = Rest(t) \cup Own(Top(t))
        BY <1>1, TasksOfTop DEF IInv, OwnerInv
    <2> QED BY <1>5, <1>9, <2>1 DEF Tasks
<1>12. Entries' \subseteq Entries /\ \A n \in Entries : n.thread_id_ \in Threads
    BY <1>1, EntriesTyped DEF Entries
<1> QED BY <1>1, <1>10, <1>11, <1>12, NothingBegun

\* init() returns and the promise is set to its outcome.
LEMMA PromiseIsSet ==
    ASSUME IInv, OwnerInv, NEW t \in Threads, InitEnds(t), NEW outcome, NEW pc,
           \/ pc = "update_entry" /\ outcome \in Primitives
           \/ pc = "remove_if_invalidated" /\ outcome = "failed",
           shared' = [shared EXCEPT ![Top(t).fut] = outcome],
           GoTo(t, pc), UNCHANGED cache_list_
    PROVE  OwnerInv'
<1> DEFINE fr == [Top(t) EXCEPT !.pc = pc]
<1>1. /\ Active(t) /\ Top(t).pc = "init" /\ Top(t) \in Frames /\ Top(t).fut \in Futures
    BY TopIsFrame DEF InitEnds, IInv, FrameOK
<1>2. /\ fr \in Frames /\ fr.key = Top(t).key /\ fr.pc = pc /\ fr.fut = Top(t).fut
    BY <1>1 DEF Frames, Pcs
<1>3. stack' = [stack EXCEPT ![t] = <<fr>> \o Tail(@)]
    BY DEF GoTo
<1> HIDE DEF fr
<1>a. PICK a : a = Task(Top(t))
    OBVIOUS
<1>b. PICK b : b = Task(fr)
    OBVIOUS
<1>4. /\ Own(Top(t)) = {a} /\ a.fut = Top(t).fut /\ a.key = Top(t).key
      /\ a.phase = "building"
    BY <1>1, <1>a DEF Own, Owns, Task, Phase
<1>5. /\ Own(fr) = {b} /\ b.fut = Top(t).fut /\ b.key = Top(t).key
      /\ pc = "update_entry" => b.phase = "built"
      /\ pc = "remove_if_invalidated" => b.phase = "failed"
    BY <1>2, <1>b DEF Own, Owns, Task, Phase
<1>6. Tasks(t) = Rest(t) \cup {a} /\ a \notin Rest(t)
    BY <1>1, <1>4, TasksOfTop DEF IInv, OwnerInv
<1>7. /\ Chains' /\ Tasks(t)' = Rest(t) \cup {b}
      /\ \A u \in Threads \ {t} : Tasks(u)' = Tasks(u)
    BY <1>1, <1>2, <1>3, <1>5, TopChanged DEF IInv, OwnerInv
<1>8. shared \in [Futures -> Outcomes \cup {"unset"}]
    BY DEF IInv, ThreadInv
<1>9. PromiseIsKept(b, shared')
    <2>1. shared'[b.fut] = outcome
        BY <1>1, <1>5, <1>8
    <2> QED BY <1>5, <2>1 DEF PromiseIsKept
<1>10. \A u \in Threads : \A task \in Tasks(u) : task.fut \in Futures
    BY TasksTyped
<1>11. \A n \in Entries : n \in Nodes
    BY EntriesTyped
<1>12. b.fut = a.fut /\ b.key = a.key /\ shared' = [shared EXCEPT ![a.fut] = outcome]
    BY <1>4, <1>5
<1>13. a \in Tasks(t) /\ Tasks(t)' = (Tasks(t) \ {a}) \cup {b}
    BY <1>6, <1>7
<1> QED BY <1>4, <1>7, <1>8, <1>9, <1>10, <1>11, <1>12, <1>13, TaskEnds

LEMMA InitSucceedsKeepsOwners ==
    ASSUME IInv, OwnerInv, NEW t \in Threads, InitSucceeds(t)
    PROVE  OwnerInv'
<1>1. Built(Top(t)) \in Primitives
    BY DEF Built, Primitives
<1>2. /\ InitEnds(t) /\ shared' = [shared EXCEPT ![Top(t).fut] = Built(Top(t))]
      /\ GoTo(t, "update_entry") /\ UNCHANGED cache_list_
    BY DEF InitSucceeds
<1> QED BY <1>1, <1>2, PromiseIsSet

LEMMA InitFailsKeepsOwners ==
    ASSUME IInv, OwnerInv, NEW t \in Threads, InitFails(t)
    PROVE  OwnerInv'
BY PromiseIsSet DEF InitFails

\* The owner on top of a stack gives its promise up and returns.
LEMMA OwnerReturns ==
    ASSUME IInv, OwnerInv, NEW t \in Threads, Active(t), Owns(Top(t)),
           NEW outcome \in Outcomes, Return(t, outcome), UNCHANGED shared,
           \A n \in Entries' :
              \/ n \in Entries /\ ~(n.key = Top(t).key /\ n.thread_id_ = t)
              \/ n \in Entries /\ ~(n.key = Top(t).key /\ n.value = Top(t).fut)
              \/ \E old \in Entries :
                    /\ n.key = old.key /\ n.thread_id_ = old.thread_id_
                    /\ n.value = old.value
                    /\ n.desc = [in |-> "primitive", of |-> n.value]
                    /\ shared[n.value] \in Primitives
    PROVE  OwnerInv'
<1> DEFINE a == Task(Top(t))
<1>1. Own(Top(t)) = {a} /\ a.fut = Top(t).fut /\ a.key = Top(t).key
    BY DEF Own, Task
<1> HIDE DEF a
<1>2. Tasks(t) = Rest(t) \cup {a}
    BY <1>1, TasksOfTop DEF IInv, OwnerInv
<1>3. /\ Chains' /\ Tasks(t)' = Rest(t)
      /\ \A u \in Threads \ {t} : Tasks(u)' = Tasks(u)
    BY TopReturned DEF IInv, OwnerInv
<1>4. \A n \in Entries : n \in Nodes
    BY EntriesTyped
<1>5. \A n \in Entries' :
              \/ n \in Entries /\ ~(n.key = a.key /\ n.thread_id_ = t)
              \/ n \in Entries /\ ~(n.key = a.key /\ n.value = a.fut)
              \/ \E old \in Entries :
                    /\ n.key = old.key /\ n.thread_id_ = old.thread_id_
                    /\ n.value = old.value
                    /\ n.desc = [in |-> "primitive", of |-> n.value]
                    /\ shared[n.value] \in Primitives
    BY <1>1
<1> QED BY <1>2, <1>3, <1>4, <1>5, TaskGivenUp

\* The owner on top of a stack holds what its promise says.
LEMMA TopKeepsPromise ==
    ASSUME IInv, OwnerInv, NEW t \in Threads, Active(t), Owns(Top(t))
    PROVE  /\ Top(t).fut \in Futures
           /\ Top(t).pc = "update_entry" => shared[Top(t).fut] \in Primitives
           /\ Top(t).pc \in {"remove_if_invalidated", "removing"} =>
                shared[Top(t).fut] = "failed"
           /\ \A n \in Entries : n.key = Top(t).key /\ n.thread_id_ = t =>
                n.value = Top(t).fut
<1> DEFINE a == Task(Top(t))
<1>1. /\ Own(Top(t)) = {a} /\ a.fut = Top(t).fut /\ a.key = Top(t).key
      /\ a.phase = Phase(Top(t).pc)
    BY DEF Own, Task
<1> HIDE DEF a
<1>2. a \in Tasks(t)
    BY <1>1, TasksOfTop DEF IInv, OwnerInv
<1>3. PromiseIsKept(a, shared)
    BY <1>2 DEF OwnerInv, PromisesAreKept
<1>4. \A n \in Entries : n.key = Top(t).key /\ n.thread_id_ = t => n.value = Top(t).fut
    BY <1>1, <1>2 DEF OwnerInv, ThreadTells
<1>5. Top(t).fut \in Futures
    BY TopIsFrame DEF IInv, FrameOK, Owns
<1> QED BY <1>1, <1>3, <1>4, <1>5 DEF PromiseIsKept, Phase

LEMMA UpdateEntryKeepsOwners ==
    ASSUME IInv, OwnerInv, NEW t \in Threads, UpdateEntry(t)
    PROVE  OwnerInv'
<1> DEFINE fr   == Top(t)
           desc == [in |-> "primitive", of |-> fr.fut]
           i    == IndexOf(cache_mapper_[fr.key].node)
<1>1. /\ Active(t) /\ fr.pc = "update_entry" /\ Owns(fr)
      /\ Return(t, shared[fr.fut]) /\ UNCHANGED shared
    BY DEF UpdateEntry, Owns
<1>2. /\ fr.fut \in Futures /\ shared[fr.fut] \in Primitives
      /\ \A n \in Entries : n.key = fr.key /\ n.thread_id_ = t => n.value = fr.fut
    BY <1>1, TopKeepsPromise
<1>3. shared[fr.fut] \in Outcomes
    BY <1>2 DEF Outcomes
<1>4. ASSUME NEW n \in Entries'
      PROVE  \/ n \in Entries /\ ~(n.key = fr.key /\ n.thread_id_ = t)
             \/ \E old \in Entries :
                    /\ n.key = old.key /\ n.thread_id_ = old.thread_id_
                    /\ n.value = old.value
                    /\ n.desc = [in |-> "primitive", of |-> n.value]
                    /\ shared[n.value] \in Primitives
    <2>1. CASE MayUpdate(t)
        <3>1. /\ fr.key \in Cached /\ cache_mapper_[fr.key].thread_id_ = t
              /\ cache_list_' = [cache_list_ EXCEPT ![i].desc = desc]
            BY <2>1 DEF UpdateEntry, MayUpdate
        <3>2. i \in DOMAIN cache_list_ /\ cache_list_[i].key = fr.key
            BY <3>1, IteratorIsValid DEF IInv, CacheInv, NodeAt
        <3>3. cache_list_ \in Seq(Nodes) /\ cache_list_[i] \in Entries
            BY <3>2 DEF IInv, CacheInv, Entries
        <3>4. cache_list_[i].thread_id_ = t /\ cache_list_[i] \in Nodes
            BY <3>1, <3>2, <3>3, EntriesTyped
        <3>5. cache_list_[i].value = fr.fut
            BY <1>2, <3>2, <3>3, <3>4
        <3> HIDE DEF i
        <3>6. PICK j \in DOMAIN cache_list_ : n = cache_list_'[j]
            BY <1>4, <3>1, <3>3 DEF Entries
        <3>7. CASE j = i
            <4> DEFINE new == [cache_list_[i] EXCEPT !.desc = desc]
            <4>1. n = new
                BY <3>1, <3>2, <3>3, <3>6, <3>7
            <4>2. /\ new.key = cache_list_[i].key /\ new.value = cache_list_[i].value
                  /\ new.thread_id_ = cache_list_[i].thread_id_ /\ new.desc = desc
                BY <3>4 DEF Nodes
            <4> HIDE DEF new
            <4> QED BY <1>2, <3>3, <3>5, <4>1, <4>2
        <3>8. CASE j # i
            <4>1. n = cache_list_[j] /\ n \in Entries
                BY <3>1, <3>2, <3>3, <3>6, <3>8 DEF Entries
            <4>2. n.key # fr.key
                BY <3>2, <3>6, <3>8, <4>1 DEF IInv, CacheInv, ListAndMapperAgree, Agree
            <4> QED BY <4>1, <4>2
        <3> QED BY <3>7, <3>8
    <2>2. CASE ~MayUpdate(t)
        <3>1. n \in Entries
            BY <1>4, <2>2 DEF UpdateEntry, Entries
        <3>2. n.key = fr.key => n.thread_id_ # t
            BY <2>2, <3>1, EntriesTyped DEF MayUpdate
        <3> QED BY <3>1, <3>2
    <2> QED BY <2>1, <2>2
<1> QED BY <1>1, <1>3, <1>4, OwnerReturns

LEMMA LockAndFindKeepsOwners ==
    ASSUME IInv, OwnerInv, NEW t \in Threads, LockAndFind(t)
    PROVE  OwnerInv'
<1>1. /\ Active(t) /\ Top(t).pc = "remove_if_invalidated" /\ Top(t) \in Frames
      /\ UNCHANGED <<shared, cache_list_>>
    BY TopIsFrame DEF LockAndFind, IInv
<1>2. Entries' = Entries
    BY <1>1 DEF Entries
<1>3. CASE Top(t).key \in Cached
    <2> DEFINE fr == [Top(t) EXCEPT !.pc = "removing"]
    <2>1. /\ fr \in Frames /\ fr.key = Top(t).key /\ fr.pc = "removing"
          /\ fr.fut = Top(t).fut
        BY <1>1 DEF Frames, Pcs
    <2>2. stack' = [stack EXCEPT ![t] = <<fr>> \o Tail(@)]
        BY <1>3 DEF LockAndFind, GoTo
    <2> HIDE DEF fr
    <2>3. Own(fr) = Own(Top(t))
        BY <1>1, <2>1 DEF Own, Owns, Task, Phase
    <2> QED BY <1>1, <1>2, <2>1, <2>2, <2>3, FrameMoves
<1>4. CASE Top(t).key \notin Cached
    <2>1. \A n \in Entries' : n \in Entries /\ n.key # Top(t).key
        BY <1>2, <1>4, EntriesTyped
    <2>2. Return(t, "failed") /\ "failed" \in Outcomes /\ Owns(Top(t))
        BY <1>1, <1>4 DEF LockAndFind, Outcomes, Owns
    <2> QED BY <1>1, <2>1, <2>2, OwnerReturns
<1> QED BY <1>3, <1>4

LEMMA EraseInvalidatedKeepsOwners ==
    ASSUME IInv, OwnerInv, NEW t \in Threads, EraseInvalidated(t)
    PROVE  OwnerInv'
<1> DEFINE k == Top(t).key
           f == cache_mapper_[k].node
<1>1. /\ Active(t) /\ Top(t).pc = "removing" /\ Owns(Top(t)) /\ "failed" \in Outcomes
      /\ Return(t, "failed") /\ UNCHANGED shared
    BY DEF EraseInvalidated, Owns, Outcomes
<1>2. k \in Cached
    BY <1>1 DEF IInv, LockInv
<1>3. shared[Top(t).fut] = "failed"
    BY <1>1, TopKeepsPromise
<1>4. ASSUME NEW n \in Entries'
      PROVE  n \in Entries /\ ~(n.key = k /\ n.value = Top(t).fut)
    <2>1. CASE shared[f] = "failed"
        <3>1. cache_list_' = RemoveAt(cache_list_, IndexOf(f))
            BY <2>1 DEF EraseInvalidated
        <3>2. /\ IndexOf(f) \in 1..Len(cache_list_) /\ cache_list_[IndexOf(f)].key = k
              /\ cache_list_ \in Seq(Nodes)
            BY <1>2, IteratorIsValid DEF IInv, CacheInv, NodeAt
        <3> DEFINE i == IndexOf(f)
                   r == RemoveAt(cache_list_, i)
        <3> HIDE DEF k, f
        <3>3. /\ r \in Seq(Nodes) /\ Len(r) = Len(cache_list_) - 1
              /\ \A j \in 1..(Len(cache_list_) - 1) :
                    r[j] = IF j < i THEN cache_list_[j] ELSE cache_list_[j + 1]
            BY <3>2, RemovedAt
        <3>4. PICK j \in DOMAIN r : n = r[j]
            BY <1>4, <3>1 DEF Entries
        <3> HIDE DEF r, i
        <3>5. PICK l \in DOMAIN cache_list_ : n = cache_list_[l] /\ l # i
            <4>1. j \in 1..(Len(cache_list_) - 1) /\ i \in 1..Len(cache_list_)
                BY <3>2, <3>3, <3>4 DEF i
            <4>2. CASE j < i
                <5>1. j \in DOMAIN cache_list_ /\ j # i
                    BY <3>2, <4>1, <4>2
                <5> QED BY <3>3, <3>4, <4>1, <4>2, <5>1
            <4>3. CASE ~(j < i)
                <5>1. j + 1 \in DOMAIN cache_list_ /\ j + 1 # i
                    BY <3>2, <4>1, <4>3
                <5> QED BY <3>3, <3>4, <4>1, <4>3, <5>1
            <4> QED BY <4>2, <4>3
        <3>6. i \in DOMAIN cache_list_ /\ cache_list_[i].key = k
            BY <3>2 DEF i
        <3>7. n.key # k
            BY <3>5, <3>6 DEF IInv, CacheInv, ListAndMapperAgree, Agree
        <3> QED BY <3>5, <3>7 DEF Entries
    <2>2. CASE shared[f] # "failed"
        <3>1. n \in Entries
            BY <1>4, <2>2 DEF EraseInvalidated, Entries
        <3>2. n.key = k => n.value = f
            BY <3>1, EntriesTyped
        <3> QED BY <1>3, <2>2, <3>1, <3>2
    <2> QED BY <2>1, <2>2
<1> QED BY <1>1, <1>4, OwnerReturns

-----------------------------------------------------------------------------

\* The invariant is inductive.
LEMMA NextKeepsInv == IInv /\ [Next]_vars => IInv'
<1> SUFFICES ASSUME IInv, [Next]_vars PROVE IInv'
    OBVIOUS
<1>1. CASE UNCHANGED vars
    <2>1. CacheInv'
        BY <1>1, CacheUntouched DEF vars, IInv
    <2>2. ThreadInv' /\ LockInv'
        BY <1>1 DEF vars, IInv, ThreadInv, LockInv, Active, Top, Cached
    <2> QED BY <2>1, <2>2 DEF IInv
<1>2. ASSUME NEW t \in Threads, NEW k \in Keys, Call(t, k) PROVE IInv'
    BY <1>2, CallKeepsInv
<1>3. ASSUME NEW t \in Threads, NEW c \in Capacities, SetCapacity(t, c) PROVE IInv'
    BY <1>3, SetCapacityKeepsInv
<1>4. ASSUME NEW t \in Threads, Step(t) PROVE IInv'
    BY <1>4, ReadCapacityKeepsInv, FindDisabledKeepsInv, HitKeepsInv, MissKeepsInv,
       GetFutureKeepsInv, CreateNestedKeepsInv, InitSucceedsKeepsInv,
       InitFailsKeepsInv, UpdateEntryKeepsInv, LockAndFindKeepsInv,
       EraseInvalidatedKeepsInv DEF Step
<1> QED BY <1>1, <1>2, <1>3, <1>4 DEF Next

THEOREM Invariant == Spec => []IInv
BY InitHolds, NextKeepsInv, PTL DEF Spec

\* What is cached are keys.
LEMMA CachedKeys == ASSUME IInv PROVE Cached \subseteq Keys
<1> SUFFICES ASSUME NEW k \in Cached PROVE k \in Keys
    OBVIOUS
<1>1. PICK i \in DOMAIN cache_list_ : cache_list_[i].key = k
    BY DEF IInv, CacheInv, ListAndMapperAgree, Agree, Cached
<1>2. cache_list_[i] \in Nodes
    BY DEF IInv, CacheInv
<1> QED BY <1>1, <1>2 DEF Nodes

\* The variables keep their types (primitive_cache.hpp and primitive.hpp).
THEOREM TypeCorrect == Spec => []TypeOK
<1>1. IInv => TypeOK
    <2> SUFFICES ASSUME IInv PROVE TypeOK
        OBVIOUS
    <2>1. Cached \subseteq Keys
        BY CachedKeys
    <2> QED BY <2>1 DEF TypeOK, IInv, CacheInv, ThreadInv, IsMapper, Cached
<1> QED BY <1>1, Invariant, PTL

\* The list and the map always hold the same entries, however lookups,
\* insertions, evictions, repairs and removals of any threads interleave.
THEOREM ListAndMapperAlwaysAgree == Spec => []ListAndMapperAgree
<1>1. IInv => ListAndMapperAgree
    BY DEF IInv, CacheInv
<1> QED BY <1>1, Invariant, PTL

\* The cache never exceeds its capacity, although the capacity may shrink
\* between a caller's check of it and its insertion.
THEOREM CapacityIsNeverExceeded == Spec => []WithinCapacity
<1>1. IInv => WithinCapacity
    BY DEF IInv, CacheInv
<1> QED BY <1>1, Invariant, PTL

LEMMA InitHoldsOwners == Init => OwnerInv
<1> SUFFICES ASSUME Init PROVE OwnerInv
    OBVIOUS
<1>1. \A t \in Threads : stack[t] = <<>> /\ Tasks(t) = {}
    BY DEF Init, Tasks, TasksOf
<1>2. Entries = {}
    BY DEF Init, Entries
<1>3. Chains
    BY <1>1 DEF Chains, Chain
<1>4. PromisesAreKept /\ OwnersAreApart
    BY <1>1 DEF PromisesAreKept, OwnersAreApart
<1>5. EntriesAreOwned /\ ThreadTells
    BY <1>2 DEF EntriesAreOwned, ThreadTells
<1> QED BY <1>3, <1>4, <1>5 DEF OwnerInv

LEMMA NextKeepsOwners == IInv /\ OwnerInv /\ [Next]_vars => OwnerInv'
<1> SUFFICES ASSUME IInv, OwnerInv, [Next]_vars PROVE OwnerInv'
    OBVIOUS
<1>1. CASE UNCHANGED vars
    <2>1. UNCHANGED <<shared, stack, cache_list_>>
        BY <1>1 DEF vars
    <2>2. /\ Chains' /\ \A u \in Threads : Tasks(u)' = Tasks(u)
          /\ Entries' \subseteq Entries
        BY <2>1 DEF OwnerInv, Chains, Tasks, Entries
    <2> QED BY <2>1, <2>2, EntriesTyped, NothingBegun
<1>2. ASSUME NEW t \in Threads, NEW k \in Keys, Call(t, k) PROVE OwnerInv'
    BY <1>2, CallKeepsOwners
<1>3. ASSUME NEW t \in Threads, NEW c \in Capacities, SetCapacity(t, c) PROVE OwnerInv'
    BY <1>3, SetCapacityKeepsOwners
<1>4. ASSUME NEW t \in Threads, Step(t) PROVE OwnerInv'
    BY <1>4, ReadCapacityKeepsOwners, FindDisabledKeepsOwners, HitKeepsOwners,
       MissKeepsOwners, GetFutureKeepsOwners, CreateNestedKeepsOwners,
       InitSucceedsKeepsOwners, InitFailsKeepsOwners, UpdateEntryKeepsOwners,
       LockAndFindKeepsOwners, EraseInvalidatedKeepsOwners DEF Step
<1> QED BY <1>1, <1>2, <1>3, <1>4 DEF Next

\* Every promise has at most one owner, and every entry an owner or a finished
\* primitive, whatever threads evict and re-insert in between.
THEOREM OwnersInvariant == Spec => [](IInv /\ OwnerInv)
BY InitHolds, NextKeepsInv, InitHoldsOwners, NextKeepsOwners, PTL DEF Spec

\* A frame that owns a promise is one of the active calls.
LEMMA TaskIsFrame ==
    ASSUME NEW t \in Threads, NEW task \in Tasks(t)
    PROVE  \E fr \in AllFrames : Owns(fr) /\ task = Task(fr)
<1>1. PICK i \in DOMAIN stack[t] : Owns(stack[t][i]) /\ task = Task(stack[t][i])
    BY DEF Tasks, TasksOf
<1> QED BY <1>1 DEF AllFrames, FramesOf

\* A lookup never follows a pointer to a descriptor that is gone: a key points
\* into the descriptor of a call that is still active, or into a primitive.
THEOREM KeysAlwaysPointToLivingObjects == Spec => []KeysPointToLivingObjects
<1>1. IInv /\ OwnerInv => KeysPointToLivingObjects
    <2> SUFFICES ASSUME IInv, OwnerInv, NEW k \in Cached
                 PROVE  Alive(cache_mapper_[k].desc)
        BY DEF KeysPointToLivingObjects
    <2>1. PICK i \in DOMAIN cache_list_ : cache_list_[i].key = k
        BY DEF IInv, CacheInv, ListAndMapperAgree, Agree, Cached
    <2>2. PICK n \in Entries : n.key = k /\ n = cache_list_[i]
        BY <2>1 DEF Entries
    <2>3. n \in Nodes /\ n.desc = cache_mapper_[k].desc /\ n \in ToSet(cache_list_)
        BY <2>2, EntriesTyped DEF ToSet
    <2>4. EntryIsOwned(n) /\ n.desc.in \in {"pd", "primitive"} /\ n.thread_id_ \in Threads
        BY <2>3 DEF OwnerInv, EntriesAreOwned, Nodes, Descs
    <2>5. CASE n.desc.in = "primitive"
        BY <2>3, <2>4, <2>5 DEF EntryIsOwned, Alive
    <2>6. CASE n.desc.in = "pd"
        <3>1. PICK task \in Tasks(n.thread_id_) : task.fut = n.desc.of
            BY <2>4, <2>6 DEF EntryIsOwned
        <3>2. PICK fr \in AllFrames : Owns(fr) /\ task = Task(fr)
            BY <2>4, <3>1, TaskIsFrame
        <3> QED BY <2>3, <2>6, <3>1, <3>2 DEF Alive, Owns, Task
    <2> QED BY <2>4, <2>5, <2>6
<1> QED BY <1>1, OwnersInvariant, PTL

\* A failed creation does not stay in the cache: its entry is there only while
\* the call that failed is still on its way to remove it.
THEOREM InvalidatedEntryIsAlwaysBeingRemoved == Spec => []InvalidatedEntryIsBeingRemoved
<1>1. IInv /\ OwnerInv => InvalidatedEntryIsBeingRemoved
    <2> SUFFICES ASSUME IInv, OwnerInv, NEW n \in ToSet(cache_list_),
                        shared[n.value] = "failed"
                 PROVE  \E fr \in AllFrames :
                            /\ fr.key = n.key
                            /\ fr.pc \in {"remove_if_invalidated", "removing"}
        BY DEF InvalidatedEntryIsBeingRemoved
    <2>1. n \in Entries
        BY DEF Entries, ToSet
    <2>2. EntryIsOwned(n) /\ n.desc.in \in {"pd", "primitive"} /\ n.thread_id_ \in Threads
        BY <2>1, EntriesTyped DEF OwnerInv, EntriesAreOwned, Nodes, Descs
    <2>3. n.desc.in # "primitive"
        BY <2>2 DEF EntryIsOwned, Primitives
    <2>4. PICK task \in Tasks(n.thread_id_) : task.key = n.key /\ task.fut = n.value
        BY <2>2, <2>3 DEF EntryIsOwned
    <2>5. PICK fr \in AllFrames : Owns(fr) /\ task = Task(fr)
        BY <2>2, <2>4, TaskIsFrame
    <2>6. PromiseIsKept(task, shared) /\ task.phase = Phase(fr.pc) /\ fr.key = n.key
        BY <2>2, <2>4, <2>5 DEF OwnerInv, PromisesAreKept, Task
    <2>7. Phase(fr.pc) = "failed"
        BY <2>4, <2>6 DEF PromiseIsKept, Phase, Primitives
    <2> QED BY <2>5, <2>6, <2>7 DEF Phase, Owns
<1> QED BY <1>1, OwnersInvariant, PTL

\* What a promise was set to is what everyone who holds its future reads, at any
\* later time: a step sets a promise that is not set, or makes a new one.
THEOREM OutcomesStayFinal == Spec => OutcomesAreFinal
<1>1. IInv /\ OwnerInv /\ [Next]_vars =>
        [\A f \in Referenced \cap Futures :
            shared[f] # "unset" /\ f \in Referenced' => shared'[f] = shared[f]]_vars
    <2> SUFFICES ASSUME IInv, OwnerInv, [Next]_vars, NEW f \in Referenced \cap Futures,
                        shared[f] # "unset"
                 PROVE  shared'[f] = shared[f]
        OBVIOUS
    <2>1. shared \in [Futures -> Outcomes \cup {"unset"}]
        BY DEF IInv, ThreadInv
    <2>2. CASE UNCHANGED shared
        BY <2>2
    <2>3. CASE SomeFutureIsFree /\ shared' = [shared EXCEPT ![FreshFuture] = "unset"]
        BY <2>1, <2>3, FreshIsFree
    <2>4. ASSUME NEW t \in Threads, InitEnds(t), NEW v,
                 shared' = [shared EXCEPT ![Top(t).fut] = v]
          PROVE  shared'[f] = shared[f]
        <3>1. Active(t) /\ Top(t).pc = "init"
            BY <2>4 DEF InitEnds
        <3>2. Task(Top(t)) \in Tasks(t)
            BY <3>1, TasksOfTop DEF IInv, OwnerInv, Own, Owns
        <3>3. PromiseIsKept(Task(Top(t)), shared)
            BY <3>2 DEF OwnerInv, PromisesAreKept
        <3>4. shared[Top(t).fut] = "unset"
            BY <3>1, <3>3 DEF PromiseIsKept, Task, Phase
        <3> QED BY <2>1, <2>4, <3>4
    <2>5. CASE UNCHANGED vars
        BY <2>5 DEF vars
    <2>6. ASSUME NEW t \in Threads, Step(t) PROVE shared'[f] = shared[f]
        <3>1. CASE ReadCapacity(t)
            BY <2>2, <2>3, <3>1 DEF ReadCapacity
        <3>2. CASE FindDisabled(t) \/ Miss(t)
            BY <2>3, <3>2 DEF FindDisabled, Miss
        <3>3. CASE InitSucceeds(t)
            BY <2>4, <3>3 DEF InitSucceeds
        <3>4. CASE InitFails(t)
            BY <2>4, <3>4 DEF InitFails
        <3>5. CASE \/ Hit(t) \/ GetFuture(t) \/ CreateNested(t) \/ UpdateEntry(t)
                   \/ LockAndFind(t) \/ EraseInvalidated(t)
            BY <2>2, <3>5 DEF Hit, GetFuture, CreateNested, UpdateEntry, LockAndFind,
               EraseInvalidated
        <3> QED BY <2>6, <3>1, <3>2, <3>3, <3>4, <3>5 DEF Step
    <2>7. ASSUME NEW t \in Threads, NEW k \in Keys, Call(t, k)
          PROVE  shared'[f] = shared[f]
        BY <2>7 DEF Call
    <2>8. ASSUME NEW t \in Threads, NEW c \in Capacities, SetCapacity(t, c)
          PROVE  shared'[f] = shared[f]
        BY <2>8 DEF SetCapacity
    <2> QED BY <2>5, <2>6, <2>7, <2>8 DEF Next
<1> QED BY <1>1, OwnersInvariant, PTL DEF Spec, OutcomesAreFinal

-----------------------------------------------------------------------------
(* What leaves the cache *)

\* The entry with a future is still in the list after a step.
Stays(n) == \E m \in ToSet(cache_list_') : m.value = n.value

\* A hit moves an entry and loses none.
LEMMA HitKeepsEntries ==
    ASSUME IInv, NEW t \in Threads, Hit(t), NEW n \in ToSet(cache_list_)
    PROVE  Stays(n)
<1> DEFINE i == IndexOf(cache_mapper_[Top(t).key].node)
           r == Spliced(cache_list_, i)
           rest == RemoveAt(cache_list_, i)
<1>1. cache_list_ \in Seq(Nodes) /\ i \in 1..Len(cache_list_) /\ cache_list_' = r
    BY IteratorIsValid DEF Hit, IInv, CacheInv
<1>2. PICK l \in DOMAIN cache_list_ : n = cache_list_[l]
    BY DEF ToSet
<1> HIDE DEF i
<1>3. /\ rest \in Seq(Nodes) /\ Len(rest) = Len(cache_list_) - 1
      /\ \A j \in 1..(Len(cache_list_) - 1) :
            rest[j] = IF j < i THEN cache_list_[j] ELSE cache_list_[j + 1]
    BY <1>1, RemovedAt
<1>4. /\ r \in Seq(Nodes) /\ Len(r) = Len(rest) + 1 /\ r[1] = cache_list_[i]
      /\ \A j \in 1..Len(rest) : r[j + 1] = rest[j]
    BY <1>1, <1>3, PushFront DEF Spliced
<1> HIDE DEF r, rest
<1>5. \E j \in DOMAIN r : r[j] = n
    <2>1. CASE l = i
        <3>1. 1 \in DOMAIN r
            BY <1>3, <1>4
        <3> QED BY <1>2, <1>4, <2>1, <3>1
    <2>2. CASE l < i
        <3>1. l \in 1..(Len(cache_list_) - 1) /\ l \in 1..Len(rest) /\ l + 1 \in DOMAIN r
            BY <1>1, <1>2, <1>3, <1>4, <2>2
        <3> QED BY <1>2, <1>3, <1>4, <2>2, <3>1
    <2>3. CASE l > i
        <3>1. /\ l - 1 \in 1..(Len(cache_list_) - 1) /\ l - 1 \in 1..Len(rest)
              /\ l \in DOMAIN r /\ (l - 1) + 1 = l /\ ~(l - 1 < i)
            BY <1>1, <1>2, <1>3, <1>4, <2>3
        <3>2. r[l] = rest[l - 1] /\ rest[l - 1] = cache_list_[l]
            BY <1>3, <1>4, <3>1
        <3> QED BY <1>2, <3>1, <3>2
    <2> QED BY <1>1, <1>2, <2>1, <2>2, <2>3
<1> QED BY <1>1, <1>5 DEF Stays, ToSet

\* An insertion gives up an entry of a full cache only, which is full again.
LEMMA MissKeepsEntries ==
    ASSUME IInv, NEW t \in Threads, Miss(t), NEW n \in ToSet(cache_list_)
    PROVE  Stays(n) \/ Len(cache_list_') = capacity_'
<1> DEFINE f       == FreshFuture
           excess  == IF Cardinality(Cached) = capacity_ THEN 1 ELSE 0
           node    == [key |-> Top(t).key, thread_id_ |-> t,
                       desc |-> [in |-> "pd", of |-> f], value |-> f]
           shorter == EvictedList(cache_list_, excess)
           r       == <<node>> \o shorter
<1>1. /\ Active(t) /\ SomeFutureIsFree /\ capacity_ # 0
      /\ cache_list_' = r /\ capacity_' = capacity_
    BY DEF Miss, Add
<1>2. /\ Len(cache_list_) \in Nat /\ Cardinality(Cached) = Len(cache_list_)
      /\ capacity_ \in Nat /\ Len(cache_list_) <= capacity_
    BY SizesAgree DEF IInv, CacheInv, ListAndMapperAgree, Cached, WithinCapacity
<1>3. /\ excess \in 0..Len(cache_list_)
      /\ excess = IF Len(cache_list_) = capacity_ THEN 1 ELSE 0
    BY <1>1, <1>2
<1>4. node \in Nodes
    <2>1. Top(t).key \in Keys /\ f \in Futures
        BY <1>1, TopIsFrame, FreshIsFree DEF IInv, Frames
    <2> QED BY <2>1 DEF Nodes, Descs
<1> HIDE DEF excess, node
<1>5. /\ shorter \in Seq(Nodes) /\ Len(shorter) = Len(cache_list_) - excess
      /\ \A j \in 1..(Len(cache_list_) - excess) : shorter[j] = cache_list_[j]
    BY <1>3, EvictAgrees DEF IInv, CacheInv, ListAndMapperAgree
<1> HIDE DEF shorter
<1>6. /\ r \in Seq(Nodes) /\ Len(r) = Len(shorter) + 1
      /\ \A j \in 1..Len(shorter) : r[j + 1] = shorter[j]
    BY <1>4, <1>5, PushFront
<1>7. PICK l \in DOMAIN cache_list_ : n = cache_list_[l]
    BY DEF ToSet
<1> HIDE DEF r
<1>8. CASE Len(cache_list_) = capacity_
    BY <1>1, <1>2, <1>3, <1>5, <1>6, <1>8
<1>9. CASE Len(cache_list_) # capacity_
    <2>1. l \in 1..Len(shorter) /\ l + 1 \in DOMAIN r
        BY <1>2, <1>3, <1>5, <1>6, <1>7, <1>9 DEF IInv, CacheInv
    <2>2. r[l + 1] = n
        BY <1>2, <1>3, <1>5, <1>6, <1>7, <1>9, <2>1
    <2> QED BY <1>1, <2>1, <2>2 DEF Stays, ToSet
<1> QED BY <1>8, <1>9

\* A new capacity drops entries only down to that capacity.
LEMMA SetCapacityKeepsEntries ==
    ASSUME IInv, NEW t \in Threads, NEW cap \in Capacities, SetCapacity(t, cap),
           NEW n \in ToSet(cache_list_)
    PROVE  Stays(n) \/ Len(cache_list_') = capacity_'
<1> DEFINE excess == IF Len(cache_list_) > cap THEN Len(cache_list_) - cap ELSE 0
           r == EvictedList(cache_list_, excess)
<1>1. cap \in Nat /\ Len(cache_list_) \in Nat /\ excess \in 0..Len(cache_list_)
    BY CapacityAssumption DEF IInv, CacheInv
<1>2. cache_list_' = r /\ capacity_' = cap
    BY DEF SetCapacity
<1>3. CASE Len(cache_list_) > cap
    <2>1. excess = Len(cache_list_) - cap
        BY <1>3
    <2> HIDE DEF excess
    <2>2. Len(r) = Len(cache_list_) - excess
        BY <1>1, EvictAgrees DEF IInv, CacheInv, ListAndMapperAgree
    <2> QED BY <1>1, <1>2, <2>1, <2>2
<1>4. CASE ~(Len(cache_list_) > cap)
    <2>1. excess = 0
        BY <1>4
    <2> HIDE DEF excess
    <2>2. /\ r \in Seq(Nodes) /\ Len(r) = Len(cache_list_) - excess
          /\ \A j \in 1..(Len(cache_list_) - excess) : r[j] = cache_list_[j]
        BY <1>1, EvictAgrees DEF IInv, CacheInv, ListAndMapperAgree
    <2> HIDE DEF r
    <2>3. PICK l \in DOMAIN cache_list_ : n = cache_list_[l]
        BY DEF ToSet
    <2>4. l \in DOMAIN r /\ r[l] = n
        BY <1>1, <2>1, <2>2, <2>3 DEF IInv, CacheInv
    <2> QED BY <1>2, <2>4 DEF Stays, ToSet
<1> QED BY <1>3, <1>4

\* A repair changes where a key points, and loses no entry.
LEMMA UpdateKeepsEntries ==
    ASSUME IInv, NEW t \in Threads, UpdateEntry(t), NEW n \in ToSet(cache_list_)
    PROVE  Stays(n)
<1> DEFINE i    == IndexOf(cache_mapper_[Top(t).key].node)
           desc == [in |-> "primitive", of |-> Top(t).fut]
<1>1. PICK l \in DOMAIN cache_list_ : n = cache_list_[l]
    BY DEF ToSet
<1>2. CASE MayUpdate(t)
    <2>1. /\ cache_list_' = [cache_list_ EXCEPT ![i].desc = desc]
          /\ cache_list_ \in Seq(Nodes) /\ i \in DOMAIN cache_list_
        BY <1>2, IteratorIsValid DEF UpdateEntry, MayUpdate, IInv, CacheInv
    <2> HIDE DEF i, desc
    <2>2. l \in DOMAIN cache_list_' /\ cache_list_'[l].value = n.value
        <3>1. n \in Nodes
            BY <1>1, <2>1
        <3>2. cache_list_'[l] = IF l = i THEN [n EXCEPT !.desc = desc] ELSE n
            BY <1>1, <2>1
        <3> QED BY <1>1, <2>1, <3>1, <3>2 DEF Nodes
    <2> QED BY <2>2 DEF Stays, ToSet
<1>3. CASE ~MayUpdate(t)
    BY <1>3 DEF UpdateEntry, Stays
<1> QED BY <1>2, <1>3

\* The removal of an invalidated entry takes that one only.
LEMMA EraseKeepsEntries ==
    ASSUME IInv, NEW t \in Threads, EraseInvalidated(t), NEW n \in ToSet(cache_list_)
    PROVE  Stays(n) \/ shared[n.value] = "failed"
<1> DEFINE f == cache_mapper_[Top(t).key].node
           i == IndexOf(f)
           r == RemoveAt(cache_list_, i)
<1>1. Top(t).key \in Cached
    BY DEF EraseInvalidated, IInv, LockInv
<1>2. /\ cache_list_ \in Seq(Nodes) /\ i \in 1..Len(cache_list_)
      /\ cache_list_[i].value = f
    <2>1. /\ i \in 1..Len(cache_list_) /\ cache_list_ \in Seq(Nodes)
          /\ cache_list_[i].key = Top(t).key
        BY <1>1, IteratorIsValid DEF IInv, CacheInv, NodeAt
    <2> HIDE DEF i
    <2>2. cache_mapper_[cache_list_[i].key] =
            [thread_id_ |-> cache_list_[i].thread_id_, desc |-> cache_list_[i].desc,
             node |-> cache_list_[i].value]
        BY <2>1 DEF IInv, CacheInv, ListAndMapperAgree, Agree
    <2> QED BY <2>1, <2>2
<1>3. PICK l \in DOMAIN cache_list_ : n = cache_list_[l]
    BY DEF ToSet
<1>4. CASE shared[f] # "failed"
    BY <1>4 DEF EraseInvalidated, Stays
<1>5. CASE shared[f] = "failed" /\ l = i
    BY <1>2, <1>3, <1>5
<1>6. CASE shared[f] = "failed" /\ l # i
    <2>1. cache_list_' = r
        BY <1>6 DEF EraseInvalidated
    <2> HIDE DEF i, f
    <2>2. /\ r \in Seq(Nodes) /\ Len(r) = Len(cache_list_) - 1
          /\ \A j \in 1..(Len(cache_list_) - 1) :
                r[j] = IF j < i THEN cache_list_[j] ELSE cache_list_[j + 1]
        BY <1>2, RemovedAt
    <2> HIDE DEF r
    <2>3. CASE l < i
        <3>1. l \in 1..(Len(cache_list_) - 1) /\ l \in DOMAIN r
            BY <1>2, <1>3, <2>2, <2>3
        <3> QED BY <1>3, <2>1, <2>2, <2>3, <3>1 DEF Stays, ToSet
    <2>4. CASE l > i
        <3>1. /\ l - 1 \in 1..(Len(cache_list_) - 1) /\ l - 1 \in DOMAIN r
              /\ (l - 1) + 1 = l /\ ~(l - 1 < i)
            BY <1>2, <1>3, <2>2, <2>4
        <3>2. r[l - 1] = n
            BY <1>3, <2>2, <3>1
        <3> QED BY <2>1, <3>1, <3>2 DEF Stays, ToSet
    <2> QED BY <1>2, <1>3, <1>6, <2>3, <2>4
<1> QED BY <1>4, <1>5, <1>6

\* An entry leaves the cache for room or because its creation failed: a removal
\* never takes another thread's newer entry of the same key.
THEOREM OnlyFailuresAreEverRemoved == Spec => OnlyFailuresAreRemoved
<1>1. IInv /\ [Next]_vars =>
        [\A n \in ToSet(cache_list_) :
            \/ shared[n.value] = "failed"
            \/ \E m \in ToSet(cache_list_') : m.value = n.value
            \/ Len(cache_list_') = capacity_']_vars
    <2> SUFFICES ASSUME IInv, [Next]_vars, NEW n \in ToSet(cache_list_)
                 PROVE  \/ shared[n.value] = "failed"
                        \/ Stays(n)
                        \/ Len(cache_list_') = capacity_'
        BY DEF Stays
    <2>1. CASE UNCHANGED cache_list_
        BY <2>1 DEF Stays
    <2>2. CASE UNCHANGED vars
        BY <2>1, <2>2 DEF vars
    <2>3. ASSUME NEW t \in Threads, NEW k \in Keys, Call(t, k) PROVE UNCHANGED cache_list_
        BY <2>3 DEF Call
    <2>4. ASSUME NEW t \in Threads, NEW cap \in Capacities, SetCapacity(t, cap)
          PROVE  Stays(n) \/ Len(cache_list_') = capacity_'
        BY <2>4, SetCapacityKeepsEntries
    <2>5. ASSUME NEW t \in Threads, Step(t)
          PROVE  \/ shared[n.value] = "failed" \/ Stays(n)
                 \/ Len(cache_list_') = capacity_'
        <3>1. CASE Hit(t) \/ UpdateEntry(t)
            BY <3>1, HitKeepsEntries, UpdateKeepsEntries
        <3>2. CASE Miss(t)
            BY <3>2, MissKeepsEntries
        <3>3. CASE EraseInvalidated(t)
            BY <3>3, EraseKeepsEntries
        <3>4. CASE \/ ReadCapacity(t) \/ FindDisabled(t) \/ GetFuture(t) \/ CreateNested(t)
                   \/ InitSucceeds(t) \/ InitFails(t) \/ LockAndFind(t)
            BY <2>1, <3>4 DEF ReadCapacity, FindDisabled, GetFuture, CreateNested,
               InitSucceeds, InitFails, LockAndFind
        <3> QED BY <2>5, <3>1, <3>2, <3>3, <3>4 DEF Step
    <2> QED BY <2>1, <2>2, <2>3, <2>4, <2>5 DEF Next
<1> QED BY <1>1, Invariant, PTL DEF Spec, OnlyFailuresAreRemoved

-----------------------------------------------------------------------------
(* The cache is a least-recently-used one *)

\* The list is in the order of use, the latest first.
Ordered(list, order) ==
    \A i, j \in DOMAIN list : i < j => <<list[j].key, list[i].key>> \in order

LruInv == Ordered(cache_list_, earlier)

\* Some of the nodes, in the same order, are still in order.
LEMMA SelectionOrdered ==
    ASSUME NEW list \in Seq(Nodes), NEW order, Ordered(list, order),
           NEW r \in Seq(Nodes), NEW g \in [DOMAIN r -> DOMAIN list],
           \A i, j \in DOMAIN r : i < j => g[i] < g[j],
           \A j \in DOMAIN r : r[j] = list[g[j]]
    PROVE  Ordered(r, order)
<1> SUFFICES ASSUME NEW i \in DOMAIN r, NEW j \in DOMAIN r, i < j
             PROVE  <<r[j].key, r[i].key>> \in order
    BY DEF Ordered
<1>1. g[i] \in DOMAIN list /\ g[j] \in DOMAIN list /\ g[i] < g[j]
    OBVIOUS
<1> QED BY <1>1 DEF Ordered

LEMMA EvictedOrdered ==
    ASSUME NEW list \in Seq(Nodes), NEW order, Ordered(list, order),
           NEW n \in 0..Len(list)
    PROVE  Ordered(EvictedList(list, n), order)
<1> DEFINE r == EvictedList(list, n)
           g == [j \in DOMAIN r |-> j]
<1>1. /\ r \in Seq(Nodes) /\ Len(r) = Len(list) - n
      /\ \A j \in 1..(Len(list) - n) : r[j] = list[j]
    BY DropLast DEF EvictedList
<1> HIDE DEF r
<1>2. /\ g \in [DOMAIN r -> DOMAIN list]
      /\ \A i, j \in DOMAIN r : i < j => g[i] < g[j]
      /\ \A j \in DOMAIN r : r[j] = list[g[j]]
    BY <1>1
<1> HIDE DEF g
<1>3. Ordered(r, order)
    BY <1>1, <1>2, SelectionOrdered
<1> QED BY <1>3 DEF r

LEMMA RemovedOrdered ==
    ASSUME NEW list \in Seq(Nodes), NEW order, Ordered(list, order),
           NEW i \in 1..Len(list)
    PROVE  Ordered(RemoveAt(list, i), order)
<1> DEFINE r == RemoveAt(list, i)
           g == [j \in DOMAIN r |-> IF j < i THEN j ELSE j + 1]
<1>1. /\ r \in Seq(Nodes) /\ Len(r) = Len(list) - 1
      /\ \A j \in 1..(Len(list) - 1) : r[j] = IF j < i THEN list[j] ELSE list[j + 1]
    BY RemovedAt
<1> HIDE DEF r
<1>2. /\ g \in [DOMAIN r -> DOMAIN list]
      /\ \A a, b \in DOMAIN r : a < b => g[a] < g[b]
      /\ \A j \in DOMAIN r : r[j] = list[g[j]]
    BY <1>1
<1> HIDE DEF g
<1>3. Ordered(r, order)
    BY <1>1, <1>2, SelectionOrdered
<1> QED BY <1>3 DEF r

\* The key that was looked up comes first.
LEMMA NewestInFront ==
    ASSUME NEW r \in Seq(Nodes), NEW node \in Nodes, Ordered(r, earlier),
           \A j \in DOMAIN r : r[j].key # node.key,
           LookedUp = {node.key}, RecordLookUp
    PROVE  Ordered(<<node>> \o r, earlier')
<1> DEFINE s == <<node>> \o r
<1>1. /\ s \in Seq(Nodes) /\ Len(s) = Len(r) + 1 /\ s[1] = node
      /\ \A j \in 1..Len(r) : s[j + 1] = r[j]
    BY PushFront
<1> HIDE DEF s
<1>2. \A j \in DOMAIN r : r[j].key \in Keys /\ r[j].key # node.key
    <2> TAKE j \in DOMAIN r
    <2>1. r[j] \in Nodes
        OBVIOUS
    <2> QED BY <2>1 DEF Nodes
<1>3. ASSUME NEW i \in DOMAIN s, NEW j \in DOMAIN s, i < j
      PROVE  <<s[j].key, s[i].key>> \in earlier'
    <2>1. j - 1 \in 1..Len(r) /\ (j - 1) + 1 = j /\ j - 1 \in DOMAIN r
        BY <1>1, <1>3
    <2>2. s[j] = r[j - 1]
        BY <1>1, <2>1
    <2>3. CASE i = 1
        BY <1>1, <1>2, <2>1, <2>2, <2>3 DEF RecordLookUp
    <2>4. CASE i # 1
        <3>1. i - 1 \in 1..Len(r) /\ (i - 1) + 1 = i /\ i - 1 \in DOMAIN r /\ i - 1 < j - 1
            BY <1>1, <1>3, <2>4
        <3>2. s[i] = r[i - 1]
            BY <1>1, <3>1
        <3>3. <<s[j].key, s[i].key>> \in earlier
            BY <2>1, <2>2, <3>1, <3>2 DEF Ordered
        <3> QED BY <1>2, <2>1, <2>2, <3>1, <3>2, <3>3 DEF RecordLookUp
    <2> QED BY <2>3, <2>4
<1>4. Ordered(s, earlier')
    BY <1>3 DEF Ordered
<1> QED BY <1>4 DEF s

\* Which steps are lookups.
LEMMA NoLookUp ==
    ASSUME IInv, NEW t \in Threads, \A u \in Threads \ {t} : stack'[u] = stack[u],
           ~Active(t) \/ Top(t).pc # "lock_write" \/ capacity_ = 0,
           RecordLookUp
    PROVE  LookedUp = {} /\ earlier' = earlier
<1>1. LookUps = {}
    BY DEF LookUps
<1>2. LookedUp = {}
    BY <1>1 DEF LookedUp
<1> QED BY <1>2 DEF RecordLookUp

LEMMA OneLookUp ==
    ASSUME IInv, NEW t \in Threads, Active(t), Top(t).pc = "lock_write",
           capacity_ # 0, NEW pc, pc # "lock_write", NEW f \in Futures,
           pc \in Pcs, GoToWith(t, pc, f)
    PROVE  LookedUp = {Top(t).key}
<1> DEFINE fr == [Top(t) EXCEPT !.pc = pc, !.fut = f]
<1>1. Top(t) \in Frames /\ stack[t] \in Seq(Frames) /\ stack[t] # <<>>
    BY TopIsFrame DEF IInv
<1>2. fr \in Frames /\ fr.pc = pc
    BY <1>1 DEF Frames
<1>3. /\ stack'[t] = <<fr>> \o Tail(stack[t])
      /\ \A u \in Threads \ {t} : stack'[u] = stack[u]
    BY DEF GoToWith, IInv, ThreadInv
<1> HIDE DEF fr
<1>4. stack'[t][1] = fr
    BY <1>1, <1>2, <1>3
<1>5. LookUps = {t}
    BY <1>2, <1>3, <1>4 DEF LookUps, Top
<1> QED BY <1>5 DEF LookedUp

\* The order of use, when k was looked up, or nothing was.
LEMMA OrderWithNewest ==
    ASSUME NEW k \in Keys, LookedUp = {k}, RecordLookUp, NEW S, S \subseteq Keys,
           Cached' = S, S \subseteq Cached \cup {k}, k \in S
    PROVE  OrderOfUse' = Lru!NewestIs(k, S)
<1>1. earlier' = {p \in earlier : p[1] # k /\ p[2] # k} \cup ((Keys \ {k}) \X {k})
    BY DEF RecordLookUp
<1>2. \A p : p \in OrderOfUse' <=> p \in earlier' /\ p[1] \in S /\ p[2] \in S
    BY DEF OrderOfUse
<1>3. \A p : p \in Lru!NewestIs(k, S) <=>
        \/ p \in earlier /\ p[1] \in S \ {k} /\ p[2] \in S \ {k}
        \/ \E l \in S \ {k} : p = <<l, k>>
    BY DEF Lru!NewestIs, Lru!OrderOn, OrderOfUse
<1>4. ASSUME NEW p, p \in OrderOfUse' PROVE p \in Lru!NewestIs(k, S)
    <2>1. CASE p \in earlier /\ p[1] # k /\ p[2] # k
        BY <1>2, <1>3, <1>4, <2>1
    <2>2. CASE p \in (Keys \ {k}) \X {k}
        BY <1>2, <1>3, <1>4, <2>2
    <2> QED BY <1>1, <1>2, <1>4, <2>1, <2>2
<1>5. ASSUME NEW p, p \in Lru!NewestIs(k, S) PROVE p \in OrderOfUse'
    <2>1. CASE p \in earlier /\ p[1] \in S \ {k} /\ p[2] \in S \ {k}
        BY <1>1, <1>2, <2>1
    <2>2. CASE \E l \in S \ {k} : p = <<l, k>>
        <3>1. PICK l \in S \ {k} : p = <<l, k>>
            BY <2>2
        <3> QED BY <1>1, <1>2, <3>1
    <2> QED BY <1>3, <1>5, <2>1, <2>2
<1> QED BY <1>4, <1>5

LEMMA OrderWithout ==
    ASSUME earlier' = earlier, NEW S, Cached' = S, S \subseteq Cached
    PROVE  OrderOfUse' = Lru!OrderOn(S)
<1>1. \A p : p \in OrderOfUse' <=> p \in earlier /\ p[1] \in S /\ p[2] \in S
    BY DEF OrderOfUse
<1>2. \A p : p \in Lru!OrderOn(S) <=> p \in earlier /\ p[1] \in S /\ p[2] \in S
    BY DEF OrderOfUse, Lru!OrderOn
<1> QED BY <1>1, <1>2

\* What an eviction keeps was used later than what it drops.
LEMMA EvictionSurvives ==
    ASSUME IInv, LruInv, NEW m \in Nat, NEW n \in 0..Len(cache_list_),
           Len(cache_list_) - n = IF Len(cache_list_) > m THEN m ELSE Len(cache_list_)
    PROVE  /\ DOMAIN EvictedMapper(cache_list_, cache_mapper_, n) \in Lru!Survivors(m)
           /\ DOMAIN EvictedMapper(cache_list_, cache_mapper_, n) \subseteq Cached
<1> DEFINE list == cache_list_
           S    == DOMAIN EvictedMapper(list, cache_mapper_, n)
           gone == {list[i].key : i \in (Len(list) - n + 1)..Len(list)}
<1>1. list \in Seq(Nodes) /\ Agree(list, cache_mapper_) /\ Ordered(list, earlier)
    BY DEF IInv, CacheInv, ListAndMapperAgree, LruInv
<1>2. S = Cached \ gone
    BY DEF EvictedMapper, Restrict, Cached
<1>3. Cached = {list[i].key : i \in DOMAIN list}
    BY <1>1 DEF Agree, Cached
<1>4. Cardinality(Cached) = Len(list)
    BY <1>1, SizesAgree DEF Cached
<1>5. Cardinality(S) = Len(list) - n
    BY <1>1, EvictAgrees, SizesAgree
<1> HIDE DEF S
<1>6. ASSUME NEW k \in Cached \ S, NEW l \in S
      PROVE  <<k, l>> \in OrderOfUse
    <2>1. PICK i \in (Len(list) - n + 1)..Len(list) : k = list[i].key
        BY <1>2, <1>6
    <2>2. PICK j \in DOMAIN list : l = list[j].key
        BY <1>2, <1>3, <1>6
    <2>3. j \notin (Len(list) - n + 1)..Len(list)
        BY <1>2, <1>6, <2>2
    <2>4. i \in DOMAIN list /\ j < i
        BY <1>1, <2>1, <2>2, <2>3
    <2>5. <<k, l>> \in earlier
        BY <1>1, <2>1, <2>2, <2>4 DEF Ordered
    <2> QED BY <1>2, <1>6, <2>5 DEF OrderOfUse
<1>7. S \in SUBSET Cached
    BY <1>2
<1>8. Cardinality(S) = IF Cardinality(Cached) > m THEN m ELSE Cardinality(Cached)
    BY <1>4, <1>5
<1>9. S \in Lru!Survivors(m)
    <2>1. \A k \in Cached \ S, l \in S : <<k, l>> \in OrderOfUse
        BY <1>6
    <2>2. Lru!Cardinality(S) = Cardinality(S) /\ Lru!Cardinality(Cached) = Cardinality(Cached)
        BY DEF Lru!Cardinality, Cardinality
    <2> QED BY <1>7, <1>8, <2>1, <2>2 DEF Lru!Survivors
<1> QED BY <1>7, <1>9 DEF S

\* A step that neither looks up nor changes what is cached.
LEMMA LruStutters ==
    ASSUME earlier' = earlier, Cached' = Cached, capacity_' = capacity_
    PROVE  UNCHANGED Lru!lruVars
BY DEF Lru!lruVars, OrderOfUse

LEMMA SetCapacityResizes ==
    ASSUME IInv, LruInv, NEW t \in Threads, NEW c \in Capacities, SetCapacity(t, c),
           RecordLookUp
    PROVE  Lru!Resize(c) /\ LruInv'
<1> DEFINE n == IF Len(cache_list_) > c THEN Len(cache_list_) - c ELSE 0
<1>1. /\ Len(cache_list_) \in Nat /\ c \in Nat
      /\ cache_list_ \in Seq(Nodes) /\ Ordered(cache_list_, earlier)
    BY CapacityAssumption DEF IInv, CacheInv, LruInv
<1>2. /\ n \in 0..Len(cache_list_)
      /\ Len(cache_list_) - n = IF Len(cache_list_) > c THEN c ELSE Len(cache_list_)
    BY <1>1
<1>3. /\ cache_list_' = EvictedList(cache_list_, n)
      /\ cache_mapper_' = EvictedMapper(cache_list_, cache_mapper_, n)
      /\ capacity_' = c /\ UNCHANGED stack /\ ~Active(t)
    BY DEF SetCapacity
<1> HIDE DEF n
<1>4. earlier' = earlier
    BY <1>3, NoLookUp
<1>5. PICK kept : kept = DOMAIN EvictedMapper(cache_list_, cache_mapper_, n)
    OBVIOUS
<1>6. kept \in Lru!Survivors(c) /\ kept \subseteq Cached
    BY <1>1, <1>2, <1>5, EvictionSurvives
<1>7. Cached' = kept
    BY <1>3, <1>5 DEF Cached
<1>8. OrderOfUse' = Lru!OrderOn(kept)
    BY <1>4, <1>6, <1>7, OrderWithout
<1>9. Lru!Resize(c)
    BY <1>3, <1>6, <1>7, <1>8 DEF Lru!Resize
<1>10. LruInv'
    BY <1>1, <1>2, <1>3, <1>4, EvictedOrdered DEF LruInv
<1> QED BY <1>9, <1>10

LEMMA HitUses ==
    ASSUME IInv, LruInv, NEW t \in Threads, Hit(t), RecordLookUp
    PROVE  Lru!Use(Top(t).key) /\ LruInv'
<1>0. PICK k : k = Top(t).key
    OBVIOUS
<1> DEFINE i == IndexOf(cache_mapper_[k].node)
<1>1. /\ k \in Cached /\ Active(t) /\ Top(t).pc = "lock_write" /\ capacity_ # 0
      /\ cache_list_' = Spliced(cache_list_, i) /\ UNCHANGED <<capacity_, cache_mapper_>>
      /\ GoToWith(t, "wait", cache_mapper_[k].node)
    BY <1>0 DEF Hit
<1>2. /\ i \in 1..Len(cache_list_) /\ cache_mapper_[k].node \in Futures
      /\ cache_list_[i].key = k /\ cache_list_ \in Seq(Nodes)
    BY <1>1, IteratorIsValid DEF IInv, CacheInv, NodeAt
<1> HIDE DEF i
<1>3. LookedUp = {k}
    <2>1. "wait" \in Pcs
        BY DEF Pcs
    <2> QED BY <1>0, <1>1, <1>2, <2>1, OneLookUp
<1>4. Cached' = Cached /\ k \in Keys /\ Cached \subseteq Keys
    BY <1>1, CachedKeys DEF Cached
<1>5. OrderOfUse' = Lru!NewestIs(k, Cached)
    <2>1. PICK S : S = Cached
        OBVIOUS
    <2>2. OrderOfUse' = Lru!NewestIs(k, S)
        BY <1>1, <1>3, <1>4, <2>1, OrderWithNewest
    <2> QED BY <2>1, <2>2
<1>6. capacity_ > 0
    BY <1>1 DEF IInv, CacheInv
<1>7. Lru!Use(k)
    BY <1>1, <1>4, <1>5, <1>6 DEF Lru!Use
<1>8. LruInv'
    <2> DEFINE r == RemoveAt(cache_list_, i)
    <2>1. /\ r \in Seq(Nodes) /\ Len(r) = Len(cache_list_) - 1
          /\ \A j \in 1..(Len(cache_list_) - 1) :
                r[j] = IF j < i THEN cache_list_[j] ELSE cache_list_[j + 1]
        BY <1>2, RemovedAt
    <2>2. Ordered(r, earlier) /\ cache_list_[i] \in Nodes
        BY <1>2, RemovedOrdered DEF LruInv
    <2> HIDE DEF r
    <2>3. ASSUME NEW j \in DOMAIN r PROVE r[j].key # cache_list_[i].key
        <3>1. PICK l \in DOMAIN cache_list_ : r[j] = cache_list_[l] /\ l # i
            <4>1. j \in 1..(Len(cache_list_) - 1)
                BY <2>1
            <4>2. CASE j < i
                <5>1. j \in DOMAIN cache_list_ /\ j # i
                    BY <1>2, <4>1, <4>2
                <5> QED BY <2>1, <4>1, <4>2, <5>1
            <4>3. CASE ~(j < i)
                <5>1. j + 1 \in DOMAIN cache_list_ /\ j + 1 # i
                    BY <1>2, <4>1, <4>3
                <5> QED BY <2>1, <4>1, <4>3, <5>1
            <4> QED BY <4>2, <4>3
        <3>2. i \in DOMAIN cache_list_
            BY <1>2
        <3> QED BY <3>1, <3>2 DEF IInv, CacheInv, ListAndMapperAgree, Agree
    <2>4. Ordered(<<cache_list_[i]>> \o r, earlier')
        <3>1. PICK node \in Nodes : node = cache_list_[i]
            BY <2>2
        <3>2. \A j \in DOMAIN r : r[j].key # node.key
            BY <2>3, <3>1
        <3>3. LookedUp = {node.key}
            BY <1>2, <1>3, <3>1
        <3>4. PICK q \in Seq(Nodes) : q = r
            BY <2>1
        <3>5. Ordered(<<node>> \o q, earlier')
            BY <2>2, <3>2, <3>3, <3>4, NewestInFront
        <3> QED BY <3>1, <3>4, <3>5
    <2> QED BY <1>1, <2>4 DEF LruInv, Spliced, r
<1> QED BY <1>0, <1>7, <1>8

LEMMA MissInserts ==
    ASSUME IInv, LruInv, NEW t \in Threads, Miss(t), RecordLookUp
    PROVE  Lru!Insert(Top(t).key) /\ LruInv'
<1>0. PICK k, f : k = Top(t).key /\ f = FreshFuture
    OBVIOUS
<1> DEFINE n       == IF Cardinality(Cached) = capacity_ THEN 1 ELSE 0
           node    == [key |-> k, thread_id_ |-> t,
                       desc |-> [in |-> "pd", of |-> f], value |-> f]
           shorter == EvictedList(cache_list_, n)
           smaller == EvictedMapper(cache_list_, cache_mapper_, n)
<1>1. /\ k \notin Cached /\ Active(t) /\ capacity_ # 0 /\ SomeFutureIsFree
      /\ Top(t).pc = "lock_write" /\ UNCHANGED capacity_
      /\ cache_list_' = <<node>> \o shorter
      /\ Cached' = DOMAIN smaller \cup {k}
      /\ GoToWith(t, "init", f)
    BY <1>0 DEF Miss, Add, Cached
<1>2. f \in Futures /\ k \in Keys /\ "init" \in Pcs
    BY <1>0, <1>1, FreshIsFree, TopIsFrame DEF IInv, Frames, Pcs
<1>3. node \in Nodes /\ node.key = k
    BY <1>2 DEF Nodes, Descs
<1>4. /\ Len(cache_list_) \in Nat /\ Cardinality(Cached) = Len(cache_list_)
      /\ capacity_ \in Nat /\ Len(cache_list_) <= capacity_
      /\ cache_list_ \in Seq(Nodes) /\ Agree(cache_list_, cache_mapper_)
    BY SizesAgree DEF IInv, CacheInv, ListAndMapperAgree, Cached, WithinCapacity
<1>5. /\ n \in 0..Len(cache_list_) /\ capacity_ - 1 \in Nat
      /\ Len(cache_list_) - n =
            IF Len(cache_list_) > capacity_ - 1 THEN capacity_ - 1 ELSE Len(cache_list_)
    <2>1. /\ Len(cache_list_) \in Nat /\ capacity_ \in Nat /\ capacity_ # 0
          /\ Len(cache_list_) <= capacity_
          /\ n = IF Len(cache_list_) = capacity_ THEN 1 ELSE 0
        BY <1>1, <1>4
    <2> HIDE DEF n
    <2>2. PICK l, c \in Nat : l = Len(cache_list_) /\ c = capacity_
        BY <2>1
    <2>3. CASE l = c
        <3>1. n = 1
            BY <2>1, <2>2, <2>3
        <3> QED BY <2>1, <2>2, <2>3, <3>1
    <2>4. CASE l # c
        <3>1. n = 0
            BY <2>1, <2>2, <2>4
        <3>2. l <= c /\ c # 0
            BY <2>1, <2>2
        <3>3. c - 1 \in Nat /\ ~(l > c - 1) /\ l - 0 = l /\ 0 \in 0..l
            BY <2>4, <3>2
        <3> QED BY <2>2, <3>1, <3>3
    <2> QED BY <2>3, <2>4
<1> HIDE DEF n
<1>6. LookedUp = {k}
    BY <1>0, <1>1, <1>2, OneLookUp
<1>7. PICK kept : kept = DOMAIN smaller
    OBVIOUS
<1>8. kept \in Lru!Survivors(capacity_ - 1) /\ kept \subseteq Cached
    BY <1>5, <1>7, EvictionSurvives
<1>9. Cached' = kept \cup {k}
    BY <1>1, <1>7
<1>10. OrderOfUse' = Lru!NewestIs(k, kept \cup {k})
    <2>1. kept \cup {k} \subseteq Keys
        BY <1>2, <1>8, CachedKeys
    <2> QED BY <1>2, <1>6, <1>8, <1>9, <2>1, OrderWithNewest
<1>11. Lru!Insert(k)
    <2>1. capacity_ > 0
        BY <1>1, <1>4
    <2> QED BY <1>1, <1>8, <1>9, <1>10, <2>1 DEF Lru!Insert
<1>12. LruInv'
    <2>1. /\ shorter \in Seq(Nodes) /\ Ordered(shorter, earlier)
          /\ \A j \in DOMAIN shorter : shorter[j] \in Entries
        BY <1>4, <1>5, EvictAgrees, EvictedOrdered, EvictedEntries DEF LruInv
    <2>2. \A j \in DOMAIN shorter : shorter[j].key # node.key
        BY <1>1, <1>3, <2>1, EntriesTyped
    <2> HIDE DEF shorter, node
    <2>3. PICK q \in Seq(Nodes) : q = shorter
        BY <2>1
    <2>4. Ordered(<<node>> \o q, earlier')
        BY <1>3, <1>6, <2>1, <2>2, <2>3, NewestInFront
    <2> QED BY <1>1, <2>3, <2>4 DEF LruInv
<1> QED BY <1>0, <1>11, <1>12

LEMMA EraseDrops ==
    ASSUME IInv, LruInv, NEW t \in Threads, EraseInvalidated(t), RecordLookUp
    PROVE  LruInv' /\ (Lru!Drop(Top(t).key) \/ UNCHANGED Lru!lruVars)
<1>0. PICK k : k = Top(t).key
    OBVIOUS
<1> DEFINE f == cache_mapper_[k].node
<1>1. /\ Active(t) /\ Top(t).pc = "removing" /\ Return(t, "failed")
      /\ UNCHANGED capacity_
    BY DEF EraseInvalidated
<1>2. k \in Cached
    BY <1>0, <1>1 DEF IInv, LockInv
<1>3. earlier' = earlier
    <2>1. \A u \in Threads \ {t} : stack'[u] = stack[u]
        BY <1>1 DEF Return, IInv, ThreadInv
    <2> QED BY <1>1, <2>1, NoLookUp
<1>4. CASE shared[f] = "failed"
    <2>1. /\ cache_list_' = RemoveAt(cache_list_, IndexOf(f))
          /\ cache_mapper_' = Restrict(cache_mapper_, Cached \ {k})
        BY <1>0, <1>4 DEF EraseInvalidated
    <2>2. IndexOf(f) \in 1..Len(cache_list_) /\ cache_list_ \in Seq(Nodes)
        BY <1>2, IteratorIsValid DEF IInv, CacheInv
    <2> HIDE DEF f
    <2>3. LruInv'
        BY <1>3, <2>1, <2>2, RemovedOrdered DEF LruInv
    <2>4. Cached' = Cached \ {k}
        BY <2>1 DEF Cached, Restrict
    <2>5. PICK S : S = Cached \ {k}
        OBVIOUS
    <2>6. OrderOfUse' = Lru!OrderOn(S)
        BY <1>3, <2>4, <2>5, OrderWithout
    <2>7. Lru!Drop(k)
        BY <1>1, <1>2, <2>4, <2>5, <2>6 DEF Lru!Drop
    <2> QED BY <1>0, <2>3, <2>7
<1>5. CASE shared[f] # "failed"
    <2>1. UNCHANGED <<cache_list_, cache_mapper_>>
        BY <1>0, <1>5 DEF EraseInvalidated
    <2> QED BY <1>1, <1>3, <2>1, LruStutters DEF LruInv, Cached
<1> QED BY <1>4, <1>5

\* Repairing an entry moves nothing.
LEMMA UpdateKeepsOrder ==
    ASSUME IInv, LruInv, NEW t \in Threads, UpdateEntry(t), RecordLookUp
    PROVE  LruInv' /\ UNCHANGED Lru!lruVars
<1> DEFINE fr   == Top(t)
           desc == [in |-> "primitive", of |-> fr.fut]
           i    == IndexOf(cache_mapper_[fr.key].node)
<1>1. /\ Active(t) /\ fr.pc = "update_entry" /\ Return(t, shared[fr.fut])
      /\ UNCHANGED capacity_
    BY DEF UpdateEntry
<1>2. earlier' = earlier
    <2>1. \A u \in Threads \ {t} : stack'[u] = stack[u]
        BY <1>1 DEF Return, IInv, ThreadInv
    <2> QED BY <1>1, <2>1, NoLookUp
<1>3. CASE MayUpdate(t)
    <2>1. /\ fr.key \in Cached
          /\ cache_mapper_' = [cache_mapper_ EXCEPT ![fr.key].desc = desc]
          /\ cache_list_' = [cache_list_ EXCEPT ![i].desc = desc]
        BY <1>3 DEF UpdateEntry, MayUpdate
    <2>2. Cached' = Cached
        BY <2>1 DEF Cached
    <2>3. cache_list_ \in Seq(Nodes)
        BY DEF IInv, CacheInv
    <2> HIDE DEF i, desc
    <2>4. DOMAIN cache_list_' = DOMAIN cache_list_
        BY <2>1, <2>3
    <2>5. ASSUME NEW j \in DOMAIN cache_list_
          PROVE  cache_list_'[j].key = cache_list_[j].key
        <3>1. cache_list_[j] \in Nodes
            BY <2>3
        <3>2. [cache_list_[j] EXCEPT !.desc = desc].key = cache_list_[j].key
            BY <3>1 DEF Nodes
        <3>3. cache_list_'[j] = IF j = i THEN [cache_list_[j] EXCEPT !.desc = desc]
                                ELSE cache_list_[j]
            BY <2>1, <2>3
        <3> QED BY <3>2, <3>3
    <2>6. LruInv'
        BY <1>2, <2>4, <2>5 DEF LruInv, Ordered
    <2> QED BY <1>1, <1>2, <2>2, <2>6, LruStutters
<1>4. CASE ~MayUpdate(t)
    BY <1>1, <1>2, <1>4, LruStutters DEF UpdateEntry, LruInv, Cached
<1> QED BY <1>3, <1>4

\* Every other step of a thread changes neither what is cached nor its order.
LEMMA OtherStepsStutter ==
    ASSUME IInv, LruInv, NEW t \in Threads, RecordLookUp,
           \/ ReadCapacity(t) \/ FindDisabled(t) \/ GetFuture(t) \/ CreateNested(t)
           \/ InitSucceeds(t) \/ InitFails(t) \/ LockAndFind(t)
           \/ \E k \in Keys : Call(t, k)
    PROVE  LruInv' /\ UNCHANGED Lru!lruVars
<1>1. UNCHANGED <<capacity_, cache_list_, cache_mapper_>>
    BY DEF ReadCapacity, FindDisabled, GetFuture, CreateNested, InitSucceeds,
       InitFails, LockAndFind, Call
<1>2. ~Active(t) \/ Top(t).pc # "lock_write" \/ capacity_ = 0
    BY DEF ReadCapacity, FindDisabled, GetFuture, CreateNested, InitSucceeds,
       InitFails, InitEnds, LockAndFind, Call
<1>3. \A u \in Threads \ {t} : stack'[u] = stack[u]
    BY DEF ReadCapacity, FindDisabled, GetFuture, CreateNested, InitSucceeds,
       InitFails, LockAndFind, Call, GoTo, GoToWith, Return, IInv, ThreadInv
<1>4. earlier' = earlier
    BY <1>2, <1>3, NoLookUp
<1> QED BY <1>1, <1>4, LruStutters DEF LruInv, Cached

LEMMA NextImplementsLru ==
    IInv /\ LruInv /\ [NextLru]_lruCacheVars =>
        LruInv' /\ [Lru!LruNext]_(Lru!lruVars)
<1> SUFFICES ASSUME IInv, LruInv, [NextLru]_lruCacheVars
             PROVE  LruInv' /\ [Lru!LruNext]_(Lru!lruVars)
    OBVIOUS
<1>1. CASE UNCHANGED lruCacheVars
    BY <1>1, LruStutters DEF lruCacheVars, vars, LruInv, Cached
<1>2. ASSUME NEW t \in Threads, NEW k \in Keys, Call(t, k), RecordLookUp
      PROVE  LruInv' /\ UNCHANGED Lru!lruVars
    BY <1>2, OtherStepsStutter
<1>3. ASSUME NEW t \in Threads, NEW c \in Capacities, SetCapacity(t, c), RecordLookUp
      PROVE  LruInv' /\ Lru!LruNext
    BY <1>3, SetCapacityResizes DEF Lru!LruNext
<1>4. ASSUME NEW t \in Threads, Step(t), RecordLookUp
      PROVE  LruInv' /\ [Lru!LruNext]_(Lru!lruVars)
    <2>1. Active(t) /\ Top(t).key \in Keys
        <3>1. Active(t)
            BY <1>4 DEF Step, ReadCapacity, FindDisabled, Hit, Miss, GetFuture,
               CreateNested, InitSucceeds, InitFails, InitEnds, UpdateEntry,
               LockAndFind, EraseInvalidated
        <3> QED BY <3>1, TopIsFrame DEF IInv, Frames
    <2>2. CASE Hit(t)
        BY <1>4, <2>1, <2>2, HitUses DEF Lru!LruNext
    <2>3. CASE Miss(t)
        BY <1>4, <2>1, <2>3, MissInserts DEF Lru!LruNext
    <2>4. CASE EraseInvalidated(t)
        BY <1>4, <2>1, <2>4, EraseDrops DEF Lru!LruNext
    <2>5. CASE UpdateEntry(t)
        BY <1>4, <2>5, UpdateKeepsOrder
    <2>6. CASE \/ ReadCapacity(t) \/ FindDisabled(t) \/ GetFuture(t) \/ CreateNested(t)
               \/ InitSucceeds(t) \/ InitFails(t) \/ LockAndFind(t)
        BY <1>4, <2>6, OtherStepsStutter
    <2> QED BY <1>4, <2>2, <2>3, <2>4, <2>5, <2>6 DEF Step
<1> QED BY <1>1, <1>2, <1>3, <1>4 DEF NextLru, Next

\* The list, the map and the mutex are an LRU cache: what must make room, on an
\* insertion or a resize, is the key looked up longest ago, and nothing else
\* leaves but an invalidated entry.
THEOREM CacheImplementsLru == SpecLru => ImplementsLru
<1>1. InitLru => LruInv /\ Lru!LruInit
    <2> SUFFICES ASSUME InitLru PROVE LruInv /\ Lru!LruInit
        OBVIOUS
    <2>1. LruInv
        BY DEF InitLru, Init, LruInv, Ordered
    <2>2. Cached = {} /\ OrderOfUse = {}
        BY DEF InitLru, Init, Cached, OrderOfUse
    <2> QED BY <2>1, <2>2 DEF Lru!LruInit, InitLru, Init
<1>2. InitLru => IInv
    BY InitHolds DEF InitLru
<1>3. IInv /\ [NextLru]_lruCacheVars => IInv'
    BY NextKeepsInv DEF NextLru, lruCacheVars
<1>4. IInv /\ LruInv /\ [NextLru]_lruCacheVars => LruInv' /\ [Lru!LruNext]_(Lru!lruVars)
    BY NextImplementsLru
<1> QED BY <1>1, <1>2, <1>3, <1>4, PTL DEF SpecLru, ImplementsLru, Lru!LruSpec
=============================================================================
