---------------------------- MODULE ServiceProofs -----------------------------
(***************************************************************************)
(* Proofs about modules LRUCache and OrderService, for any orders, any     *)
(* number of concurrent requests and any capacities.                       *)
(***************************************************************************)
EXTENDS OrderService, TLAPS

-----------------------------------------------------------------------------
(* The list operations.                                                     *)

\* A list that could be the cache's: distinct keys, each of its own value.
GoodList(l) ==
    /\ l \in Seq(Entries)
    /\ \A i, j \in 1 .. Len(l) : l[i].key = l[j].key => i = j
    /\ \A i \in 1 .. Len(l) : l[i].key = l[i].value.uid

KeysOf(l) == {l[i].key : i \in 1 .. Len(l)}

\* Moving an entry to the front permutes the list.
LEMMA MoveFacts ==
    ASSUME NEW l, GoodList(l), NEW i \in 1 .. Len(l)
    PROVE  /\ GoodList(MoveToFront(l, i))
           /\ Len(MoveToFront(l, i)) = Len(l)
           /\ KeysOf(MoveToFront(l, i)) = KeysOf(l)
           /\ MoveToFront(l, i)[1] = l[i]
           /\ \A j \in 1 .. Len(l) : \E k \in 1 .. Len(l) : MoveToFront(l, i)[j] = l[k]
  <1> DEFINE f == MoveToFront(l, i)
  <1>l. Len(l) \in Nat /\ l \in Seq(Entries)
    BY DEF GoodList
  <1>1. /\ DOMAIN f = 1 .. Len(l)
        /\ f[1] = l[i]
        /\ \A j \in 1 .. Len(l) : j # 1 /\ j <= i => f[j] = l[j - 1]
        /\ \A j \in 1 .. Len(l) : j > i => f[j] = l[j]
    BY <1>l DEF MoveToFront
  <1>2. f \in Seq(Entries) /\ Len(f) = Len(l)
    BY <1>l DEF MoveToFront
  <1>3. \A j \in 1 .. Len(l) : \E k \in 1 .. Len(l) : f[j] = l[k]
    <2> SUFFICES ASSUME NEW j \in 1 .. Len(l) PROVE \E k \in 1 .. Len(l) : f[j] = l[k]
      OBVIOUS
    <2>1. CASE j = 1
      BY <1>1, <2>1
    <2>2. CASE j # 1 /\ j <= i
      <3>1. j - 1 \in 1 .. Len(l)
        BY <1>l, <2>2
      <3> QED
        BY <1>1, <2>2, <3>1
    <2>3. CASE j > i
      BY <1>1, <2>3
    <2> QED
      BY <1>l, <2>1, <2>2, <2>3
  <1>4. \A k \in 1 .. Len(l) : \E j \in 1 .. Len(l) : f[j] = l[k]
    <2> SUFFICES ASSUME NEW k \in 1 .. Len(l) PROVE \E j \in 1 .. Len(l) : f[j] = l[k]
      OBVIOUS
    <2>0. 1 \in 1 .. Len(l)
      BY <1>l
    <2>1. CASE k = i
      BY <1>1, <2>0, <2>1
    <2>2. CASE k < i
      <3>1. k + 1 \in 1 .. Len(l) /\ k + 1 # 1 /\ k + 1 <= i /\ (k + 1) - 1 = k
        BY <1>l, <2>2
      <3>2. f[k + 1] = l[k]
        BY <1>1, <3>1
      <3> QED
        BY <3>1, <3>2
    <2>3. CASE k > i
      BY <1>1, <2>3
    <2> QED
      BY <1>l, <2>1, <2>2, <2>3
  <1>5. \A j, k \in 1 .. Len(l) : f[j].key = f[k].key => j = k
    <2> SUFFICES ASSUME NEW j \in 1 .. Len(l), NEW k \in 1 .. Len(l), f[j].key = f[k].key
                 PROVE  j = k
      OBVIOUS
    <2> DEFINE g(x) == IF x = 1 THEN i ELSE IF x <= i THEN x - 1 ELSE x
    <2>1. g(j) \in 1 .. Len(l) /\ g(k) \in 1 .. Len(l)
      BY <1>l
    <2>2. f[j] = l[g(j)] /\ f[k] = l[g(k)]
      BY <1>1, <1>l
    <2>3. g(j) = g(k)
      BY <2>1, <2>2 DEF GoodList
    <2> QED
      BY <2>3, <1>l
  <1>6. KeysOf(f) = KeysOf(l)
    <2>1. ASSUME NEW k, k \in KeysOf(f) PROVE k \in KeysOf(l)
      <3>1. PICK j \in 1 .. Len(l) : k = f[j].key
        BY <1>2, <2>1 DEF KeysOf
      <3>2. PICK n \in 1 .. Len(l) : f[j] = l[n]
        BY <1>3
      <3>3. k = l[n].key
        BY <3>1, <3>2
      <3> QED
        BY <3>3 DEF KeysOf
    <2>2. ASSUME NEW k, k \in KeysOf(l) PROVE k \in KeysOf(f)
      <3>1. PICK n \in 1 .. Len(l) : k = l[n].key
        BY <2>2 DEF KeysOf
      <3>2. PICK j \in 1 .. Len(l) : f[j] = l[n]
        BY <1>4
      <3>3. k = f[j].key
        BY <3>1, <3>2
      <3> QED
        BY <1>2, <3>3 DEF KeysOf
    <2> QED
      BY <2>1, <2>2
  <1>7. GoodList(f)
    <2>1. ASSUME NEW j \in 1 .. Len(l) PROVE f[j].key = f[j].value.uid
      <3>1. PICK n \in 1 .. Len(l) : f[j] = l[n]
        BY <1>3
      <3>2. l[n].key = l[n].value.uid
        BY DEF GoodList
      <3> QED
        BY <3>1, <3>2
    <2> HIDE DEF f
    <2> QED
      BY <1>2, <1>5, <2>1 DEF GoodList
  <1> QED
    BY <1>1, <1>2, <1>3, <1>6, <1>7

\* Eviction leaves a consistent cache that is a prefix of the list.
LEMMA EvictFacts ==
    ASSUME NEW l, GoodList(l), NEW keys, keys = KeysOf(l), NEW count, count = Len(l),
           Evict(l, keys, count)
    PROVE  /\ CacheTypeOK' /\ CacheConsistent'
           /\ \A i \in 1 .. Len(evictList') : i \in 1 .. Len(l) /\ evictList'[i] = l[i]
  <1> DEFINE r == IF count > EntryCountCap THEN count - EntryCountCap ELSE 0
             n == Len(l) - r
  <1>l. Len(l) \in Nat /\ l \in Seq(Entries)
    BY DEF GoodList
  <1>1. r \in Nat /\ n \in Nat /\ n <= Len(l) /\ n <= EntryCountCap /\ count - r = n
    BY <1>l, CapsAssumption
  <1>2. /\ evictList' = SubSeq(l, 1, n)
        /\ items' = keys \ {l[i].key : i \in (n + 1) .. Len(l)}
        /\ currEntryCount' = n
    BY <1>1 DEF Evict
  <1>3. /\ evictList' \in Seq(Entries)
        /\ Len(evictList') = n
        /\ \A i \in 1 .. n : evictList'[i] = l[i]
    BY <1>l, <1>1, <1>2
  <1>4. items' = {evictList'[i].key : i \in 1 .. n}
    <2>1. ASSUME NEW k, k \in items' PROVE k \in {evictList'[i].key : i \in 1 .. n}
      <3>1. PICK i \in 1 .. Len(l) : k = l[i].key
        BY <1>2, <2>1 DEF KeysOf
      <3>2. i \notin (n + 1) .. Len(l)
        BY <1>2, <2>1, <3>1
      <3>3. i \in 1 .. n
        BY <1>l, <1>1, <3>2
      <3> QED
        BY <1>3, <3>1, <3>3
    <2>2. ASSUME NEW i \in 1 .. n PROVE evictList'[i].key \in items'
      <3>1. i \in 1 .. Len(l) /\ evictList'[i] = l[i]
        BY <1>l, <1>1, <1>3
      <3>2. ASSUME NEW j \in (n + 1) .. Len(l) PROVE l[j].key # l[i].key
        <4>1. j \in 1 .. Len(l) /\ j # i
          BY <1>l, <1>1
        <4> QED
          BY <3>1, <4>1 DEF GoodList
      <3> QED
        BY <1>2, <3>1, <3>2 DEF KeysOf
    <2> QED
      BY <2>1, <2>2
  <1>5. items' \in SUBSET Uids
    <2>1. ASSUME NEW i \in 1 .. n PROVE evictList'[i].key \in Uids
      <3>1. evictList'[i] \in Entries
        BY <1>3
      <3> QED
        BY <3>1 DEF Entries
    <2> QED
      BY <1>4, <2>1
  <1>6. CacheTypeOK'
    BY <1>1, <1>2, <1>3, <1>5 DEF CacheTypeOK
  <1>7. \A i \in 1 .. n : i \in 1 .. Len(l)
    BY <1>l, <1>1
  <1>8. CacheConsistent'
    <2>1. \A i, j \in 1 .. n : evictList'[i].key = evictList'[j].key => i = j
      BY <1>3, <1>7 DEF GoodList
    <2>2. \A i \in 1 .. n : evictList'[i].key = evictList'[i].value.uid
      BY <1>3, <1>7 DEF GoodList
    <2> HIDE DEF n, r
    <2> QED
      BY <1>1, <1>2, <1>3, <1>4, <2>1, <2>2 DEF CacheConsistent
  <1> QED
    BY <1>3, <1>6, <1>7, <1>8

-----------------------------------------------------------------------------
(* The cache's own invariant.                                               *)

CacheInv == CacheTypeOK /\ CacheConsistent

\* CacheInv says that the list is a good list and that items and the counter
\* are its keys and its length.
LEMMA ListFacts ==
    ASSUME CacheInv
    PROVE  /\ GoodList(evictList)
           /\ items = KeysOf(evictList)
           /\ currEntryCount = Len(evictList)
           /\ Len(evictList) \in Nat
  BY DEF CacheInv, CacheTypeOK, CacheConsistent, GoodList, KeysOf

\* Conversely, such a list, set and number that are within the cap.
LEMMA GoodListGivesInv ==
    ASSUME CacheInv, GoodList(evictList'), KeysOf(evictList') = KeysOf(evictList),
           Len(evictList') = Len(evictList),
           items' = items, currEntryCount' = currEntryCount
    PROVE  CacheInv'
  <1>1. CacheTypeOK'
    BY DEF CacheInv, CacheTypeOK, GoodList
  <1>2. items' = {evictList'[i].key : i \in 1 .. Len(evictList')}
    BY ListFacts DEF KeysOf
  <1>3. CacheConsistent'
    BY <1>2 DEF CacheInv, CacheConsistent, GoodList
  <1> QED
    BY <1>1, <1>3 DEF CacheInv

\* A key of the map leads to an entry with that key.
LEMMA PositionFacts ==
    ASSUME CacheInv, NEW key \in items
    PROVE  Position(key) \in 1 .. Len(evictList) /\ evictList[Position(key)].key = key
  <1>1. PICK i \in 1 .. Len(evictList) : evictList[i].key = key
    BY DEF CacheInv, CacheConsistent
  <1> QED
    BY <1>1 DEF Position

\* Get keeps the invariant and the entries.
LEMMA GetKeeps ==
    ASSUME CacheInv, NEW key, Get(key)
    PROVE  /\ CacheInv'
           /\ \A i \in 1 .. Len(evictList') :
                \E j \in 1 .. Len(evictList) : evictList'[i] = evictList[j]
  <1>1. CASE key \notin items
    <2>1. UNCHANGED cacheVars
      BY <1>1 DEF Get
    <2> QED
      BY <2>1 DEF cacheVars, CacheInv, CacheTypeOK, CacheConsistent
  <1>2. CASE key \in items
    <2> DEFINE f == MoveToFront(evictList, Position(key))
    <2>1. evictList' = f /\ items' = items /\ currEntryCount' = currEntryCount
      BY <1>2 DEF Get
    <2>2. /\ GoodList(f) /\ Len(f) = Len(evictList) /\ KeysOf(f) = KeysOf(evictList)
          /\ \A j \in 1 .. Len(evictList) : \E k \in 1 .. Len(evictList) : f[j] = evictList[k]
      BY <1>2, ListFacts, PositionFacts, MoveFacts
    <2> HIDE DEF f
    <2>3. CacheInv'
      BY <2>1, <2>2, GoodListGivesInv
    <2> QED
      BY <2>1, <2>2, <2>3
  <1> QED
    BY <1>1, <1>2

\* The list with the entry of an order in front, replacing an entry of the
\* same key that was moved there.
LEMMA ReplaceFacts ==
    ASSUME NEW l, GoodList(l), l # <<>>, NEW e \in Entries, e.key = e.value.uid,
           l[1].key = e.key
    PROVE  /\ GoodList([l EXCEPT ![1] = e])
           /\ Len([l EXCEPT ![1] = e]) = Len(l)
           /\ KeysOf([l EXCEPT ![1] = e]) = KeysOf(l)
           /\ \A i \in 1 .. Len(l) : [l EXCEPT ![1] = e][i] \in {e, l[i]}
  <1> DEFINE f == [l EXCEPT ![1] = e]
  <1>l. l \in Seq(Entries) /\ Len(l) \in Nat /\ 1 \in 1 .. Len(l)
    BY DEF GoodList
  <1>1. f \in Seq(Entries) /\ Len(f) = Len(l)
    BY <1>l
  <1>2. \A i \in 1 .. Len(l) : f[i] = IF i = 1 THEN e ELSE l[i]
    BY <1>l
  <1> HIDE DEF f
  <1>3. \A i \in 1 .. Len(l) : f[i].key = l[i].key /\ f[i] \in {e, l[i]}
    BY <1>2
  <1>4. GoodList(f)
    <2>1. \A i \in 1 .. Len(l) : f[i].key = f[i].value.uid
      BY <1>2 DEF GoodList
    <2> QED
      BY <1>1, <1>3, <2>1 DEF GoodList
  <1>5. KeysOf(f) = KeysOf(l)
    BY <1>1, <1>3 DEF KeysOf
  <1> QED
    BY <1>1, <1>3, <1>4, <1>5 DEF f

\* A list with a new key in front.
LEMMA PushFacts ==
    ASSUME NEW l, GoodList(l), NEW e \in Entries, e.key = e.value.uid,
           e.key \notin KeysOf(l)
    PROVE  /\ GoodList(<<e>> \o l)
           /\ Len(<<e>> \o l) = Len(l) + 1
           /\ KeysOf(<<e>> \o l) = KeysOf(l) \cup {e.key}
           /\ \A i \in 1 .. Len(l) + 1 :
                (<<e>> \o l)[i] = e \/ \E j \in 1 .. Len(l) : (<<e>> \o l)[i] = l[j]
  <1> DEFINE f == <<e>> \o l
  <1>l. l \in Seq(Entries) /\ Len(l) \in Nat
    BY DEF GoodList
  <1>1. /\ f \in Seq(Entries) /\ Len(f) = Len(l) + 1
        /\ \A i \in 1 .. Len(l) + 1 : f[i] = IF i = 1 THEN e ELSE l[i - 1]
    BY <1>l
  <1> HIDE DEF f
  <1>2. \A i \in 1 .. Len(l) + 1 : i # 1 => i - 1 \in 1 .. Len(l) /\ f[i] = l[i - 1]
    BY <1>l, <1>1
  <1>3. 1 \in 1 .. Len(l) + 1 /\ f[1] = e
    BY <1>l, <1>1
  <1>4. \A j \in 1 .. Len(l) : j + 1 \in 1 .. Len(l) + 1 /\ f[j + 1] = l[j]
    <2> SUFFICES ASSUME NEW j \in 1 .. Len(l)
                 PROVE  j + 1 \in 1 .. Len(l) + 1 /\ f[j + 1] = l[j]
      OBVIOUS
    <2>1. j + 1 \in 1 .. Len(l) + 1 /\ j + 1 # 1 /\ (j + 1) - 1 = j
      BY <1>l
    <2> QED
      BY <1>2, <2>1
  <1>5. \A i \in 1 .. Len(l) + 1 : f[i] = e \/ \E j \in 1 .. Len(l) : f[i] = l[j]
    BY <1>2, <1>3
  <1>6. KeysOf(f) = KeysOf(l) \cup {e.key}
    <2>1. ASSUME NEW k, k \in KeysOf(f) PROVE k \in KeysOf(l) \cup {e.key}
      <3>1. PICK i \in 1 .. Len(l) + 1 : k = f[i].key
        BY <1>1, <2>1 DEF KeysOf
      <3>2. CASE f[i] = e
        BY <3>1, <3>2
      <3>3. CASE \E j \in 1 .. Len(l) : f[i] = l[j]
        BY <3>1, <3>3 DEF KeysOf
      <3> QED
        BY <1>5, <3>2, <3>3
    <2>2. e.key \in KeysOf(f)
      BY <1>1, <1>3 DEF KeysOf
    <2>3. ASSUME NEW j \in 1 .. Len(l) PROVE l[j].key \in KeysOf(f)
      BY <1>1, <1>4 DEF KeysOf
    <2>4. KeysOf(l) \subseteq KeysOf(f)
      BY <2>3 DEF KeysOf
    <2> QED
      BY <2>1, <2>2, <2>4
  <1>7. \A i, j \in 1 .. Len(l) + 1 : f[i].key = f[j].key => i = j
    <2> SUFFICES ASSUME NEW i \in 1 .. Len(l) + 1, NEW j \in 1 .. Len(l) + 1,
                        f[i].key = f[j].key
                 PROVE  i = j
      OBVIOUS
    <2>1. CASE i # 1 /\ j # 1
      <3>1. /\ i - 1 \in 1 .. Len(l) /\ j - 1 \in 1 .. Len(l)
            /\ f[i] = l[i - 1] /\ f[j] = l[j - 1]
        BY <1>2, <2>1
      <3>2. \A m, n \in 1 .. Len(l) : l[m].key = l[n].key => m = n
        BY DEF GoodList
      <3>3. i - 1 = j - 1
        BY <3>1, <3>2
      <3> QED
        BY <1>l, <3>3
    <2>2. \A k \in 1 .. Len(l) : l[k].key # e.key
      BY DEF KeysOf
    <2>3. CASE i = 1 /\ j # 1
      BY <1>2, <1>3, <2>2, <2>3
    <2>4. CASE i # 1 /\ j = 1
      BY <1>2, <1>3, <2>2, <2>4
    <2> QED
      BY <2>1, <2>3, <2>4
  <1>8. \A i \in 1 .. Len(l) + 1 : f[i].key = f[i].value.uid
    BY <1>5 DEF GoodList
  <1>9. GoodList(f)
    BY <1>1, <1>7, <1>8 DEF GoodList
  <1> QED
    BY <1>1, <1>5, <1>6, <1>9 DEF f

\* Insert keeps the invariant; its entries are old ones and the order's own,
\* which is there only if it was small enough or its key was known.
LEMMA InsertKeeps ==
    ASSUME CacheInv, NEW o \in Orders, Insert(o)
    PROVE  /\ CacheInv'
           /\ \A i \in 1 .. Len(evictList') :
                \/ /\ evictList'[i] = [key |-> o.uid, value |-> o]
                   /\ o.size <= EntrySizeCap \/ o.uid \in items
                \/ \E j \in 1 .. Len(evictList) : evictList'[i] = evictList[j]
  <1> DEFINE e == [key |-> o.uid, value |-> o]
  <1>e. e \in Entries /\ e.key = o.uid /\ e.value = o
    BY DEF Entries, Uids
  <1> DEFINE m == MoveToFront(evictList, Position(o.uid))
             f == [m EXCEPT ![1] = e]
             g == <<e>> \o evictList
  <1>i. Insert(o) <=> IF o.uid \in items THEN Evict(f, items, currEntryCount)
                      ELSE IF o.size > EntrySizeCap THEN UNCHANGED cacheVars
                      ELSE Evict(g, items \cup {o.uid}, currEntryCount + 1)
    BY DEF Insert
  <1>1. CASE o.uid \in items
    <2>1. /\ GoodList(m) /\ Len(m) = Len(evictList) /\ KeysOf(m) = KeysOf(evictList)
          /\ m[1].key = o.uid
          /\ \A j \in 1 .. Len(evictList) : \E k \in 1 .. Len(evictList) : m[j] = evictList[k]
      BY <1>1, ListFacts, PositionFacts, MoveFacts
    <2>2. m # <<>>
      BY <1>1, <2>1, ListFacts, PositionFacts
    <2> HIDE DEF m, e
    <2>3. /\ GoodList(f) /\ Len(f) = Len(m) /\ KeysOf(f) = KeysOf(m)
          /\ \A i \in 1 .. Len(m) : f[i] \in {e, m[i]}
      BY <1>e, <2>1, <2>2, ReplaceFacts
    <2>4. /\ CacheInv'
          /\ \A i \in 1 .. Len(evictList') : i \in 1 .. Len(f) /\ evictList'[i] = f[i]
      <3>1. items = KeysOf(f) /\ currEntryCount = Len(f)
        BY <2>1, <2>3, ListFacts
      <3>2. Evict(f, items, currEntryCount)
        BY <1>1, <1>i
      <3> HIDE DEF f
      <3> QED
        BY <2>3, <3>1, <3>2, EvictFacts DEF CacheInv
    <2> HIDE DEF f
    <2>5. ASSUME NEW i \in 1 .. Len(evictList')
          PROVE  evictList'[i] = e \/ \E j \in 1 .. Len(evictList) : evictList'[i] = evictList[j]
      <3>1. i \in 1 .. Len(m) /\ evictList'[i] \in {e, m[i]}
        BY <2>3, <2>4
      <3> QED
        BY <2>1, <3>1
    <2> QED
      BY <1>1, <2>4, <2>5 DEF e
  <1>2. CASE o.uid \notin items /\ o.size > EntrySizeCap
    <2>1. UNCHANGED cacheVars
      BY <1>2, <1>i
    <2>2. CacheInv'
      BY <2>1 DEF cacheVars, CacheInv, CacheTypeOK, CacheConsistent
    <2> QED
      BY <2>1, <2>2 DEF cacheVars
  <1>3. CASE o.uid \notin items /\ ~(o.size > EntrySizeCap)
    <2>0. o.size <= EntrySizeCap
      BY <1>3, OrdersAssumption, CapsAssumption
    <2> HIDE DEF e
    <2>1. /\ GoodList(g) /\ Len(g) = Len(evictList) + 1
          /\ KeysOf(g) = KeysOf(evictList) \cup {e.key}
          /\ \A i \in 1 .. Len(evictList) + 1 :
                g[i] = e \/ \E j \in 1 .. Len(evictList) : g[i] = evictList[j]
      BY <1>e, <1>3, ListFacts, PushFacts
    <2>2. /\ CacheInv'
          /\ \A i \in 1 .. Len(evictList') : i \in 1 .. Len(g) /\ evictList'[i] = g[i]
      <3>1. items \cup {o.uid} = KeysOf(g) /\ currEntryCount + 1 = Len(g)
        BY <1>e, <2>1, ListFacts
      <3>2. Evict(g, items \cup {o.uid}, currEntryCount + 1)
        BY <1>3, <1>i
      <3> HIDE DEF g
      <3> QED
        BY <2>1, <3>1, <3>2, EvictFacts DEF CacheInv
    <2> HIDE DEF g
    <2>3. ASSUME NEW i \in 1 .. Len(evictList')
          PROVE  evictList'[i] = e \/ \E j \in 1 .. Len(evictList) : evictList'[i] = evictList[j]
      BY <2>1, <2>2
    <2> QED
      BY <2>0, <2>2, <2>3 DEF e
  <1> QED
    BY <1>1, <1>2, <1>3

-----------------------------------------------------------------------------
\* lru.go by itself: whatever sequence of Get and Insert is called, with
\* whatever orders and caps, the map, the list and the counter agree and the
\* cache is within its cap after each of them.
THEOREM LRUConsistent == CacheSpec => []CacheConsistent
  <1>1. CacheInit => CacheInv
    BY CapsAssumption DEF CacheInit, CacheInv, CacheTypeOK, CacheConsistent
  <1>2. CacheInv /\ [CacheNext]_cacheVars => CacheInv'
    <2> SUFFICES ASSUME CacheInv, [CacheNext]_cacheVars PROVE CacheInv'
      OBVIOUS
    <2>1. ASSUME NEW key \in Uids, Get(key) PROVE CacheInv'
      BY <2>1, GetKeeps
    <2>2. ASSUME NEW o \in Orders, Insert(o) PROVE CacheInv'
      BY <2>2, InsertKeeps
    <2>3. CASE UNCHANGED cacheVars
      BY <2>3 DEF cacheVars, CacheInv, CacheTypeOK, CacheConsistent
    <2> QED
      BY <2>1, <2>2, <2>3 DEF CacheNext
  <1>3. CacheInv => CacheConsistent
    BY DEF CacheInv
  <1> QED
    BY <1>1, <1>2, <1>3, PTL DEF CacheSpec

-----------------------------------------------------------------------------
(* The service.                                                             *)

\* The entries of the cache are current and small enough.
EntriesCurrent == CacheCoherent /\ EntrySizeBounded

\* A row, once there, stays as it is.
TableGrows ==
    /\ table' \in [Uids -> Orders \cup {NoOrder}]
    /\ \A u \in Uids : table[u] # NoOrder => table'[u] = table[u]

\* An entry of a list of entries.
LEMMA EntryFacts ==
    ASSUME CacheInv, EntriesCurrent, NEW i \in 1 .. Len(evictList)
    PROVE  /\ evictList[i] \in Entries
           /\ evictList[i].key \in Uids /\ evictList[i].value \in Orders
           /\ evictList[i].value = table[evictList[i].key]
           /\ evictList[i].value.size <= EntrySizeCap
           /\ evictList[i].key = evictList[i].value.uid
  <1>1. evictList[i] \in Entries
    BY DEF CacheInv, CacheTypeOK
  <1> QED
    BY <1>1 DEF Entries, EntriesCurrent, CacheCoherent, EntrySizeBounded, CacheInv,
                CacheConsistent

\* Looking an order up changes no entry.
LEMMA GetCurrent ==
    ASSUME CacheInv, EntriesCurrent, NEW key, Get(key), table' = table
    PROVE  CacheInv' /\ EntriesCurrent'
  <1>1. /\ CacheInv'
        /\ \A i \in 1 .. Len(evictList') :
             \E j \in 1 .. Len(evictList) : evictList'[i] = evictList[j]
    BY GetKeeps
  <1>2. ASSUME NEW i \in 1 .. Len(evictList')
        PROVE  /\ evictList'[i].value = table'[evictList'[i].key]
               /\ evictList'[i].value.size <= EntrySizeCap
    <2>1. PICK j \in 1 .. Len(evictList) : evictList'[i] = evictList[j]
      BY <1>1
    <2> QED
      BY <2>1, EntryFacts
  <1> QED
    BY <1>1, <1>2 DEF EntriesCurrent, CacheCoherent, EntrySizeBounded

\* An order that is the row of its UID may be inserted: if its key is known
\* the entry already holds this very order, and so it is small enough.
LEMMA InsertCurrent ==
    ASSUME CacheInv, EntriesCurrent, NEW o \in Orders, o = table[o.uid], Insert(o),
           table' = table
    PROVE  CacheInv' /\ EntriesCurrent'
  <1>1. /\ CacheInv'
        /\ \A i \in 1 .. Len(evictList') :
             \/ /\ evictList'[i] = [key |-> o.uid, value |-> o]
                /\ o.size <= EntrySizeCap \/ o.uid \in items
             \/ \E j \in 1 .. Len(evictList) : evictList'[i] = evictList[j]
    BY InsertKeeps
  <1>2. ASSUME o.uid \in items PROVE o.size <= EntrySizeCap
    <2>1. PICK j \in 1 .. Len(evictList) : evictList[j].key = o.uid
      BY <1>2, PositionFacts
    <2> QED
      BY <2>1, EntryFacts
  <1>3. ASSUME NEW i \in 1 .. Len(evictList')
        PROVE  /\ evictList'[i].value = table'[evictList'[i].key]
               /\ evictList'[i].value.size <= EntrySizeCap
    <2>1. CASE evictList'[i] = [key |-> o.uid, value |-> o] /\ o.size <= EntrySizeCap
      BY <2>1
    <2>2. CASE \E j \in 1 .. Len(evictList) : evictList'[i] = evictList[j]
      BY <2>2, EntryFacts
    <2> QED
      BY <1>1, <1>2, <2>1, <2>2
  <1> QED
    BY <1>1, <1>3 DEF EntriesCurrent, CacheCoherent, EntrySizeBounded

\* A growing table leaves the cache current.
LEMMA GrowCurrent ==
    ASSUME CacheInv, EntriesCurrent, UNCHANGED cacheVars, TableGrows
    PROVE  CacheInv' /\ EntriesCurrent'
  <1>1. CacheInv'
    BY DEF cacheVars, CacheInv, CacheTypeOK, CacheConsistent
  <1>2. ASSUME NEW i \in 1 .. Len(evictList)
        PROVE  /\ evictList[i].value = table'[evictList[i].key]
               /\ evictList[i].value.size <= EntrySizeCap
    BY EntryFacts, NoOrderAssumption DEF TableGrows
  <1> QED
    BY <1>1, <1>2 DEF cacheVars, EntriesCurrent, CacheCoherent, EntrySizeBounded

\* The invariant in the two parts that the lemmas speak of, and the rest.
Rest ==
    /\ ServiceTypes /\ TableKeyed /\ PreloadCurrent
    /\ \A r \in Requests : RequestCurrent(r)

\* ServiceInv is the conjunction of these parts.
LEMMA InvParts == ServiceInv <=> CacheInv /\ EntriesCurrent /\ Rest
  BY DEF ServiceInv, CacheInv, EntriesCurrent, Rest

\* Steps that leave the requests alone.
LEMMA RequestsUntouched ==
    ASSUME Rest, TableGrows, UNCHANGED requestVars, NEW r \in Requests
    PROVE  RequestCurrent(r)'
  BY DEF Rest, TableGrows, requestVars, RequestCurrent, ServiceTypes

\* Steps of a request keep the table and the others' state.
LEMMA OthersUntouched ==
    ASSUME Rest, UNCHANGED dbVars, NEW r \in Requests, NEW q \in Requests, q # r,
           rpc'[q] = rpc[q], ruid'[q] = ruid[q], rorder'[q] = rorder[q],
           rstatus'[q] = rstatus[q], seen'[q] = seen[q]
    PROVE  RequestCurrent(q)'
  BY DEF Rest, RequestCurrent, dbVars

-----------------------------------------------------------------------------
(* One lemma per group of actions.                                          *)

\* Preload: what it reads are rows, and it inserts what it read.
LEMMA PreloadKeeps ==
    ASSUME ServiceInv, PreloadQuery \/ PreloadFails \/ PreloadInsert \/ PreloadDone
    PROVE  ServiceInv'
  <1>0. CacheInv /\ EntriesCurrent /\ Rest
    BY InvParts
  <1>1. UNCHANGED dbVars /\ UNCHANGED requestVars
    BY DEF PreloadQuery, PreloadFails, PreloadInsert, PreloadDone
  <1>2. TableGrows /\ table' = table /\ recent' = recent
    BY <1>0, <1>1 DEF TableGrows, dbVars, Rest, ServiceTypes
  <1>3. \A r \in Requests : RequestCurrent(r)'
    BY <1>0, <1>1, <1>2, RequestsUntouched
  <1>4. preloaded' \in Seq(Orders) /\ PreloadCurrent' /\ CacheInv' /\ EntriesCurrent'
    <2>1. CASE PreloadQuery
      <3>1. ASSUME NEW i \in 1 .. Smaller(PreloadSize, Len(recent))
            PROVE  /\ table[recent[Len(recent) + 1 - i]] \in Orders
                   /\ table[recent[Len(recent) + 1 - i]]
                        = table[table[recent[Len(recent) + 1 - i]].uid]
        <4> DEFINE k == Len(recent) + 1 - i
        <4>1. k \in 1 .. Len(recent)
          BY <1>0, PreloadSizeAssumption DEF Rest, ServiceTypes, Smaller
        <4> HIDE DEF k
        <4>2. recent[k] \in Uids
          BY <1>0, <4>1 DEF Rest, ServiceTypes
        <4>3. table[recent[k]] # NoOrder /\ table[recent[k]] \in Orders \cup {NoOrder}
          BY <1>0, <4>1, <4>2 DEF Rest, ServiceTypes, TableKeyed
        <4>4. table[recent[k]].uid = recent[k]
          BY <1>0, <4>2, <4>3 DEF Rest, TableKeyed
        <4> QED
          BY <4>3, <4>4 DEF k
      <3>2. Smaller(PreloadSize, Len(recent)) \in Nat
        BY <1>0, PreloadSizeAssumption DEF Rest, ServiceTypes, Smaller
      <3>3. preloaded' = [i \in 1 .. Smaller(PreloadSize, Len(recent)) |->
                            table[recent[Len(recent) + 1 - i]]]
        BY <2>1 DEF PreloadQuery, LatestOrders
      <3>4. preloaded' \in Seq(Orders) /\ Len(preloaded') = Smaller(PreloadSize, Len(recent))
        BY <3>1, <3>2, <3>3
      <3>5. PreloadCurrent'
        BY <1>2, <3>1, <3>3, <3>4 DEF PreloadCurrent
      <3>6. CacheInv' /\ EntriesCurrent'
        BY <1>0, <1>2, <2>1, GrowCurrent DEF PreloadQuery
      <3> QED
        BY <3>4, <3>5, <3>6
    <2>2. CASE PreloadInsert
      <3>1. /\ Head(preloaded) \in Orders /\ Head(preloaded) = preloaded[1]
            /\ 1 \in 1 .. Len(preloaded)
        BY <1>0, <2>2 DEF PreloadInsert, Rest, ServiceTypes
      <3>2. Head(preloaded) = table[Head(preloaded).uid]
        BY <1>0, <3>1 DEF Rest, PreloadCurrent
      <3>3. CacheInv' /\ EntriesCurrent'
        BY <1>0, <1>2, <2>2, <3>1, <3>2, InsertCurrent DEF PreloadInsert, CacheFill
      <3>4. /\ preloaded' \in Seq(Orders)
            /\ \A i \in 1 .. Len(preloaded') :
                 i + 1 \in 1 .. Len(preloaded) /\ preloaded'[i] = preloaded[i + 1]
        BY <1>0, <2>2 DEF PreloadInsert, Rest, ServiceTypes
      <3>5. PreloadCurrent'
        BY <1>0, <1>2, <3>4 DEF Rest, PreloadCurrent
      <3> QED
        BY <3>3, <3>4, <3>5
    <2>3. CASE PreloadFails \/ PreloadDone
      <3>1. UNCHANGED cacheVars /\ preloaded' = preloaded
        BY <2>3 DEF PreloadFails, PreloadDone
      <3>2. preloaded' \in Seq(Orders) /\ PreloadCurrent'
        BY <1>0, <1>2, <3>1 DEF Rest, ServiceTypes, PreloadCurrent
      <3> QED
        BY <1>0, <1>2, <3>1, <3>2, GrowCurrent
    <2> QED
      BY <2>1, <2>2, <2>3
  <1>r. ranking' \in {ranking, recent, <<>>}
    BY DEF PreloadQuery, PreloadFails, PreloadInsert, PreloadDone
  <1>s. ranking' \in Seq(Uids)
    <2>1. ranking \in Seq(Uids) /\ recent \in Seq(Uids) /\ <<>> \in Seq(Uids)
      BY <1>0 DEF Rest, ServiceTypes
    <2> QED
      BY <1>r, <2>1
  <1>5. ServiceTypes'
    BY <1>0, <1>1, <1>2, <1>4, <1>s DEF Rest, ServiceTypes, requestVars
  <1>6. TableKeyed'
    BY <1>0, <1>2, <1>r DEF Rest, TableKeyed
  <1> QED
    BY <1>3, <1>4, <1>5, <1>6 DEF ServiceInv, CacheInv, EntriesCurrent

\* A new row takes its place among the others by updated_at.
LEMMA AddRowFacts ==
    ASSUME ServiceTypes, NEW o \in Orders, AddRow(o)
    PROVE  /\ recent' \in Seq(Uids)
           /\ \A i \in 1 .. Len(recent') :
                recent'[i] = o.uid \/ \E j \in 1 .. Len(recent) : recent'[i] = recent[j]
  <1>0. o.uid \in Uids /\ recent \in Seq(Uids) /\ Len(recent) \in Nat
    BY DEF Uids, ServiceTypes
  <1>1. PICK n \in 0 .. Len(recent) :
            recent' = [i \in 1 .. Len(recent) + 1 |->
                          IF i <= n THEN recent[i]
                          ELSE IF i = n + 1 THEN o.uid ELSE recent[i - 1]]
    BY DEF AddRow
  <1>2. ASSUME NEW i \in 1 .. Len(recent) + 1
        PROVE  /\ recent'[i] \in Uids
               /\ recent'[i] = o.uid \/ \E j \in 1 .. Len(recent) : recent'[i] = recent[j]
    <2>1. CASE i <= n
      BY <1>0, <1>1, <2>1
    <2>2. CASE i = n + 1
      BY <1>0, <1>1, <2>2
    <2>3. CASE i > n + 1
      <3>1. recent'[i] = recent[i - 1] /\ i - 1 \in 1 .. Len(recent)
        BY <1>0, <1>1, <2>3
      <3> QED
        BY <1>0, <3>1
    <2> QED
      BY <1>0, <2>1, <2>2, <2>3
  <1>3. recent' \in Seq(Uids) /\ Len(recent') = Len(recent) + 1
    BY <1>0, <1>1, <1>2
  <1> QED
    BY <1>2, <1>3

\* A stored order is a new row: the primary key refuses another.
LEMMA NewRow ==
    ASSUME NEW o \in Orders, ProcessNewOrder(o) \/ LateCommit(o)
    PROVE  \/ table[o.uid] = NoOrder /\ AddRow(o)
           \/ table' = table /\ recent' = recent
  BY DEF ProcessNewOrder, LateCommit, AnsweredOutcomes, BrokenOutcomes, Outcome

\* An order is stored, by the consumer or by a COMMIT applied late.
LEMMA NewOrderKeeps ==
    ASSUME ServiceInv, NEW o \in Orders, ProcessNewOrder(o) \/ LateCommit(o)
    PROVE  ServiceInv'
  <1>0. CacheInv /\ EntriesCurrent /\ Rest
    BY InvParts
  <1>u. o.uid \in Uids
    BY DEF Uids
  <1>1. /\ UNCHANGED cacheVars /\ preloaded' = preloaded /\ ranking' = ranking
        /\ UNCHANGED requestVars
    BY DEF ProcessNewOrder, LateCommit, bootVars
  <1>2. \/ table[o.uid] = NoOrder /\ AddRow(o)
        \/ table' = table /\ recent' = recent
    BY NewRow
  <1>3. TableGrows
    BY <1>0, <1>2, <1>u DEF AddRow, TableGrows, Rest, ServiceTypes
  <1>4. CacheInv' /\ EntriesCurrent'
    BY <1>0, <1>1, <1>3, GrowCurrent
  <1>5. \A r \in Requests : RequestCurrent(r)'
    BY <1>0, <1>1, <1>3, RequestsUntouched
  <1>6. PreloadCurrent'
    <2> SUFFICES ASSUME NEW i \in 1 .. Len(preloaded)
                 PROVE  preloaded[i] = table'[preloaded[i].uid]
      BY <1>1 DEF PreloadCurrent
    <2>1. preloaded[i] \in Orders /\ preloaded[i] = table[preloaded[i].uid]
      BY <1>0 DEF Rest, ServiceTypes, PreloadCurrent
    <2>2. preloaded[i].uid \in Uids
      BY <2>1 DEF Uids
    <2> QED
      BY <1>3, <2>1, <2>2, NoOrderAssumption DEF TableGrows
  <1>7. recent' \in Seq(Uids) /\ TableKeyed'
    <2>1. CASE table' = table /\ recent' = recent
      BY <1>0, <1>1, <2>1 DEF Rest, ServiceTypes, TableKeyed
    <2>2. CASE table[o.uid] = NoOrder /\ AddRow(o)
      <3>0. table' = [table EXCEPT ![o.uid] = o]
        BY <2>2 DEF AddRow
      <3>1. table'[o.uid] = o /\ o # NoOrder
        BY <1>0, <1>u, <3>0, NoOrderAssumption DEF Rest, ServiceTypes
      <3>2. ASSUME NEW u \in Uids, table'[u] # NoOrder PROVE table'[u].uid = u
        <4>1. CASE u = o.uid
          BY <3>1, <4>1
        <4>2. CASE u # o.uid
          BY <1>0, <1>u, <3>0, <3>2, <4>2 DEF Rest, ServiceTypes, TableKeyed
        <4> QED
          BY <4>1, <4>2
      <3>3. /\ recent' \in Seq(Uids)
            /\ \A i \in 1 .. Len(recent') :
                 recent'[i] = o.uid \/ \E j \in 1 .. Len(recent) : recent'[i] = recent[j]
        BY <1>0, <2>2, AddRowFacts DEF Rest
      <3>4. ASSUME NEW u \in Uids, table[u] # NoOrder PROVE table'[u] # NoOrder
        BY <1>3, <3>4 DEF TableGrows
      <3>5. /\ \A j \in 1 .. Len(recent) : table'[recent[j]] # NoOrder
            /\ \A j \in 1 .. Len(ranking) : table'[ranking[j]] # NoOrder
        BY <1>0, <3>4 DEF Rest, ServiceTypes, TableKeyed
      <3>6. \A i \in 1 .. Len(recent') : table'[recent'[i]] # NoOrder
        BY <3>1, <3>3, <3>5
      <3> QED
        BY <1>1, <3>2, <3>3, <3>5, <3>6 DEF TableKeyed
    <2> QED
      BY <1>2, <2>1, <2>2
  <1>8. ServiceTypes'
    BY <1>0, <1>1, <1>3, <1>7 DEF Rest, ServiceTypes, TableGrows, requestVars
  <1> QED
    BY <1>4, <1>5, <1>6, <1>7, <1>8 DEF ServiceInv, CacheInv, EntriesCurrent

\* A step of one request, given what it does to the cache: the table stays as
\* it is, and so does the state of the other requests.
LEMMA RequestStep ==
    ASSUME ServiceInv, NEW r \in Requests, UNCHANGED dbVars, UNCHANGED bootVars,
           CacheInv', EntriesCurrent', ServiceTypes', RequestCurrent(r)',
           \A q \in Requests : q # r =>
              /\ rpc'[q] = rpc[q] /\ ruid'[q] = ruid[q] /\ rorder'[q] = rorder[q]
              /\ rstatus'[q] = rstatus[q] /\ seen'[q] = seen[q]
    PROVE  ServiceInv'
  <1>1. \A q \in Requests : RequestCurrent(q)'
    BY InvParts, OthersUntouched
  <1>2. TableKeyed' /\ PreloadCurrent'
    BY DEF ServiceInv, TableKeyed, PreloadCurrent, dbVars, bootVars
  <1> QED
    BY <1>1, <1>2 DEF ServiceInv, CacheInv, EntriesCurrent

\* Steps of a request that do not touch the cache.
LEMMA CacheUntouched ==
    ASSUME ServiceInv, UNCHANGED cacheVars, UNCHANGED dbVars
    PROVE  CacheInv' /\ EntriesCurrent'
  <1>1. TableGrows
    BY DEF TableGrows, dbVars, ServiceInv, ServiceTypes
  <1> QED
    BY <1>1, InvParts, GrowCurrent

\* A request arrives, is refused, or is over.
LEMMA ArrivalKeeps ==
    ASSUME ServiceInv, NEW r \in Requests,
           (\E u \in Uids : Request(r, u)) \/ AnswerAtOnce(r) \/ Finish(r)
    PROVE  ServiceInv'
  <1>0. Rest /\ RequestCurrent(r)
    BY InvParts DEF Rest
  <1>1. UNCHANGED cacheVars /\ UNCHANGED dbVars /\ UNCHANGED bootVars
    BY DEF Request, AnswerAtOnce, Finish
  <1>2. CacheInv' /\ EntriesCurrent'
    BY <1>1, CacheUntouched
  <1>3. ASSUME NEW u \in Uids, Request(r, u) PROVE ServiceTypes' /\ RequestCurrent(r)'
    BY <1>0, <1>1, <1>3
       DEF Request, Rest, ServiceTypes, RequestCurrent, dbVars, bootVars
  <1>4. ASSUME AnswerAtOnce(r) PROVE ServiceTypes' /\ RequestCurrent(r)'
    <2>1. PICK status \in {"405", "302 home", "200 home", "404", "500"} :
             Respond(r, status, NoOrder)
      BY <1>4 DEF AnswerAtOnce, Render
    <2>2. ServiceTypes'
      BY <1>0, <1>1, <1>4, <2>1
         DEF AnswerAtOnce, Respond, Rest, ServiceTypes, Statuses, dbVars, bootVars
    <2>3. rpc'[r] = "done" /\ rstatus'[r] \in {"405", "302 home", "200 home", "404", "500"}
      BY <1>0, <2>1 DEF Respond, Rest, ServiceTypes
    <2>4. RequestCurrent(r)'
      BY <2>3 DEF RequestCurrent
    <2> QED
      BY <2>2, <2>4
  <1>5. ASSUME Finish(r) PROVE ServiceTypes' /\ RequestCurrent(r)'
    BY <1>0, <1>1, <1>5
       DEF Finish, Rest, ServiceTypes, RequestCurrent, Statuses, dbVars, bootVars
  <1>6. \A q \in Requests : q # r =>
           /\ rpc'[q] = rpc[q] /\ ruid'[q] = ruid[q] /\ rorder'[q] = rorder[q]
           /\ rstatus'[q] = rstatus[q] /\ seen'[q] = seen[q]
    BY <1>0 DEF Request, AnswerAtOnce, Finish, Respond, Render, Rest, ServiceTypes
  <1> QED
    BY <1>1, <1>2, <1>3, <1>4, <1>5, <1>6, RequestStep

\* render: a page that shows the row, or an error, is a true answer.
LEMMA PageKeeps ==
    ASSUME ServiceInv, NEW r \in Requests, NEW o \in Orders,
           ruid[r] \in Uids, o = table[ruid[r]], Render(r, "200", o),
           ruid' = ruid, seen' = seen, UNCHANGED dbVars, UNCHANGED bootVars,
           CacheInv', EntriesCurrent'
    PROVE  ServiceInv'
  <1>0. Rest /\ table' = table
    BY InvParts DEF dbVars
  <1>1. PICK status \in {"200", "500"}, p \in Orders \cup {NoOrder} :
           Respond(r, status, p) /\ (status = "200" => p = o)
    BY DEF Render
  <1>2. ServiceTypes'
    BY <1>0, <1>1 DEF Respond, Rest, ServiceTypes, Statuses, dbVars, bootVars
  <1>3. rpc'[r] = "done" /\ rstatus'[r] = status /\ rorder'[r] = p
    BY <1>0, <1>1 DEF Respond, Rest, ServiceTypes
  <1>4. RequestCurrent(r)'
    BY <1>0, <1>1, <1>3, NoOrderAssumption DEF RequestCurrent
  <1>5. \A q \in Requests : q # r =>
           /\ rpc'[q] = rpc[q] /\ ruid'[q] = ruid[q] /\ rorder'[q] = rorder[q]
           /\ rstatus'[q] = rstatus[q] /\ seen'[q] = seen[q]
    BY <1>0, <1>1 DEF Respond, Rest, ServiceTypes
  <1> QED
    BY <1>2, <1>4, <1>5, RequestStep

\* A hit answers with the cached order, which is the row; the row's UID is
\* the one asked for.
LEMMA LookupKeeps ==
    ASSUME ServiceInv, NEW r \in Requests, Lookup(r)
    PROVE  ServiceInv'
  <1>0. CacheInv /\ EntriesCurrent /\ Rest /\ RequestCurrent(r)
    BY InvParts DEF Rest
  <1>1. UNCHANGED dbVars /\ UNCHANGED bootVars /\ table' = table
    BY DEF Lookup, dbVars
  <1>2. CacheInv' /\ EntriesCurrent'
    BY <1>0, <1>1, GetCurrent DEF Lookup
  <1>3. CASE ruid[r] \in items
    <2> DEFINE o == Cached(ruid[r])
    <2>1. o \in Orders /\ o = table[ruid[r]] /\ ruid[r] \in Uids
      BY <1>0, <1>3, PositionFacts, EntryFacts DEF Cached
    <2> HIDE DEF o
    <2>2. Render(r, "200", o) /\ ruid' = ruid /\ seen' = seen
      BY <1>3 DEF Lookup, o
    <2> QED
      BY <1>0, <1>1, <1>2, <2>1, <2>2, PageKeeps
  <1>4. CASE ruid[r] \notin items
    <2>1. /\ rpc[r] = "lookup" /\ rpc' = [rpc EXCEPT ![r] = "query"]
          /\ rstatus' = rstatus /\ rorder' = rorder
          /\ ruid' = ruid /\ seen' = seen
      BY <1>4 DEF Lookup
    <2>2. ServiceTypes' /\ RequestCurrent(r)'
      BY <1>0, <1>1, <2>1 DEF Rest, ServiceTypes, RequestCurrent, dbVars, bootVars
    <2> QED
      BY <1>0, <1>1, <1>2, <2>1, <2>2, RequestStep DEF Rest, ServiceTypes
  <1> QED
    BY <1>3, <1>4

\* The query of a request (GetOrder of the store) answers or fails.
LEMMA QueryKeeps ==
    ASSUME ServiceInv, NEW r \in Requests, Query(r) \/ QueryFails(r)
    PROVE  ServiceInv'
  <1>0. Rest /\ RequestCurrent(r)
    BY InvParts DEF Rest
  <1>1. UNCHANGED cacheVars /\ UNCHANGED dbVars /\ UNCHANGED bootVars
    BY DEF Query, QueryFails
  <1>2. CacheInv' /\ EntriesCurrent'
    BY <1>1, CacheUntouched
  <1>3. ASSUME Query(r) PROVE ServiceTypes' /\ RequestCurrent(r)'
    <2>1. ruid[r] \in Uids /\ table[ruid[r]] \in Orders \cup {NoOrder}
      BY <1>0, <1>3 DEF Query, Rest, ServiceTypes, RequestCurrent
    <2>2. CASE table[ruid[r]] = NoOrder
      <3>1. /\ rpc' = [rpc EXCEPT ![r] = "done"]
            /\ rstatus' = [rstatus EXCEPT ![r] = "302 not_found"]
            /\ rorder' = [rorder EXCEPT ![r] = NoOrder]
            /\ rpc[r] = "query"
            /\ ruid' = ruid /\ seen' = seen
        BY <1>3, <2>2 DEF Query, Respond
      <3>2. ServiceTypes'
        BY <1>0, <1>1, <3>1 DEF Rest, ServiceTypes, Statuses, dbVars, bootVars
      <3>3. rpc'[r] = "done" /\ rstatus'[r] = "302 not_found" /\ ~seen'[r]
        BY <1>0, <2>2, <3>1 DEF Rest, ServiceTypes, RequestCurrent
      <3>4. RequestCurrent(r)'
        BY <3>3 DEF RequestCurrent
      <3> QED
        BY <3>2, <3>4
    <2>3. CASE table[ruid[r]] # NoOrder
      <3>1. /\ rpc' = [rpc EXCEPT ![r] = "fill"]
            /\ rorder' = [rorder EXCEPT ![r] = table[ruid[r]]]
            /\ rpc[r] = "query"
            /\ rstatus' = rstatus /\ ruid' = ruid /\ seen' = seen
        BY <1>3, <2>3 DEF Query
      <3>2. ServiceTypes'
        BY <1>0, <1>1, <2>1, <3>1 DEF Rest, ServiceTypes, dbVars, bootVars
      <3>3. RequestCurrent(r)'
        BY <1>0, <1>1, <2>1, <2>3, <3>1 DEF Rest, ServiceTypes, RequestCurrent, dbVars
      <3> QED
        BY <3>2, <3>3
    <2> QED
      BY <2>2, <2>3
  <1>4. ASSUME QueryFails(r) PROVE ServiceTypes' /\ RequestCurrent(r)'
    BY <1>0, <1>1, <1>4
       DEF QueryFails, Respond, Rest, ServiceTypes, RequestCurrent, Statuses, dbVars, bootVars
  <1>5. \A q \in Requests : q # r =>
           /\ rpc'[q] = rpc[q] /\ ruid'[q] = ruid[q] /\ rorder'[q] = rorder[q]
           /\ rstatus'[q] = rstatus[q] /\ seen'[q] = seen[q]
    BY <1>0 DEF Query, QueryFails, Respond, Rest, ServiceTypes
  <1> QED
    BY <1>1, <1>2, <1>3, <1>4, <1>5, RequestStep

\* The order a request read is still the row when it is cached and shown.
LEMMA FillKeeps ==
    ASSUME ServiceInv, NEW r \in Requests, Fill(r)
    PROVE  ServiceInv'
  <1>0. CacheInv /\ EntriesCurrent /\ Rest /\ RequestCurrent(r)
    BY InvParts DEF Rest
  <1>1. UNCHANGED dbVars /\ UNCHANGED bootVars /\ table' = table
    BY DEF Fill, dbVars
  <1>2. /\ rpc[r] = "fill" /\ ruid[r] \in Uids
        /\ rorder[r] \in Orders /\ rorder[r] = table[ruid[r]]
    BY <1>0 DEF Fill, RequestCurrent, Rest, ServiceTypes
  <1>3. rorder[r] = table[rorder[r].uid]
    BY <1>0, <1>2, NoOrderAssumption DEF Rest, TableKeyed
  <1>4. CacheInv' /\ EntriesCurrent'
    BY <1>0, <1>1, <1>2, <1>3, InsertCurrent DEF Fill, CacheFill
  <1>5. Render(r, "200", rorder[r]) /\ ruid' = ruid /\ seen' = seen
    BY DEF Fill
  <1> QED
    BY <1>1, <1>2, <1>4, <1>5, PageKeeps

\* A restart keeps the rows and forgets the rest.
LEMMA RestartKeeps ==
    ASSUME ServiceInv, Restart
    PROVE  ServiceInv'
  <1>1. CacheTypeOK' /\ CacheConsistent' /\ CacheCoherent' /\ EntrySizeBounded'
    BY CapsAssumption
       DEF Restart, CacheTypeOK, CacheConsistent, CacheCoherent, EntrySizeBounded
  <1>2. table' = table /\ recent' = recent /\ preloaded' = <<>> /\ ranking' = <<>>
    BY DEF Restart, dbVars
  <1>t. ServiceTypes'
    <2>1. /\ table' \in [Uids -> Orders \cup {NoOrder}]
          /\ recent' \in Seq(Uids) /\ preloaded' \in Seq(Orders) /\ ranking' \in Seq(Uids)
      BY <1>2 DEF ServiceInv, ServiceTypes
    <2>2. /\ rpc' \in [Requests -> {"idle", "lookup", "query", "fill", "done"}]
          /\ ruid' \in [Requests -> Uids \cup {"none"}]
          /\ rorder' \in [Requests -> Orders \cup {NoOrder}]
          /\ rstatus' \in [Requests -> Statuses]
      BY DEF Restart, Statuses
    <2>3. seen' \in [Requests -> BOOLEAN]
      BY DEF Restart
    <2> QED
      BY <2>1, <2>2, <2>3 DEF ServiceTypes
  <1>p. TableKeyed' /\ PreloadCurrent'
    BY <1>2 DEF ServiceInv, TableKeyed, PreloadCurrent
  <1>3. \A r \in Requests : RequestCurrent(r)'
    BY DEF Restart, RequestCurrent
  <1> QED
    BY <1>1, <1>3, <1>p, <1>t DEF ServiceInv

\* The database going away or coming back changes no row.
LEMMA FlipKeeps ==
    ASSUME ServiceInv, DbFlips \/ UNCHANGED vars
    PROVE  ServiceInv'
  <1>1. /\ UNCHANGED cacheVars /\ UNCHANGED bootVars /\ UNCHANGED requestVars
        /\ table' = table /\ recent' = recent
    BY DEF DbFlips, vars, dbVars
  <1>2. CacheTypeOK' /\ CacheConsistent' /\ CacheCoherent' /\ EntrySizeBounded'
    BY <1>1 DEF ServiceInv, cacheVars, CacheTypeOK, CacheConsistent, CacheCoherent,
                EntrySizeBounded
  <1>3. ServiceTypes' /\ TableKeyed' /\ PreloadCurrent'
    BY <1>1 DEF ServiceInv, bootVars, requestVars, ServiceTypes, TableKeyed, PreloadCurrent
  <1>4. \A r \in Requests : RequestCurrent(r)'
    BY <1>1 DEF ServiceInv, requestVars, RequestCurrent
  <1> QED
    BY <1>2, <1>3, <1>4 DEF ServiceInv

-----------------------------------------------------------------------------
\* The invariant holds initially, with an empty table and cache.
LEMMA InitServiceInv == Init => ServiceInv
  <1> SUFFICES ASSUME Init PROVE ServiceInv
    OBVIOUS
  <1>1. CacheTypeOK /\ CacheConsistent /\ CacheCoherent /\ EntrySizeBounded
    BY CapsAssumption
       DEF Init, CacheInit, CacheTypeOK, CacheConsistent, CacheCoherent, EntrySizeBounded
  <1>2. ServiceTypes /\ TableKeyed /\ PreloadCurrent
    BY DEF Init, ServiceTypes, TableKeyed, PreloadCurrent, Statuses
  <1>3. \A r \in Requests : RequestCurrent(r)
    BY DEF Init, RequestCurrent
  <1> QED
    BY <1>1, <1>2, <1>3 DEF ServiceInv

\* Every step of the service keeps the invariant.
LEMMA NextServiceInv == ServiceInv /\ [Next]_vars => ServiceInv'
  BY PreloadKeeps, NewOrderKeeps, ArrivalKeeps, LookupKeeps, QueryKeeps, FillKeeps,
     RestartKeeps, FlipKeeps DEF Next

\* CachingOrderService and the LRU cache, under any number of concurrent
\* requests: the cache never holds anything but the committed order of a UID.
THEOREM CacheCoherentHolds == Spec => []CacheCoherent
  <1>1. ServiceInv => CacheCoherent
    BY DEF ServiceInv
  <1> QED
    BY <1>1, InitServiceInv, NextServiceInv, PTL DEF Spec

\* lru.go: no entry is larger than entrySizeCap, although Insert does not
\* check the size of an order whose key it knows.
THEOREM EntrySizeBoundedHolds == Spec => []EntrySizeBounded
  <1>1. ServiceInv => EntrySizeBounded
    BY DEF ServiceInv
  <1> QED
    BY <1>1, InitServiceInv, NextServiceInv, PTL DEF Spec

\* orderView: "not found" is never said of an order that was stored when the
\* request arrived, and an order shown is the committed one.
THEOREM AnswersMatchStoreHolds == Spec => []AnswersMatchStore
  <1>1. ServiceInv => AnswersMatchStore
    BY DEF ServiceInv, RequestCurrent, AnswersMatchStore
  <1> QED
    BY <1>1, InitServiceInv, NextServiceInv, PTL DEF Spec

\* lru.go in its place in the service.
THEOREM CacheConsistentHolds == Spec => []CacheConsistent
  <1>1. ServiceInv => CacheConsistent
    BY DEF ServiceInv
  <1> QED
    BY <1>1, InitServiceInv, NextServiceInv, PTL DEF Spec
=============================================================================
