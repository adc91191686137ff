---------------------------- MODULE CacheUseProofs ----------------------------
(***************************************************************************)
(* More about modules LRUCache and OrderService, from the invariant of     *)
(* module ServiceProofs: the cache is in the order of use, Preload fills   *)
(* it with the latest orders, every variable has its type, and to a client *)
(* the service is module OrderReads, which has no cache.                   *)
(***************************************************************************)
EXTENDS ServiceProofs

-----------------------------------------------------------------------------
(* What the list operations do to the order of the entries.                 *)

\* In f only the first entry can have the key k, and the others are in the
\* order they have in l.
FrontThenOrder(f, l, k) ==
    \A a, b \in 1 .. Len(f) : a < b =>
        /\ f[b].key # k
        /\ \/ f[a].key = k
           \/ \E c, d \in 1 .. Len(l) :
                c < d /\ f[a].key = l[c].key /\ f[b].key = l[d].key

\* Moving an entry to the front leaves the others in order.
LEMMA MoveOrder ==
    ASSUME NEW l, GoodList(l), NEW i \in 1 .. Len(l)
    PROVE  FrontThenOrder(MoveToFront(l, i), l, l[i].key)
  <1> DEFINE f == MoveToFront(l, i)
             g(x) == IF x = 1 THEN i ELSE IF x <= i THEN x - 1 ELSE x
  <1>l. Len(l) \in Nat /\ \A m, n \in 1 .. Len(l) : l[m].key = l[n].key => m = n
    BY DEF GoodList
  <1>1. Len(f) = Len(l)
    BY MoveFacts
  <1>2. \A x \in 1 .. Len(l) : f[x] = l[g(x)] /\ g(x) \in 1 .. Len(l)
    BY <1>l DEF MoveToFront
  <1> SUFFICES ASSUME NEW a \in 1 .. Len(l), NEW b \in 1 .. Len(l), a < b
               PROVE  /\ f[b].key # l[i].key
                      /\ \/ f[a].key = l[i].key
                         \/ \E c, d \in 1 .. Len(l) :
                              c < d /\ f[a].key = l[c].key /\ f[b].key = l[d].key
    BY <1>1 DEF FrontThenOrder
  <1>3. g(b) # i
    BY <1>l
  <1>4. f[b].key # l[i].key
    BY <1>l, <1>2, <1>3
  <1>5. CASE a = 1
    BY <1>2, <1>4, <1>5
  <1>6. CASE a # 1
    <2>1. g(a) < g(b)
      BY <1>l, <1>6
    <2> HIDE DEF f, g
    <2> QED
      BY <1>2, <1>4, <2>1
  <1> QED
    BY <1>5, <1>6

\* So does a new entry in front of them.
LEMMA PushOrder ==
    ASSUME NEW l, GoodList(l), NEW e \in Entries, e.key \notin KeysOf(l)
    PROVE  FrontThenOrder(<<e>> \o l, l, e.key)
  <1> DEFINE f == <<e>> \o l
  <1>l. l \in Seq(Entries) /\ Len(l) \in Nat
    BY DEF GoodList
  <1>1. /\ Len(f) = Len(l) + 1
        /\ \A x \in 1 .. Len(l) + 1 : f[x] = IF x = 1 THEN e ELSE l[x - 1]
    BY <1>l
  <1> HIDE DEF f
  <1>2. \A x \in 1 .. Len(l) : l[x].key # e.key
    BY DEF KeysOf
  <1> SUFFICES ASSUME NEW a \in 1 .. Len(f), NEW b \in 1 .. Len(f), a < b
               PROVE  /\ f[b].key # e.key
                      /\ \/ f[a].key = e.key
                         \/ \E c, d \in 1 .. Len(l) :
                              c < d /\ f[a].key = l[c].key /\ f[b].key = l[d].key
    BY DEF FrontThenOrder, f
  <1>3. b # 1 /\ b - 1 \in 1 .. Len(l) /\ f[b] = l[b - 1]
    BY <1>l, <1>1
  <1>4. CASE a = 1
    BY <1>1, <1>2, <1>3, <1>4
  <1>5. CASE a # 1
    <2>1. a - 1 \in 1 .. Len(l) /\ a - 1 < b - 1 /\ f[a] = l[a - 1]
      BY <1>l, <1>1, <1>5
    <2> QED
      BY <1>2, <1>3, <2>1
  <1> QED
    BY <1>4, <1>5

\* Replacing values and dropping entries from the back change no order.
LEMMA PrefixOrder ==
    ASSUME NEW f, NEW h, NEW l, NEW k, FrontThenOrder(h, l, k),
           \A x \in 1 .. Len(f) : x \in 1 .. Len(h) /\ f[x].key = h[x].key
    PROVE  FrontThenOrder(f, l, k)
  BY DEF FrontThenOrder

\* Insert puts the key in front, if it takes the order at all.
LEMMA InsertOrder ==
    ASSUME CacheInv, NEW o \in Orders, Insert(o), o.uid \in items \/ o.size <= EntrySizeCap
    PROVE  FrontThenOrder(evictList', evictList, o.uid)
  <1> DEFINE e == [key |-> o.uid, value |-> o]
             m == MoveToFront(evictList, Position(o.uid))
             f == [m EXCEPT ![1] = e]
             g == <<e>> \o evictList
  <1>e. e \in Entries /\ e.key = o.uid /\ e.value = o
    BY DEF Entries, Uids
  <1>1. CASE o.uid \in items
    <2>p. Position(o.uid) \in 1 .. Len(evictList) /\ evictList[Position(o.uid)].key = o.uid
      BY <1>1, PositionFacts
    <2>1. /\ GoodList(m) /\ Len(m) = Len(evictList) /\ KeysOf(m) = KeysOf(evictList)
          /\ m[1].key = o.uid
      BY <2>p, ListFacts, MoveFacts
    <2>2. FrontThenOrder(m, evictList, o.uid)
      BY <2>p, ListFacts, MoveOrder
    <2>3. m # <<>>
      BY <2>p, <2>1, ListFacts
    <2>4. Evict(f, items, currEntryCount)
      BY <1>1 DEF Insert
    <2> HIDE DEF m, e
    <2>5. /\ GoodList(f) /\ Len(f) = Len(m) /\ KeysOf(f) = KeysOf(m)
          /\ \A i \in 1 .. Len(m) : f[i].key = m[i].key
      <3>1. /\ GoodList(f) /\ Len(f) = Len(m) /\ KeysOf(f) = KeysOf(m)
        BY <1>e, <2>1, <2>3, ReplaceFacts
      <3>2. \A i \in 1 .. Len(m) : f[i] = IF i = 1 THEN e ELSE m[i]
        BY <2>1 DEF GoodList
      <3> QED
        BY <1>e, <2>1, <3>1, <3>2
    <2> HIDE DEF f
    <2>6. \A i \in 1 .. Len(evictList') : i \in 1 .. Len(f) /\ evictList'[i] = f[i]
      BY <2>1, <2>4, <2>5, ListFacts, EvictFacts
    <2> QED
      BY <2>2, <2>5, <2>6, PrefixOrder
  <1>2. CASE o.uid \notin items
    <2>1. ~(o.size > EntrySizeCap)
      BY <1>2, OrdersAssumption, CapsAssumption
    <2>2. Evict(g, items \cup {o.uid}, currEntryCount + 1)
      BY <1>2, <2>1 DEF Insert
    <2> HIDE DEF e
    <2>3. /\ GoodList(g) /\ Len(g) = Len(evictList) + 1
          /\ KeysOf(g) = KeysOf(evictList) \cup {o.uid}
      BY <1>e, <1>2, ListFacts, PushFacts
    <2>4. FrontThenOrder(g, evictList, o.uid)
      BY <1>e, <1>2, ListFacts, PushOrder
    <2> HIDE DEF g
    <2>5. \A i \in 1 .. Len(evictList') : i \in 1 .. Len(g) /\ evictList'[i] = g[i]
      BY <2>2, <2>3, ListFacts, EvictFacts
    <2> QED
      BY <2>4, <2>5, PrefixOrder
  <1> QED
    BY <1>1, <1>2

-----------------------------------------------------------------------------
(* The order of use.                                                        *)

\* A use of k goes with k in front.
LEMMA UseKeepsRecency ==
    ASSUME RecencyKept, NEW k, FrontThenOrder(evictList', evictList, k), Use(k), CacheInv'
    PROVE  RecencyKept'
  <1> SUFFICES ASSUME NEW i \in 1 .. Len(evictList'), NEW j \in 1 .. Len(evictList'), i < j
               PROVE  <<evictList'[i].key, evictList'[j].key>> \in usedSince'
    BY DEF RecencyKept
  <1>1. evictList'[j].key \in Uids
    <2>1. evictList'[j] \in Entries
      BY DEF CacheInv, CacheTypeOK
    <2> QED
      BY <2>1 DEF Entries
  <1>2. evictList'[j].key # k
    BY DEF FrontThenOrder
  <1>3. CASE evictList'[i].key = k
    BY <1>1, <1>2, <1>3 DEF Use
  <1>4. CASE \E c, d \in 1 .. Len(evictList) :
                /\ c < d
                /\ evictList'[i].key = evictList[c].key /\ evictList'[j].key = evictList[d].key
    BY <1>2, <1>4 DEF RecencyKept, Use
  <1> QED
    BY <1>3, <1>4 DEF FrontThenOrder

\* Insert keeps the list in the order of use.
LEMMA FillKeepsRecency ==
    ASSUME RecencyKept, CacheInv, NEW o \in Orders, CacheFill(o)
    PROVE  RecencyKept'
  <1>1. CASE o.uid \in items \/ o.size <= EntrySizeCap
    <2>1. Insert(o) /\ Use(o.uid)
      BY <1>1 DEF CacheFill
    <2>2. CacheInv'
      BY <2>1, InsertKeeps
    <2> QED
      BY <1>1, <2>1, <2>2, InsertOrder, UseKeepsRecency
  <1>2. CASE ~(o.uid \in items \/ o.size <= EntrySizeCap)
    <2>1. o.size > EntrySizeCap
      BY <1>2, OrdersAssumption, CapsAssumption
    <2>2. UNCHANGED <<evictList, usedSince>>
      BY <1>2, <2>1 DEF CacheFill, Insert, cacheVars
    <2> QED
      BY <2>2 DEF RecencyKept
  <1> QED
    BY <1>1, <1>2

\* Get does too.
LEMMA LookupKeepsRecency ==
    ASSUME RecencyKept, CacheInv, NEW r \in Requests, Lookup(r)
    PROVE  RecencyKept'
  <1> DEFINE key == ruid[r]
  <1>1. CASE key \in items
    <2>1. Get(key) /\ Use(key) /\ evictList' = MoveToFront(evictList, Position(key))
      BY <1>1 DEF Lookup, Get
    <2>2. CacheInv'
      BY <2>1, GetKeeps
    <2>3. FrontThenOrder(evictList', evictList, key)
      BY <1>1, <2>1, ListFacts, PositionFacts, MoveOrder
    <2> QED
      BY <2>1, <2>2, <2>3, UseKeepsRecency
  <1>2. CASE key \notin items
    <2>1. UNCHANGED <<evictList, usedSince>>
      BY <1>2 DEF Lookup, Get, cacheVars
    <2> QED
      BY <2>1 DEF RecencyKept
  <1> QED
    BY <1>1, <1>2

\* What Preload and a request insert are orders.
LEMMA FilledAreOrders ==
    ASSUME ServiceInv
    PROVE  /\ PreloadInsert => Head(preloaded) \in Orders
           /\ \A r \in Requests : Fill(r) => rorder[r] \in Orders
  <1>1. PreloadInsert => Head(preloaded) \in Orders
    BY DEF ServiceInv, ServiceTypes, PreloadInsert
  <1>2. ASSUME NEW r \in Requests, Fill(r) PROVE rorder[r] \in Orders
    <2>1. rorder[r] \in Orders \cup {NoOrder} /\ RequestCurrent(r) /\ rpc[r] = "fill"
      BY <1>2 DEF ServiceInv, ServiceTypes, Fill
    <2> QED
      BY <2>1 DEF RequestCurrent
  <1> QED
    BY <1>1, <1>2

\* Every step keeps the list in the order of use: only Get and Insert move
\* entries, and both are uses.
LEMMA RecencyStep ==
    ASSUME ServiceInv, RecencyKept, [Next]_vars
    PROVE  RecencyKept'
  <1>0. CacheInv
    BY InvParts
  <1>a. ASSUME UNCHANGED <<evictList, usedSince>> PROVE RecencyKept'
    BY <1>a DEF RecencyKept
  <1>1. CASE PreloadInsert
    BY <1>0, <1>1, FilledAreOrders, FillKeepsRecency DEF PreloadInsert
  <1>2. CASE PreloadQuery \/ PreloadFails \/ PreloadDone \/ DbFlips
    BY <1>2, <1>a DEF PreloadQuery, PreloadFails, PreloadDone, DbFlips, cacheVars
  <1>3. ASSUME NEW o \in Orders, ProcessNewOrder(o) \/ LateCommit(o) PROVE RecencyKept'
    BY <1>3, <1>a DEF ProcessNewOrder, LateCommit, cacheVars
  <1>4. ASSUME NEW r \in Requests, NEW u \in Uids, Request(r, u) PROVE RecencyKept'
    BY <1>4, <1>a DEF Request, cacheVars
  <1>5. ASSUME NEW r \in Requests,
               AnswerAtOnce(r) \/ Query(r) \/ QueryFails(r) \/ Finish(r)
        PROVE  RecencyKept'
    BY <1>5, <1>a DEF AnswerAtOnce, Query, QueryFails, Finish, cacheVars
  <1>6. ASSUME NEW r \in Requests, Lookup(r) PROVE RecencyKept'
    BY <1>0, <1>6, LookupKeepsRecency
  <1>7. ASSUME NEW r \in Requests, Fill(r) PROVE RecencyKept'
    BY <1>0, <1>7, FilledAreOrders, FillKeepsRecency DEF Fill
  <1>8. CASE Restart
    BY <1>8 DEF Restart, RecencyKept
  <1>9. CASE UNCHANGED vars
    BY <1>9, <1>a DEF vars, cacheVars
  <1> QED
    BY <1>1, <1>2, <1>3, <1>4, <1>5, <1>6, <1>7, <1>8, <1>9 DEF Next

\* lru.go under any number of concurrent requests: the list is always in the
\* order of use, so that removeOldest evicts the least recently used order.
THEOREM RecencyKeptHolds == Spec => []RecencyKept
  <1>1. Init => RecencyKept
    BY DEF Init, CacheInit, RecencyKept
  <1>2. ServiceInv /\ RecencyKept /\ [Next]_vars => RecencyKept'
    BY RecencyStep
  <1> QED
    BY <1>1, <1>2, InitServiceInv, NextServiceInv, PTL DEF Spec

-----------------------------------------------------------------------------
(* Preload.                                                                 *)

\* Within the cap, eviction removes nothing.
LEMMA EvictNothing ==
    ASSUME NEW l, GoodList(l), NEW keys, NEW count, count = Len(l), Evict(l, keys, count),
           count <= EntryCountCap
    PROVE  Len(evictList') = Len(l) /\ items' = keys
  <1>l. l \in Seq(Entries) /\ Len(l) \in Nat
    BY DEF GoodList
  <1>1. ~(count > EntryCountCap)
    BY <1>l, CapsAssumption
  <1>2. /\ evictList' = SubSeq(l, 1, Len(l))
        /\ items' = keys \ {l[i].key : i \in (Len(l) + 1) .. Len(l)}
    BY <1>l, <1>1 DEF Evict
  <1>3. (Len(l) + 1) .. Len(l) = {}
    BY <1>l
  <1> QED
    BY <1>l, <1>2, <1>3

\* Insert makes at most one entry; while there is room it keeps every key, and
\* takes an order that is small enough.
LEMMA InsertAdds ==
    ASSUME CacheInv, NEW o \in Orders, Insert(o)
    PROVE  /\ Len(evictList') <= Len(evictList) + 1
           /\ Len(evictList) < EntryCountCap =>
                items \subseteq items' /\ (o.size <= EntrySizeCap => o.uid \in items')
  <1> DEFINE e == [key |-> o.uid, value |-> o]
             m == MoveToFront(evictList, Position(o.uid))
             f == [m EXCEPT ![1] = e]
             g == <<e>> \o evictList
  <1>e. e \in Entries /\ e.key = o.uid /\ e.value = o
    BY DEF Entries, Uids
  <1>c. /\ Len(evictList) \in Nat /\ currEntryCount = Len(evictList)
        /\ currEntryCount <= EntryCountCap
    BY ListFacts DEF CacheInv, CacheConsistent
  <1>1. CASE o.uid \in items
    <2>p. Position(o.uid) \in 1 .. Len(evictList) /\ evictList[Position(o.uid)].key = o.uid
      BY <1>1, PositionFacts
    <2>1. GoodList(m) /\ Len(m) = Len(evictList) /\ m[1].key = o.uid
      BY <2>p, ListFacts, MoveFacts
    <2>2. m # <<>>
      BY <2>p, <2>1, <1>c
    <2>3. Evict(f, items, currEntryCount)
      BY <1>1 DEF Insert
    <2> HIDE DEF m, e
    <2>4. GoodList(f) /\ Len(f) = Len(m)
      BY <1>e, <2>1, <2>2, ReplaceFacts
    <2> HIDE DEF f
    <2>5. Len(evictList') = Len(f) /\ items' = items
      BY <1>c, <2>1, <2>3, <2>4, EvictNothing
    <2> QED
      BY <1>1, <1>c, <2>1, <2>4, <2>5
  <1>2. CASE o.uid \notin items /\ o.size > EntrySizeCap
    <2>1. UNCHANGED cacheVars
      BY <1>2 DEF Insert
    <2> QED
      BY <1>2, <1>c, <2>1, OrdersAssumption, CapsAssumption DEF cacheVars
  <1>3. CASE o.uid \notin items /\ ~(o.size > EntrySizeCap)
    <2>1. Evict(g, items \cup {o.uid}, currEntryCount + 1)
      BY <1>3 DEF Insert
    <2> HIDE DEF e
    <2>2. /\ GoodList(g) /\ Len(g) = Len(evictList) + 1
          /\ KeysOf(g) = KeysOf(evictList) \cup {o.uid}
      BY <1>e, <1>3, ListFacts, PushFacts
    <2> HIDE DEF g
    <2>3. \A i \in 1 .. Len(evictList') : i \in 1 .. Len(g)
      BY <1>c, <2>1, <2>2, ListFacts, EvictFacts
    <2>4. Len(evictList') <= Len(g)
      <3>1. CacheInv'
        BY InsertKeeps
      <3>2. Len(evictList') \in Nat /\ Len(g) \in Nat
        BY <1>c, <2>2, <3>1 DEF CacheInv, CacheTypeOK
      <3> QED
        BY <2>3, <3>2
    <2>5. ASSUME Len(evictList) < EntryCountCap PROVE items' = items \cup {o.uid}
      <3>1. currEntryCount + 1 = Len(g) /\ currEntryCount + 1 <= EntryCountCap
        BY <1>c, <2>2, <2>5, CapsAssumption
      <3> QED
        BY <2>1, <2>2, <3>1, EvictNothing
    <2> QED
      BY <2>2, <2>4, <2>5
  <1> QED
    BY <1>1, <1>2, <1>3

\* The latest orders are rows under their own UIDs.
LEMMA LatestFacts ==
    ASSUME ServiceInv, NEW i \in 1 .. Len(ranking)
    PROVE  /\ Latest(i) \in Uids /\ table[Latest(i)] \in Orders
           /\ table[Latest(i)].uid = Latest(i)
  <1> DEFINE k == Len(ranking) + 1 - i
  <1>1. k \in 1 .. Len(ranking) /\ ranking \in Seq(Uids)
    BY DEF ServiceInv, ServiceTypes
  <1>2. Latest(i) = ranking[k]
    BY DEF Latest
  <1> HIDE DEF k
  <1>3. ranking[k] \in Uids /\ table[ranking[k]] # NoOrder
    BY <1>1 DEF ServiceInv, TableKeyed
  <1>4. table[ranking[k]] \in Orders /\ table[ranking[k]].uid = ranking[k]
    BY <1>3 DEF ServiceInv, ServiceTypes, TableKeyed
  <1> QED
    BY <1>2, <1>3, <1>4

\* How many orders Preload asks the store for.
LEMMA WantedFacts ==
    ASSUME ServiceInv
    PROVE  /\ Len(ranking) \in Nat /\ Smaller(PreloadSize, Len(ranking)) \in Nat
           /\ Smaller(PreloadSize, Len(ranking)) <= Len(ranking)
           /\ Smaller(PreloadSize, Len(ranking)) <= PreloadSize
           /\ Len(preloaded) \in Nat /\ Len(evictList) \in Nat
  BY PreloadSizeAssumption, InvParts, ListFacts DEF ServiceInv, ServiceTypes, Smaller

\* GetLatestOrders returns what is to be inserted.
LEMMA QueryProgress ==
    ASSUME ServiceInv, PreloadProgress, PreloadQuery
    PROVE  PreloadProgress'
  <1> DEFINE wanted == Smaller(PreloadSize, Len(recent))
  <1>1. /\ phase = "query" /\ phase' = "fill" /\ ranking' = recent
        /\ UNCHANGED <<evictList, items, recent, table, rpc>>
        /\ preloaded' = [i \in 1 .. wanted |-> table[recent[Len(recent) + 1 - i]]]
    BY DEF PreloadQuery, LatestOrders, cacheVars, dbVars, requestVars
  <1>2. wanted \in Nat /\ wanted = Smaller(PreloadSize, Len(ranking))'
    BY <1>1, PreloadSizeAssumption DEF ServiceInv, ServiceTypes, Smaller
  <1>3. \A i : Latest(i)' = recent[Len(recent) + 1 - i]
    BY <1>1 DEF Latest
  <1>4. Len(preloaded') = wanted /\ \A i \in 1 .. wanted : preloaded'[i] = table[Latest(i)']
    BY <1>1, <1>2, <1>3
  <1>5. evictList' = <<>> /\ \A r \in Requests : rpc'[r] = "idle"
    BY <1>1 DEF PreloadProgress
  <1>6. wanted - Len(preloaded') = 0 /\ \A i \in 1 .. wanted : 0 + i = i
    BY <1>2, <1>4
  <1> HIDE DEF wanted
  <1>7. Len(evictList') <= 0 /\ ~(\E i \in 1 .. 0 : TRUE)
    BY <1>5
  <1>8. \A i \in 1 .. Len(preloaded') : preloaded'[i] = table'[Latest(0 + i)']
    BY <1>1, <1>4, <1>6
  <1> QED
    BY <1>1, <1>2, <1>5, <1>6, <1>7, <1>8 DEF PreloadProgress

\* Each turn of Preload's loop inserts the next of them, while there is room.
LEMMA InsertProgress ==
    ASSUME ServiceInv, PreloadProgress, PreloadInsert
    PROVE  PreloadProgress'
  <1> DEFINE wanted == Smaller(PreloadSize, Len(ranking))
             done == wanted - Len(preloaded)
             o == Head(preloaded)
  <1>0. CacheInv
    BY InvParts
  <1>1. /\ phase = "fill" /\ phase' = "fill" /\ preloaded # <<>> /\ Insert(o)
        /\ preloaded' = Tail(preloaded) /\ UNCHANGED <<ranking, table, rpc>>
    BY DEF PreloadInsert, CacheFill, dbVars, requestVars
  <1>2. /\ Len(evictList) <= done
        /\ \A i \in 1 .. Len(preloaded) : preloaded[i] = table[Latest(done + i)]
        /\ PreloadSize <= EntryCountCap =>
             \A i \in 1 .. done :
                table[Latest(i)].size <= EntrySizeCap => Latest(i) \in items
        /\ \A r \in Requests : rpc[r] = "idle"
    BY <1>1 DEF PreloadProgress
  <1>3. /\ preloaded \in Seq(Orders) /\ Len(preloaded) \in Nat /\ 1 \in 1 .. Len(preloaded)
        /\ o \in Orders /\ o = preloaded[1]
        /\ Len(preloaded') = Len(preloaded) - 1
        /\ \A i \in 1 .. Len(preloaded') :
             i + 1 \in 1 .. Len(preloaded) /\ preloaded'[i] = preloaded[i + 1]
    BY <1>1 DEF ServiceInv, ServiceTypes
  <1>4. /\ wanted \in Nat /\ wanted <= Len(ranking) /\ wanted <= PreloadSize
        /\ Len(evictList) \in Nat /\ Len(ranking) \in Nat
    BY WantedFacts
  <1> HIDE DEF o, wanted
  <1>5. /\ done \in Nat /\ done + 1 \in 1 .. Len(ranking)
        /\ wanted - Len(preloaded') = done + 1
    BY <1>2, <1>3, <1>4
  <1> HIDE DEF done
  <1>6. o = table[Latest(done + 1)] /\ o.uid = Latest(done + 1)
    <2>1. o = table[Latest(done + 1)]
      BY <1>2, <1>3
    <2> QED
      BY <2>1, <1>5, LatestFacts
  <1>7. /\ Len(evictList') <= Len(evictList) + 1
        /\ Len(evictList) < EntryCountCap =>
             items \subseteq items' /\ (o.size <= EntrySizeCap => o.uid \in items')
    BY <1>0, <1>1, <1>3, InsertAdds
  <1>8. Len(evictList') <= done + 1
    <2>1. Len(evictList') \in Nat
      BY <1>0, <1>1, <1>3, InsertKeeps DEF CacheInv, CacheTypeOK
    <2> QED
      BY <1>2, <1>4, <1>5, <1>7, <2>1
  <1>9. \A i \in 1 .. Len(preloaded') : preloaded'[i] = table[Latest((done + 1) + i)]
    <2> SUFFICES ASSUME NEW i \in 1 .. Len(preloaded')
                 PROVE  preloaded'[i] = table[Latest((done + 1) + i)]
      OBVIOUS
    <2>1. done + (i + 1) = (done + 1) + i
      BY <1>3, <1>5
    <2> QED
      BY <1>2, <1>3, <2>1
  <1>10. ASSUME PreloadSize <= EntryCountCap, NEW i \in 1 .. (done + 1),
                table[Latest(i)].size <= EntrySizeCap
         PROVE  Latest(i) \in items'
    <2>1. Len(evictList) < EntryCountCap
      BY <1>2, <1>3, <1>4, <1>5, <1>10, CapsAssumption, PreloadSizeAssumption DEF done
    <2>2. i \in 1 .. done \/ i = done + 1
      BY <1>5
    <2> QED
      BY <1>2, <1>6, <1>7, <1>10, <2>1, <2>2
  <1>11. \A i : Latest(i)' = Latest(i)
    BY <1>1 DEF Latest
  <1>12. Smaller(PreloadSize, Len(ranking))' = wanted
    BY <1>1 DEF Smaller, wanted
  <1> QED
    BY <1>1, <1>2, <1>5, <1>8, <1>9, <1>10, <1>11, <1>12 DEF PreloadProgress

\* Rows that are added meanwhile leave the ones it has read as they are.
LEMMA GrowProgress ==
    ASSUME ServiceInv, PreloadProgress, TableGrows,
           UNCHANGED <<evictList, items, ranking, preloaded, phase, rpc>>
    PROVE  PreloadProgress'
  <1>1. ASSUME NEW i \in 1 .. Len(ranking) PROVE table'[Latest(i)] = table[Latest(i)]
    <2>1. Latest(i) \in Uids /\ table[Latest(i)] \in Orders
      BY LatestFacts
    <2> QED
      BY <2>1, NoOrderAssumption DEF TableGrows
  <1>2. /\ \A i : Latest(i)' = Latest(i)
        /\ Smaller(PreloadSize, Len(ranking))' = Smaller(PreloadSize, Len(ranking))
    BY DEF Latest, Smaller
  <1>3. CASE phase # "fill"
    BY <1>3 DEF PreloadProgress
  <1>4. CASE phase = "fill"
    <2> DEFINE wanted == Smaller(PreloadSize, Len(ranking))
               done == wanted - Len(preloaded)
    <2>1. /\ Len(evictList) <= done
          /\ \A i \in 1 .. Len(preloaded) : preloaded[i] = table[Latest(done + i)]
          /\ PreloadSize <= EntryCountCap =>
               \A i \in 1 .. done :
                  table[Latest(i)].size <= EntrySizeCap => Latest(i) \in items
          /\ \A r \in Requests : rpc[r] = "idle"
      BY <1>4 DEF PreloadProgress
    <2>2. /\ wanted \in Nat /\ wanted <= Len(ranking) /\ Len(ranking) \in Nat
          /\ Len(preloaded) \in Nat /\ Len(evictList) \in Nat
      BY WantedFacts
    <2>3. /\ \A i \in 1 .. done : i \in 1 .. Len(ranking)
          /\ \A i \in 1 .. Len(preloaded) : done + i \in 1 .. Len(ranking)
      BY <2>1, <2>2
    <2> HIDE DEF wanted
    <2>4. \A i \in 1 .. Len(preloaded) : preloaded[i] = table'[Latest(done + i)]
      BY <1>1, <2>1, <2>3
    <2>5. PreloadSize <= EntryCountCap =>
             \A i \in 1 .. done :
                table'[Latest(i)].size <= EntrySizeCap => Latest(i) \in items
      BY <1>1, <2>1, <2>3
    <2> QED
      BY <1>2, <1>4, <2>1, <2>4, <2>5 DEF PreloadProgress, wanted
  <1> QED
    BY <1>3, <1>4

\* Every step keeps it: before the service runs there is nobody but Preload,
\* and the COMMITs of an earlier life.
LEMMA ProgressStep ==
    ASSUME ServiceInv, PreloadProgress, [Next]_vars
    PROVE  PreloadProgress'
  <1>a. ASSUME UNCHANGED <<evictList, items, ranking, table, preloaded, phase, rpc>>
        PROVE  PreloadProgress'
    BY <1>a DEF PreloadProgress, Latest, Smaller
  <1>b. ASSUME phase' = "serving" PROVE PreloadProgress'
    BY <1>b DEF PreloadProgress
  <1>1. CASE PreloadQuery \/ PreloadInsert
    BY <1>1, QueryProgress, InsertProgress
  <1>2. CASE PreloadFails \/ PreloadDone
    BY <1>2, <1>b DEF PreloadFails, PreloadDone
  <1>3. ASSUME NEW o \in Orders, ProcessNewOrder(o) \/ LateCommit(o) PROVE PreloadProgress'
    <2>1. UNCHANGED <<evictList, items, ranking, preloaded, phase, rpc>>
      BY <1>3 DEF ProcessNewOrder, LateCommit, cacheVars, bootVars, requestVars
    <2>2. TableGrows
      BY <1>3, NewRow DEF AddRow, TableGrows, ServiceInv, ServiceTypes, Uids
    <2> QED
      BY <2>1, <2>2, GrowProgress
  <1>4. ASSUME NEW r \in Requests, NEW u \in Uids, Request(r, u) PROVE PreloadProgress'
    BY <1>4, <1>b DEF Request, bootVars
  <1>5. ASSUME NEW r \in Requests, AnswerAtOnce(r) PROVE PreloadProgress'
    BY <1>5, <1>b DEF AnswerAtOnce, bootVars
  <1>6. ASSUME NEW r \in Requests, Lookup(r) \/ Query(r) \/ QueryFails(r) \/ Fill(r) \/ Finish(r)
        PROVE  PreloadProgress'
    <2>1. rpc[r] # "idle" /\ UNCHANGED bootVars
      BY <1>6 DEF Lookup, Query, QueryFails, Fill, Finish
    <2>2. phase' = "serving"
      BY <2>1 DEF PreloadProgress, bootVars
    <2> QED
      BY <1>b, <2>2
  <1>7. CASE DbFlips
    BY <1>7, <1>a DEF DbFlips, cacheVars, bootVars, requestVars
  <1>8. CASE Restart
    BY <1>8 DEF Restart, PreloadProgress
  <1>9. CASE UNCHANGED vars
    BY <1>9, <1>a DEF vars, cacheVars, dbVars, bootVars, requestVars
  <1> QED
    BY <1>1, <1>2, <1>3, <1>4, <1>5, <1>6, <1>7, <1>8, <1>9 DEF Next

\* CachingOrderService.Preload: with preload_size within the cache's cap, every
\* one of the latest orders that is small enough is cached when it is done.
THEOREM PreloadKeepsLatestHolds == Spec => []PreloadKeepsLatest
  <1>1. Init => PreloadProgress
    BY DEF Init, CacheInit, PreloadProgress
  <1>2. ServiceInv /\ PreloadProgress /\ [Next]_vars => PreloadProgress'
    BY ProgressStep
  <1>3. ServiceInv /\ PreloadProgress => PreloadKeepsLatest
    <2> SUFFICES ASSUME ServiceInv, PreloadProgress, phase = "fill", preloaded = <<>>,
                        PreloadSize <= EntryCountCap,
                        NEW i \in 1 .. Smaller(PreloadSize, Len(ranking)),
                        table[Latest(i)].size <= EntrySizeCap
                 PROVE  Latest(i) \in items
      BY DEF PreloadKeepsLatest
    <2> DEFINE wanted == Smaller(PreloadSize, Len(ranking))
    <2>1. wanted \in Nat /\ Len(preloaded) = 0
      BY WantedFacts
    <2> HIDE DEF wanted
    <2>2. wanted - Len(preloaded) = wanted
      BY <2>1
    <2> QED
      BY <2>2 DEF PreloadProgress, wanted
  <1> QED
    BY <1>1, <1>2, <1>3, InitServiceInv, NextServiceInv, PTL DEF Spec

-----------------------------------------------------------------------------
(* Types.                                                                   *)

\* What ServiceInv leaves out of TypeOK.
RestTypes ==
    /\ dbUp \in BOOLEAN
    /\ phase \in {"query", "fill", "serving"}
    /\ usedSince \in SUBSET (Uids \X Uids)

LEMMA UseType ==
    ASSUME NEW u \in Uids, usedSince \in SUBSET (Uids \X Uids), Use(u)
    PROVE  usedSince' \in SUBSET (Uids \X Uids)
  BY DEF Use

LEMMA FillType ==
    ASSUME NEW o \in Orders, usedSince \in SUBSET (Uids \X Uids), CacheFill(o)
    PROVE  usedSince' \in SUBSET (Uids \X Uids)
  <1>1. o.uid \in Uids
    BY DEF Uids
  <1>2. Use(o.uid) \/ usedSince' = usedSince
    BY DEF CacheFill
  <1> QED
    BY <1>1, <1>2, UseType

LEMMA TypesStep ==
    ASSUME ServiceInv, RestTypes, [Next]_vars
    PROVE  RestTypes'
  <1>t. /\ dbUp \in BOOLEAN /\ phase \in {"query", "fill", "serving"}
        /\ usedSince \in SUBSET (Uids \X Uids)
    BY DEF RestTypes
  <1>1. CASE PreloadQuery \/ PreloadFails \/ PreloadDone
    BY <1>1, <1>t DEF PreloadQuery, PreloadFails, PreloadDone, dbVars, RestTypes
  <1>2. CASE PreloadInsert
    <2>1. CacheFill(Head(preloaded)) /\ UNCHANGED <<dbUp, phase>>
      BY <1>2 DEF PreloadInsert, dbVars
    <2>2. Head(preloaded) \in Orders
      BY <1>2, FilledAreOrders
    <2> QED
      BY <1>t, <2>1, <2>2, FillType DEF RestTypes
  <1>3. ASSUME NEW o \in Orders, ProcessNewOrder(o) \/ LateCommit(o) PROVE RestTypes'
    BY <1>3, <1>t DEF ProcessNewOrder, LateCommit, bootVars, RestTypes
  <1>4. ASSUME NEW r \in Requests, NEW u \in Uids, Request(r, u) PROVE RestTypes'
    BY <1>4, <1>t DEF Request, dbVars, bootVars, RestTypes
  <1>5. ASSUME NEW r \in Requests,
               AnswerAtOnce(r) \/ Query(r) \/ QueryFails(r) \/ Finish(r)
        PROVE  RestTypes'
    BY <1>5, <1>t DEF AnswerAtOnce, Query, QueryFails, Finish, dbVars, bootVars, RestTypes
  <1>6. ASSUME NEW r \in Requests, Lookup(r) PROVE RestTypes'
    <2>1. UNCHANGED <<dbUp, phase>> /\ (Use(ruid[r]) \/ usedSince' = usedSince)
      BY <1>6 DEF Lookup, dbVars, bootVars
    <2>2. ruid[r] \in Uids
      BY <1>6 DEF Lookup, ServiceInv, RequestCurrent
    <2> QED
      BY <1>t, <2>1, <2>2, UseType DEF RestTypes
  <1>7. ASSUME NEW r \in Requests, Fill(r) PROVE RestTypes'
    <2>1. CacheFill(rorder[r]) /\ UNCHANGED <<dbUp, phase>>
      BY <1>7 DEF Fill, dbVars, bootVars
    <2>2. rorder[r] \in Orders
      BY <1>7, FilledAreOrders
    <2> QED
      BY <1>t, <2>1, <2>2, FillType DEF RestTypes
  <1>8. CASE DbFlips
    BY <1>8, <1>t DEF DbFlips, bootVars, RestTypes
  <1>9. CASE Restart
    BY <1>9, <1>t DEF Restart, dbVars, RestTypes
  <1>10. CASE UNCHANGED vars
    BY <1>10, <1>t DEF vars, dbVars, bootVars, RestTypes
  <1> QED
    BY <1>1, <1>2, <1>3, <1>4, <1>5, <1>6, <1>7, <1>8, <1>9, <1>10 DEF Next

\* The service's state keeps its types: in particular a request that reaches
\* Insert holds an order, never the absence of one.
THEOREM ServiceTypeCorrect == Spec => []TypeOK
  <1>1. Init => RestTypes
    BY DEF Init, RestTypes
  <1>2. ServiceInv /\ RestTypes /\ [Next]_vars => RestTypes'
    BY TypesStep
  <1>3. ServiceInv /\ RestTypes => TypeOK
    BY DEF ServiceInv, ServiceTypes, RestTypes, TypeOK
  <1> QED
    BY <1>1, <1>2, <1>3, InitServiceInv, NextServiceInv, PTL DEF Spec

-----------------------------------------------------------------------------
(* A client cannot tell that there is a cache: module OrderService          *)
(* implements module OrderReads.                                            *)

ReadStep == Reads!ReadNext \/ UNCHANGED Reads!readVars

\* The steps that touch neither the table nor a request are invisible.
LEMMA InvisibleRead ==
    ASSUME table' = table, UNCHANGED requestVars
    PROVE  ReadStep
  <1>1. ReadState' = ReadState /\ Shown' = Shown /\ ruid' = ruid /\ rstatus' = rstatus
    BY DEF ReadState, Shown, requestVars
  <1> QED
    BY <1>1 DEF ReadStep, Reads!readVars

\* ProcessNewOrder, or a late COMMIT, adds a row where there is none or none.
LEMMA NewOrderRead ==
    ASSUME ServiceInv, NEW o \in Orders, ProcessNewOrder(o) \/ LateCommit(o)
    PROVE  ReadStep
  <1>1. UNCHANGED requestVars
    BY DEF ProcessNewOrder, LateCommit
  <1>2. \/ table[o.uid] = NoOrder /\ table' = [table EXCEPT ![o.uid] = o]
        \/ table' = table
    BY NewRow DEF AddRow
  <1>3. CASE table[o.uid] = NoOrder /\ table' = [table EXCEPT ![o.uid] = o]
    <2>1. ReadState' = ReadState /\ Shown' = Shown /\ ruid' = ruid /\ rstatus' = rstatus
      BY <1>1 DEF ReadState, Shown, requestVars
    <2>2. Reads!Store(o)
      BY <1>3, <2>1 DEF Reads!Store
    <2> QED
      BY <2>2 DEF ReadStep, Reads!ReadNext
  <1> QED
    BY <1>1, <1>2, <1>3, InvisibleRead

\* An answer given by Respond is a Reply of the abstract request.
LEMMA RespondReplies ==
    ASSUME ServiceInv, NEW r \in Requests, NEW code, NEW o,
           Respond(r, code, o), table' = table, ruid' = ruid
    PROVE  Reads!Reply(r, code, o)
  <1>1. /\ rpc' = [rpc EXCEPT ![r] = "done"] /\ DOMAIN rpc = Requests
        /\ rorder' = [rorder EXCEPT ![r] = o] /\ DOMAIN rorder = Requests
        /\ rstatus' = [rstatus EXCEPT ![r] = code]
    BY DEF Respond, ServiceInv, ServiceTypes
  <1>2. ReadState' = [ReadState EXCEPT ![r] = "answered"]
    BY <1>1 DEF ReadState
  <1>3. Shown' = [Shown EXCEPT ![r] = o]
    BY <1>1 DEF Shown
  <1> QED
    BY <1>1, <1>2, <1>3 DEF Reads!Reply

\* orderView: a request arrives, is answered at once, or is over.
LEMMA ArrivalRead ==
    ASSUME ServiceInv, NEW r \in Requests,
           (\E u \in Uids : Request(r, u)) \/ AnswerAtOnce(r) \/ Finish(r)
    PROVE  ReadStep
  <1>0. ServiceTypes /\ RequestCurrent(r)
    BY DEF ServiceInv
  <1>1. ASSUME NEW u \in Uids, Request(r, u) PROVE ReadStep
    <2>1. /\ rpc[r] = "idle" /\ rpc' = [rpc EXCEPT ![r] = "lookup"]
          /\ ruid' = [ruid EXCEPT ![r] = u]
          /\ rorder' = rorder /\ rstatus' = rstatus /\ table' = table
      BY <1>1 DEF Request, dbVars
    <2>2. ReadState[r] = "idle" /\ ReadState' = [ReadState EXCEPT ![r] = "pending"]
      BY <1>0, <2>1 DEF ReadState, ServiceTypes
    <2>3. Shown' = Shown
      BY <1>0, <2>1 DEF Shown, ServiceTypes
    <2>4. Reads!Ask(r, u) /\ u \in Reads!ReadUids
      BY <2>1, <2>2, <2>3 DEF Reads!Ask, Reads!ReadUids, Uids
    <2> QED
      BY <2>4 DEF ReadStep, Reads!ReadNext
  <1>2. ASSUME AnswerAtOnce(r) PROVE ReadStep
    <2>1. PICK code \in {"405", "302 home", "200 home", "404", "500"} :
             Respond(r, code, NoOrder)
      BY <1>2 DEF AnswerAtOnce, Render
    <2>2. Reads!Reply(r, code, NoOrder)
      BY <1>2, <2>1, RespondReplies DEF AnswerAtOnce, dbVars
    <2>3. ReadState[r] = "idle"
      BY <1>2 DEF AnswerAtOnce, ReadState
    <2> QED
      BY <2>2, <2>3 DEF ReadStep, Reads!ReadNext, Reads!ReplyAtOnce
  <1>3. ASSUME Finish(r) PROVE ReadStep
    <2>1. /\ rpc[r] = "done" /\ rpc' = [rpc EXCEPT ![r] = "idle"]
          /\ ruid' = [ruid EXCEPT ![r] = "none"]
          /\ rorder' = [rorder EXCEPT ![r] = NoOrder]
          /\ rstatus' = [rstatus EXCEPT ![r] = "none"] /\ table' = table
      BY <1>3 DEF Finish, dbVars
    <2>2. ReadState[r] = "answered" /\ ReadState' = [ReadState EXCEPT ![r] = "idle"]
      BY <1>0, <2>1 DEF ReadState, ServiceTypes
    <2>3. Shown' = [Shown EXCEPT ![r] = NoOrder]
      BY <1>0, <2>1 DEF Shown, ServiceTypes
    <2>4. Reads!Leave(r)
      BY <2>1, <2>2, <2>3 DEF Reads!Leave
    <2> QED
      BY <2>4 DEF ReadStep, Reads!ReadNext
  <1> QED
    BY <1>1, <1>2, <1>3

\* A request that goes on to its next step is still the same read.
LEMMA StillPending ==
    ASSUME ServiceInv, NEW r \in Requests, rpc[r] \in {"lookup", "query", "fill"},
           NEW step \in {"lookup", "query", "fill"}, rpc' = [rpc EXCEPT ![r] = step],
           \A q \in Requests : q # r => rorder'[q] = rorder[q],
           rstatus' = rstatus, ruid' = ruid, table' = table
    PROVE  ReadStep
  <1>1. DOMAIN rpc = Requests
    BY DEF ServiceInv, ServiceTypes
  <1>2. ReadState' = ReadState
    BY <1>1 DEF ReadState
  <1>3. Shown' = Shown
    BY <1>1 DEF Shown
  <1> QED
    BY <1>2, <1>3 DEF ReadStep, Reads!readVars

\* An answer with the row is a read at this moment, although the order came
\* from the cache, or from a query before others stored and cached theirs.
LEMMA AnswerIsRead ==
    ASSUME ServiceInv, NEW r \in Requests, rpc[r] \in {"lookup", "query", "fill"},
           NEW code, NEW o, Respond(r, code, o), table' = table, ruid' = ruid,
           \/ code = "200" /\ o = table[ruid[r]] /\ o # NoOrder
           \/ code = "302 not_found" /\ o = NoOrder /\ table[ruid[r]] = NoOrder
           \/ code = "500" /\ o = NoOrder
    PROVE  ReadStep
  <1>1. Reads!Reply(r, code, o)
    BY RespondReplies
  <1>2. ReadState[r] = "pending"
    BY DEF ReadState
  <1>3. Reads!Read(r)
    BY <1>1, <1>2 DEF Reads!Read
  <1> QED
    BY <1>3 DEF ReadStep, Reads!ReadNext

\* CachingOrderService.GetOrder on the way through the cache and the store.
LEMMA GetOrderRead ==
    ASSUME ServiceInv, NEW r \in Requests,
           Lookup(r) \/ Query(r) \/ QueryFails(r) \/ Fill(r)
    PROVE  ReadStep
  <1>0. CacheInv /\ EntriesCurrent /\ Rest /\ RequestCurrent(r)
    BY InvParts DEF Rest
  <1>1. table' = table /\ ruid' = ruid
    BY DEF Lookup, Query, QueryFails, Fill, dbVars
  <1>2. ASSUME Lookup(r), ruid[r] \in items PROVE ReadStep
    <2>1. Cached(ruid[r]) \in Orders /\ Cached(ruid[r]) = table[ruid[r]]
      BY <1>0, <1>2, PositionFacts, EntryFacts DEF Cached
    <2>2. rpc[r] = "lookup" /\ Render(r, "200", Cached(ruid[r]))
      BY <1>2 DEF Lookup
    <2> QED
      BY <1>1, <2>1, <2>2, AnswerIsRead, NoOrderAssumption DEF Render
  <1>3. ASSUME Lookup(r), ruid[r] \notin items PROVE ReadStep
    BY <1>1, <1>3, StillPending DEF Lookup
  <1>4. ASSUME Query(r), table[ruid[r]] = NoOrder PROVE ReadStep
    BY <1>1, <1>4, AnswerIsRead DEF Query
  <1>5. ASSUME Query(r), table[ruid[r]] # NoOrder PROVE ReadStep
    <2>1. \A q \in Requests : q # r => rorder'[q] = rorder[q]
      BY <1>0, <1>5 DEF Query, Rest, ServiceTypes
    <2> QED
      BY <1>1, <1>5, <2>1, StillPending DEF Query
  <1>6. ASSUME QueryFails(r) PROVE ReadStep
    BY <1>1, <1>6, AnswerIsRead DEF QueryFails
  <1>7. ASSUME Fill(r) PROVE ReadStep
    <2>1. rorder[r] = table[ruid[r]] /\ rorder[r] # NoOrder
      BY <1>0, <1>7 DEF Fill, RequestCurrent
    <2> QED
      BY <1>1, <1>7, <2>1, AnswerIsRead DEF Fill, Render
  <1> QED
    BY <1>2, <1>3, <1>4, <1>5, <1>6, <1>7

\* A restart cuts the requests off and keeps the rows.
LEMMA RestartRead ==
    ASSUME Restart
    PROVE  ReadStep
  <1>1. /\ ReadState' = Reads!NoRequests.state /\ Shown' = Reads!NoRequests.shown
        /\ ruid' = Reads!NoRequests.uid /\ rstatus' = Reads!NoRequests.status
        /\ table' = table
    BY DEF Restart, ReadState, Shown, Reads!NoRequests, dbVars
  <1>2. Reads!CutOff
    BY <1>1 DEF Reads!CutOff
  <1> QED
    BY <1>2 DEF ReadStep, Reads!ReadNext

\* The HTTP API over CachingOrderService: whatever the cache holds, evicts or
\* preloads and whatever is stored meanwhile, a client sees one read of a
\* table whose rows never change.
THEOREM OrderReadsHolds == Spec => ImplementsOrderReads
  <1>1. Init => Reads!ReadInit
    BY DEF Init, Reads!ReadInit, Reads!NoRequests, Reads!ReadUids, ReadState, Shown, Uids
  <1>2. ServiceInv /\ [Next]_vars => [Reads!ReadNext]_(Reads!readVars)
    <2> SUFFICES ASSUME ServiceInv, [Next]_vars PROVE ReadStep
      BY DEF ReadStep
    <2>1. CASE DbFlips \/ UNCHANGED vars
      BY <2>1, InvisibleRead DEF DbFlips, vars, dbVars
    <2>2. CASE PreloadQuery \/ PreloadFails \/ PreloadInsert \/ PreloadDone
      BY <2>2, InvisibleRead
         DEF PreloadQuery, PreloadFails, PreloadInsert, PreloadDone, dbVars
    <2>3. CASE Restart
      BY <2>3, RestartRead
    <2> QED
      BY <2>1, <2>2, <2>3, NewOrderRead, ArrivalRead, GetOrderRead DEF Next
  <1> QED
    BY <1>1, <1>2, InitServiceInv, NextServiceInv, PTL
       DEF Spec, ImplementsOrderReads, Reads!ReadSpec
=============================================================================
