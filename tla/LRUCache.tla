------------------------------- MODULE LRUCache -------------------------------
(***************************************************************************)
(* internal/service/lru.go: a map, a doubly linked list and a counter      *)
(* under one mutex, so Get and Insert are one step each.                   *)
(*                                                                         *)
(* The list is a sequence of entries, front (most recently used) first.    *)
(* The map holds a pointer to a list element for each of its keys; it is   *)
(* modelled by the set of its keys, and following a pointer by finding the *)
(* entry with that key.  An order is its UID, the number sizeof.SizeOf     *)
(* computes for it, and its revision, which stands for the rest.           *)
(***************************************************************************)
EXTENDS Integers, Sequences, FiniteSets

CONSTANTS
    Orders,          \* records with the fields uid, size and rev
    EntryCountCap,   \* cache.entry_amount_cap
    EntrySizeCap     \* cache.entry_size_cap

\* A negative entryCountCap is excluded: the eviction loop would not end.
ASSUME OrdersAssumption == \A o \in Orders : o.size \in Nat
ASSUME CapsAssumption == EntryCountCap \in Nat /\ EntrySizeCap \in Int

Uids == {o.uid : o \in Orders}
Entries == [key : Uids, value : Orders]

VARIABLES evictList, items, currEntryCount

cacheVars == <<evictList, items, currEntryCount>>

CacheTypeOK ==
    /\ evictList \in Seq(Entries)
    /\ items \in SUBSET Uids
    /\ currEntryCount \in Nat

\* NewLRUCache.
CacheInit == evictList = <<>> /\ items = {} /\ currEntryCount = 0

\* The element a key of items points to.
Position(key) == CHOOSE i \in 1 .. Len(evictList) : evictList[i].key = key

\* The list l with its i-th entry in front.
MoveToFront(l, i) ==
    [j \in 1 .. Len(l) |-> IF j = 1 THEN l[i] ELSE IF j <= i THEN l[j - 1] ELSE l[j]]

\* Mutant: Get reads under a shared lock and does not touch the list.
GetWithoutMove(key) == UNCHANGED cacheVars

\* Get: a hit moves the entry to the front.
Get(key) ==
    IF key \in items
      THEN /\ evictList' = MoveToFront(evictList, Position(key))
           /\ UNCHANGED <<items, currEntryCount>>
      ELSE UNCHANGED cacheVars

\* What Get returns on a hit.
Cached(key) == evictList[Position(key)].value

\* Mutant: removeOldest leaves the key in the map.
EvictKeepsKey(l, keys, count) ==
    LET r == IF count > EntryCountCap THEN count - EntryCountCap ELSE 0
        n == Len(l) - r
    IN  /\ evictList' = SubSeq(l, 1, n)
        /\ items' = keys
        /\ currEntryCount' = count - r

\* Mutant: the counter goes down on every insert.
EvictMiscounts(l, keys, count) ==
    LET r == IF count > EntryCountCap THEN count - EntryCountCap ELSE 0
        n == Len(l) - r
    IN  /\ evictList' = SubSeq(l, 1, n)
        /\ items' = keys \ {l[i].key : i \in (n + 1) .. Len(l)}
        /\ currEntryCount' = count - r - 1

\* The loop of removeOldest: while the counter exceeds the cap, drop the last
\* entry, its key and one from the counter.
Evict(l, keys, count) ==
    LET r == IF count > EntryCountCap THEN count - EntryCountCap ELSE 0
        n == Len(l) - r
    IN  /\ evictList' = SubSeq(l, 1, n)
        /\ items' = keys \ {l[i].key : i \in (n + 1) .. Len(l)}
        /\ currEntryCount' = count - r

\* Mutant: Insert does not look at the size.
InsertAnySize(o) ==
    LET e == [key |-> o.uid, value |-> o]
    IN  IF o.uid \in items
          THEN Evict([MoveToFront(evictList, Position(o.uid)) EXCEPT ![1] = e],
                     items, currEntryCount)
          ELSE Evict(<<e>> \o evictList, items \cup {o.uid}, currEntryCount + 1)

\* Insert: a new key is refused when its value is too large, else it goes to
\* the front; a known key moves to the front and takes the new value, whatever
\* its size.
Insert(o) ==
    LET e == [key |-> o.uid, value |-> o]
    IN  IF o.uid \in items
          THEN Evict([MoveToFront(evictList, Position(o.uid)) EXCEPT ![1] = e],
                     items, currEntryCount)
          ELSE IF o.size > EntrySizeCap
          THEN UNCHANGED cacheVars
          ELSE Evict(<<e>> \o evictList, items \cup {o.uid}, currEntryCount + 1)

CacheNext ==
    \/ \E key \in Uids : Get(key)
    \/ \E o \in Orders : Insert(o)

CacheSpec == CacheInit /\ [][CacheNext]_cacheVars

-----------------------------------------------------------------------------
\* The map, the list and the counter, which the code updates one by one,
\* describe the same cache, and it is within its cap: each key of the map
\* points to exactly one entry, which holds an order with that UID, each entry
\* is reachable through the map, and the counter is their number.
CacheConsistent ==
    /\ items = {evictList[i].key : i \in 1 .. Len(evictList)}
    /\ \A i, j \in 1 .. Len(evictList) : evictList[i].key = evictList[j].key => i = j
    /\ \A i \in 1 .. Len(evictList) : evictList[i].key = evictList[i].value.uid
    /\ currEntryCount = Len(evictList)
    /\ currEntryCount <= EntryCountCap
=============================================================================
