----------------------------- MODULE OrderService -----------------------------
(***************************************************************************)
(* The read side: HTTP requests for an order (internal/api/server.go,      *)
(* orderView) served through CachingOrderService (internal/service) from   *)
(* the LRU cache or from the database (internal/store, GetOrder), while    *)
(* the consumer stores new orders through the same service.  Requests run  *)
(* concurrently: each holds the cache's mutex for one Get or one Insert,   *)
(* and anything may happen between its lookup, its query and its insert.   *)
(***************************************************************************)
EXTENDS LRUCache, StoreContract

CONSTANTS
    Requests,      \* concurrent HTTP requests
    PreloadSize,   \* cache.preload_size
    NoOrder        \* no order

ASSUME PreloadSizeAssumption == PreloadSize \in Nat
ASSUME NoOrderAssumption == NoOrder \notin Orders

VARIABLES
    table,      \* the committed order of each UID, or NoOrder
    recent,     \* UIDs of the committed orders, by updated_at
    ranking,    \* recent as Preload's query saw it
    dbUp,       \* the database answers
    phase,      \* App.New: "query", "fill" (Preload), then "serving"
    preloaded,  \* orders Preload has still to insert
    rpc,        \* a request: "idle", "lookup", "query", "fill", "done"
    ruid, rorder, rstatus,
    seen,       \* whether the order was stored when the request arrived
    usedSince   \* pairs <<u, v>>: u was used after the last use of v

dbVars == <<table, recent, dbUp>>
bootVars == <<phase, preloaded, ranking>>
requestVars == <<rpc, ruid, rorder, rstatus, seen>>
vars == <<cacheVars, dbVars, bootVars, requestVars, usedSince>>

Statuses == {"none", "200", "200 home", "302 home", "302 not_found", "404", "405", "500"}

TypeOK ==
    /\ CacheTypeOK
    /\ table \in [Uids -> Orders \cup {NoOrder}]
    /\ recent \in Seq(Uids)
    /\ dbUp \in BOOLEAN
    /\ phase \in {"query", "fill", "serving"}
    /\ preloaded \in Seq(Orders) /\ ranking \in Seq(Uids)
    /\ rpc \in [Requests -> {"idle", "lookup", "query", "fill", "done"}]
    /\ ruid \in [Requests -> Uids \cup {"none"}]
    /\ rorder \in [Requests -> Orders \cup {NoOrder}]
    /\ rstatus \in [Requests -> Statuses]
    /\ seen \in [Requests -> BOOLEAN]
    /\ usedSince \in SUBSET (Uids \X Uids)

Init ==
    /\ CacheInit
    /\ table = [u \in Uids |-> NoOrder]
    /\ recent = <<>>
    /\ dbUp = TRUE
    /\ phase = "query" /\ preloaded = <<>> /\ ranking = <<>>
    /\ rpc = [r \in Requests |-> "idle"]
    /\ ruid = [r \in Requests |-> "none"]
    /\ rorder = [r \in Requests |-> NoOrder]
    /\ rstatus = [r \in Requests |-> "none"]
    /\ seen = [r \in Requests |-> FALSE]
    /\ usedSince = {}

\* Recording a use: uid has been used since any other, and none since uid.
Use(uid) ==
    usedSince' = {p \in usedSince : p[2] # uid} \cup {<<uid, v>> : v \in Uids \ {uid}}

\* cache.Insert with the use it makes of the cache.
CacheFill(o) ==
    /\ Insert(o)
    /\ IF o.uid \in items \/ o.size <= EntrySizeCap THEN Use(o.uid) ELSE UNCHANGED usedSince

-----------------------------------------------------------------------------
(* Preload, before the server and the consumer start.                       *)

Smaller(m, n) == IF m < n THEN m ELSE n

\* Mutant: ORDER BY updated_at without DESC.
OldestOrders(limit) ==
    [i \in 1 .. Smaller(limit, Len(recent)) |-> table[recent[i]]]

\* GetLatestOrders: the orders updated last, latest first.
LatestOrders(limit) ==
    [i \in 1 .. Smaller(limit, Len(recent)) |-> table[recent[Len(recent) + 1 - i]]]

PreloadQuery ==
    /\ phase = "query"
    /\ dbUp
    /\ preloaded' = LatestOrders(PreloadSize)
    /\ ranking' = recent
    /\ phase' = "fill"
    /\ UNCHANGED <<cacheVars, dbVars, requestVars, usedSince>>

\* The query fails, by a connection error or another: the cache stays empty
\* and the service starts all the same.
PreloadFails ==
    /\ phase = "query"
    /\ phase' = "serving"
    /\ UNCHANGED <<cacheVars, dbVars, preloaded, ranking, requestVars, usedSince>>

PreloadInsert ==
    /\ phase = "fill"
    /\ preloaded # <<>>
    /\ CacheFill(Head(preloaded))
    /\ preloaded' = Tail(preloaded)
    /\ UNCHANGED <<dbVars, phase, ranking, requestVars>>

PreloadDone ==
    /\ phase = "fill"
    /\ preloaded = <<>>
    /\ phase' = "serving" /\ ranking' = <<>>
    /\ UNCHANGED <<cacheVars, dbVars, preloaded, requestVars, usedSince>>

-----------------------------------------------------------------------------
(* An order is stored.                                                      *)

\* A new row.  Its updated_at is NOW(), the start of the transaction: others
\* that started later may have been committed before.
AddRow(o) ==
    /\ table' = [table EXCEPT ![o.uid] = o]
    /\ \E n \in 0 .. Len(recent) :
        recent' = [i \in 1 .. Len(recent) + 1 |->
                      IF i <= n THEN recent[i] ELSE IF i = n + 1 THEN o.uid ELSE recent[i - 1]]

\* Mutant: the order is cached whatever Insert returned.
ProcessNewOrderCachesAlways(o) ==
    /\ phase = "serving"
    /\ \E oc \in IF dbUp THEN AnsweredOutcomes(TRUE, table[o.uid] # NoOrder)
                 ELSE BrokenOutcomes(TRUE, table[o.uid] # NoOrder) :
        IF oc.persisted
          THEN AddRow(o) ELSE UNCHANGED <<table, recent>>
    /\ CacheFill(o)
    /\ UNCHANGED <<dbUp, bootVars, requestVars>>

\* ProcessNewOrder of the caching service leaves the cache alone, whatever
\* Insert returns.
ProcessNewOrder(o) ==
    /\ phase = "serving"
    /\ \E oc \in IF dbUp THEN AnsweredOutcomes(TRUE, table[o.uid] # NoOrder)
                 ELSE BrokenOutcomes(TRUE, table[o.uid] # NoOrder) :
        IF oc.persisted
          THEN AddRow(o) ELSE UNCHANGED <<table, recent>>
    /\ UNCHANGED <<cacheVars, dbUp, bootVars, requestVars, usedSince>>

\* The server applies a COMMIT that was sent before the connection broke (an
\* orphan of module DBStore), perhaps after the process that sent it has gone.
LateCommit(o) ==
    /\ table[o.uid] = NoOrder
    /\ AddRow(o)
    /\ UNCHANGED <<cacheVars, dbUp, bootVars, requestVars, usedSince>>

-----------------------------------------------------------------------------
(* A request.                                                               *)

Respond(r, status, order) ==
    /\ rpc' = [rpc EXCEPT ![r] = "done"]
    /\ rstatus' = [rstatus EXCEPT ![r] = status]
    /\ rorder' = [rorder EXCEPT ![r] = order]

\* render: the page, or serverError if its template fails; a panic of the
\* handler is answered with a 500 as well.  The branch of orderView for neither
\* an order nor an error is not there: GetOrder returns one of them.
Render(r, status, order) == Respond(r, status, order) \/ Respond(r, "500", NoOrder)

\* orderView for a GET with a UID.
Request(r, u) ==
    /\ phase = "serving"
    /\ rpc[r] = "idle"
    /\ rpc' = [rpc EXCEPT ![r] = "lookup"]
    /\ ruid' = [ruid EXCEPT ![r] = u]
    /\ seen' = [seen EXCEPT ![r] = table[u] # NoOrder]
    /\ UNCHANGED <<cacheVars, dbVars, bootVars, rorder, rstatus, usedSince>>

\* orderView for another method or an empty UID, and home for its own page,
\* for "/" and for any other path: answers that need no order.
AnswerAtOnce(r) ==
    /\ phase = "serving"
    /\ rpc[r] = "idle"
    /\ \/ \E status \in {"405", "302 home", "404"} : Respond(r, status, NoOrder)
       \/ Render(r, "200 home", NoOrder)
    /\ UNCHANGED <<cacheVars, dbVars, bootVars, ruid, seen, usedSince>>

\* CachingOrderService.GetOrder: the cache first.
Lookup(r) ==
    /\ rpc[r] = "lookup"
    /\ Get(ruid[r])
    /\ IF ruid[r] \in items
         THEN Render(r, "200", Cached(ruid[r])) /\ Use(ruid[r])
         ELSE /\ rpc' = [rpc EXCEPT ![r] = "query"]
              /\ UNCHANGED <<rorder, rstatus, usedSince>>
    /\ UNCHANGED <<dbVars, bootVars, ruid, seen>>

\* DBStore.GetOrder: the row, or ErrNotFound, which becomes a redirect.
Query(r) ==
    /\ rpc[r] = "query"
    /\ dbUp
    /\ IF table[ruid[r]] = NoOrder
         THEN Respond(r, "302 not_found", NoOrder)
         ELSE /\ rpc' = [rpc EXCEPT ![r] = "fill"]
              /\ rorder' = [rorder EXCEPT ![r] = table[ruid[r]]]
              /\ UNCHANGED rstatus
    /\ UNCHANGED <<cacheVars, dbVars, bootVars, ruid, seen, usedSince>>

\* Mutant: any error of the query counts as a missing row.
QueryFailsAsNotFound(r) ==
    /\ rpc[r] = "query"
    /\ Respond(r, "302 not_found", NoOrder)
    /\ UNCHANGED <<cacheVars, dbVars, bootVars, ruid, seen, usedSince>>

\* The database does not answer, or the client went away: serverError.
QueryFails(r) ==
    /\ rpc[r] = "query"
    /\ Respond(r, "500", NoOrder)
    /\ UNCHANGED <<cacheVars, dbVars, bootVars, ruid, seen, usedSince>>

\* The order from the database goes into the cache and to the client.
Fill(r) ==
    /\ rpc[r] = "fill"
    /\ CacheFill(rorder[r])
    /\ Render(r, "200", rorder[r])
    /\ UNCHANGED <<dbVars, bootVars, ruid, seen>>

\* The response is written and the request is over.
Finish(r) ==
    /\ rpc[r] = "done"
    /\ rpc' = [rpc EXCEPT ![r] = "idle"]
    /\ ruid' = [ruid EXCEPT ![r] = "none"]
    /\ rorder' = [rorder EXCEPT ![r] = NoOrder]
    /\ rstatus' = [rstatus EXCEPT ![r] = "none"]
    /\ seen' = [seen EXCEPT ![r] = FALSE]
    /\ UNCHANGED <<cacheVars, dbVars, bootVars, usedSince>>

-----------------------------------------------------------------------------
DbFlips ==
    /\ dbUp' = ~dbUp
    /\ UNCHANGED <<cacheVars, table, recent, bootVars, requestVars, usedSince>>

\* The process restarts with an empty cache; the database keeps its rows.
Restart ==
    /\ evictList' = <<>> /\ items' = {} /\ currEntryCount' = 0
    /\ phase' = "query" /\ preloaded' = <<>> /\ ranking' = <<>>
    /\ rpc' = [r \in Requests |-> "idle"]
    /\ ruid' = [r \in Requests |-> "none"]
    /\ rorder' = [r \in Requests |-> NoOrder]
    /\ rstatus' = [r \in Requests |-> "none"]
    /\ seen' = [r \in Requests |-> FALSE]
    /\ usedSince' = {}
    /\ UNCHANGED dbVars

Next ==
    \/ PreloadQuery \/ PreloadFails \/ PreloadInsert \/ PreloadDone
    \/ \E o \in Orders : ProcessNewOrder(o) \/ LateCommit(o)
    \/ \E r \in Requests, u \in Uids : Request(r, u)
    \/ \E r \in Requests : \/ AnswerAtOnce(r) \/ Lookup(r) \/ Query(r)
                           \/ QueryFails(r) \/ Fill(r) \/ Finish(r)
    \/ DbFlips
    \/ Restart

Spec == Init /\ [][Next]_vars

-----------------------------------------------------------------------------
\* A cached order is the committed order of its UID, although it was read from
\* the database some steps before it was cached and other orders under the
\* same UID are being offered to Insert all the time.
CacheCoherent ==
    \A i \in 1 .. Len(evictList) : evictList[i].value = table[evictList[i].key]

\* No entry exceeds the size cap.  Insert checks the size of new keys only and
\* would let a known key grow: this holds because a committed order never
\* changes.
EntrySizeBounded ==
    \A i \in 1 .. Len(evictList) : evictList[i].value.size <= EntrySizeCap

\* A client is told "not found" only if the order was not stored when it asked,
\* and an order it is shown is the committed one.
AnswersMatchStore ==
    \A r \in Requests :
        /\ rstatus[r] = "302 not_found" => ~seen[r]
        /\ rstatus[r] = "200" => rorder[r] = table[ruid[r]]

\* The list is in the order of use: what Insert evicts, from its back, is the
\* least recently used of the cached orders, whichever request used it.
RecencyKept ==
    \A i, j \in 1 .. Len(evictList) : i < j =>
        <<evictList[i].key, evictList[j].key>> \in usedSince

\* The i-th latest order of that moment.
Latest(i) == ranking[Len(ranking) + 1 - i]

\* When Preload is done, and nothing it read was too large, the cache holds
\* the orders that were the last updated ones when it asked, as many as it asked
\* for (or as there were), although rows may have been committed since.
PreloadKeepsLatest ==
    phase = "fill" /\ preloaded = <<>> /\ PreloadSize <= EntryCountCap =>
        \A i \in 1 .. Smaller(PreloadSize, Len(ranking)) :
            table[Latest(i)].size <= EntrySizeCap => Latest(i) \in items

\* A client cannot tell that there is a cache: what it sees is module
\* OrderReads, where a request is one read of the table.  Until it is answered
\* a request shows nothing of what it has found.
ReadState ==
    [r \in Requests |-> IF rpc[r] = "idle" THEN "idle"
                        ELSE IF rpc[r] = "done" THEN "answered" ELSE "pending"]

Shown == [r \in Requests |-> IF rpc[r] = "done" THEN rorder[r] ELSE NoOrder]

Reads == INSTANCE OrderReads WITH
    state <- ReadState, uid <- ruid, status <- rstatus, shown <- Shown

ImplementsOrderReads == Reads!ReadSpec

-----------------------------------------------------------------------------
(* The inductive invariant behind CacheCoherent and AnswersMatchStore.      *)

\* The part of TypeOK that the invariant needs.
ServiceTypes ==
    /\ table \in [Uids -> Orders \cup {NoOrder}]
    /\ recent \in Seq(Uids)
    /\ preloaded \in Seq(Orders) /\ ranking \in Seq(Uids)
    /\ rpc \in [Requests -> {"idle", "lookup", "query", "fill", "done"}]
    /\ ruid \in [Requests -> Uids \cup {"none"}]
    /\ rorder \in [Requests -> Orders \cup {NoOrder}]
    /\ rstatus \in [Requests -> Statuses]
    /\ seen \in [Requests -> BOOLEAN]

\* The rows, and what Preload read of them.
TableKeyed ==
    /\ \A u \in Uids : table[u] # NoOrder => table[u].uid = u
    /\ \A i \in 1 .. Len(recent) : table[recent[i]] # NoOrder
    /\ \A i \in 1 .. Len(ranking) : table[ranking[i]] # NoOrder

PreloadCurrent ==
    \A i \in 1 .. Len(preloaded) : preloaded[i] = table[preloaded[i].uid]

\* What a request carries from step to step is still true of the table: rows
\* are added between its steps and none is ever changed.
RequestCurrent(r) ==
    /\ rpc[r] # "done" => rstatus[r] = "none"
    /\ rpc[r] \in {"lookup", "query"} =>
        ruid[r] \in Uids /\ (seen[r] => table[ruid[r]] # NoOrder)
    /\ rpc[r] = "fill" \/ rstatus[r] = "200" =>
        ruid[r] \in Uids /\ rorder[r] # NoOrder /\ rorder[r] = table[ruid[r]]
    /\ rstatus[r] = "302 not_found" => ~seen[r]

ServiceInv ==
    /\ CacheTypeOK /\ CacheConsistent
    /\ ServiceTypes
    /\ TableKeyed
    /\ PreloadCurrent
    /\ CacheCoherent
    /\ EntrySizeBounded
    /\ \A r \in Requests : RequestCurrent(r)

\* The inductive invariant behind PreloadKeepsLatest: nobody else uses the
\* cache before it is filled, what is still to be inserted are the last ones
\* of the latest orders, and no more entries have been made than orders have
\* been inserted, so that none is evicted.
PreloadProgress ==
    LET wanted == Smaller(PreloadSize, Len(ranking))
        done == wanted - Len(preloaded)
    IN  /\ phase # "serving" => \A r \in Requests : rpc[r] = "idle"
        /\ phase = "query" => evictList = <<>>
        /\ phase = "fill" =>
            /\ Len(evictList) <= done
            /\ \A i \in 1 .. Len(preloaded) : preloaded[i] = table[Latest(done + i)]
            /\ PreloadSize <= EntryCountCap =>
                \A i \in 1 .. done :
                    table[Latest(i)].size <= EntrySizeCap => Latest(i) \in items
=============================================================================
