------------------------------ MODULE OrderReads ------------------------------
(***************************************************************************)
(* What the OrderService interface (internal/service/service.go) promises  *)
(* a client of the HTTP API, as if there were no cache: rows are added and *)
(* never changed, and the answer to a request is one read of the table at  *)
(* some moment between its arrival and its answer.  Module OrderService,   *)
(* where the read is a cache lookup, a query and a cache insert, is shown  *)
(* to implement it.                                                        *)
(***************************************************************************)
CONSTANTS
    Requests,  \* concurrent HTTP requests
    Orders,    \* records with the field uid
    NoOrder

VARIABLES
    table,         \* the committed order of each UID, or NoOrder
    state,         \* a request: "idle", "pending", "answered"
    uid,           \* what it asks for
    status, shown  \* its answer

readVars == <<table, state, uid, status, shown>>

ReadUids == {o.uid : o \in Orders}

NoRequests ==
    [state |-> [r \in Requests |-> "idle"], uid |-> [r \in Requests |-> "none"],
     status |-> [r \in Requests |-> "none"], shown |-> [r \in Requests |-> NoOrder]]

ReadInit ==
    /\ table = [u \in ReadUids |-> NoOrder]
    /\ state = NoRequests.state /\ uid = NoRequests.uid
    /\ status = NoRequests.status /\ shown = NoRequests.shown

\* A row is added where there is none.
Store(o) ==
    /\ table[o.uid] = NoOrder
    /\ table' = [table EXCEPT ![o.uid] = o]
    /\ UNCHANGED <<state, uid, status, shown>>

Ask(r, u) ==
    /\ state[r] = "idle"
    /\ state' = [state EXCEPT ![r] = "pending"]
    /\ uid' = [uid EXCEPT ![r] = u]
    /\ UNCHANGED <<table, status, shown>>

Reply(r, code, order) ==
    /\ state' = [state EXCEPT ![r] = "answered"]
    /\ status' = [status EXCEPT ![r] = code]
    /\ shown' = [shown EXCEPT ![r] = order]
    /\ UNCHANGED <<table, uid>>

\* A page that needs no order, or the failure to show it.
ReplyAtOnce(r) ==
    /\ state[r] = "idle"
    /\ \E code \in {"405", "302 home", "200 home", "404", "500"} : Reply(r, code, NoOrder)

\* The row there is, that there is none, or an error.
Read(r) ==
    /\ state[r] = "pending"
    /\ \/ table[uid[r]] # NoOrder /\ Reply(r, "200", table[uid[r]])
       \/ table[uid[r]] = NoOrder /\ Reply(r, "302 not_found", NoOrder)
       \/ Reply(r, "500", NoOrder)

Leave(r) ==
    /\ state[r] = "answered"
    /\ state' = [state EXCEPT ![r] = "idle"]
    /\ uid' = [uid EXCEPT ![r] = "none"]
    /\ status' = [status EXCEPT ![r] = "none"]
    /\ shown' = [shown EXCEPT ![r] = NoOrder]
    /\ UNCHANGED table

\* The process restarts: requests are cut off, rows stay.
CutOff ==
    /\ state' = NoRequests.state /\ uid' = NoRequests.uid
    /\ status' = NoRequests.status /\ shown' = NoRequests.shown
    /\ UNCHANGED table

ReadNext ==
    \/ \E o \in Orders : Store(o)
    \/ \E r \in Requests : \/ ReplyAtOnce(r) \/ Read(r) \/ Leave(r)
                           \/ \E u \in ReadUids : Ask(r, u)
    \/ CutOff

ReadSpec == ReadInit /\ [][ReadNext]_readVars
=============================================================================
