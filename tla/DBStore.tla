------------------------------- MODULE DBStore -------------------------------
(***************************************************************************)
(* internal/store/store.go, Insert: one transaction of an orders row, a    *)
(* deliveries row, a payments row and the items, statement by statement,   *)
(* called by several goroutines over a connection pool.                    *)
(*                                                                         *)
(* PostgreSQL is external: rows of an open transaction are invisible, an   *)
(* INSERT into orders waits for an open transaction that inserted the same *)
(* order_uid, and a connection may break during any statement.  The server *)
(* may take its time to notice: until then the transaction stays open      *)
(* without a caller, and a COMMIT that was sent may still be applied.      *)
(***************************************************************************)
EXTENDS Naturals, FiniteSets, StoreContract

CONSTANTS
    Callers,    \* goroutines that call Insert
    Orders,     \* records: uid, items (how many), refusedBy (a table, or "none")
    MaxOpen,    \* db.SetMaxOpenConns
    NoOrder

ASSUME CallersAssumption == IsFiniteSet(Callers)
ASSUME MaxOpenAssumption == MaxOpen \in Nat \ {0}
ASSUME OrderAssumption ==
    \A o \in Orders :
        /\ o.items \in Nat
        /\ o.refusedBy \in {"none", "orders", "deliveries", "payments", "items"}
        /\ o.refusedBy = "items" => o.items > 0
ASSUME NoOrderAssumption == NoOrder \notin Orders

VARIABLES
    rows,       \* committed rows of the four tables
    pc,         \* "idle", "begin", a statement's table, "commit" or "done"
    order,      \* the argument of Insert
    written,    \* rows of the caller's open transaction
    err,        \* what Insert returns
    busy,       \* pool connections in use
    orphans     \* open transactions whose caller has gone: their order and
                \* rows, and whether COMMIT was sent

vars == <<rows, pc, order, written, err, busy, orphans>>

Statements == {"orders", "deliveries", "payments", "items"}

Row(table, o) == [table |-> table, order |-> o, n |-> 0]
ItemRow(o, n) == [table |-> "items", order |-> o, n |-> n]
FirstItems(o, n) == {ItemRow(o, i) : i \in 1 .. n}
SingleRows(o) == {Row(t, o) : t \in {"orders", "deliveries", "payments"}}
RowsOf(o) == SingleRows(o) \cup FirstItems(o, o.items)
AllRows == UNION {RowsOf(o) : o \in Orders}

TypeOK ==
    /\ rows \subseteq AllRows
    /\ pc \in [Callers -> Statements \cup {"idle", "begin", "commit", "done"}]
    /\ order \in [Callers -> Orders \cup {NoOrder}]
    /\ written \in [Callers -> SUBSET AllRows]
    /\ err \in [Callers -> InsertErrors]
    /\ busy \in 0 .. MaxOpen
    /\ orphans \subseteq [order : Orders, rows : SUBSET AllRows, committing : BOOLEAN]

Init ==
    /\ rows = {}
    /\ pc = [c \in Callers |-> "idle"]
    /\ order = [c \in Callers |-> NoOrder]
    /\ written = [c \in Callers |-> {}]
    /\ err = [c \in Callers |-> "nil"]
    /\ busy = 0
    /\ orphans = {}

OrderRows(S) == {r.order : r \in {x \in S : x.table = "orders"}}
Committed(uid) == \E o \in OrderRows(rows) : o.uid = uid

\* An open transaction has inserted uid.
Locked(uid) ==
    \/ \E c \in Callers : \E o \in OrderRows(written[c]) : o.uid = uid
    \/ \E x \in orphans : \E o \in OrderRows(x.rows) : o.uid = uid

-----------------------------------------------------------------------------
Call(c, o) ==
    /\ pc[c] = "idle"
    /\ pc' = [pc EXCEPT ![c] = "begin"]
    /\ order' = [order EXCEPT ![c] = o]
    /\ UNCHANGED <<rows, written, err, busy, orphans>>

\* Mutant: the pool is not limited.
BeginUnlimited(c) ==
    /\ pc[c] = "begin"
    /\ busy' = busy + 1
    /\ pc' = [pc EXCEPT ![c] = "orders"]
    /\ UNCHANGED <<rows, order, written, err, orphans>>

\* BeginTx takes a connection of the pool, waiting for one if need be.
Begin(c) ==
    /\ pc[c] = "begin"
    /\ busy < MaxOpen
    /\ busy' = busy + 1
    /\ pc' = [pc EXCEPT ![c] = "orders"]
    /\ UNCHANGED <<rows, order, written, err, orphans>>

\* Without a connection: ErrConnectionFailed, or wrapped.
BeginFails(c) ==
    /\ pc[c] = "begin"
    /\ err' \in {[err EXCEPT ![c] = e] : e \in {"conn", "other"}}
    /\ pc' = [pc EXCEPT ![c] = "done"]
    /\ UNCHANGED <<rows, order, written, busy, orphans>>

\* Mutant: no deferred Rollback, the connection is not given back.
EndMissing(c, e) ==
    /\ err' = [err EXCEPT ![c] = e]
    /\ pc' = [pc EXCEPT ![c] = "done"]
    /\ written' = [written EXCEPT ![c] = {}]
    /\ UNCHANGED busy

\* Insert returns e; the deferred Rollback, or the COMMIT before it, has ended
\* the transaction and the connection goes back to the pool (or is closed).
End(c, e) ==
    /\ err' = [err EXCEPT ![c] = e]
    /\ pc' = [pc EXCEPT ![c] = "done"]
    /\ written' = [written EXCEPT ![c] = {}]
    /\ busy' = busy - 1

Write(c, row) == written' = [written EXCEPT ![c] = @ \cup {row}]

\* Mutant: order_uid is not unique.
InsertOrdersNotUnique(c) ==
    /\ pc[c] = "orders"
    /\ IF order[c].refusedBy = "orders" THEN End(c, "other")
       ELSE /\ Write(c, Row("orders", order[c]))
            /\ pc' = [pc EXCEPT ![c] = "deliveries"]
            /\ UNCHANGED <<err, busy>>
    /\ UNCHANGED <<rows, order, orphans>>

\* The INSERT into orders: the values are checked, then the unique index.
InsertOrders(c) ==
    /\ pc[c] = "orders"
    /\ LET o == order[c]
       IN  IF o.refusedBy = "orders" THEN End(c, "other")
           ELSE /\ ~Locked(o.uid)
                /\ IF Committed(o.uid) THEN End(c, "exists")
                   ELSE /\ Write(c, Row("orders", o))
                        /\ pc' = [pc EXCEPT ![c] = "deliveries"]
                        /\ UNCHANGED <<err, busy>>
    /\ UNCHANGED <<rows, order, orphans>>

\* The INSERT into deliveries or payments.
InsertPart(c, table, next) ==
    /\ pc[c] = table
    /\ IF order[c].refusedBy = table THEN End(c, "other")
       ELSE /\ Write(c, Row(table, order[c]))
            /\ pc' = [pc EXCEPT ![c] = next]
            /\ UNCHANGED <<err, busy>>
    /\ UNCHANGED <<rows, order, orphans>>

ItemsDone(c) == Cardinality({r \in written[c] : r.table = "items"})

\* Mutant: the loop over the items uses the pool instead of the transaction.
InsertItemOutsideTx(c) ==
    /\ pc[c] = "items"
    /\ ItemsDone(c) < order[c].items
    /\ Write(c, ItemRow(order[c], ItemsDone(c) + 1))
    /\ rows' = rows \cup {ItemRow(order[c], ItemsDone(c) + 1)}
    /\ UNCHANGED <<pc, order, err, busy, orphans>>

\* One turn of the loop over the items.
InsertItem(c) ==
    /\ pc[c] = "items"
    /\ ItemsDone(c) < order[c].items
    /\ IF order[c].refusedBy = "items" THEN End(c, "other")
       ELSE /\ Write(c, ItemRow(order[c], ItemsDone(c) + 1))
            /\ UNCHANGED <<pc, err, busy>>
    /\ UNCHANGED <<rows, order, orphans>>

ItemsEnd(c) ==
    /\ pc[c] = "items"
    /\ ItemsDone(c) = order[c].items
    /\ pc' = [pc EXCEPT ![c] = "commit"]
    /\ UNCHANGED <<rows, order, written, err, busy, orphans>>

Commit(c) ==
    /\ pc[c] = "commit"
    /\ rows' = rows \cup written[c]
    /\ End(c, "nil")
    /\ UNCHANGED <<order, orphans>>

\* The server ends the transaction of a broken connection now, or later.
Orphan(c, committing) ==
    IF written[c] = {} THEN {orphans}
    ELSE {orphans, orphans \cup {[order |-> order[c], rows |-> written[c],
                                   committing |-> committing]}}

\* The connection breaks, or the context is cancelled, in a statement before
\* COMMIT: the errors isConnectionError recognises become ErrConnectionFailed.
StatementBreaks(c) ==
    /\ pc[c] \in Statements
    /\ \E e \in {"conn", "other"} : End(c, e)
    /\ orphans' \in Orphan(c, FALSE)
    /\ UNCHANGED <<rows, order>>

\* Mutant: the error of COMMIT is classified like that of a statement.
CommitBreaksClassified(c) ==
    /\ pc[c] = "commit"
    /\ \E e \in {"conn", "other"} : End(c, e)
    /\ \/ rows' = rows \cup written[c] /\ UNCHANGED orphans
       \/ UNCHANGED rows /\ orphans' \in Orphan(c, TRUE)
    /\ UNCHANGED order

\* The connection breaks in COMMIT, whose error is returned as it is: the
\* server has applied it, has not, or has yet to decide.
CommitBreaks(c) ==
    /\ pc[c] = "commit"
    /\ End(c, "other")
    /\ \/ rows' = rows \cup written[c] /\ UNCHANGED orphans
       \/ UNCHANGED rows /\ orphans' \in Orphan(c, TRUE)
    /\ UNCHANGED order

\* The caller takes the result.
Return(c) ==
    /\ pc[c] = "done"
    /\ pc' = [pc EXCEPT ![c] = "idle"]
    /\ order' = [order EXCEPT ![c] = NoOrder]
    /\ err' = [err EXCEPT ![c] = "nil"]
    /\ UNCHANGED <<rows, written, busy, orphans>>

\* The server ends an abandoned transaction.
OrphanEnds(x) ==
    /\ x \in orphans
    /\ orphans' = orphans \ {x}
    /\ \/ UNCHANGED rows
       \/ x.committing /\ rows' = rows \cup x.rows
    /\ UNCHANGED <<pc, order, written, err, busy>>

Step(c) ==
    \/ Begin(c) \/ InsertOrders(c)
    \/ InsertPart(c, "deliveries", "payments") \/ InsertPart(c, "payments", "items")
    \/ InsertItem(c) \/ ItemsEnd(c) \/ Commit(c) \/ Return(c)

Next ==
    \/ \E c \in Callers : \/ Step(c) \/ BeginFails(c) \/ StatementBreaks(c) \/ CommitBreaks(c)
                          \/ \E o \in Orders : Call(c, o)
    \/ \E x \in orphans : OrphanEnds(x)

Spec == Init /\ [][Next]_vars

\* The database answers a statement it can answer, a caller takes its next
\* step, and the server gives up an abandoned transaction in the end.
Fairness ==
    /\ \A c \in Callers : SF_vars(Begin(c)) /\ SF_vars(InsertOrders(c)) /\ WF_vars(Step(c))
    /\ \A o \in Orders :
        WF_vars(\E x \in orphans : o \in OrderRows(x.rows) /\ OrphanEnds(x))

FairSpec == Spec /\ Fairness

-----------------------------------------------------------------------------
\* A reader (GetOrder and GetLatestOrders join the four tables) sees an order
\* with all of its parts or not at all, and one order per UID, whichever
\* statement failed and whenever the server noticed.
AllOrNothing ==
    /\ \A r \in rows : RowsOf(r.order) \subseteq rows
    /\ \A o, q \in OrderRows(rows) : o.uid = q.uid => o = q

\* Every Insert returns although calls wait for the pool, for each other's
\* order_uid and for transactions nobody owns any more: no connection is lost
\* on an error path and no two calls wait for each other.
InsertReturns == \A c \in Callers : pc[c] = "begin" ~> pc[c] = "idle"

\* A call that can do nothing but wait, unless its context or connection ends:
\* the pool is empty, or another transaction has inserted its order_uid.
Blocked(c) ==
    \/ pc[c] = "begin" /\ busy = MaxOpen
    \/ pc[c] = "orders" /\ order[c].refusedBy # "orders" /\ Locked(order[c].uid)

\* Someone who has inserted an order of this UID goes on, or was abandoned to
\* the server.
MovesOn(u) ==
    \/ \E d \in Callers : pc[d] \in Statements \cup {"commit"} /\ ~Blocked(d) /\ order[d].uid = u
    \/ \E x \in orphans : x.order.uid = u

\* Calls never wait for each other in a circle, with any pool, however small: a
\* call that waits for an order_uid has a connection already, and whoever has
\* that order_uid is not waiting, or has been abandoned to the server; a call
\* that waits for the pool waits for calls that have a connection, never for
\* connections that nobody gives back.
NoCircularWait ==
    \A c \in Callers : Blocked(c) =>
        IF pc[c] = "orders" THEN MovesOn(order[c].uid)
        ELSE \E d \in Callers : pc[d] \in Statements \cup {"commit"}

\* What a caller sees is module OrderStore: the statements between BEGIN and
\* COMMIT are one step, and a call that fails with ErrConnectionFailed or
\* ErrAlreadyExists leaves nothing behind, so that it is safe to retry it.
UidOf(o) == o.uid
Accepted(o) == o.refusedBy = "none"

CallState ==
    [c \in Callers |-> IF pc[c] = "idle" THEN "idle"
                       ELSE IF pc[c] = "done" THEN "returned" ELSE "called"]

InDoubt == UNION {OrderRows(x.rows) : x \in {y \in orphans : y.committing}}

Contract == INSTANCE OrderStore WITH
    stored <- OrderRows(rows), state <- CallState, arg <- order, ret <- err, doubt <- InDoubt

ImplementsOrderStore == Contract!StoreSpec

\* The table that readers see grows row by row: a committed order is never
\* replaced by another under its UID, and every COMMIT, applied at once or
\* late, is a Store step of module OrderReads.
OrderTable ==
    [u \in {o.uid : o \in Orders} |->
        IF Committed(u) THEN CHOOSE o \in OrderRows(rows) : o.uid = u ELSE NoOrder]

Readers == INSTANCE OrderReads WITH
    Requests <- {}, table <- OrderTable,
    state <- <<>>, uid <- <<>>, status <- <<>>, shown <- <<>>

CommitsAddRows == [][\E o \in Orders : Readers!Store(o)]_OrderTable

-----------------------------------------------------------------------------
(* The inductive invariant.                                                 *)

\* The callers that have a connection, and those whose transaction holds the
\* index entry of their order.
Connected == {c \in Callers : pc[c] \in Statements \cup {"commit"}}
Holding == {c \in Callers : pc[c] \in {"deliveries", "payments", "items", "commit"}}

\* The rows a caller has written, and what that says of its order.
WrittenSoFar(c) ==
    LET o == order[c]
    IN  /\ pc[c] # "idle" => o \in Orders
        /\ c \notin Holding => written[c] = {}
        /\ pc[c] = "deliveries" =>
            written[c] = {Row("orders", o)} /\ o.refusedBy # "orders"
        /\ pc[c] = "payments" =>
            /\ written[c] = {Row("orders", o), Row("deliveries", o)}
            /\ o.refusedBy \notin {"orders", "deliveries"}
        /\ pc[c] = "items" =>
            /\ ItemsDone(c) \in 0 .. o.items
            /\ written[c] = SingleRows(o) \cup FirstItems(o, ItemsDone(c))
            /\ o.refusedBy \in {"none", "items"}
            /\ o.refusedBy = "items" => ItemsDone(c) = 0
        /\ pc[c] = "commit" => written[c] = RowsOf(o) /\ o.refusedBy = "none"

\* An abandoned transaction is one of a caller that was here.
OrphanSound(x) ==
    /\ Row("orders", x.order) \in x.rows
    /\ x.rows \subseteq RowsOf(x.order)
    /\ x.committing => x.rows = RowsOf(x.order) /\ x.order.refusedBy = "none"

\* The unique index: of the committed order and the open transactions, one at
\* most has a UID.
UidsHeldOnce ==
    /\ \A c \in Holding : ~Committed(order[c].uid)
    /\ \A x \in orphans : ~Committed(x.order.uid)
    /\ \A c, d \in Holding : order[c].uid = order[d].uid => c = d
    /\ \A x, y \in orphans : x.order.uid = y.order.uid => x = y
    /\ \A c \in Holding, x \in orphans : order[c].uid # x.order.uid

\* Every row and every connection is accounted for: a transaction, open or
\* abandoned, has written exactly what its statements so far say, no two of
\* them have a UID in common, and the pool counts the callers that are inside
\* one.
StoreInv ==
    /\ TypeOK
    /\ busy = Cardinality(Connected)
    /\ \A c \in Callers : WrittenSoFar(c)
    /\ \A x \in orphans : OrphanSound(x)
    /\ UidsHeldOnce
    /\ AllOrNothing
=============================================================================
