---------------------------- MODULE DBStoreProofs ----------------------------
(***************************************************************************)
(* Proofs about module DBStore: its inductive invariant, the refinement of *)
(* OrderStore, that calls never wait in a circle, and that readers are     *)
(* shown the table of module OrderReads.                                   *)
(***************************************************************************)
EXTENDS DBStore, FiniteSetTheorems, TLAPS

USE DEF Statements, InsertErrors

-----------------------------------------------------------------------------
(* Rows.                                                                    *)

\* A row belongs to one order.
LEMMA RowOwner ==
    ASSUME NEW o, NEW r \in RowsOf(o)
    PROVE  r.order = o
BY DEF RowsOf, SingleRows, FirstItems, Row, ItemRow

\* Any part of an order's rows with the row of table orders shows that order.
LEMMA OneOrderRow ==
    ASSUME NEW o, NEW S, S \subseteq RowsOf(o), Row("orders", o) \in S
    PROVE  OrderRows(S) = {o}
<1>1. \A r \in S : r.order = o
    BY RowOwner
<1>2. Row("orders", o).table = "orders" /\ Row("orders", o).order = o
    BY DEF Row
<1>3. OrderRows(S) \subseteq {o}
    BY <1>1 DEF OrderRows
<1>4. o \in OrderRows(S)
    BY <1>2 DEF OrderRows
<1> QED BY <1>3, <1>4

LEMMA FullOrder ==
    ASSUME NEW o
    PROVE  Row("orders", o) \in RowsOf(o) /\ OrderRows(RowsOf(o)) = {o}
<1>1. Row("orders", o) \in RowsOf(o)
    BY DEF RowsOf, SingleRows
<1> QED BY <1>1, OneOrderRow

LEMMA OrderRowsUnion ==
    ASSUME NEW S, NEW T
    PROVE  OrderRows(S \cup T) = OrderRows(S) \cup OrderRows(T)
BY DEF OrderRows

\* A whole order whose UID is not committed may be.
LEMMA CommitWhole ==
    ASSUME AllOrNothing, NEW o, ~Committed(o.uid), rows' = rows \cup RowsOf(o)
    PROVE  /\ AllOrNothing'
           /\ OrderRows(rows') = OrderRows(rows) \cup {o}
<1>1. OrderRows(rows') = OrderRows(rows) \cup {o}
  <2>1. OrderRows(rows \cup RowsOf(o)) = OrderRows(rows) \cup OrderRows(RowsOf(o))
      BY OrderRowsUnion
  <2>2. OrderRows(RowsOf(o)) = {o}
      BY FullOrder
  <2> QED BY <2>1, <2>2 DEF OrderRows
<1>2. ASSUME NEW r \in rows' PROVE RowsOf(r.order) \subseteq rows'
    BY <1>2, RowOwner DEF AllOrNothing
<1>3. ASSUME NEW p \in OrderRows(rows'), NEW q \in OrderRows(rows'), p.uid = q.uid
      PROVE  p = q
    BY <1>1, <1>3 DEF AllOrNothing, Committed
<1> QED BY <1>1, <1>2, <1>3 DEF AllOrNothing

-----------------------------------------------------------------------------
(* The pool.                                                                *)

LEMMA ConnectedFinite == IsFiniteSet(Connected)
BY CallersAssumption, FS_Subset DEF Connected

LEMMA PoolGrows ==
    ASSUME TypeOK, busy = Cardinality(Connected), busy < MaxOpen, busy' = busy + 1,
           NEW c \in Callers, c \notin Connected, Connected' = Connected \cup {c}
    PROVE  busy' \in 0 .. MaxOpen /\ busy' = Cardinality(Connected')
<1>1. Cardinality(Connected') = Cardinality(Connected) + 1
    BY ConnectedFinite, FS_AddElement
<1> QED BY <1>1, MaxOpenAssumption DEF TypeOK

LEMMA PoolShrinks ==
    ASSUME TypeOK, busy = Cardinality(Connected), busy' = busy - 1,
           NEW c \in Connected, Connected' = Connected \ {c}
    PROVE  busy' \in 0 .. MaxOpen /\ busy' = Cardinality(Connected')
<1>1. Cardinality(Connected') = Cardinality(Connected) - 1
    BY ConnectedFinite, FS_RemoveElement
<1>2. IsFiniteSet(Connected')
    BY ConnectedFinite, FS_RemoveElement
<1>3. Cardinality(Connected') \in Nat
    BY <1>2, FS_CardinalityType
<1> QED BY <1>1, <1>3, MaxOpenAssumption DEF TypeOK

-----------------------------------------------------------------------------
(* The callers that a step does not concern.                                *)

LEMMA OthersKept ==
    ASSUME NEW d \in Callers, WrittenSoFar(d),
           pc'[d] = pc[d], written'[d] = written[d], order'[d] = order[d]
    PROVE  WrittenSoFar(d)'
<1>1. d \in Holding' <=> d \in Holding
    BY DEF Holding
<1>2. ItemsDone(d)' = ItemsDone(d)
    BY DEF ItemsDone
<1> QED BY <1>1, <1>2 DEF WrittenSoFar

-----------------------------------------------------------------------------
(* The end of a call, whatever the reason.                                  *)

Leave(c) ==
    /\ pc' = [pc EXCEPT ![c] = "done"]
    /\ written' = [written EXCEPT ![c] = {}]
    /\ busy' = busy - 1
    /\ order' = order
    /\ err' \in [Callers -> InsertErrors]

LEMMA EndLeaves ==
    ASSUME TypeOK, NEW c \in Callers, NEW e \in InsertErrors, End(c, e), order' = order
    PROVE  Leave(c)
BY DEF End, Leave, TypeOK

LEMMA AfterLeave ==
    ASSUME StoreInv, NEW c \in Connected, Leave(c)
    PROVE  /\ pc' \in [Callers -> Statements \cup {"idle", "begin", "commit", "done"}]
           /\ written' \in [Callers -> SUBSET AllRows]
           /\ order' \in [Callers -> Orders \cup {NoOrder}]
           /\ err' \in [Callers -> InsertErrors]
           /\ busy' \in 0 .. MaxOpen /\ busy' = Cardinality(Connected')
           /\ Holding' = Holding \ {c}
           /\ \A d \in Callers : WrittenSoFar(d)'
<1> USE DEF Leave
<1>0. c \in Callers /\ TypeOK
    BY DEF StoreInv, Connected
<1>1. Connected' = Connected \ {c}
    BY <1>0 DEF Connected, TypeOK
<1>2. busy' \in 0 .. MaxOpen /\ busy' = Cardinality(Connected')
    BY <1>0, <1>1, PoolShrinks DEF StoreInv
<1>3. Holding' = Holding \ {c}
    BY <1>0 DEF Holding, TypeOK
<1>4. ASSUME NEW d \in Callers PROVE WrittenSoFar(d)'
  <2>1. WrittenSoFar(d)
      BY DEF StoreInv
  <2>2. CASE d = c
    <3>1. order[c] \in Orders
        BY <2>1, <2>2 DEF WrittenSoFar, Connected
    <3> QED BY <1>0, <2>2, <3>1 DEF WrittenSoFar, TypeOK, Holding
  <2>3. CASE d # c
    <3>1. pc'[d] = pc[d] /\ written'[d] = written[d] /\ order'[d] = order[d]
        BY <1>0, <2>3 DEF TypeOK
    <3> QED BY <2>1, <3>1, OthersKept
  <2> QED BY <2>2, <2>3
<1>5. pc' \in [Callers -> Statements \cup {"idle", "begin", "commit", "done"}]
    BY <1>0 DEF TypeOK
<1>6. written' \in [Callers -> SUBSET AllRows]
    BY <1>0 DEF TypeOK
<1> QED BY <1>0, <1>2, <1>3, <1>4, <1>5, <1>6 DEF TypeOK

-----------------------------------------------------------------------------
(* Open transactions.                                                       *)

\* A caller that holds an index entry has written its order's rows only.
LEMMA HoldingRows ==
    ASSUME StoreInv, NEW c \in Holding
    PROVE  /\ c \in Callers /\ c \in Connected /\ order[c] \in Orders
           /\ Row("orders", order[c]) \in written[c]
           /\ written[c] \subseteq RowsOf(order[c])
           /\ OrderRows(written[c]) = {order[c]}
<1>0. c \in Callers /\ WrittenSoFar(c) /\ c \in Connected
    BY DEF StoreInv, Holding, Connected
<1>1. order[c] \in Orders /\ order[c].items \in Nat
    BY <1>0, OrderAssumption DEF WrittenSoFar, Holding
<1>2. Row("orders", order[c]) \in written[c] /\ written[c] \subseteq RowsOf(order[c])
  <2>1. CASE pc[c] \in {"deliveries", "payments"}
      BY <1>0, <2>1 DEF WrittenSoFar, RowsOf, SingleRows
  <2>2. CASE pc[c] = "items"
    <3>1. FirstItems(order[c], ItemsDone(c)) \subseteq FirstItems(order[c], order[c].items)
        BY <1>0, <1>1, <2>2 DEF WrittenSoFar, FirstItems
    <3> QED BY <1>0, <2>2, <3>1 DEF WrittenSoFar, RowsOf, SingleRows
  <2>3. CASE pc[c] = "commit"
      BY <1>0, <2>3, FullOrder DEF WrittenSoFar
  <2> QED BY <2>1, <2>2, <2>3 DEF Holding
<1> QED BY <1>0, <1>1, <1>2, OneOrderRow

LEMMA OrphanRows ==
    ASSUME StoreInv, NEW x \in orphans
    PROVE  x.order \in Orders /\ OrderRows(x.rows) = {x.order}
BY OneOrderRow DEF StoreInv, TypeOK, OrphanSound

\* An insert that need not wait meets no open transaction of its UID.
LEMMA NotLocked ==
    ASSUME StoreInv, NEW uid, ~Locked(uid)
    PROVE  /\ \A c \in Holding : order[c].uid # uid
           /\ \A x \in orphans : x.order.uid # uid
<1>1. ASSUME NEW c \in Holding PROVE order[c].uid # uid
    BY <1>1, HoldingRows DEF Locked
<1>2. ASSUME NEW x \in orphans PROVE x.order.uid # uid
    BY <1>2, OrphanRows DEF Locked
<1> QED BY <1>1, <1>2

-----------------------------------------------------------------------------
(* Calls that end.                                                          *)

\* The call ends, and nothing of it is left.
LEMMA LeaveNothing ==
    ASSUME StoreInv, NEW c \in Connected, Leave(c), rows' = rows, orphans' = orphans
    PROVE  StoreInv'
<1>1. TypeOK'
    BY AfterLeave DEF StoreInv, TypeOK
<1>2. UidsHeldOnce'
    BY AfterLeave DEF StoreInv, UidsHeldOnce, Committed, OrderRows, Leave
<1>3. AllOrNothing' /\ \A x \in orphans' : OrphanSound(x)'
    BY DEF StoreInv, AllOrNothing, OrderRows, OrphanSound
<1> QED BY <1>1, <1>2, <1>3, AfterLeave DEF StoreInv

\* The call ends and its transaction stays open.
LEMMA LeaveOrphan ==
    ASSUME StoreInv, NEW c \in Holding, Leave(c), rows' = rows,
           NEW committing \in BOOLEAN, committing => pc[c] = "commit",
           orphans' = orphans \cup {[order |-> order[c], rows |-> written[c],
                                     committing |-> committing]}
    PROVE  StoreInv'
<1> DEFINE x == [order |-> order[c], rows |-> written[c], committing |-> committing]
<1>0. /\ c \in Connected /\ c \in Callers /\ order[c] \in Orders
      /\ written[c] \subseteq AllRows
      /\ Row("orders", order[c]) \in written[c]
      /\ written[c] \subseteq RowsOf(order[c])
    BY HoldingRows DEF StoreInv, TypeOK
<1>1. TypeOK'
  <2>1. x \in [order : Orders, rows : SUBSET AllRows, committing : BOOLEAN]
      BY <1>0
  <2> QED BY <1>0, <2>1, AfterLeave DEF StoreInv, TypeOK
<1>2. Holding' = Holding \ {c} /\ order' = order
    BY <1>0, AfterLeave DEF Leave
<1>3. UidsHeldOnce'
  <2>1. \A uid : Committed(uid)' <=> Committed(uid)
      BY DEF Committed, OrderRows
  <2>2. \A y \in orphans : order[c].uid # y.order.uid
      BY DEF StoreInv, UidsHeldOnce
  <2>3. \A d \in Holding' : d # c /\ d \in Holding /\ order[d].uid # order[c].uid
      BY <1>2 DEF StoreInv, UidsHeldOnce
  <2>4. x.order = order[c] /\ orphans' = orphans \cup {x}
      OBVIOUS
  <2>5. \A d \in Holding' : ~Committed(order[d].uid)'
      BY <1>2, <2>1, <2>3 DEF StoreInv, UidsHeldOnce
  <2>6. \A y \in orphans' : ~Committed(y.order.uid)'
      BY <2>1, <2>4 DEF StoreInv, UidsHeldOnce
  <2>7. \A d, e \in Holding' : order'[d].uid = order'[e].uid => d = e
      BY <1>2 DEF StoreInv, UidsHeldOnce
  <2>8. \A y, z \in orphans' : y.order.uid = z.order.uid => y = z
      BY <2>2, <2>4 DEF StoreInv, UidsHeldOnce
  <2>9. \A d \in Holding', y \in orphans' : order'[d].uid # y.order.uid
      BY <1>2, <2>3, <2>4 DEF StoreInv, UidsHeldOnce
  <2> QED BY <2>5, <2>6, <2>7, <2>8, <2>9 DEF UidsHeldOnce
<1>4. \A y \in orphans' : OrphanSound(y)'
  <2>1. committing => written[c] = RowsOf(order[c]) /\ order[c].refusedBy = "none"
      BY <1>0 DEF StoreInv, WrittenSoFar
  <2>2. OrphanSound(x)
      BY <1>0, <2>1 DEF OrphanSound
  <2> QED BY <2>2 DEF StoreInv, OrphanSound
<1>5. AllOrNothing'
    BY DEF StoreInv, AllOrNothing, OrderRows
<1> QED BY <1>0, <1>1, <1>3, <1>4, <1>5, AfterLeave DEF StoreInv

\* The call ends and its transaction is committed.
LEMMA LeaveCommitted ==
    ASSUME StoreInv, NEW c \in Holding, pc[c] = "commit", Leave(c),
           rows' = rows \cup written[c], orphans' = orphans
    PROVE  StoreInv' /\ OrderRows(rows') = OrderRows(rows) \cup {order[c]}
<1>0. /\ c \in Connected /\ c \in Callers /\ order[c] \in Orders
      /\ written[c] = RowsOf(order[c]) /\ written[c] \subseteq AllRows
    BY HoldingRows DEF StoreInv, WrittenSoFar, TypeOK
<1>1. TypeOK'
    BY <1>0, AfterLeave DEF StoreInv, TypeOK
<1>2. AllOrNothing' /\ OrderRows(rows') = OrderRows(rows) \cup {order[c]}
    BY <1>0, CommitWhole DEF StoreInv, UidsHeldOnce
<1>3. UidsHeldOnce'
  <2>1. \A uid : Committed(uid)' => Committed(uid) \/ uid = order[c].uid
      BY <1>2 DEF Committed
  <2>2. Holding' = Holding \ {c} /\ order' = order
      BY <1>0, AfterLeave DEF Leave
  <2>3. \A d \in Holding' : ~Committed(order[d].uid)'
      BY <2>1, <2>2 DEF StoreInv, UidsHeldOnce
  <2>4. \A y \in orphans' : ~Committed(y.order.uid)'
      BY <2>1 DEF StoreInv, UidsHeldOnce
  <2> QED BY <2>2, <2>3, <2>4 DEF StoreInv, UidsHeldOnce
<1> QED BY <1>0, <1>1, <1>2, <1>3, AfterLeave DEF StoreInv, OrphanSound

-----------------------------------------------------------------------------
(* The steps in between.                                                    *)

\* A step that opens and ends no transaction.
LEMMA NoUidChanges ==
    ASSUME StoreInv, TypeOK', busy' = Cardinality(Connected'), rows' = rows,
           orphans' = orphans, Holding' = Holding,
           \A c \in Holding : order'[c] = order[c], \A d \in Callers : WrittenSoFar(d)'
    PROVE  StoreInv'
<1>1. UidsHeldOnce'
    BY DEF StoreInv, UidsHeldOnce, Committed, OrderRows
<1>2. AllOrNothing' /\ \A x \in orphans' : OrphanSound(x)'
    BY DEF StoreInv, AllOrNothing, OrderRows, OrphanSound
<1> QED BY <1>1, <1>2 DEF StoreInv

LEMMA OutsideSteps ==
    ASSUME StoreInv, NEW c \in Callers,
           (\E o \in Orders : Call(c, o)) \/ BeginFails(c) \/ Return(c)
    PROVE  StoreInv'
<1>0. TypeOK
    BY DEF StoreInv
<1>1. /\ pc[c] \in {"idle", "begin", "done"} /\ pc'[c] \in {"idle", "begin", "done"}
      /\ \A d \in Callers \ {c} : pc'[d] = pc[d] /\ order'[d] = order[d]
      /\ written' = written /\ rows' = rows /\ orphans' = orphans /\ busy' = busy
    BY <1>0 DEF Call, BeginFails, Return, TypeOK
<1>2. TypeOK'
    BY <1>0 DEF Call, BeginFails, Return, TypeOK
<1>3. Holding' = Holding /\ Connected' = Connected /\ c \notin Holding
    BY <1>1 DEF Holding, Connected
<1>4. pc'[c] # "idle" => order'[c] \in Orders
    BY <1>0 DEF Call, BeginFails, Return, TypeOK, StoreInv, WrittenSoFar
<1>5. WrittenSoFar(c)'
    BY <1>1, <1>3, <1>4 DEF StoreInv, WrittenSoFar
<1>6. \A d \in Callers : WrittenSoFar(d)'
    BY <1>1, <1>5, OthersKept DEF StoreInv
<1>7. \A d \in Holding : order'[d] = order[d]
    BY <1>1, <1>3 DEF Holding
<1> QED BY <1>1, <1>2, <1>3, <1>6, <1>7, NoUidChanges DEF StoreInv

LEMMA BeginStep ==
    ASSUME StoreInv, NEW c \in Callers, Begin(c)
    PROVE  StoreInv'
<1>0. TypeOK
    BY DEF StoreInv
<1>1. /\ pc[c] = "begin" /\ pc'[c] = "orders"
      /\ \A d \in Callers \ {c} : pc'[d] = pc[d]
      /\ order' = order /\ written' = written /\ rows' = rows /\ orphans' = orphans
    BY <1>0 DEF Begin, TypeOK
<1>2. Holding' = Holding /\ Connected' = Connected \cup {c} /\ c \notin Connected
    BY <1>1 DEF Holding, Connected
<1>3. busy' \in 0 .. MaxOpen /\ busy' = Cardinality(Connected')
    BY <1>0, <1>2, PoolGrows DEF StoreInv, Begin
<1>4. TypeOK'
    BY <1>0, <1>3 DEF Begin, TypeOK
<1>5. WrittenSoFar(c)'
    BY <1>1, <1>2 DEF StoreInv, WrittenSoFar, Holding
<1>6. \A d \in Callers : WrittenSoFar(d)'
    BY <1>1, <1>5, OthersKept DEF StoreInv
<1> QED BY <1>1, <1>2, <1>3, <1>4, <1>6, NoUidChanges

\* A statement of a transaction that goes on: c is at pc to next, with row (if
\* any) written.
LEMMA StatementKeepsTypes ==
    ASSUME StoreInv, NEW c \in Connected, NEW next \in {"deliveries", "payments", "items", "commit"},
           pc' = [pc EXCEPT ![c] = next], NEW S \in SUBSET AllRows,
           written' = [written EXCEPT ![c] = @ \cup S],
           UNCHANGED <<rows, order, err, busy, orphans>>
    PROVE  /\ TypeOK' /\ busy' = Cardinality(Connected')
           /\ c \in Callers /\ pc'[c] = next /\ written'[c] = written[c] \cup S
           /\ Holding' = Holding \cup {c}
           /\ WrittenSoFar(c)' => \A d \in Callers : WrittenSoFar(d)'
<1>0. TypeOK /\ c \in Callers
    BY DEF StoreInv, Connected
<1>1. /\ pc'[c] = next /\ written'[c] = written[c] \cup S
      /\ \A d \in Callers \ {c} : pc'[d] = pc[d] /\ written'[d] = written[d]
    BY <1>0 DEF TypeOK
<1>2. TypeOK'
    BY <1>0 DEF TypeOK
<1>3. Connected' = Connected /\ Holding' = Holding \cup {c}
    BY <1>0, <1>1 DEF Connected, Holding
<1>4. ASSUME WrittenSoFar(c)', NEW d \in Callers PROVE WrittenSoFar(d)'
    BY <1>1, <1>4, OthersKept DEF StoreInv
<1> QED BY <1>0, <1>1, <1>2, <1>3, <1>4 DEF StoreInv

LEMMA InsertOrdersStep ==
    ASSUME StoreInv, NEW c \in Callers, InsertOrders(c)
    PROVE  StoreInv'
<1> DEFINE o == order[c]
<1>0. /\ TypeOK /\ pc[c] = "orders" /\ c \in Connected /\ c \notin Holding
      /\ o \in Orders /\ written[c] = {}
    BY DEF StoreInv, InsertOrders, Connected, Holding, WrittenSoFar
<1>1. CASE \E e \in {"other", "exists"} : End(c, e)
    BY <1>0, <1>1, EndLeaves, LeaveNothing DEF InsertOrders
<1>2. CASE /\ o.refusedBy # "orders" /\ ~Locked(o.uid) /\ ~Committed(o.uid)
           /\ Write(c, Row("orders", o)) /\ pc' = [pc EXCEPT ![c] = "deliveries"]
           /\ UNCHANGED <<err, busy>>
  <2>1. {Row("orders", o)} \subseteq AllRows
      BY <1>0, FullOrder DEF AllRows
  <2>2. /\ TypeOK' /\ busy' = Cardinality(Connected')
        /\ pc'[c] = "deliveries" /\ written'[c] = written[c] \cup {Row("orders", o)}
        /\ Holding' = Holding \cup {c}
        /\ WrittenSoFar(c)' => \A d \in Callers : WrittenSoFar(d)'
    <3>1. {Row("orders", o)} \in SUBSET AllRows
        BY <2>1
    <3>2. written' = [written EXCEPT ![c] = @ \cup {Row("orders", o)}]
        BY <1>2 DEF Write
    <3>3. UNCHANGED <<rows, order, err, busy, orphans>>
        BY <1>2 DEF InsertOrders
    <3>4. c \in Connected /\ pc' = [pc EXCEPT ![c] = "deliveries"]
        BY <1>0, <1>2
    <3> HIDE DEF o
    <3> QED BY <3>1, <3>2, <3>3, <3>4, StatementKeepsTypes
  <2>3. order' = order /\ rows' = rows /\ orphans' = orphans
      BY DEF InsertOrders
  <2>4. WrittenSoFar(c)'
      BY <1>0, <1>2, <2>2, <2>3 DEF WrittenSoFar, Holding
  <2>5. /\ \A d \in Holding : order[d].uid # o.uid
        /\ \A x \in orphans : x.order.uid # o.uid
      BY <1>2, NotLocked
  <2>6. UidsHeldOnce'
      BY <1>2, <2>2, <2>3, <2>5 DEF StoreInv, UidsHeldOnce, Committed, OrderRows
  <2>7. AllOrNothing' /\ \A x \in orphans' : OrphanSound(x)'
      BY <2>3 DEF StoreInv, AllOrNothing, OrderRows, OrphanSound
  <2> QED BY <2>2, <2>4, <2>6, <2>7 DEF StoreInv
<1> QED BY <1>1, <1>2 DEF InsertOrders

\* Before the loop no item is written.
LEMMA NoItemYet ==
    ASSUME NEW o
    PROVE  /\ {r \in SingleRows(o) : r.table = "items"} = {}
           /\ Cardinality({r \in SingleRows(o) : r.table = "items"}) = 0
           /\ FirstItems(o, 0) = {}
<1>1. {r \in SingleRows(o) : r.table = "items"} = {}
    BY DEF SingleRows, Row
<1>2. FirstItems(o, 0) = {}
    BY DEF FirstItems
<1> QED BY <1>1, <1>2, FS_EmptySet

LEMMA InsertPartStep ==
    ASSUME StoreInv, NEW c \in Callers,
           InsertPart(c, "deliveries", "payments") \/ InsertPart(c, "payments", "items")
    PROVE  StoreInv'
<1> DEFINE o == order[c]
<1>0. /\ TypeOK /\ pc[c] \in {"deliveries", "payments"} /\ c \in Connected /\ c \in Holding
      /\ o \in Orders /\ o.items \in Nat /\ WrittenSoFar(c)
      /\ order' = order /\ rows' = rows /\ orphans' = orphans
    BY OrderAssumption DEF StoreInv, InsertPart, Connected, Holding, WrittenSoFar
<1>1. CASE End(c, "other")
    BY <1>0, <1>1, EndLeaves, LeaveNothing
<1>2. ASSUME NEW table \in {"deliveries", "payments"}, pc[c] = table, o.refusedBy # table,
             NEW next, next = IF table = "deliveries" THEN "payments" ELSE "items",
             Write(c, Row(table, o)), pc' = [pc EXCEPT ![c] = next],
             UNCHANGED <<err, busy>>
      PROVE  StoreInv'
  <2>1. {Row(table, o)} \subseteq AllRows
      BY <1>0 DEF AllRows, RowsOf, SingleRows
  <2>2. /\ TypeOK' /\ busy' = Cardinality(Connected')
        /\ pc'[c] = next /\ written'[c] = written[c] \cup {Row(table, o)}
        /\ Holding' = Holding \cup {c}
        /\ WrittenSoFar(c)' => \A d \in Callers : WrittenSoFar(d)'
    <3>1. {Row(table, o)} \in SUBSET AllRows
        BY <2>1
    <3>2. written' = [written EXCEPT ![c] = @ \cup {Row(table, o)}]
        BY <1>2, <1>0 DEF Write
    <3>3. UNCHANGED <<rows, order, err, busy, orphans>>
        BY <1>2, <1>0
    <3>4. c \in Connected /\ pc' = [pc EXCEPT ![c] = next]
        BY <1>0, <1>2, <1>0
    <3> HIDE DEF o
    <3> QED BY <3>1, <3>2, <3>3, <3>4, <1>2, StatementKeepsTypes
  <2>3. WrittenSoFar(c)'
    <3>1. CASE table = "deliveries"
        BY <1>0, <1>2, <2>2, <3>1 DEF WrittenSoFar, Holding
    <3>2. CASE table = "payments"
      <4>1. written'[c] = SingleRows(o)
          BY <1>0, <1>2, <2>2, <3>2 DEF WrittenSoFar, SingleRows
      <4>2. ItemsDone(c)' = 0
          BY <4>1, NoItemYet DEF ItemsDone
      <4>3. written'[c] = SingleRows(o) \cup FirstItems(o, 0)
          BY <4>1, NoItemYet
      <4>4. o.refusedBy \in {"none", "items"}
          BY <1>0, <1>2, <3>2, OrderAssumption DEF WrittenSoFar
      <4> QED BY <1>0, <1>2, <2>2, <3>2, <4>2, <4>3, <4>4 DEF WrittenSoFar, Holding
    <3> QED BY <1>2, <3>1, <3>2
  <2>4. Holding' = Holding
      BY <1>0, <2>2
  <2> QED BY <1>0, <2>2, <2>3, <2>4, NoUidChanges
<1>3. ASSUME InsertPart(c, "deliveries", "payments") PROVE StoreInv'
    BY <1>1, <1>2, <1>3 DEF InsertPart
<1>4. ASSUME InsertPart(c, "payments", "items") PROVE StoreInv'
    BY <1>1, <1>2, <1>4 DEF InsertPart
<1> QED BY <1>3, <1>4

\* The items written so far, counted.
LEMMA ItemsCounted ==
    ASSUME NEW o, NEW n \in Nat, NEW S, S = SingleRows(o) \cup FirstItems(o, n)
    PROVE  /\ {r \in S : r.table = "items"} = FirstItems(o, n)
           /\ IsFiniteSet(FirstItems(o, n))
           /\ ItemRow(o, n + 1) \notin FirstItems(o, n)
           /\ FirstItems(o, n + 1) = FirstItems(o, n) \cup {ItemRow(o, n + 1)}
<1>1. {r \in S : r.table = "items"} = FirstItems(o, n)
  <2>1. \A r \in SingleRows(o) : r.table # "items"
      BY DEF SingleRows, Row
  <2>2. \A r \in FirstItems(o, n) : r.table = "items"
      BY DEF FirstItems, ItemRow
  <2> QED BY <2>1, <2>2
<1>2. IsFiniteSet(FirstItems(o, n))
  <2> DEFINE f == [i \in 1 .. n |-> ItemRow(o, i)]
  <2>1. f \in Surjection(1 .. n, FirstItems(o, n))
      BY DEF Surjection, FirstItems
  <2>2. IsFiniteSet(1 .. n)
      BY FS_Interval
  <2> HIDE DEF f
  <2> QED BY <2>1, <2>2, FS_Surjection
<1>3. ItemRow(o, n + 1) \notin FirstItems(o, n)
  <2>1. \A i \in 1 .. n : ItemRow(o, i).n = i /\ ItemRow(o, n + 1).n = n + 1
      BY DEF ItemRow
  <2> QED BY <2>1 DEF FirstItems
<1>4. 1 .. n + 1 = (1 .. n) \cup {n + 1}
    OBVIOUS
<1>5. FirstItems(o, n + 1) = FirstItems(o, n) \cup {ItemRow(o, n + 1)}
    BY <1>4 DEF FirstItems
<1> QED BY <1>1, <1>2, <1>3, <1>5

LEMMA ItemSteps ==
    ASSUME StoreInv, NEW c \in Callers, InsertItem(c) \/ ItemsEnd(c)
    PROVE  StoreInv'
<1> DEFINE o == order[c]
           n == ItemsDone(c)
<1>0. /\ TypeOK /\ pc[c] = "items" /\ c \in Connected /\ c \in Holding
      /\ o \in Orders /\ o.items \in Nat /\ n \in Nat /\ n <= o.items
      /\ written[c] = SingleRows(o) \cup FirstItems(o, n)
      /\ o.refusedBy \in {"none", "items"} /\ (o.refusedBy = "items" => n = 0)
      /\ order' = order /\ rows' = rows /\ orphans' = orphans
    BY OrderAssumption DEF StoreInv, InsertItem, ItemsEnd, Connected, Holding, WrittenSoFar
<1>1. CASE End(c, "other")
    BY <1>0, <1>1, EndLeaves, LeaveNothing
<1>2. CASE /\ n < o.items /\ o.refusedBy # "items" /\ Write(c, ItemRow(o, n + 1))
           /\ UNCHANGED <<pc, err, busy>>
  <2>1. {ItemRow(o, n + 1)} \subseteq AllRows
      BY <1>0, <1>2 DEF AllRows, RowsOf, FirstItems
  <2>2. pc' = [pc EXCEPT ![c] = "items"]
      BY <1>0, <1>2 DEF TypeOK
  <2>3. /\ TypeOK' /\ busy' = Cardinality(Connected')
        /\ pc'[c] = "items" /\ written'[c] = written[c] \cup {ItemRow(o, n + 1)}
        /\ Holding' = Holding \cup {c}
        /\ WrittenSoFar(c)' => \A d \in Callers : WrittenSoFar(d)'
    <3>1. {ItemRow(o, n + 1)} \in SUBSET AllRows
        BY <2>1
    <3>2. written' = [written EXCEPT ![c] = @ \cup {ItemRow(o, n + 1)}]
        BY <1>2, <2>2, <1>0 DEF Write
    <3>3. UNCHANGED <<rows, order, err, busy, orphans>>
        BY <1>2, <2>2, <1>0
    <3>4. c \in Connected /\ pc' = [pc EXCEPT ![c] = "items"]
        BY <1>0, <1>2, <2>2, <1>0
    <3> HIDE DEF o, n
    <3> QED BY <3>1, <3>2, <3>3, <3>4, StatementKeepsTypes
  <2>4. written'[c] = SingleRows(o) \cup FirstItems(o, n + 1)
      BY <1>0, <2>3, ItemsCounted
  <2>5. ItemsDone(c)' = n + 1
    <3>1. ItemsDone(c)' = Cardinality(FirstItems(o, n) \cup {ItemRow(o, n + 1)})
      <4>1. n + 1 \in Nat
          BY <1>0
      <4>2. {r \in written'[c] : r.table = "items"} = FirstItems(o, n + 1)
          BY <2>4, <4>1, ItemsCounted
      <4>3. FirstItems(o, n + 1) = FirstItems(o, n) \cup {ItemRow(o, n + 1)}
          BY <1>0, ItemsCounted
      <4> QED BY <4>2, <4>3 DEF ItemsDone
    <3>2. n = Cardinality(FirstItems(o, n))
        BY <1>0, ItemsCounted DEF ItemsDone
    <3> HIDE DEF n, o
    <3> QED BY <1>0, <3>1, <3>2, ItemsCounted, FS_AddElement
  <2>6. WrittenSoFar(c)'
      BY <1>0, <1>2, <2>3, <2>4, <2>5 DEF WrittenSoFar, Holding
  <2> QED BY <1>0, <2>3, <2>6, NoUidChanges
<1>3. CASE ItemsEnd(c)
  <2>1. n = o.items /\ pc' = [pc EXCEPT ![c] = "commit"] /\ UNCHANGED <<written, err, busy>>
      BY <1>3 DEF ItemsEnd
  <2>2. written' = [written EXCEPT ![c] = @ \cup {}]
      BY <1>0, <2>1 DEF TypeOK
  <2>3. /\ TypeOK' /\ busy' = Cardinality(Connected')
        /\ pc'[c] = "commit" /\ written'[c] = written[c]
        /\ Holding' = Holding \cup {c}
        /\ WrittenSoFar(c)' => \A d \in Callers : WrittenSoFar(d)'
    <3>1. {} \in SUBSET AllRows
        OBVIOUS
    <3> QED BY <1>0, <2>1, <2>2, <3>1, StatementKeepsTypes
  <2>4. o.refusedBy = "none"
      BY <1>0, <2>1, OrderAssumption
  <2>5. WrittenSoFar(c)'
      BY <1>0, <2>1, <2>3, <2>4 DEF WrittenSoFar, Holding, RowsOf
  <2> QED BY <1>0, <2>3, <2>5, NoUidChanges
<1> QED BY <1>1, <1>2, <1>3 DEF InsertItem

-----------------------------------------------------------------------------
(* The ends of a transaction.                                               *)

LEMMA CommitStep ==
    ASSUME StoreInv, NEW c \in Callers, Commit(c)
    PROVE  StoreInv' /\ OrderRows(rows') = OrderRows(rows) \cup {order[c]}
<1>1. pc[c] = "commit" /\ c \in Holding
    BY DEF Commit, Holding
<1>2. Leave(c)
    BY EndLeaves DEF StoreInv, Commit
<1> QED BY <1>1, <1>2, LeaveCommitted DEF Commit

\* What a broken connection leaves on the server.
LEMMA AbandonStep ==
    ASSUME StoreInv, NEW c \in Connected, Leave(c), rows' = rows,
           NEW committing \in BOOLEAN, committing => pc[c] = "commit",
           orphans' \in Orphan(c, committing)
    PROVE  StoreInv'
<1>1. CASE orphans' = orphans
    BY <1>1, LeaveNothing
<1>2. CASE /\ written[c] # {}
           /\ orphans' = orphans \cup {[order |-> order[c], rows |-> written[c],
                                        committing |-> committing]}
  <2>1. c \in Holding
      BY <1>2 DEF StoreInv, WrittenSoFar, Connected
  <2> QED BY <1>2, <2>1, LeaveOrphan
<1> QED BY <1>1, <1>2 DEF Orphan

LEMMA BreakSteps ==
    ASSUME StoreInv, NEW c \in Callers, StatementBreaks(c) \/ CommitBreaks(c)
    PROVE  StoreInv'
<1>0. TypeOK
    BY DEF StoreInv
<1>1. CASE StatementBreaks(c)
  <2>1. c \in Connected /\ Leave(c)
      BY <1>0, <1>1, EndLeaves DEF StatementBreaks, Connected
  <2> QED BY <1>1, <2>1, AbandonStep DEF StatementBreaks
<1>2. CASE CommitBreaks(c)
  <2>1. c \in Connected /\ c \in Holding /\ pc[c] = "commit" /\ Leave(c)
      BY <1>0, <1>2, EndLeaves DEF CommitBreaks, Connected, Holding
  <2>2. CASE rows' = rows \cup written[c] /\ orphans' = orphans
      BY <2>1, <2>2, LeaveCommitted
  <2>3. CASE rows' = rows /\ orphans' \in Orphan(c, TRUE)
      BY <2>1, <2>3, AbandonStep
  <2> QED BY <1>2, <2>2, <2>3 DEF CommitBreaks
<1> QED BY <1>1, <1>2

LEMMA OrphanEndsStep ==
    ASSUME StoreInv, NEW x \in orphans, OrphanEnds(x)
    PROVE  /\ StoreInv'
           /\ \/ rows' = rows
              \/ x.committing /\ OrderRows(rows') = OrderRows(rows) \cup {x.order}
<1>0. /\ UNCHANGED <<pc, order, written, err, busy>> /\ orphans' = orphans \ {x}
      /\ Holding' = Holding /\ Connected' = Connected
    BY DEF OrphanEnds, Holding, Connected
<1>1. \A d \in Callers : WrittenSoFar(d)'
    BY <1>0, OthersKept DEF StoreInv
<1>2. \A y \in orphans' : OrphanSound(y)'
    BY <1>0 DEF StoreInv, OrphanSound
<1>3. CASE rows' = rows
  <2>1. TypeOK' /\ AllOrNothing'
      BY <1>0, <1>3 DEF StoreInv, TypeOK, AllOrNothing, OrderRows
  <2>2. UidsHeldOnce'
      BY <1>0, <1>3 DEF StoreInv, UidsHeldOnce, Committed, OrderRows
  <2> QED BY <1>0, <1>1, <1>2, <1>3, <2>1, <2>2 DEF StoreInv
<1>4. CASE x.committing /\ rows' = rows \cup x.rows
  <2>1. x.rows = RowsOf(x.order) /\ x.rows \subseteq AllRows /\ ~Committed(x.order.uid)
      BY <1>4 DEF StoreInv, OrphanSound, TypeOK, UidsHeldOnce
  <2>2. AllOrNothing' /\ OrderRows(rows') = OrderRows(rows) \cup {x.order}
      BY <1>4, <2>1, CommitWhole DEF StoreInv
  <2>3. TypeOK'
      BY <1>0, <1>4, <2>1 DEF StoreInv, TypeOK
  <2>4. \A uid : Committed(uid)' => Committed(uid) \/ uid = x.order.uid
      BY <2>2 DEF Committed
  <2>5. \A d \in Holding' : ~Committed(order[d].uid)'
      BY <1>0, <2>4 DEF StoreInv, UidsHeldOnce
  <2>6. \A y \in orphans' : ~Committed(y.order.uid)'
      BY <1>0, <2>4 DEF StoreInv, UidsHeldOnce
  <2>7. UidsHeldOnce'
      BY <1>0, <2>5, <2>6 DEF StoreInv, UidsHeldOnce
  <2> QED BY <1>0, <1>1, <1>2, <1>4, <2>2, <2>3, <2>7 DEF StoreInv
<1> QED BY <1>3, <1>4 DEF OrphanEnds

-----------------------------------------------------------------------------
LEMMA StoreInvInit == Init => StoreInv
<1> SUFFICES ASSUME Init PROVE StoreInv
    OBVIOUS
<1>1. Connected = {} /\ Holding = {}
    BY DEF Init, Connected, Holding
<1>2. TypeOK /\ busy = Cardinality(Connected)
    BY <1>1, FS_EmptySet, MaxOpenAssumption DEF Init, TypeOK
<1>3. \A c \in Callers : WrittenSoFar(c)
    BY DEF Init, WrittenSoFar
<1> QED BY <1>1, <1>2, <1>3 DEF Init, StoreInv, UidsHeldOnce, AllOrNothing, OrderRows

LEMMA StoreInvStep == StoreInv /\ [Next]_vars => StoreInv'
<1> SUFFICES ASSUME StoreInv, [Next]_vars PROVE StoreInv'
    OBVIOUS
<1>1. CASE UNCHANGED vars
    BY <1>1 DEF vars, StoreInv, TypeOK, Connected, Holding, WrittenSoFar, ItemsDone,
                OrphanSound, UidsHeldOnce, AllOrNothing, Committed, OrderRows
<1>2. ASSUME NEW c \in Callers, Step(c) PROVE StoreInv'
    BY <1>2, BeginStep, InsertOrdersStep, InsertPartStep, ItemSteps, CommitStep,
       OutsideSteps DEF Step
<1>3. ASSUME NEW c \in Callers,
             BeginFails(c) \/ StatementBreaks(c) \/ CommitBreaks(c) \/ \E o \in Orders : Call(c, o)
      PROVE  StoreInv'
    BY <1>3, OutsideSteps, BreakSteps
<1>4. ASSUME NEW x \in orphans, OrphanEnds(x) PROVE StoreInv'
    BY <1>4, OrphanEndsStep
<1> QED BY <1>1, <1>2, <1>3, <1>4 DEF Next

\* Every row and connection is accounted for: for any callers, orders and pool
\* size, a transaction has written what its statements say, no two hold a UID
\* and no connection of Insert is lost.
THEOREM StoreInvHolds == Spec => []StoreInv
BY StoreInvInit, StoreInvStep, PTL DEF Spec

\* A reader never sees half an order, nor two orders of one UID.
THEOREM AllOrNothingHolds == Spec => []AllOrNothing
<1>1. StoreInv => AllOrNothing
    BY DEF StoreInv
<1> QED BY <1>1, StoreInvHolds, PTL

-----------------------------------------------------------------------------
(* Who waits for whom.                                                      *)

\* A transaction that has inserted its order waits for nobody any more.
LEMMA HolderRuns ==
    ASSUME NEW d \in Holding
    PROVE  d \in Connected /\ ~Blocked(d)
BY DEF Holding, Connected, Statements, Blocked

\* A call that waits for an order_uid waits for such a transaction, or for one
\* that the server has yet to end.
LEMMA UidWaitsForHolder ==
    ASSUME StoreInv, NEW c \in Callers, pc[c] = "orders", Blocked(c)
    PROVE  \/ \E d \in Holding : order[d].uid = order[c].uid
           \/ \E x \in orphans : x.order.uid = order[c].uid
<1>1. Locked(order[c].uid)
    BY DEF Blocked
<1>2. ASSUME NEW d \in Callers, NEW o \in OrderRows(written[d]), o.uid = order[c].uid
      PROVE  d \in Holding /\ order[d].uid = order[c].uid
  <2>1. d \in Holding
      BY <1>2 DEF StoreInv, WrittenSoFar, OrderRows
  <2>2. o = order[d]
      BY <1>2, <2>1, HoldingRows
  <2> QED BY <1>2, <2>1, <2>2
<1>3. ASSUME NEW x \in orphans, NEW o \in OrderRows(x.rows), o.uid = order[c].uid
      PROVE  x.order.uid = order[c].uid
    BY <1>3, OrphanRows
<1> QED BY <1>1, <1>2, <1>3 DEF Locked

\* A call that waits for the pool waits for calls that have its connections.
LEMMA PoolWaitsForConnected ==
    ASSUME StoreInv, NEW c \in Callers, pc[c] = "begin", Blocked(c)
    PROVE  Connected # {}
<1>1. Cardinality(Connected) = MaxOpen
    BY DEF Blocked, StoreInv
<1> QED BY <1>1, FS_EmptySet, MaxOpenAssumption

\* Insert: whoever waits for a connection waits for calls that have one, and
\* whoever waits for an order_uid for a call that is not waiting or for the
\* server, for any number of callers and any pool of at least one connection.
THEOREM NoCircularWaitHolds == Spec => []NoCircularWait
<1>1. StoreInv => NoCircularWait
  <2> SUFFICES ASSUME StoreInv, NEW c \in Callers, Blocked(c)
               PROVE  IF pc[c] = "orders" THEN MovesOn(order[c].uid)
                      ELSE \E d \in Callers : pc[d] \in Statements \cup {"commit"}
      BY DEF NoCircularWait
  <2>1. \A d \in Connected : d \in Callers /\ pc[d] \in Statements \cup {"commit"}
      BY DEF Connected
  <2>2. CASE pc[c] = "orders"
      BY <2>1, <2>2, UidWaitsForHolder, HolderRuns DEF MovesOn
  <2>3. CASE pc[c] = "begin"
      BY <2>1, <2>3, PoolWaitsForConnected
  <2> QED BY <2>2, <2>3 DEF Blocked
<1> QED BY <1>1, StoreInvHolds, PTL

-----------------------------------------------------------------------------
(* DBStore implements OrderStore.                                           *)

LEMMA PresentCommitted ==
    ASSUME NEW o PROVE Contract!Present(o) <=> Committed(o.uid)
BY DEF Contract!Present, Committed, UidOf

LEMMA DoubtOrders ==
    ASSUME StoreInv
    PROVE  InDoubt = {x.order : x \in {y \in orphans : y.committing}}
<1>1. \A x \in orphans : OrderRows(x.rows) = {x.order}
    BY OrphanRows
<1> QED BY <1>1 DEF InDoubt

\* Insert returns.
LEMMA EffectStep ==
    ASSUME TypeOK, NEW c \in Callers, pc[c] \notin {"idle", "done"},
           pc' = [pc EXCEPT ![c] = "done"], order' = order,
           NEW e, NEW persisted \in BOOLEAN,
           Outcome(e, persisted)
             \in AnsweredOutcomes(Accepted(order[c]), Committed(order[c].uid))
                 \cup BrokenOutcomes(Accepted(order[c]), Committed(order[c].uid)),
           err' = [err EXCEPT ![c] = e],
           OrderRows(rows') = IF persisted THEN OrderRows(rows) \cup {order[c]}
                              ELSE OrderRows(rows),
           \/ InDoubt' = InDoubt
           \/ /\ e = "other" /\ ~persisted
              /\ Accepted(order[c]) /\ ~Committed(order[c].uid)
              /\ InDoubt' = InDoubt \cup {order[c]}
    PROVE  Contract!Effect(c)
<1> DEFINE oc == Outcome(e, persisted)
<1>1. oc.err = e /\ oc.persisted = persisted
    BY DEF Outcome
<1>2. CallState[c] = "called" /\ CallState' = [CallState EXCEPT ![c] = "returned"]
    BY DEF CallState, TypeOK
<1>3. oc \in Contract!AnsweredOutcomes(Accepted(order[c]), Contract!Present(order[c]))
             \cup Contract!BrokenOutcomes(Accepted(order[c]), Contract!Present(order[c]))
  <2>1. Contract!Present(order[c]) = Committed(order[c].uid)
      BY PresentCommitted DEF Contract!Present, Committed
  <2> QED BY <2>1 DEF Contract!AnsweredOutcomes, Contract!BrokenOutcomes, Contract!Outcome,
                      AnsweredOutcomes, BrokenOutcomes, Outcome
<1>4. \/ UNCHANGED InDoubt
      \/ /\ oc = Contract!Outcome("other", FALSE)
         /\ Accepted(order[c]) /\ ~Contract!Present(order[c])
         /\ InDoubt' = InDoubt \cup {order[c]}
    BY PresentCommitted DEF Outcome, Contract!Outcome
<1>5. OrderRows(rows') = IF oc.persisted THEN OrderRows(rows) \cup {order[c]}
                         ELSE OrderRows(rows)
    BY <1>1
<1>6. err' = [err EXCEPT ![c] = oc.err]
    BY <1>1
<1>7. OrderRows(rows)' = OrderRows(rows')
    BY DEF OrderRows
<1> HIDE DEF oc
<1> QED BY <1>2, <1>3, <1>4, <1>5, <1>6, <1>7 DEF Contract!Effect

\* Outcomes that any call may have, and those of a call that reached COMMIT.
LEMMA PossibleOutcomes ==
    ASSUME NEW a \in BOOLEAN, NEW p \in BOOLEAN
    PROVE  /\ Outcome("conn", FALSE) \in BrokenOutcomes(a, p)
           /\ Outcome("other", FALSE) \in BrokenOutcomes(a, p)
           /\ p => Outcome("exists", FALSE) \in AnsweredOutcomes(a, p)
           /\ a /\ ~p => /\ Outcome("nil", TRUE) \in AnsweredOutcomes(a, p)
                         /\ Outcome("other", TRUE) \in BrokenOutcomes(a, p)
BY DEF AnsweredOutcomes, BrokenOutcomes, Outcome

ContractStep == Contract!StoreNext \/ UNCHANGED Contract!storeVars

\* A call fails and leaves nothing that may be committed.
LEMMA FailStep ==
    ASSUME TypeOK, NEW c \in Callers, pc[c] \notin {"idle", "done"},
           pc' = [pc EXCEPT ![c] = "done"], order' = order, rows' = rows, InDoubt' = InDoubt,
           NEW e \in {"conn", "other", "exists"}, err' = [err EXCEPT ![c] = e],
           e = "exists" => Committed(order[c].uid)
    PROVE  ContractStep
<1>1. Outcome(e, FALSE)
        \in AnsweredOutcomes(Accepted(order[c]), Committed(order[c].uid))
            \cup BrokenOutcomes(Accepted(order[c]), Committed(order[c].uid))
    BY PossibleOutcomes DEF Accepted, Committed
<1>2. OrderRows(rows') = OrderRows(rows)
    BY DEF OrderRows
<1>3. Contract!Effect(c)
    BY <1>1, <1>2, EffectStep
<1> QED BY <1>3 DEF ContractStep, Contract!StoreNext

\* A statement inside the transaction is invisible.
LEMMA InnerStep ==
    ASSUME TypeOK, NEW c \in Callers, pc[c] \notin {"idle", "done"},
           NEW next \in Statements \cup {"commit"}, pc' = [pc EXCEPT ![c] = next],
           UNCHANGED <<rows, order, err, orphans>>
    PROVE  ContractStep
<1>1. CallState' = CallState
    BY DEF CallState, TypeOK
<1>2. InDoubt' = InDoubt /\ OrderRows(rows)' = OrderRows(rows)
    BY DEF InDoubt, OrderRows
<1> QED BY <1>1, <1>2 DEF ContractStep, Contract!storeVars

LEMMA SameDoubt == orphans' = orphans => InDoubt' = InDoubt
BY DEF InDoubt, OrderRows

LEMMA StatementRefines ==
    ASSUME StoreInv, NEW c \in Callers,
           \/ Begin(c) \/ BeginFails(c) \/ InsertOrders(c)
           \/ InsertPart(c, "deliveries", "payments") \/ InsertPart(c, "payments", "items")
           \/ InsertItem(c) \/ ItemsEnd(c)
    PROVE  ContractStep
<1>0. TypeOK
    BY DEF StoreInv
<1>1. CASE Begin(c)
    BY <1>0, <1>1, InnerStep DEF Begin
<1>2. CASE BeginFails(c)
    BY <1>0, <1>2, FailStep, SameDoubt DEF BeginFails
<1>3. CASE InsertOrders(c)
    BY <1>0, <1>3, FailStep, InnerStep, SameDoubt DEF InsertOrders, End
<1>4. CASE InsertPart(c, "deliveries", "payments")
    BY <1>0, <1>4, FailStep, InnerStep, SameDoubt DEF InsertPart, End
<1>5. CASE InsertPart(c, "payments", "items")
    BY <1>0, <1>5, FailStep, InnerStep, SameDoubt DEF InsertPart, End
<1>6. CASE InsertItem(c)
  <2>1. pc[c] = "items" /\ rows' = rows /\ order' = order /\ orphans' = orphans
      BY <1>6 DEF InsertItem
  <2>2. CASE End(c, "other")
      BY <1>0, <2>1, <2>2, FailStep, SameDoubt DEF End
  <2>3. CASE UNCHANGED <<pc, err, busy>>
    <3>1. pc' = [pc EXCEPT ![c] = "items"]
        BY <1>0, <2>1, <2>3 DEF TypeOK
    <3> QED BY <1>0, <2>1, <2>3, <3>1, InnerStep
  <2> QED BY <1>6, <2>2, <2>3 DEF InsertItem
<1>7. CASE ItemsEnd(c)
    BY <1>0, <1>7, InnerStep DEF ItemsEnd
<1> QED BY <1>1, <1>2, <1>3, <1>4, <1>5, <1>6, <1>7

\* A call that reached COMMIT is of an order that may be stored.
LEMMA AtCommit ==
    ASSUME StoreInv, NEW c \in Callers, pc[c] = "commit"
    PROVE  /\ c \in Holding /\ order[c] \in Orders
           /\ Accepted(order[c]) /\ ~Committed(order[c].uid)
           /\ written[c] = RowsOf(order[c]) /\ OrderRows(written[c]) = {order[c]}
<1>1. c \in Holding /\ WrittenSoFar(c)
    BY DEF StoreInv, Holding
<1> QED BY <1>1, HoldingRows DEF StoreInv, WrittenSoFar, UidsHeldOnce, Accepted

LEMMA CommitRefines ==
    ASSUME StoreInv, NEW c \in Callers, pc[c] = "commit", NEW e \in {"nil", "other"},
           End(c, e), rows' = rows \cup written[c], order' = order, orphans' = orphans
    PROVE  ContractStep
<1>1. Leave(c)
    BY EndLeaves DEF StoreInv
<1>2. OrderRows(rows') = OrderRows(rows) \cup {order[c]}
    BY <1>1, AtCommit, LeaveCommitted
<1>3. Outcome(e, TRUE)
        \in AnsweredOutcomes(Accepted(order[c]), Committed(order[c].uid))
            \cup BrokenOutcomes(Accepted(order[c]), Committed(order[c].uid))
    BY AtCommit, PossibleOutcomes DEF Accepted, Committed
<1>4. InDoubt' = InDoubt
    BY SameDoubt
<1>5. TypeOK
    BY DEF StoreInv
<1>6. Contract!Effect(c)
    BY <1>2, <1>3, <1>4, <1>5, EffectStep DEF End
<1> QED BY <1>6 DEF ContractStep, Contract!StoreNext

LEMMA BreakRefines ==
    ASSUME StoreInv, NEW c \in Callers, StatementBreaks(c) \/ CommitBreaks(c)
    PROVE  ContractStep
<1>0. TypeOK
    BY DEF StoreInv
<1>1. ASSUME NEW committing \in BOOLEAN, orphans' \in Orphan(c, committing)
      PROVE  \/ InDoubt' = InDoubt
             \/ committing /\ InDoubt' = InDoubt \cup OrderRows(written[c])
  <2>1. CASE orphans' = orphans
      BY <2>1, SameDoubt
  <2>2. CASE orphans' = orphans \cup {[order |-> order[c], rows |-> written[c],
                                       committing |-> committing]}
      BY <2>2 DEF InDoubt, OrderRows
  <2> QED BY <1>1, <2>1, <2>2 DEF Orphan
<1>2. CASE StatementBreaks(c)
  <2>1. InDoubt' = InDoubt
      BY <1>1, <1>2 DEF StatementBreaks
  <2> QED BY <1>0, <1>2, <2>1, FailStep DEF StatementBreaks, End
<1>3. CASE CommitBreaks(c) /\ rows' = rows \cup written[c] /\ orphans' = orphans
    BY <1>3, CommitRefines DEF CommitBreaks
<1>4. CASE CommitBreaks(c) /\ rows' = rows /\ orphans' \in Orphan(c, TRUE)
  <2>1. Outcome("other", FALSE)
          \in AnsweredOutcomes(Accepted(order[c]), Committed(order[c].uid))
              \cup BrokenOutcomes(Accepted(order[c]), Committed(order[c].uid))
      BY PossibleOutcomes DEF Accepted, Committed
  <2>2. pc[c] = "commit" /\ order' = order
      BY <1>4 DEF CommitBreaks
  <2>3. InDoubt' = InDoubt \/ InDoubt' = InDoubt \cup {order[c]}
      BY <1>1, <1>4, <2>2, AtCommit
  <2>4. OrderRows(rows') = OrderRows(rows)
      BY <1>4
  <2>5. Contract!Effect(c)
      BY <1>0, <1>4, <2>1, <2>2, <2>3, <2>4, AtCommit, EffectStep DEF CommitBreaks, End
  <2> QED BY <2>5 DEF ContractStep, Contract!StoreNext
<1> QED BY <1>2, <1>3, <1>4 DEF CommitBreaks

LEMMA OutsideRefines ==
    ASSUME TypeOK, NEW c \in Callers, (\E o \in Orders : Call(c, o)) \/ Return(c)
    PROVE  ContractStep
<1>1. InDoubt' = InDoubt /\ OrderRows(rows)' = OrderRows(rows)
    BY SameDoubt DEF Call, Return, OrderRows
<1>2. ASSUME NEW o \in Orders, Call(c, o) PROVE ContractStep
  <2>1. CallState[c] = "idle" /\ CallState' = [CallState EXCEPT ![c] = "called"]
      BY <1>2 DEF Call, CallState, TypeOK
  <2>2. Contract!Call(c, o)
      BY <1>1, <1>2, <2>1 DEF Call, Contract!Call
  <2> QED BY <2>2 DEF ContractStep, Contract!StoreNext
<1>3. ASSUME Return(c) PROVE ContractStep
  <2>1. CallState[c] = "returned" /\ CallState' = [CallState EXCEPT ![c] = "idle"]
      BY <1>3 DEF Return, CallState, TypeOK
  <2>2. Contract!Return(c)
      BY <1>1, <1>3, <2>1 DEF Return, Contract!Return
  <2> QED BY <2>2 DEF ContractStep, Contract!StoreNext
<1> QED BY <1>2, <1>3

\* The server settles what was in doubt.
LEMMA OrphanRefines ==
    ASSUME StoreInv, NEW x \in orphans, OrphanEnds(x)
    PROVE  ContractStep
<1>1. UNCHANGED <<CallState, order, err>>
    BY DEF OrphanEnds, CallState
<1>2. orphans' = orphans \ {x} /\ StoreInv'
    BY OrphanEndsStep DEF OrphanEnds
<1>3. /\ InDoubt = {y.order : y \in {z \in orphans : z.committing}}
      /\ InDoubt' = {y.order : y \in {z \in orphans' : z.committing}}
  <2>1. \A y \in orphans : OrderRows(y.rows) = {y.order}
      BY OrphanRows
  <2>2. InDoubt' = UNION {OrderRows(y.rows) : y \in {z \in orphans' : z.committing}}
      BY DEF InDoubt, OrderRows
  <2> QED BY <1>2, <2>1, <2>2, DoubtOrders
<1>4. CASE ~x.committing
  <2>1. InDoubt' = InDoubt
      BY <1>2, <1>3, <1>4
  <2>2. OrderRows(rows)' = OrderRows(rows)
      BY <1>4 DEF OrphanEnds, OrderRows
  <2> QED BY <1>1, <2>1, <2>2 DEF ContractStep, Contract!storeVars
<1>5. CASE x.committing
  <2>1. \A y \in orphans : y.order = x.order => y = x
      BY DEF StoreInv, UidsHeldOnce
  <2>2. x.order \in InDoubt /\ InDoubt' = InDoubt \ {x.order}
      BY <1>2, <1>3, <1>5, <2>1
  <2>3. ~Contract!Present(x.order) /\ x.order \in Orders
      BY PresentCommitted, OrphanRows DEF StoreInv, UidsHeldOnce
  <2>4. OrderRows(rows)' = OrderRows(rows) \/ OrderRows(rows)' = OrderRows(rows) \cup {x.order}
      BY OrphanEndsStep DEF OrderRows
  <2>5. Contract!Resolve(x.order)
      BY <1>1, <2>2, <2>3, <2>4 DEF Contract!Resolve
  <2> QED BY <2>3, <2>5 DEF ContractStep, Contract!StoreNext
<1> QED BY <1>4, <1>5

\* Every step of DBStore is a step of the contract, or invisible.
LEMMA ContractNext ==
    ASSUME StoreInv, [Next]_vars
    PROVE  ContractStep
<1>0. TypeOK
    BY DEF StoreInv
<1>1. CASE UNCHANGED vars
    BY <1>1, SameDoubt DEF vars, ContractStep, Contract!storeVars, CallState, OrderRows
<1>2. ASSUME NEW c \in Callers, Step(c) PROVE ContractStep
  <2>1. CASE Commit(c)
      BY <2>1, CommitRefines DEF Commit
  <2>2. CASE Return(c)
      BY <1>0, <2>2, OutsideRefines
  <2> QED BY <1>2, <2>1, <2>2, StatementRefines DEF Step
<1>3. ASSUME NEW c \in Callers, StatementBreaks(c) \/ CommitBreaks(c) PROVE ContractStep
    BY <1>3, BreakRefines
<1>4. ASSUME NEW c \in Callers, BeginFails(c) \/ \E o \in Orders : Call(c, o)
      PROVE  ContractStep
    BY <1>0, <1>4, StatementRefines, OutsideRefines
<1>5. ASSUME NEW x \in orphans, OrphanEnds(x) PROVE ContractStep
    BY <1>5, OrphanRefines
<1> QED BY <1>1, <1>2, <1>3, <1>4, <1>5 DEF Next

\* Insert of DBStore, statement by statement with its rollbacks, lost answers
\* and abandoned transactions, is what OrderStore promises its callers.
THEOREM StoreContractHolds == Spec => ImplementsOrderStore
<1>1. Init => Contract!StoreInit
  <2> SUFFICES ASSUME Init PROVE Contract!StoreInit
      OBVIOUS
  <2>1. OrderRows(rows) = {} /\ InDoubt = {}
      BY DEF Init, OrderRows, InDoubt
  <2>2. CallState = [c \in Callers |-> "idle"]
      BY DEF Init, CallState
  <2> QED BY <2>1, <2>2 DEF Init, Contract!StoreInit
<1>2. StoreInv /\ [Next]_vars => [Contract!StoreNext]_(Contract!storeVars)
    BY ContractNext DEF ContractStep
<1> QED BY <1>1, <1>2, StoreInvHolds, PTL DEF Spec, ImplementsOrderStore, Contract!StoreSpec

-----------------------------------------------------------------------------
(* What readers see of it: the table of module OrderReads.                  *)

\* A step that keeps the contract commits nothing, or one order of a UID that
\* had none.
LEMMA ContractAddsOne ==
    ASSUME StoreInv, ContractStep
    PROVE  \/ OrderRows(rows)' = OrderRows(rows)
           \/ \E o \in Orders : ~Committed(o.uid) /\ OrderRows(rows)' = OrderRows(rows) \cup {o}
<1>1. ASSUME NEW c \in Callers, Contract!Effect(c), OrderRows(rows)' # OrderRows(rows)
      PROVE  /\ order[c] \in Orders /\ ~Committed(order[c].uid)
             /\ OrderRows(rows)' = OrderRows(rows) \cup {order[c]}
  <2>1. /\ OrderRows(rows)' = OrderRows(rows) \cup {order[c]}
        /\ ~Contract!Present(order[c]) /\ CallState[c] = "called"
      BY <1>1 DEF Contract!Effect, Contract!AnsweredOutcomes, Contract!BrokenOutcomes,
                  Contract!Outcome
  <2>2. order[c] \in Orders
      BY <2>1 DEF CallState, StoreInv, WrittenSoFar
  <2> QED BY <2>1, <2>2, PresentCommitted
<1>2. ASSUME NEW o \in Orders, Contract!Resolve(o), OrderRows(rows)' # OrderRows(rows)
      PROVE  ~Committed(o.uid) /\ OrderRows(rows)' = OrderRows(rows) \cup {o}
    BY <1>2, PresentCommitted DEF Contract!Resolve
<1>3. ASSUME NEW c \in Callers, Contract!Return(c) \/ \E o \in Orders : Contract!Call(c, o)
      PROVE  OrderRows(rows)' = OrderRows(rows)
    BY <1>3 DEF Contract!Return, Contract!Call
<1>4. CASE UNCHANGED Contract!storeVars
    BY <1>4 DEF Contract!storeVars
<1> QED BY <1>1, <1>2, <1>3, <1>4 DEF ContractStep, Contract!StoreNext

\* One order of a UID among many is the one that is chosen.
LEMMA TheOnlyOne ==
    ASSUME NEW S, NEW o \in S, \A q \in S : q.uid = o.uid => q = o
    PROVE  (CHOOSE q \in S : q.uid = o.uid) = o
OBVIOUS

\* The table shows the committed order of a UID, before a step and after it.
LEMMA TableShows ==
    ASSUME AllOrNothing, AllOrNothing', NEW o \in Orders
    PROVE  /\ o \in OrderRows(rows) => OrderTable[o.uid] = o
           /\ o \in OrderRows(rows)' => OrderTable'[o.uid] = o
<1>1. ASSUME o \in OrderRows(rows) PROVE OrderTable[o.uid] = o
  <2>1. \A q \in OrderRows(rows) : q.uid = o.uid => q = o
      BY <1>1 DEF AllOrNothing
  <2>2. (CHOOSE q \in OrderRows(rows) : q.uid = o.uid) = o
      BY <1>1, <2>1, TheOnlyOne
  <2> QED BY <1>1, <2>2 DEF OrderTable, Committed
<1>2. ASSUME o \in OrderRows(rows)' PROVE OrderTable'[o.uid] = o
  <2>1. \A q \in OrderRows(rows)' : q.uid = o.uid => q = o
      BY <1>2 DEF AllOrNothing
  <2>2. (CHOOSE q \in OrderRows(rows)' : q.uid = o.uid) = o
      BY <1>2, <2>1, TheOnlyOne
  <2> QED BY <1>2, <2>2 DEF OrderTable, Committed
<1> QED BY <1>1, <1>2

LEMMA StoredAreOrders ==
    ASSUME StoreInv
    PROVE  OrderRows(rows) \subseteq Orders
BY FullOrder DEF StoreInv, TypeOK, AllRows, RowsOf, SingleRows, FirstItems, Row, ItemRow,
                 OrderRows

\* store.go: whichever of the concurrent calls commits, and whenever the server
\* applies a COMMIT whose answer was lost, a reader's table gets one row more
\* and keeps the ones it has.
THEOREM CommitsAddRowsHolds == Spec => CommitsAddRows
<1>1. ASSUME StoreInv, StoreInv', [Next]_vars, OrderTable' # OrderTable
      PROVE  \E o \in Orders : Readers!Store(o)
  <2>1. CASE OrderRows(rows)' = OrderRows(rows)
    <3>1. OrderTable' = OrderTable
        BY <2>1 DEF OrderTable, Committed
    <3> QED BY <1>1, <3>1
  <2>2. ASSUME NEW o \in Orders, ~Committed(o.uid),
               OrderRows(rows)' = OrderRows(rows) \cup {o}
        PROVE  Readers!Store(o)
    <3> DEFINE U == {q.uid : q \in Orders}
    <3>1. OrderTable[o.uid] = NoOrder
        BY <2>2 DEF OrderTable
    <3>2. OrderTable'[o.uid] = o
        BY <1>1, <2>2, TableShows DEF StoreInv
    <3>3. ASSUME NEW u \in U, u # o.uid PROVE OrderTable'[u] = OrderTable[u]
      <4>1. CASE Committed(u)
        <5>1. PICK q \in OrderRows(rows) : q.uid = u
            BY <4>1 DEF Committed
        <5>2. q \in Orders /\ q \in OrderRows(rows)'
            BY <1>1, <2>2, <5>1, StoredAreOrders
        <5>3. OrderTable[u] = q
            BY <1>1, <5>1, <5>2, TableShows DEF StoreInv
        <5>4. OrderTable'[u] = q
            BY <1>1, <5>1, <5>2, TableShows DEF StoreInv
        <5> QED BY <5>3, <5>4
      <4>2. CASE ~Committed(u)
        <5>1. ~Committed(u)'
            BY <2>2, <3>3, <4>2 DEF Committed
        <5> QED BY <4>2, <5>1 DEF OrderTable
      <4> QED BY <4>1, <4>2
    <3>4. /\ OrderTable = [u \in U |-> OrderTable[u]]
          /\ OrderTable' = [u \in U |-> OrderTable'[u]]
        BY DEF OrderTable
    <3>5. OrderTable' = [OrderTable EXCEPT ![o.uid] = o]
        BY <3>2, <3>3, <3>4
    <3> QED BY <3>1, <3>5 DEF Readers!Store
  <2> QED BY <1>1, <2>1, <2>2, ContractNext, ContractAddsOne
<1>2. StoreInv /\ StoreInv' /\ [Next]_vars => [\E o \in Orders : Readers!Store(o)]_OrderTable
    BY <1>1
<1> QED BY <1>2, StoreInvHolds, PTL DEF Spec, CommitsAddRows
=============================================================================
