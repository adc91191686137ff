------------------------------ MODULE MCDBStore ------------------------------
(* An instance of module DBStore for TLC: three orders under one UID, two    *)
(* that the schema takes and one that it refuses when the transaction has    *)
(* inserted its first row.                                                   *)
EXTENDS DBStore, TLC

CONSTANTS c1, c2, c3

Order(uid, items, refusedBy) == [uid |-> uid, items |-> items, refusedBy |-> refusedBy]

MCOrders == {Order("a", 1, "none"), Order("a", 2, "none"), Order("a", 1, "deliveries")}
=============================================================================
