---------------------------- MODULE StoreContract ----------------------------
(***************************************************************************)
(* What one call of OrderStore.Insert may do to the database and what it   *)
(* may return (internal/service/service.go, OrderStore).  Module           *)
(* OrderStore is the specification made of these outcomes, module DBStore  *)
(* models the transaction behind it statement by statement and is checked  *)
(* to implement it; Consumer and OrderService call Insert through it.      *)
(*                                                                         *)
(* An outcome is the error class the caller can tell apart with errors.Is  *)
(* and whether the order's rows are in the database afterwards because of  *)
(* this call.                                                              *)
(*   "nil"     no error                                                    *)
(*   "exists"  wraps store.ErrAlreadyExists                                *)
(*   "conn"    wraps store.ErrConnectionFailed                             *)
(*   "other"   any other error                                             *)
(***************************************************************************)

InsertErrors == {"nil", "exists", "conn", "other"}

Outcome(err, persisted) == [err |-> err, persisted |-> persisted]

\* The database answered every statement.  accepted: the schema takes the
\* order's values (column widths, NOT NULL); present: a row with the order's
\* UID is committed.
AnsweredOutcomes(accepted, present) ==
    {o \in {Outcome("nil", TRUE), Outcome("exists", FALSE), Outcome("other", FALSE)} :
        /\ o.err = "nil" => accepted /\ ~present
        /\ o.err = "exists" => present
        /\ o.err = "other" => ~accepted}

\* The connection broke, or the context was cancelled, during the call.  The
\* statements before COMMIT turn the errors isConnectionError recognises into
\* ErrConnectionFailed and wrap the others; the error of COMMIT itself is
\* returned as it is, and the server may have applied that COMMIT.
BrokenOutcomes(accepted, present) ==
    {o \in {Outcome("conn", FALSE), Outcome("other", FALSE), Outcome("other", TRUE)} :
        o.persisted => accepted /\ ~present}
=============================================================================
