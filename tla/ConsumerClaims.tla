---------------------------- MODULE ConsumerClaims ----------------------------
(***************************************************************************)
(* What the repository's comments and documents say of the consumer, where *)
(* the code does something else.  Each claim has a run of its own, and its *)
(* counterexample is the way the code departs from it.                     *)
(***************************************************************************)
EXTENDS Consumer

Waiting(m) == Held(m) \/ m = pmsg \/ Queued(m, Len(jobs))

\* workers.go:172, "no commit since the message isn't processed, kafka will
\* resend when db is up": a message given up on a connection error stays above
\* the committed offset until it is settled.
FailedMessageStaysResendable ==
    \A m \in Messages : "conn" \in lostVia[m] /\ ~Settled(m) /\ ~Waiting(m) =>
        committed[m.part] <= m.off

\* README.md:426, "finish processing any in-flight messages": when Run has
\* returned and the database never failed, no message a worker had taken was
\* given up on a connection error.
InFlightFinished ==
    mpc = "closed" /\ outages = 0 => \A m \in Messages : "conn" \notin lostVia[m]

\* docs/consumer.md:45, "This prevents 'poison pill' messages from blocking the
\* consumer while ensuring no data is lost": an order meant for the DLQ that
\* the consumer has committed is in the DLQ or on its way there.
DlqKeepsCommitted ==
    \A m \in Messages : "dlq" \in lostVia[m] /\ m.off < committed[m.part] => Settled(m)

\* docs/consumer.md:47, "if it fails too, the worker skips message without
\* commits, marks db as unhealthy": outside a shutdown a new, valid order is
\* committed only when it is stored.
OutageSkipsWithoutCommit ==
    \A w \in Workers : wpc[w] = "commit" /\ Kind(wmsg[w]) = "valid" /\ ~ctxDone =>
        Uid(wmsg[w]) \in stored
=============================================================================
