------------------------------- MODULE Consumer -------------------------------
(***************************************************************************)
(* internal/consumer: KafkaConsumer.Run with its poll goroutine, the       *)
(* workers, the jobs channel between them, the dead letter queue (DLQ)     *)
(* producer and its delivery reports; the health checker of module         *)
(* DBHealth decides when the poll goroutine pauses; the database is        *)
(* reached through the contract of module StoreContract.                   *)
(*                                                                         *)
(* What Kafka keeps (committed offsets, the log, the DLQ topic) and what   *)
(* the database keeps (stored) survive a restart of the process; the rest  *)
(* is volatile.  A message stands for its partition and offset; its        *)
(* payload is abstracted to the way the code will classify it:             *)
(*   "malformed"  json decoding fails (or finds an unknown field)          *)
(*   "invalid"    Order.Validate rejects it                                *)
(*   "rejected"   valid, and the schema refuses one of its values          *)
(*   "valid"      valid and storable                                       *)
(***************************************************************************)
EXTENDS DBHealth, StoreContract, Sequences, FiniteSets

CONSTANTS
    Partitions,     \* partitions of the orders topic
    Log,            \* what producers wrote: Log[p] is a sequence of entries
    Workers,        \* the worker goroutines (consumer.worker_count)
    JobBuffer,      \* capacity of the jobs channel (consumer.job_buffer_size)
    MaxRetries,     \* consumer.max_retries
    CanPanic,       \* whether code called by a worker may panic
    MaxRebalances,  \* bound: rebalances in one life of the process
    MaxRestarts,    \* bound: restarts of the process
    NoMsg           \* no message

Kinds == {"malformed", "invalid", "rejected", "valid"}

Msg(p, off) == [part |-> p, off |-> off]
Messages == UNION {{Msg(p, i - 1) : i \in 1 .. Len(Log[p])} : p \in Partitions}

ASSUME LogAssumption ==
    /\ DOMAIN Log = Partitions
    /\ \A p \in Partitions :
        /\ Len(Log[p]) \in Nat
        /\ \A i \in 1 .. Len(Log[p]) : Log[p][i].kind \in Kinds
ASSUME JobBufferAssumption == JobBuffer \in Nat \ {0}
ASSUME MaxRetriesAssumption == MaxRetries \in Nat
ASSUME CanPanicAssumption == CanPanic \in BOOLEAN
ASSUME BoundsAssumption == MaxRebalances \in Nat /\ MaxRestarts \in Nat
ASSUME NoMsgAssumption == NoMsg \notin Messages

Kind(m) == Log[m.part][m.off + 1].kind
Uid(m) == Log[m.part][m.off + 1].uid
Uids == {Uid(m) : m \in Messages}

\* The places where the code, or Kafka on its behalf, lets go of a message
\* without having stored it or put it in the DLQ.
LossPoints ==
    {"conn",        \* retries exhausted on connection errors: return without commit
     "paused",      \* polled while isPaused: neither queued nor rewound
     "abandoned",   \* a worker held it when the process ended
     "dlq"}         \* Produce to the DLQ, or its delivery, failed, which is only logged

VARIABLES
    \* kept by Kafka and by the database
    committed,     \* committed offset of each partition
    dlqTopic,      \* messages in the DLQ topic
    stored,        \* UIDs of the committed orders
    \* the Kafka client
    position,      \* next offset Poll delivers
    assigned,      \* Assignment()
    paused,        \* partitions paused in the client
    dlqQueue,      \* messages handed to the DLQ producer, outcome unknown
    \* the poll goroutine
    ppc,           \* "top", "pausing", "resuming", "poll", "send", "done"
    pmsg,          \* the message it is sending to the workers
    isPaused,      \* its local flag
    \* the jobs channel
    jobs, jobsClosed,
    \* the workers
    wpc,           \* "idle", "process", "result", "commit", "exited"
    wmsg,          \* the message in hand
    attempt,       \* failed attempts of processWithRetries
    werr,          \* processErr
    \* KafkaConsumer.Run after wg.Wait: "running", "dlqClosed", "closed"
    mpc,
    \* bounds, and a record of where messages were let go
    rebalances, restarts, lostVia

kafkaVars == <<committed, dlqTopic, stored, position, assigned, paused, dlqQueue>>
pollVars == <<ppc, pmsg, isPaused>>
jobVars == <<jobs, jobsClosed>>
workerVars == <<wpc, wmsg, attempt, werr>>
runVars == <<mpc, rebalances, restarts, lostVia>>
consumerVars == <<kafkaVars, pollVars, jobVars, workerVars, runVars>>
vars == <<consumerVars, healthVars>>

WorkerErrors == InsertErrors \cup {"invalid"}

TypeOK ==
    /\ HealthTypeOK
    /\ committed \in [Partitions -> Nat]
    /\ dlqTopic \in SUBSET Messages
    /\ stored \in SUBSET Uids
    /\ position \in [Partitions -> Nat]
    /\ assigned \in SUBSET Partitions
    /\ paused \in SUBSET assigned
    /\ dlqQueue \in SUBSET Messages
    /\ ppc \in {"top", "pausing", "resuming", "poll", "send", "done"}
    /\ pmsg \in Messages \cup {NoMsg}
    /\ isPaused \in BOOLEAN
    /\ jobs \in Seq(Messages) /\ Len(jobs) <= JobBuffer
    /\ jobsClosed \in BOOLEAN
    /\ wpc \in [Workers -> {"idle", "process", "result", "commit", "exited"}]
    /\ wmsg \in [Workers -> Messages \cup {NoMsg}]
    /\ attempt \in [Workers -> Nat]
    /\ werr \in [Workers -> WorkerErrors]
    /\ mpc \in {"running", "dlqClosed", "closed"}
    /\ rebalances \in 0 .. MaxRebalances
    /\ restarts \in 0 .. MaxRestarts
    /\ lostVia \in [Messages -> SUBSET LossPoints]

\* A fresh process: NewKafkaConsumer has subscribed, Run has started its
\* goroutines, the group has not assigned a partition yet.
Init ==
    /\ HealthInit
    /\ committed = [p \in Partitions |-> 0]
    /\ dlqTopic = {} /\ stored = {}
    /\ position = [p \in Partitions |-> 0]
    /\ assigned = {} /\ paused = {} /\ dlqQueue = {}
    /\ ppc = "top" /\ pmsg = NoMsg /\ isPaused = FALSE
    /\ jobs = <<>> /\ jobsClosed = FALSE
    /\ wpc = [w \in Workers |-> "idle"]
    /\ wmsg = [w \in Workers |-> NoMsg]
    /\ attempt = [w \in Workers |-> 0]
    /\ werr = [w \in Workers |-> "nil"]
    /\ mpc = "running"
    /\ rebalances = 0 /\ restarts = 0
    /\ lostVia = [m \in Messages |-> {}]

Held(m) == \E w \in Workers : wmsg[w] = m

\* Lose(S, why) is lostVia after the messages of S were let go at why.
Lose(S, why) ==
    [m \in Messages |-> IF m \in S THEN lostVia[m] \cup {why} ELSE lostVia[m]]

-----------------------------------------------------------------------------
(* The poll goroutine.                                                      *)

\* The head of the loop: leave when the context is done (the deferred close
\* of jobs included), else read the health flag for manageConsumerState.
PollTop ==
    /\ ppc = "top"
    /\ IF ctxDone
         THEN ppc' = "done" /\ jobsClosed' = TRUE
         ELSE /\ ppc' = CASE ~isHealthy /\ ~isPaused -> "pausing"
                          [] isHealthy /\ isPaused -> "resuming"
                          [] OTHER -> "poll"
              /\ UNCHANGED jobsClosed
    /\ UNCHANGED <<kafkaVars, pmsg, isPaused, jobs, workerVars, runVars, healthVars>>

\* manageConsumerState, the database is unhealthy: after the sleep, pause
\* whatever is assigned by then; without an assignment, or when a call fails,
\* isPaused stays as it was.
ManagePause ==
    /\ ppc = "pausing"
    /\ \/ /\ assigned # {}
          /\ paused' = assigned
          /\ isPaused' = TRUE
       \/ UNCHANGED <<paused, isPaused>>
    /\ ppc' = "poll"
    /\ UNCHANGED <<committed, dlqTopic, stored, position, assigned, dlqQueue,
                   pmsg, jobVars, workerVars, runVars, healthVars>>

\* Mutant: the flag is reset and the partitions are not resumed.
ManageResumeFlagOnly ==
    /\ ppc = "resuming"
    /\ assigned # {}
    /\ isPaused' = FALSE
    /\ ppc' = "poll"
    /\ UNCHANGED <<kafkaVars, pmsg, jobVars, workerVars, runVars, healthVars>>

\* manageConsumerState, the database is healthy again.
ManageResume ==
    /\ ppc = "resuming"
    /\ assigned # {}
    /\ paused' = {}
    /\ isPaused' = FALSE
    /\ ppc' = "poll"
    /\ UNCHANGED <<committed, dlqTopic, stored, position, assigned, dlqQueue,
                   pmsg, jobVars, workerVars, runVars, healthVars>>

\* Mutant: the flag is reset although Resume failed.
ManageResumeFailsUnnoticed ==
    /\ ppc = "resuming"
    /\ isPaused' = FALSE
    /\ ppc' = "poll"
    /\ UNCHANGED <<kafkaVars, pmsg, jobVars, workerVars, runVars, healthVars>>

\* Assignment fails or is empty, or Resume returns an error.
ManageResumeFails ==
    /\ ppc = "resuming"
    /\ ppc' = "poll"
    /\ UNCHANGED <<kafkaVars, pmsg, isPaused, jobVars, workerVars, runVars, healthVars>>

\* Poll times out, or returns an event that is only logged.
PollNone ==
    /\ ppc = "poll"
    /\ ppc' = "top"
    /\ UNCHANGED <<kafkaVars, pmsg, isPaused, jobVars, workerVars, runVars, healthVars>>

\* Mutant: the client commits what it delivers (enable.auto.commit).
PollMessageAutoCommit(p) ==
    /\ ppc = "poll"
    /\ p \in assigned \ paused
    /\ position[p] < Len(Log[p])
    /\ position' = [position EXCEPT ![p] = @ + 1]
    /\ committed' = [committed EXCEPT ![p] = position[p] + 1]
    /\ ppc' = "send"
    /\ pmsg' = Msg(p, position[p])
    /\ UNCHANGED <<dlqTopic, stored, assigned, paused, dlqQueue, isPaused,
                   jobVars, workerVars, runVars, healthVars>>

\* Poll returns the next message of an assigned partition that is not paused.
\* While the goroutine believes it is paused the message is dropped, and the
\* client's position has moved past it.
PollMessage(p) ==
    /\ ppc = "poll"
    /\ p \in assigned \ paused
    /\ position[p] < Len(Log[p])
    /\ position' = [position EXCEPT ![p] = @ + 1]
    /\ IF isPaused
         THEN /\ ppc' = "top"
              /\ lostVia' = Lose({Msg(p, position[p])}, "paused")
              /\ UNCHANGED pmsg
         ELSE /\ ppc' = "send"
              /\ pmsg' = Msg(p, position[p])
              /\ UNCHANGED lostVia
    /\ UNCHANGED <<committed, dlqTopic, stored, assigned, paused, dlqQueue, isPaused,
                   jobVars, workerVars, mpc, rebalances, restarts, healthVars>>

\* Mutant: the channel never blocks its sender.
SendJobUnbounded ==
    /\ ppc = "send"
    /\ jobs' = Append(jobs, pmsg)
    /\ pmsg' = NoMsg
    /\ ppc' = "top"
    /\ UNCHANGED <<kafkaVars, isPaused, jobsClosed, workerVars, runVars, healthVars>>

\* jobs <- e: blocks while the buffer is full, whatever happens to the context.
SendJob ==
    /\ ppc = "send"
    /\ Len(jobs) < JobBuffer
    /\ jobs' = Append(jobs, pmsg)
    /\ pmsg' = NoMsg
    /\ ppc' = "top"
    /\ UNCHANGED <<kafkaVars, isPaused, jobsClosed, workerVars, runVars, healthVars>>

\* The group hands out partitions; the client serves it inside Poll and takes
\* up a partition at its committed offset.  A partition that stays assigned
\* may keep its pause or lose it.
Rebalance(S) ==
    /\ ppc = "poll"
    /\ mpc # "closed"
    /\ rebalances < MaxRebalances
    /\ rebalances' = rebalances + 1
    /\ assigned' = S
    /\ paused' \in SUBSET (paused \cap S)
    /\ position' = [p \in Partitions |-> IF p \in S THEN committed[p] ELSE position[p]]
    /\ UNCHANGED <<committed, dlqTopic, stored, dlqQueue, pollVars, jobVars, workerVars,
                   mpc, restarts, lostVia, healthVars>>

-----------------------------------------------------------------------------
(* The workers.                                                             *)

\* run receives a message, processMessage decodes it.  The retry loop is not
\* entered at all when maxRetries is 0, which leaves processErr nil.
Take(w) ==
    /\ wpc[w] = "idle"
    /\ jobs # <<>>
    /\ jobs' = Tail(jobs)
    /\ wmsg' = [wmsg EXCEPT ![w] = Head(jobs)]
    /\ wpc' = [wpc EXCEPT ![w] = IF Kind(Head(jobs)) = "malformed" THEN "commit"
                                 ELSE IF MaxRetries > 0 THEN "process" ELSE "result"]
    /\ UNCHANGED <<kafkaVars, pollVars, jobsClosed, attempt, werr, runVars, healthVars>>

\* Mutant: a worker that finds the channel empty leaves.
ExitWhenDrained(w) ==
    /\ wpc[w] = "idle"
    /\ ctxDone \/ jobs = <<>>
    /\ wpc' = [wpc EXCEPT ![w] = "exited"]
    /\ UNCHANGED <<kafkaVars, pollVars, jobVars, wmsg, attempt, werr, runVars, healthVars>>

\* run returns: the context is done (when a message is ready too, select picks
\* either) or the channel is closed and drained.
Exit(w) ==
    /\ wpc[w] = "idle"
    /\ ctxDone \/ (jobsClosed /\ jobs = <<>>)
    /\ wpc' = [wpc EXCEPT ![w] = "exited"]
    /\ UNCHANGED <<kafkaVars, pollVars, jobVars, wmsg, attempt, werr, runVars, healthVars>>

\* Mutant: an error of COMMIT counts as a connection error too.
ProcessOutcomesCommitRetried(m) ==
    LET accepted == Kind(m) = "valid"
        present == Uid(m) \in stored
    IN  IF Kind(m) = "invalid" THEN {Outcome("invalid", FALSE)}
        ELSE IF dbUp /\ ~ctxDone THEN AnsweredOutcomes(accepted, present)
        ELSE {Outcome("conn", o.persisted) : o \in BrokenOutcomes(accepted, present)}

\* What one call of ProcessNewOrder may return: validation, then Insert.
ProcessOutcomes(m) ==
    LET accepted == Kind(m) = "valid"
        present == Uid(m) \in stored
    IN  IF Kind(m) = "invalid" THEN {Outcome("invalid", FALSE)}
        ELSE IF dbUp /\ ~ctxDone THEN AnsweredOutcomes(accepted, present)
        ELSE BrokenOutcomes(accepted, present)

\* One turn of the loop of processWithRetries: a connection error is retried
\* while attempts are left, anything else ends the loop.
Attempt(w) ==
    /\ wpc[w] = "process"
    /\ \E o \in ProcessOutcomes(wmsg[w]) :
        /\ stored' = IF o.persisted THEN stored \cup {Uid(wmsg[w])} ELSE stored
        /\ werr' = [werr EXCEPT ![w] = o.err]
        /\ IF o.err = "conn" /\ attempt[w] + 1 < MaxRetries
             THEN attempt' = [attempt EXCEPT ![w] = @ + 1] /\ UNCHANGED wpc
             ELSE wpc' = [wpc EXCEPT ![w] = "result"] /\ UNCHANGED attempt
    /\ UNCHANGED <<committed, dlqTopic, position, assigned, paused, dlqQueue,
                   pollVars, jobVars, wmsg, runVars, healthVars>>

\* The worker is done with its message and goes back to the select.
Release(w) ==
    /\ wpc' = [wpc EXCEPT ![w] = "idle"]
    /\ wmsg' = [wmsg EXCEPT ![w] = NoMsg]
    /\ attempt' = [attempt EXCEPT ![w] = 0]
    /\ werr' = [werr EXCEPT ![w] = "nil"]

\* sendToDLQ: Produce queues the message, or fails and the error is logged.
SendToDLQ(m) ==
    \/ dlqQueue' = dlqQueue \cup {m} /\ UNCHANGED lostVia
    \/ lostVia' = Lose({m}, "dlq") /\ UNCHANGED dlqQueue

\* Mutant: an unhandled error is logged and not sent to the DLQ.
ResultToCommitWithoutDLQ(w) ==
    /\ wpc[w] = "result"
    /\ werr[w] # "conn"
    /\ IF werr[w] \in {"nil", "other"} THEN UNCHANGED <<dlqQueue, lostVia>> ELSE SendToDLQ(wmsg[w])
    /\ wpc' = [wpc EXCEPT ![w] = "commit"]
    /\ UNCHANGED <<committed, dlqTopic, stored, position, assigned, paused, pollVars, jobVars,
                   wmsg, attempt, werr, mpc, rebalances, restarts, healthVars>>

\* handleProcessingResult, success and the three errors that go to the DLQ:
\* the commit follows in every case.
ResultToCommit(w) ==
    /\ wpc[w] = "result"
    /\ werr[w] # "conn"
    /\ IF werr[w] = "nil" THEN UNCHANGED <<dlqQueue, lostVia>> ELSE SendToDLQ(wmsg[w])
    /\ wpc' = [wpc EXCEPT ![w] = "commit"]
    /\ UNCHANGED <<committed, dlqTopic, stored, position, assigned, paused, pollVars, jobVars,
                   wmsg, attempt, werr, mpc, rebalances, restarts, healthVars>>

\* Mutant: no return after MarkUnhealthy, so that the commit follows.
ResultConnFailedCommits(w) ==
    /\ wpc[w] = "result"
    /\ werr[w] = "conn"
    /\ MarkUnhealthy
    /\ wpc' = [wpc EXCEPT ![w] = "commit"]
    /\ UNCHANGED <<kafkaVars, pollVars, jobVars, wmsg, attempt, werr, runVars,
                   hcPc, pingOk, ctxDone, dbUp, outages>>

\* Mutant: the message goes back to the end of the channel for another try.
ResultConnFailedRequeues(w) ==
    /\ wpc[w] = "result"
    /\ werr[w] = "conn"
    /\ Len(jobs) < JobBuffer
    /\ MarkUnhealthy
    /\ jobs' = Append(jobs, wmsg[w])
    /\ Release(w)
    /\ UNCHANGED <<kafkaVars, pollVars, jobsClosed, lostVia, mpc, rebalances, restarts,
                   hcPc, pingOk, ctxDone, dbUp, outages>>

\* handleProcessingResult, connection error: mark the database unhealthy and
\* return without a commit.
ResultConnFailed(w) ==
    /\ wpc[w] = "result"
    /\ werr[w] = "conn"
    /\ MarkUnhealthy
    /\ lostVia' = Lose({wmsg[w]}, "conn")
    /\ Release(w)
    /\ UNCHANGED <<kafkaVars, pollVars, jobVars, mpc, rebalances, restarts,
                   hcPc, pingOk, ctxDone, dbUp, outages>>

\* CommitMessage stores offset+1 for the partition, whatever was committed
\* before; its error is only logged.
Commit(w) ==
    /\ wpc[w] = "commit"
    /\ \/ committed' = [committed EXCEPT ![wmsg[w].part] = wmsg[w].off + 1]
       \/ UNCHANGED committed
    /\ Release(w)
    /\ UNCHANGED <<dlqTopic, stored, position, assigned, paused, dlqQueue,
                   pollVars, jobVars, runVars, healthVars>>

\* A panic while the message is processed: recovered, sent to the DLQ, and
\* the message is not committed.
Panic(w) ==
    /\ CanPanic
    /\ wpc[w] \in {"process", "result", "commit"}
    /\ SendToDLQ(wmsg[w])
    /\ Release(w)
    /\ UNCHANGED <<committed, dlqTopic, stored, position, assigned, paused, pollVars, jobVars,
                   mpc, rebalances, restarts, healthVars>>

-----------------------------------------------------------------------------
(* The DLQ producer and the end of Run.                                     *)

\* A delivery report arrives: delivered.
DlqDelivered(m) ==
    /\ m \in dlqQueue
    /\ dlqTopic' = dlqTopic \cup {m}
    /\ dlqQueue' = dlqQueue \ {m}
    /\ UNCHANGED <<committed, stored, position, assigned, paused, pollVars, jobVars,
                   workerVars, runVars, healthVars>>

\* A delivery report arrives with an error (delivery.timeout.ms, retries):
\* drainDLQReports logs it, and nobody produces the message again.
DlqFailed(m) ==
    /\ m \in dlqQueue
    /\ dlqQueue' = dlqQueue \ {m}
    /\ lostVia' = Lose({m}, "dlq")
    /\ UNCHANGED <<committed, dlqTopic, stored, position, assigned, paused, pollVars, jobVars,
                   workerVars, mpc, rebalances, restarts, healthVars>>

\* The producer goes away without a Flush: some of its queue made it.
DropDlqQueue(delivered) ==
    /\ delivered \subseteq dlqQueue
    /\ dlqTopic' = dlqTopic \cup delivered
    /\ dlqQueue' = {}

\* Mutant: Run waits for the poll goroutine as well as for the workers.
CloseDLQAfterPoller ==
    /\ mpc = "running"
    /\ \A w \in Workers : wpc[w] = "exited"
    /\ ppc = "done"
    /\ \E delivered \in SUBSET dlqQueue :
        /\ DropDlqQueue(delivered)
        /\ lostVia' = Lose(dlqQueue \ delivered, "dlq")
    /\ mpc' = "dlqClosed"
    /\ UNCHANGED <<committed, stored, position, assigned, paused, pollVars, jobVars,
                   workerVars, rebalances, restarts, healthVars>>

\* wg.Wait returned: dlqPublisher.Close().
CloseDLQ ==
    /\ mpc = "running"
    /\ \A w \in Workers : wpc[w] = "exited"
    /\ \E delivered \in SUBSET dlqQueue :
        /\ DropDlqQueue(delivered)
        /\ lostVia' = Lose(dlqQueue \ delivered, "dlq")
    /\ mpc' = "dlqClosed"
    /\ UNCHANGED <<committed, stored, position, assigned, paused, pollVars, jobVars,
                   workerVars, rebalances, restarts, healthVars>>

\* consumer.Close(): leaves the group.  The poll goroutine is not waited for.
CloseConsumer ==
    /\ mpc = "dlqClosed"
    /\ mpc' = "closed"
    /\ assigned' = {} /\ paused' = {}
    /\ UNCHANGED <<committed, dlqTopic, stored, position, dlqQueue, pollVars, jobVars,
                   workerVars, rebalances, restarts, lostVia, healthVars>>

\* The process ends, by a crash at any point or after Run has returned, and a
\* new one starts.  Kafka and the database keep what they have.
Restart ==
    /\ restarts < MaxRestarts
    /\ restarts' = restarts + 1
    /\ \E delivered \in SUBSET dlqQueue :
        /\ dlqTopic' = dlqTopic \cup delivered
        /\ lostVia' = [m \in Messages |->
                        lostVia[m]
                        \cup (IF m \in dlqQueue \ delivered THEN {"dlq"} ELSE {})
                        \cup (IF Held(m) THEN {"abandoned"} ELSE {})]
    /\ position' = [p \in Partitions |-> 0]
    /\ assigned' = {} /\ paused' = {} /\ dlqQueue' = {}
    /\ ppc' = "top" /\ pmsg' = NoMsg /\ isPaused' = FALSE
    /\ jobs' = <<>> /\ jobsClosed' = FALSE
    /\ wpc' = [w \in Workers |-> "idle"]
    /\ wmsg' = [w \in Workers |-> NoMsg]
    /\ attempt' = [w \in Workers |-> 0]
    /\ werr' = [w \in Workers |-> "nil"]
    /\ mpc' = "running"
    /\ rebalances' = 0
    /\ isHealthy' = FALSE /\ hcPc' = "ping" /\ pingOk' = FALSE /\ ctxDone' = FALSE
    /\ UNCHANGED <<committed, stored, dbUp, outages>>

-----------------------------------------------------------------------------
PollerStep ==
    \/ PollTop \/ ManagePause \/ ManageResume \/ ManageResumeFails
    \/ PollNone \/ SendJob
    \/ \E p \in Partitions : PollMessage(p)
    \/ \E S \in SUBSET Partitions : Rebalance(S)

WorkerStep(w) ==
    \/ Take(w) \/ Exit(w) \/ Attempt(w)
    \/ ResultToCommit(w) \/ ResultConnFailed(w) \/ Commit(w) \/ Panic(w)

DlqStep == \E m \in Messages : DlqDelivered(m) \/ DlqFailed(m)

RunStep == CloseDLQ \/ CloseConsumer

HealthAndEnvironment ==
    /\ HealthStep \/ DbDown \/ DbUp \/ Cancel
    /\ UNCHANGED consumerVars

\* Run has returned and the process stays down.
Terminated == mpc = "closed" /\ UNCHANGED vars

Next ==
    \/ PollerStep
    \/ \E w \in Workers : WorkerStep(w)
    \/ DlqStep
    \/ RunStep
    \/ HealthAndEnvironment
    \/ Restart
    \/ Terminated

Spec == Init /\ [][Next]_vars
-----------------------------------------------------------------------------
(* Safety.                                                                  *)

\* The message needs no further work: it can never be decoded (the code's
\* comment: "discarding"), its order is in the database, or the DLQ has it.
Settled(m) ==
    \/ Kind(m) = "malformed"
    \/ Kind(m) = "valid" /\ Uid(m) \in stored
    \/ m \in dlqQueue \cup dlqTopic

Accounted(m) == Settled(m) \/ Held(m) \/ lostVia[m] # {}

\* A committed offset covers every message below it, and one worker commits
\* while others are still busy, so what may lie below it is the consumer's
\* central question.  Each message there is settled, or in a worker's hands,
\* or was let go at one of the LossPoints; none is still queued in jobs, in
\* the hands of the poll goroutine or unread, whatever rebalances, restarts,
\* pauses and out-of-order commits happened on the way.
NoSilentLoss ==
    \A m \in Messages : m.off < committed[m.part] => Accounted(m)

\* A worker reaches w.commit(msg) only when the message is settled, or was
\* meant for the DLQ and Produce or the delivery failed.
CommitOnlyAfterHandling ==
    \A w \in Workers : wpc[w] = "commit" =>
        Settled(wmsg[w]) \/ "dlq" \in lostVia[wmsg[w]]

\* The local flag isPaused and the client agree: a consumer that believes it
\* runs has no partition left paused, through rebalances and failed calls of
\* Pause and Resume (such a partition would never be consumed again).
PauseFlagsAgree == ~isPaused => paused = {}

\* Every order has its own UID.
UniqueUids == \A m, n \in Messages : Uid(m) = Uid(n) => m = n

\* The retry loop never meets its own insert: when every order has its own
\* UID and the process neither restarted nor rejoined the group, no worker
\* sees ErrAlreadyExists, although attempts are repeated after broken calls.
NoSelfConflict ==
    UniqueUids /\ restarts = 0 /\ rebalances <= 1 => \A w \in Workers : werr[w] # "exists"

\* Settled for good, whatever becomes of the DLQ producer's queue.
Final(m) ==
    \/ Kind(m) = "malformed"
    \/ Kind(m) = "valid" /\ Uid(m) \in stored
    \/ m \in dlqTopic

\* The fate of a message in the terms of module Delivery.
Fate(m) ==
    IF Final(m) THEN "settled"
    ELSE IF m \in dlqQueue THEN "queued"
    ELSE IF lostVia[m] # {} THEN "lost"
    ELSE IF Held(m) THEN "held"
    ELSE "waiting"

Journey == INSTANCE Delivery WITH fate <- [m \in Messages |-> Fate(m)]

\* The consumer keeps the promise of module Delivery, whatever rebalances,
\* restarts, pauses, retries and out-of-order commits happen on the way: what
\* is settled stays settled, a worker's message never goes back to waiting (it
\* is settled, or let go at a loss point), and an offset is committed only for
\* a message that was dealt with, past none that still waits.
ImplementsDelivery == Journey!DeliverySpec

\* What App.Run relies on is module ConsumerRun: Run does not return by itself
\* (the clients would be closed and the service go on without a consumer), and
\* when it has returned no worker is inside the database, although the poll
\* goroutine and queued messages may be left behind.
Life == INSTANCE ConsumerRun WITH
    run <- IF mpc = "closed" THEN "returned" ELSE "running",
    inserting <- \E w \in Workers : wpc[w] = "process"

ImplementsConsumerRun == Life!RunSpec

-----------------------------------------------------------------------------
(* The inductive invariant behind NoSilentLoss.                             *)

\* A goroutine has a message in hand exactly while it works on one.
InHand ==
    /\ ppc = "send" <=> pmsg # NoMsg
    /\ \A w \in Workers : wpc[w] \in {"process", "result", "commit"} <=> wmsg[w] # NoMsg

Before(m, n) == m.part = n.part /\ m.off < n.off

\* m is among the first n messages of the jobs channel.
Queued(m, n) == \E j \in 1 .. n : jobs[j] = m

\* What lies below the position of an assigned partition is accounted for, or
\* queued, or in the hands of the poll goroutine.
ReadAccounted ==
    \A m \in Messages : m.part \in assigned /\ m.off < position[m.part] =>
        Accounted(m) \/ Queued(m, Len(jobs)) \/ m = pmsg

\* What lies below a message on its way to a worker is accounted for or ahead
\* of it on the way: the channel is first in, first out.
SendInOrder ==
    pmsg # NoMsg =>
        \A m \in Messages : Before(m, pmsg) => Accounted(m) \/ Queued(m, Len(jobs))

JobsInOrder ==
    \A i \in 1 .. Len(jobs) : \A m \in Messages :
        Before(m, jobs[i]) => Accounted(m) \/ Queued(m, i - 1)

HeldInOrder ==
    \A w \in Workers : wmsg[w] # NoMsg =>
        \A m \in Messages : Before(m, wmsg[w]) => Accounted(m)

\* processErr is nil only for a stored order.
NilMeansStored ==
    \A w \in Workers : wpc[w] = "result" /\ werr[w] = "nil" =>
        Kind(wmsg[w]) = "valid" /\ Uid(wmsg[w]) \in stored

\* The inductive invariant: NoSilentLoss alone is not preserved by Commit,
\* which needs to know what lies below the message a worker holds, and that
\* comes from the order in which messages travel from Poll to the workers.
DeliveryInv ==
    /\ TypeOK
    /\ InHand
    /\ ReadAccounted
    /\ SendInOrder
    /\ JobsInOrder
    /\ HeldInOrder
    /\ NilMeansStored
    /\ CommitOnlyAfterHandling
    /\ NoSilentLoss

-----------------------------------------------------------------------------
(* Liveness.                                                                *)

\* Each goroutine keeps taking steps; a Poll that keeps being possible
\* eventually delivers, a Resume that keeps being tried eventually succeeds.
Fairness ==
    /\ WF_vars(PollTop) /\ WF_vars(ManagePause) /\ WF_vars(SendJob)
    /\ WF_vars(ManageResumeFails) /\ SF_vars(ManageResume)
    /\ WF_vars(PollNone) /\ \A p \in Partitions : SF_vars(PollMessage(p))
    /\ \A w \in Workers : WF_vars(WorkerStep(w))
    /\ WF_vars(RunStep)
    /\ WF_vars(HealthStep /\ UNCHANGED consumerVars)

FairSpec == Spec /\ Fairness

\* After App.Run cancels the context, Run returns: every worker leaves and
\* both clients are closed, whatever the workers, the poll goroutine and the
\* database were doing, and although the poll goroutine may be stuck sending
\* to a channel nobody reads any more.
ShutdownTerminates == ctxDone ~> mpc = "closed" \/ ~ctxDone

\* While the process keeps running, its partition stays assigned and the
\* database stays up in the end, each message of the partition is settled, or
\* let go at a loss point: none waits for ever behind a pause, a full buffer
\* or a busy worker.
EveryMessageReached ==
    \A m \in Messages :
        <>[](m.part \in assigned /\ dbUp /\ ~ctxDone)
            => <>(Settled(m) \/ lostVia[m] # {})

\* Once the database stays up and partitions stay assigned, the flag goes up
\* for good and the partitions are resumed, although workers may still mark
\* the database unhealthy with errors from the outage (ResultConnFailed) and
\* calls of Resume may fail.
ResumesAfterOutage ==
    <>[](assigned # {} /\ dbUp /\ ~ctxDone) => <>[](isHealthy /\ paused = {})

\* In an outage that does not end the flag goes down for good, although a ping
\* that was answered before the outage may raise it over a worker's mark.
OutageNoticed == <>[](~dbUp /\ ~ctxDone) => <>[]~isHealthy
=============================================================================
