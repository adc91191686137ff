---------------------------- MODULE ConsumerProofs ----------------------------
(***************************************************************************)
(* Proofs about module Consumer, for every log, number of partitions and   *)
(* workers, buffer size and number of faults.                              *)
(***************************************************************************)
EXTENDS Consumer, TLAPS

-----------------------------------------------------------------------------
(* Messages and sequences of messages.                                      *)

\* A message is a partition and an offset within its log.
LEMMA MessageShape ==
    ASSUME NEW m \in Messages
    PROVE  /\ m.part \in Partitions
           /\ m.off \in Nat
           /\ m.off < Len(Log[m.part])
           /\ m = Msg(m.part, m.off)
           /\ m # NoMsg
  <1>1. PICK p \in Partitions : m \in {Msg(p, i - 1) : i \in 1 .. Len(Log[p])}
    BY DEF Messages
  <1>2. PICK i \in 1 .. Len(Log[p]) : m = Msg(p, i - 1)
    BY <1>1
  <1>3. Len(Log[p]) \in Nat
    BY LogAssumption
  <1> QED
    BY <1>1, <1>2, <1>3, NoMsgAssumption DEF Msg

\* An offset within a partition's log is a message.
LEMMA MessageOf ==
    ASSUME NEW p \in Partitions, NEW o \in Nat, o < Len(Log[p])
    PROVE  Msg(p, o) \in Messages
  <1>1. Len(Log[p]) \in Nat
    BY LogAssumption
  <1>2. o + 1 \in 1 .. Len(Log[p]) /\ o = (o + 1) - 1
    BY <1>1
  <1>3. Msg(p, o) \in {Msg(p, i - 1) : i \in 1 .. Len(Log[p])}
    BY <1>2
  <1> QED
    BY <1>3 DEF Messages

\* Counting up keeps a family of counters.
LEMMA CountUp ==
    ASSUME NEW f \in [Workers -> Nat], NEW w \in Workers
    PROVE  [f EXCEPT ![w] = @ + 1] \in [Workers -> Nat]
  OBVIOUS

\* Letting go of messages keeps the shape of the record of losses, adds the
\* loss point to the messages concerned and leaves the others alone.
LEMMA LoseFacts ==
    ASSUME NEW S, NEW why \in LossPoints, lostVia \in [Messages -> SUBSET LossPoints]
    PROVE  /\ Lose(S, why) \in [Messages -> SUBSET LossPoints]
           /\ \A m \in Messages : lostVia[m] \subseteq Lose(S, why)[m]
           /\ \A m \in Messages : m \in S => why \in Lose(S, why)[m]
  BY DEF Lose
-----------------------------------------------------------------------------
(* Types.                                                                   *)

\* The Boolean variables and the others, separately: the provers treat them
\* differently.
FlagTypes ==
    /\ isHealthy \in BOOLEAN /\ pingOk \in BOOLEAN /\ ctxDone \in BOOLEAN
    /\ dbUp \in BOOLEAN /\ isPaused \in BOOLEAN /\ jobsClosed \in BOOLEAN

HealthData ==
    /\ hcPc \in {"ping", "apply", "stopped"}
    /\ outages \in 0 .. MaxOutages

ClientData ==
    /\ committed \in [Partitions -> Nat]
    /\ dlqTopic \in SUBSET Messages
    /\ stored \in SUBSET Uids
    /\ position \in [Partitions -> Nat]
    /\ assigned \in SUBSET Partitions
    /\ paused \in SUBSET assigned
    /\ dlqQueue \in SUBSET Messages
    /\ mpc \in {"running", "dlqClosed", "closed"}
    /\ rebalances \in 0 .. MaxRebalances
    /\ restarts \in 0 .. MaxRestarts
    /\ lostVia \in [Messages -> SUBSET LossPoints]

GoroutineData ==
    /\ ppc \in {"top", "pausing", "resuming", "poll", "send", "done"}
    /\ pmsg \in Messages \cup {NoMsg}
    /\ jobs \in Seq(Messages) /\ Len(jobs) <= JobBuffer
    /\ wpc \in [Workers -> {"idle", "process", "result", "commit", "exited"}]
    /\ wmsg \in [Workers -> Messages \cup {NoMsg}]
    /\ attempt \in [Workers -> Nat]
    /\ werr \in [Workers -> WorkerErrors]

TypeInv == FlagTypes /\ HealthData /\ ClientData /\ GoroutineData /\ InHand

\* The four groups are the declared types.
LEMMA TypeGroups == TypeInv <=> TypeOK /\ InHand
  BY DEF TypeInv, TypeOK, HealthTypeOK, FlagTypes, HealthData, ClientData, GoroutineData

\* The initial state has the declared types.
LEMMA InitTypeInv == Init => TypeInv
  <1> SUFFICES ASSUME Init PROVE TypeInv
    OBVIOUS
  <1>1. FlagTypes
    BY Zenon DEF Init, HealthInit, FlagTypes
  <1>2. HealthData
    BY MaxOutagesAssumption DEF Init, HealthInit, HealthData
  <1>3. ClientData
    BY BoundsAssumption DEF Init, ClientData
  <1>4. GoroutineData /\ InHand
    BY JobBufferAssumption DEF Init, GoroutineData, InHand, WorkerErrors, InsertErrors
  <1> QED
    BY <1>1, <1>2, <1>3, <1>4 DEF TypeInv

\* Every step keeps the flags Boolean.
LEMMA FlagStep == FlagTypes /\ [Next]_vars => FlagTypes'
  <1> SUFFICES ASSUME FlagTypes, [Next]_vars PROVE FlagTypes'
    OBVIOUS
  <1> USE DEF healthVars, consumerVars, kafkaVars, pollVars, jobVars, workerVars, runVars
  <1>1. CASE PollerStep
    <2>1. CASE PollTop
      BY <2>1, Zenon DEF PollTop, FlagTypes
    <2>2. CASE ManagePause \/ ManageResume
      BY <2>2, Zenon DEF ManagePause, ManageResume, FlagTypes
    <2>3. CASE ManageResumeFails \/ PollNone \/ SendJob
      BY <2>3, Zenon DEF ManageResumeFails, PollNone, SendJob, FlagTypes
    <2>4. ASSUME NEW p \in Partitions, PollMessage(p) PROVE FlagTypes'
      BY <2>4, Zenon DEF PollMessage, FlagTypes
    <2>5. ASSUME NEW S \in SUBSET Partitions, Rebalance(S) PROVE FlagTypes'
      BY <2>5, Zenon DEF Rebalance, FlagTypes
    <2> QED
      BY <1>1, <2>1, <2>2, <2>3, <2>4, <2>5 DEF PollerStep
  <1>2. ASSUME NEW w \in Workers, WorkerStep(w) PROVE FlagTypes'
    <2>1. CASE Take(w) \/ Exit(w) \/ Attempt(w)
      BY <2>1, Zenon DEF Take, Exit, Attempt, FlagTypes
    <2>2. CASE ResultToCommit(w) \/ Commit(w) \/ Panic(w)
      BY <2>2, Zenon DEF ResultToCommit, Commit, Panic, FlagTypes
    <2>3. CASE ResultConnFailed(w)
      BY <2>3, Zenon DEF ResultConnFailed, MarkUnhealthy, FlagTypes
    <2> QED
      BY <1>2, <2>1, <2>2, <2>3 DEF WorkerStep
  <1>3. CASE DlqStep \/ RunStep
    BY <1>3, Zenon DEF DlqStep, DlqDelivered, DlqFailed, RunStep, CloseDLQ, CloseConsumer, FlagTypes
  <1>4. CASE HealthAndEnvironment
    BY <1>4, Zenon DEF HealthAndEnvironment, HealthStep, HcPing, HcApply, HcStop,
                       DbDown, DbUp, Cancel, FlagTypes
  <1>5. CASE Restart
    BY <1>5, Zenon DEF Restart, FlagTypes
  <1>6. CASE UNCHANGED vars
    BY <1>6, Zenon DEF vars, FlagTypes
  <1> QED
    BY <1>1, <1>2, <1>3, <1>4, <1>5, <1>6 DEF Next, Terminated

DataTypes == HealthData /\ ClientData /\ GoroutineData /\ InHand

\* The outcomes of one attempt are errors a worker knows.
LEMMA OutcomeTypes ==
    ASSUME NEW m, NEW o \in ProcessOutcomes(m)
    PROVE  o.err \in WorkerErrors
  BY DEF ProcessOutcomes, AnsweredOutcomes, BrokenOutcomes, Outcome, WorkerErrors, InsertErrors

\* Every step of the poll goroutine keeps the types.
LEMMA PollerTypes == DataTypes /\ PollerStep => DataTypes'
  <1> SUFFICES ASSUME DataTypes, PollerStep PROVE DataTypes'
    OBVIOUS
  <1> USE DEF healthVars, consumerVars, kafkaVars, pollVars, jobVars, workerVars, runVars,
              DataTypes, HealthData, ClientData, GoroutineData, InHand
  <1>1. CASE PollTop
    BY <1>1 DEF PollTop
  <1>2. CASE ManagePause \/ ManageResume
    BY <1>2 DEF ManagePause, ManageResume
  <1>3. CASE ManageResumeFails \/ PollNone
    BY <1>3 DEF ManageResumeFails, PollNone
  <1>4. CASE SendJob
    <2>1. pmsg \in Messages
      BY <1>4 DEF SendJob
    <2>2. jobs' \in Seq(Messages) /\ Len(jobs') <= JobBuffer
      BY <1>4, <2>1, JobBufferAssumption DEF SendJob
    <2> QED
      BY <1>4, <2>2 DEF SendJob
  <1>5. ASSUME NEW p \in Partitions, PollMessage(p) PROVE DataTypes'
    <2>1. Msg(p, position[p]) \in Messages
      BY <1>5, MessageOf DEF PollMessage
    <2>2. Msg(p, position[p]) # NoMsg
      BY <2>1, NoMsgAssumption
    <2>3. lostVia' \in [Messages -> SUBSET LossPoints]
      BY <1>5, LoseFacts DEF PollMessage, LossPoints
    <2> QED
      BY <1>5, <2>1, <2>2, <2>3 DEF PollMessage
  <1>6. ASSUME NEW S \in SUBSET Partitions, Rebalance(S) PROVE DataTypes'
    BY <1>6, BoundsAssumption DEF Rebalance
  <1> QED
    BY <1>1, <1>2, <1>3, <1>4, <1>5, <1>6 DEF PollerStep

\* Every step of a worker keeps the types.
LEMMA WorkerTypes ==
    ASSUME NEW w \in Workers, DataTypes, WorkerStep(w)
    PROVE  DataTypes'
  <1> USE DEF healthVars, consumerVars, kafkaVars, pollVars, jobVars, workerVars, runVars,
              DataTypes, HealthData, ClientData, GoroutineData, InHand
  <1>h. "nil" \in WorkerErrors
    BY DEF WorkerErrors, InsertErrors
  <1>1. CASE Take(w)
    <2>1. Head(jobs) \in Messages /\ Head(jobs) # NoMsg
      BY <1>1, NoMsgAssumption DEF Take
    <2>2. jobs' \in Seq(Messages) /\ Len(jobs') <= JobBuffer
      BY <1>1, JobBufferAssumption DEF Take
    <2> QED
      BY <1>1, <2>1, <2>2 DEF Take
  <1>2. CASE Exit(w)
    BY <1>2 DEF Exit
  <1>3. CASE Attempt(w)
    <2>1. PICK o \in ProcessOutcomes(wmsg[w]) :
            /\ stored' = IF o.persisted THEN stored \cup {Uid(wmsg[w])} ELSE stored
            /\ werr' = [werr EXCEPT ![w] = o.err]
            /\ IF o.err = "conn" /\ attempt[w] + 1 < MaxRetries
                 THEN attempt' = [attempt EXCEPT ![w] = @ + 1] /\ UNCHANGED wpc
                 ELSE wpc' = [wpc EXCEPT ![w] = "result"] /\ UNCHANGED attempt
      BY <1>3 DEF Attempt
    <2>2. o.err \in WorkerErrors
      BY OutcomeTypes
    <2>3. wmsg[w] \in Messages
      BY <1>3 DEF Attempt
    <2>4. stored' \in SUBSET Uids
      BY <2>1, <2>3 DEF Uids
    <2>a. attempt' = attempt \/ attempt' = [attempt EXCEPT ![w] = @ + 1]
      BY <2>1
    <2>b. attempt' \in [Workers -> Nat]
      BY <2>a, CountUp
    <2>5. attempt' \in [Workers -> Nat] /\ werr' \in [Workers -> WorkerErrors]
      BY <2>1, <2>2, <2>b
    <2>6. wpc' \in [Workers -> {"idle", "process", "result", "commit", "exited"}]
      BY <2>1
    <2>7. InHand'
      BY <1>3, <2>1 DEF Attempt
    <2> QED
      BY <1>3, <2>4, <2>5, <2>6, <2>7 DEF Attempt
  <1>4. ASSUME SendToDLQ(wmsg[w]), wpc[w] \in {"process", "result", "commit"}
        PROVE  dlqQueue' \in SUBSET Messages /\ lostVia' \in [Messages -> SUBSET LossPoints]
    <2>1. wmsg[w] \in Messages
      BY <1>4
    <2> QED
      BY <1>4, <2>1, LoseFacts DEF SendToDLQ, LossPoints
  <1>5. CASE ResultToCommit(w)
    <2>1. dlqQueue' \in SUBSET Messages /\ lostVia' \in [Messages -> SUBSET LossPoints]
      BY <1>4, <1>5 DEF ResultToCommit
    <2> QED
      BY <1>5, <2>1 DEF ResultToCommit
  <1>6. CASE ResultConnFailed(w)
    <2>1. lostVia' \in [Messages -> SUBSET LossPoints]
      BY <1>6, LoseFacts DEF ResultConnFailed, LossPoints
    <2> QED
      BY <1>h, <1>6, <2>1 DEF ResultConnFailed, Release
  <1>7. CASE Commit(w)
    <2>1. wmsg[w] \in Messages
      BY <1>7 DEF Commit
    <2>2. wmsg[w].part \in Partitions /\ wmsg[w].off + 1 \in Nat
      BY <2>1, MessageShape
    <2>3. committed' \in [Partitions -> Nat]
      BY <1>7, <2>2 DEF Commit
    <2> QED
      BY <1>h, <1>7, <2>3 DEF Commit, Release
  <1>8. CASE Panic(w)
    <2>1. dlqQueue' \in SUBSET Messages /\ lostVia' \in [Messages -> SUBSET LossPoints]
      BY <1>4, <1>8 DEF Panic
    <2> QED
      BY <1>h, <1>8, <2>1 DEF Panic, Release
  <1> QED
    BY <1>1, <1>2, <1>3, <1>5, <1>6, <1>7, <1>8, WorkerStep(w) DEF WorkerStep

\* The remaining steps keep the types.
LEMMA OtherTypes ==
    ASSUME DataTypes,
           DlqStep \/ RunStep \/ HealthAndEnvironment \/ Restart \/ UNCHANGED vars
    PROVE  DataTypes'
  <1> USE DEF healthVars, consumerVars, kafkaVars, pollVars, jobVars, workerVars, runVars,
              DataTypes, HealthData, ClientData, GoroutineData, InHand
  <1>1. ASSUME NEW m \in Messages, DlqDelivered(m) PROVE DataTypes'
    BY <1>1 DEF DlqDelivered
  <1>2. ASSUME NEW m \in Messages, DlqFailed(m) PROVE DataTypes'
    <2>1. lostVia' \in [Messages -> SUBSET LossPoints]
      BY <1>2, LoseFacts DEF DlqFailed, LossPoints
    <2> QED
      BY <1>2, <2>1 DEF DlqFailed
  <1>3. CASE CloseDLQ
    <2>1. lostVia' \in [Messages -> SUBSET LossPoints]
      BY <1>3, LoseFacts DEF CloseDLQ, LossPoints
    <2> QED
      BY <1>3, <2>1 DEF CloseDLQ, DropDlqQueue
  <1>4. CASE CloseConsumer
    BY <1>4 DEF CloseConsumer
  <1>5. CASE HealthAndEnvironment
    BY <1>5, MaxOutagesAssumption
       DEF HealthAndEnvironment, HealthStep, HcPing, HcApply, HcStop, DbDown, DbUp, Cancel
  <1>6. CASE Restart
    <2>1. dlqTopic' \in SUBSET Messages /\ lostVia' \in [Messages -> SUBSET LossPoints]
      BY <1>6 DEF Restart, LossPoints
    <2>2. GoroutineData' /\ InHand'
      BY <1>6, JobBufferAssumption DEF Restart, WorkerErrors, InsertErrors
    <2> QED
      BY <1>6, <2>1, <2>2, BoundsAssumption DEF Restart
  <1>7. CASE UNCHANGED vars
    BY <1>7 DEF vars
  <1> QED
    BY <1>1, <1>2, <1>3, <1>4, <1>5, <1>6, <1>7 DEF DlqStep, RunStep

\* Every step keeps the types.
LEMMA TypeStep == TypeInv /\ [Next]_vars => TypeInv'
  <1> SUFFICES ASSUME TypeInv, [Next]_vars PROVE TypeInv'
    OBVIOUS
  <1>1. FlagTypes'
    BY FlagStep DEF TypeInv
  <1>2. DataTypes
    BY DEF TypeInv, DataTypes
  <1>3. DataTypes'
    BY <1>2, PollerTypes, WorkerTypes, OtherTypes DEF Next, Terminated
  <1> QED
    BY <1>1, <1>3 DEF TypeInv, DataTypes

\* Type correctness: no interleaving of the goroutines, restart or rebalance
\* takes a variable out of its type; the jobs channel never holds more than
\* its capacity and a worker past its receive always has a message.
THEOREM TypeCorrect == Spec => []TypeOK
  <1>1. Spec => []TypeInv
    BY InitTypeInv, TypeStep, PTL DEF Spec
  <1>2. TypeInv => TypeOK
    BY TypeGroups
  <1> QED
    BY <1>1, <1>2, PTL

-----------------------------------------------------------------------------
(* Nothing that is accounted for is forgotten.                              *)

Monotone ==
    /\ stored \subseteq stored'
    /\ dlqTopic \subseteq dlqTopic'
    /\ \A m \in Messages : lostVia[m] \subseteq lostVia'[m]
    /\ \A m \in dlqQueue : m \in dlqQueue' \cup dlqTopic' \/ "dlq" \in lostVia'[m]

\* The store and the DLQ topic only grow, and a message leaves the producer's
\* queue only for the topic or as a recorded loss.
LEMMA MonotoneStep == DataTypes /\ [Next]_vars => Monotone
  <1> SUFFICES ASSUME DataTypes, [Next]_vars PROVE Monotone
    OBVIOUS
  <1> USE DEF healthVars, consumerVars, kafkaVars, pollVars, jobVars, workerVars, runVars,
              DataTypes, ClientData, LossPoints
  <1>a. ASSUME UNCHANGED <<stored, dlqTopic, dlqQueue, lostVia>> PROVE Monotone
    BY <1>a DEF Monotone
  <1>1. CASE PollerStep
    <2>1. ASSUME NEW p \in Partitions, PollMessage(p) PROVE Monotone
      BY <2>1, LoseFacts DEF PollMessage, Monotone
    <2> QED
      BY <1>1, <1>a, <2>1 DEF PollerStep, PollTop, ManagePause, ManageResume,
            ManageResumeFails, PollNone, SendJob, Rebalance
  <1>2. ASSUME NEW w \in Workers, WorkerStep(w) PROVE Monotone
    <2>1. CASE Take(w) \/ Exit(w) \/ Commit(w)
      BY <1>a, <2>1 DEF Take, Exit, Commit
    <2>2. CASE Attempt(w)
      BY <2>2 DEF Attempt, Monotone
    <2>3. CASE ResultToCommit(w)
      BY <2>3, LoseFacts DEF ResultToCommit, SendToDLQ, Monotone
    <2>4. CASE ResultConnFailed(w)
      BY <2>4, LoseFacts DEF ResultConnFailed, Monotone
    <2>5. CASE Panic(w)
      BY <2>5, LoseFacts DEF Panic, SendToDLQ, Monotone
    <2> QED
      BY <1>2, <2>1, <2>2, <2>3, <2>4, <2>5 DEF WorkerStep
  <1>3. CASE DlqStep
    BY <1>3, LoseFacts DEF DlqStep, DlqDelivered, DlqFailed, Monotone
  <1>4. CASE RunStep
    <2>1. CASE CloseDLQ
      BY <2>1, LoseFacts DEF CloseDLQ, DropDlqQueue, Monotone
    <2> QED
      BY <1>4, <1>a, <2>1 DEF RunStep, CloseConsumer
  <1>5. CASE HealthAndEnvironment \/ UNCHANGED vars
    BY <1>5, <1>a DEF HealthAndEnvironment, vars
  <1>6. CASE Restart
    BY <1>6 DEF Restart, Monotone
  <1> QED
    BY <1>1, <1>2, <1>3, <1>4, <1>5, <1>6 DEF Next, Terminated

\* A message is finished with: settled, or lost on its way to the DLQ.
Finished(m) == Settled(m) \/ "dlq" \in lostVia[m]

\* Finished messages stay finished.
LEMMA FinishedStep ==
    ASSUME Monotone, NEW m \in Messages, Finished(m)
    PROVE  Finished(m)'
  BY DEF Monotone, Finished, Settled, Kind, Uid

\* A worker that lets a message go has finished it or records the loss.
LEMMA HeldStep ==
    ASSUME DataTypes, CommitOnlyAfterHandling, [Next]_vars, NEW m \in Messages, Held(m)
    PROVE  Held(m)' \/ Finished(m)' \/ lostVia'[m] # {}
  <1> USE DEF healthVars, consumerVars, kafkaVars, pollVars, jobVars, workerVars, runVars,
              DataTypes, ClientData, GoroutineData, LossPoints
  <1>m. Monotone
    BY MonotoneStep
  <1>n. m # NoMsg
    BY NoMsgAssumption
  <1>a. ASSUME UNCHANGED wmsg PROVE Held(m)'
    BY <1>a DEF Held
  <1>1. CASE PollerStep \/ DlqStep \/ RunStep \/ HealthAndEnvironment \/ UNCHANGED vars
    BY <1>1, <1>a DEF PollerStep, PollTop, ManagePause, ManageResume, ManageResumeFails,
            PollNone, PollMessage, SendJob, Rebalance, DlqStep, DlqDelivered, DlqFailed,
            RunStep, CloseDLQ, CloseConsumer, HealthAndEnvironment, vars
  <1>2. ASSUME NEW w \in Workers, WorkerStep(w)
        PROVE  Held(m)' \/ Finished(m)' \/ lostVia'[m] # {}
    <2>1. PICK u \in Workers : wmsg[u] = m
      BY DEF Held
    <2>2. CASE Exit(w) \/ Attempt(w) \/ ResultToCommit(w)
      BY <2>2, <1>a DEF Exit, Attempt, ResultToCommit
    <2>3. CASE Take(w)
      <3>1. u # w
        BY <2>1, <2>3, <1>n DEF Take, InHand
      <3> QED
        BY <2>1, <2>3, <3>1 DEF Take, Held
    <2>4. ASSUME Release(w), u # w PROVE Held(m)'
      BY <2>1, <2>4 DEF Release, Held
    <2>5. CASE ResultConnFailed(w)
      BY <2>1, <2>4, <2>5, LoseFacts DEF ResultConnFailed
    <2>6. CASE Panic(w)
      <3>1. u # w \/ m \in dlqQueue' \/ "dlq" \in lostVia'[m]
        BY <2>1, <2>6, LoseFacts DEF Panic, SendToDLQ
      <3> QED
        BY <2>4, <2>6, <3>1 DEF Panic, Finished, Settled
    <2>7. CASE Commit(w)
      <3>1. u # w \/ Finished(m)
        BY <2>1, <2>7 DEF Commit, CommitOnlyAfterHandling, Finished
      <3> QED
        BY <2>4, <2>7, <3>1, <1>m, FinishedStep DEF Commit
    <2> QED
      BY <1>2, <2>2, <2>3, <2>5, <2>6, <2>7 DEF WorkerStep
  <1>3. CASE Restart
    BY <1>3 DEF Restart
  <1> QED
    BY <1>1, <1>2, <1>3 DEF Next, Terminated

\* What is accounted for stays accounted for.
LEMMA AccountedStep ==
    ASSUME DataTypes, CommitOnlyAfterHandling, [Next]_vars
    PROVE  \A m \in Messages : Accounted(m) => Accounted(m)'
  <1> SUFFICES ASSUME NEW m \in Messages, Accounted(m) PROVE Accounted(m)'
    OBVIOUS
  <1>m. Monotone
    BY MonotoneStep
  <1>1. CASE Settled(m)
    <2>1. Finished(m)'
      BY <1>1, <1>m, FinishedStep DEF Finished
    <2> QED
      BY <2>1 DEF Finished, Accounted
  <1>2. CASE Held(m)
    BY <1>2, HeldStep DEF Finished, Accounted
  <1>3. CASE lostVia[m] # {}
    BY <1>3, <1>m DEF Monotone, Accounted
  <1> QED
    BY <1>1, <1>2, <1>3 DEF Accounted

-----------------------------------------------------------------------------
(* Messages reach the workers in the order of their offsets.                *)

Order == ReadAccounted /\ SendInOrder /\ JobsInOrder /\ HeldInOrder /\ NoSilentLoss

AccountedKept == \A m \in Messages : Accounted(m) => Accounted(m)'

\* A step that moves no message forward, and at most lets workers release
\* theirs or the client give up its assignment, keeps the order.
LEMMA QuietOrder ==
    ASSUME DataTypes, Order, AccountedKept,
           UNCHANGED <<jobs, pmsg, position, committed>>,
           assigned' \subseteq assigned,
           \A w \in Workers : wmsg'[w] = wmsg[w] \/ wmsg'[w] = NoMsg
    PROVE  Order'
  <1>q. \A m, n : Queued(m, n) => Queued(m, n)'
    BY DEF Queued
  <1>1. ReadAccounted'
    BY <1>q DEF Order, ReadAccounted, AccountedKept
  <1>2. SendInOrder'
    BY <1>q DEF Order, SendInOrder, AccountedKept, Before
  <1>3. JobsInOrder'
    BY <1>q DEF Order, JobsInOrder, AccountedKept, Before
  <1>4. HeldInOrder'
    <2> SUFFICES ASSUME NEW w \in Workers, wmsg'[w] # NoMsg,
                        NEW m \in Messages, Before(m, wmsg'[w])
                 PROVE  Accounted(m)'
      BY DEF HeldInOrder, Before
    <2> QED
      BY DEF Order, HeldInOrder, AccountedKept
  <1>5. NoSilentLoss'
    BY DEF Order, NoSilentLoss, AccountedKept
  <1> QED
    BY <1>1, <1>2, <1>3, <1>4, <1>5 DEF Order

\* Poll takes the next offset, behind everything read before.
LEMMA PollOrder ==
    ASSUME DataTypes, Order, AccountedKept, NEW p \in Partitions, PollMessage(p)
    PROVE  Order'
  <1> USE DEF workerVars, jobVars, DataTypes, ClientData, GoroutineData, LossPoints
  <1>0. PICK n \in Messages : n = Msg(p, position[p])
    BY MessageOf DEF PollMessage
  <1>n. n.part = p /\ n.off = position[p]
    BY <1>0 DEF Msg
  <1>k. pmsg = NoMsg
    BY DEF PollMessage, InHand
  <1>q. \A m, k : Queued(m, k) => Queued(m, k)'
    BY DEF PollMessage, Queued
  <1>r. \A m \in Messages : m.part = p /\ m.off < position[p] =>
            Accounted(m)' \/ Queued(m, Len(jobs))'
    <2> SUFFICES ASSUME NEW m \in Messages, m.part = p, m.off < position[p]
                 PROVE  Accounted(m)' \/ Queued(m, Len(jobs))'
      OBVIOUS
    <2>1. m # pmsg
      BY <1>k, NoMsgAssumption
    <2>2. Accounted(m) \/ Queued(m, Len(jobs))
      BY <2>1 DEF Order, ReadAccounted, PollMessage
    <2> QED
      BY <1>q, <2>2 DEF AccountedKept, PollMessage
  <1>s. ASSUME NEW m \in Messages, m.part = p, m.off = position[p] PROVE m = n
    BY <1>0, <1>s, MessageShape
  <1>t. n = pmsg' \/ Accounted(n)'
    <2>1. n = pmsg' \/ "paused" \in lostVia'[n]
      BY <1>0, LoseFacts DEF PollMessage
    <2> QED
      BY <2>1 DEF Accounted
  <1>1. ReadAccounted'
    <2> SUFFICES ASSUME NEW m \in Messages, m.part \in assigned', m.off < position'[m.part]
                 PROVE  (Accounted(m) \/ Queued(m, Len(jobs)) \/ m = pmsg)'
      BY DEF ReadAccounted
    <2>m. m.part \in Partitions /\ m.off \in Nat
      BY MessageShape
    <2>1. CASE m.part # p
      <3>1. m # pmsg
        BY <1>k, NoMsgAssumption
      <3>2. m.part \in assigned /\ m.off < position[m.part]
        BY <2>1, <2>m DEF PollMessage
      <3>3. Accounted(m) \/ Queued(m, Len(jobs))
        BY <3>1, <3>2 DEF Order, ReadAccounted
      <3> QED
        BY <1>q, <3>3 DEF AccountedKept, PollMessage
    <2>2. CASE m.part = p
      <3>1. m.off < position[p] \/ m.off = position[p]
        BY <2>2, <2>m DEF PollMessage
      <3> QED
        BY <2>2, <3>1, <1>r, <1>s, <1>t
    <2> QED
      BY <2>1, <2>2
  <1>2. SendInOrder'
    BY <1>k, <1>0, <1>n, <1>r DEF SendInOrder, PollMessage, Before
  <1>3. JobsInOrder'
    BY <1>q DEF Order, JobsInOrder, AccountedKept, Before, PollMessage
  <1>4. HeldInOrder'
    BY DEF Order, HeldInOrder, AccountedKept, Before, PollMessage
  <1>5. NoSilentLoss'
    BY DEF Order, NoSilentLoss, AccountedKept, PollMessage
  <1> QED
    BY <1>1, <1>2, <1>3, <1>4, <1>5 DEF Order

\* A message enters the channel behind everything read before it.
LEMMA SendOrder ==
    ASSUME DataTypes, Order, AccountedKept, SendJob
    PROVE  Order'
  <1> USE DEF kafkaVars, workerVars, runVars, DataTypes, ClientData, GoroutineData
  <1>p. pmsg # NoMsg
    BY DEF SendJob, InHand
  <1>0. PICK n \in Messages : n = pmsg
    BY <1>p
  <1>j. /\ Len(jobs') = Len(jobs) + 1
        /\ \A i \in 1 .. Len(jobs) : jobs'[i] = jobs[i]
        /\ jobs'[Len(jobs) + 1] = n
        /\ Len(jobs) \in Nat
    BY <1>0 DEF SendJob
  <1>q. ASSUME NEW m \in Messages, NEW k \in Nat, k <= Len(jobs), Queued(m, k)
        PROVE  Queued(m, k)' /\ Queued(m, Len(jobs))'
    <2>1. PICK j \in 1 .. k : jobs[j] = m
      BY <1>q DEF Queued
    <2>2. j \in 1 .. Len(jobs) /\ j \in 1 .. Len(jobs')
      BY <1>j, <1>q
    <2>3. jobs'[j] = m
      BY <1>j, <2>1, <2>2
    <2> QED
      BY <2>2, <2>3 DEF Queued
  <1>s. Queued(n, Len(jobs))'
    <2>1. Len(jobs) + 1 \in 1 .. Len(jobs')
      BY <1>j
    <2> QED
      BY <1>j, <2>1 DEF Queued
  <1>1. ReadAccounted'
    <2> SUFFICES ASSUME NEW m \in Messages, m.part \in assigned', m.off < position'[m.part]
                 PROVE  (Accounted(m) \/ Queued(m, Len(jobs)) \/ m = pmsg)'
      BY DEF ReadAccounted
    <2>1. Accounted(m) \/ Queued(m, Len(jobs)) \/ m = pmsg
      BY DEF Order, ReadAccounted, SendJob
    <2> QED
      BY <1>0, <1>j, <1>q, <1>s, <2>1 DEF AccountedKept
  <1>2. SendInOrder'
    BY DEF SendInOrder, SendJob
  <1>3. JobsInOrder'
    <2> SUFFICES ASSUME NEW i \in 1 .. Len(jobs'), NEW m \in Messages, Before(m, jobs'[i])
                 PROVE  Accounted(m)' \/ Queued(m, i - 1)'
      BY DEF JobsInOrder, Before
    <2>1. CASE i = Len(jobs) + 1
      <3>1. Accounted(m) \/ Queued(m, i - 1)
        BY <1>0, <1>j, <1>p, <2>1 DEF Order, SendInOrder
      <3> QED
        BY <1>j, <1>q, <2>1, <3>1 DEF AccountedKept
    <2>2. CASE i \in 1 .. Len(jobs)
      <3>1. Accounted(m) \/ Queued(m, i - 1)
        BY <1>j, <2>2 DEF Order, JobsInOrder
      <3> QED
        BY <1>j, <1>q, <2>2, <3>1 DEF AccountedKept
    <2> QED
      BY <1>j, <2>1, <2>2
  <1>4. HeldInOrder'
    BY DEF Order, HeldInOrder, AccountedKept, Before, SendJob
  <1>5. NoSilentLoss'
    BY DEF Order, NoSilentLoss, AccountedKept, SendJob
  <1> QED
    BY <1>1, <1>2, <1>3, <1>4, <1>5 DEF Order

\* A worker takes the oldest message: all below it is accounted for.
LEMMA TakeOrder ==
    ASSUME DataTypes, Order, AccountedKept, NEW w \in Workers, Take(w)
    PROVE  Order'
  <1> USE DEF kafkaVars, pollVars, runVars, DataTypes, ClientData, GoroutineData
  <1>0. PICK n \in Messages : n = jobs[1]
    BY DEF Take
  <1>j. /\ Len(jobs) \in Nat \ {0}
        /\ Len(jobs') = Len(jobs) - 1
        /\ \A i \in 1 .. Len(jobs') : jobs'[i] = jobs[i + 1]
        /\ wmsg' = [wmsg EXCEPT ![w] = n]
    BY <1>0 DEF Take
  <1>h. Accounted(n)'
    BY <1>j DEF Accounted, Held
  <1>q. ASSUME NEW m \in Messages, NEW k \in 1 .. Len(jobs), Queued(m, k)
        PROVE  Accounted(m)' \/ (Queued(m, k - 1)' /\ Queued(m, Len(jobs))')
    <2>1. PICK j \in 1 .. k : jobs[j] = m
      BY <1>q DEF Queued
    <2>2. CASE j = 1
      BY <1>0, <1>h, <2>1, <2>2
    <2>3. CASE j # 1
      <3>1. j - 1 \in 1 .. (k - 1) /\ j - 1 \in 1 .. Len(jobs')
        BY <1>j, <2>3
      <3>2. jobs'[j - 1] = m
        BY <1>j, <2>1, <3>1
      <3> QED
        BY <3>1, <3>2 DEF Queued
    <2> QED
      BY <2>2, <2>3
  <1>1. ReadAccounted'
    <2> SUFFICES ASSUME NEW m \in Messages, m.part \in assigned', m.off < position'[m.part]
                 PROVE  (Accounted(m) \/ Queued(m, Len(jobs)) \/ m = pmsg)'
      BY DEF ReadAccounted
    <2>1. Accounted(m) \/ Queued(m, Len(jobs)) \/ m = pmsg
      BY DEF Order, ReadAccounted, Take
    <2>2. CASE Queued(m, Len(jobs))
      BY <1>j, <1>q, <2>2
    <2> QED
      BY <2>1, <2>2 DEF AccountedKept, Take
  <1>2. SendInOrder'
    <2> SUFFICES ASSUME pmsg' # NoMsg, NEW m \in Messages, Before(m, pmsg')
                 PROVE  Accounted(m)' \/ Queued(m, Len(jobs))'
      BY DEF SendInOrder, Before
    <2>1. Accounted(m) \/ Queued(m, Len(jobs))
      BY DEF Order, SendInOrder, Take
    <2> QED
      BY <1>j, <1>q, <2>1 DEF AccountedKept
  <1>3. JobsInOrder'
    <2> SUFFICES ASSUME NEW i \in 1 .. Len(jobs'), NEW m \in Messages, Before(m, jobs'[i])
                 PROVE  Accounted(m)' \/ Queued(m, i - 1)'
      BY DEF JobsInOrder, Before
    <2>0. i + 1 \in 1 .. Len(jobs) /\ (i + 1) - 1 = i /\ i \in 1 .. Len(jobs)
      BY <1>j
    <2>1. Accounted(m) \/ Queued(m, i)
      BY <1>j, <2>0 DEF Order, JobsInOrder
    <2> QED
      BY <1>q, <2>0, <2>1 DEF AccountedKept
  <1>4. HeldInOrder'
    <2> SUFFICES ASSUME NEW u \in Workers, wmsg'[u] # NoMsg,
                        NEW m \in Messages, Before(m, wmsg'[u])
                 PROVE  Accounted(m)'
      BY DEF HeldInOrder, Before
    <2>1. CASE u = w
      <3>1. Before(m, jobs[1])
        BY <1>0, <1>j, <2>1
      <3>2. Accounted(m) \/ Queued(m, 0)
        BY <1>j, <3>1 DEF Order, JobsInOrder
      <3> QED
        BY <3>2 DEF Queued, AccountedKept
    <2>2. CASE u # w
      BY <1>j, <2>2 DEF Order, HeldInOrder, AccountedKept
    <2> QED
      BY <2>1, <2>2
  <1>5. NoSilentLoss'
    BY DEF Order, NoSilentLoss, AccountedKept, Take
  <1> QED
    BY <1>1, <1>2, <1>3, <1>4, <1>5 DEF Order

\* A commit covers the worker's own message, which is finished, and those
\* below it, which are accounted for.
LEMMA CommitOrder ==
    ASSUME DataTypes, Order, AccountedKept, CommitOnlyAfterHandling,
           NEW w \in Workers, Commit(w)
    PROVE  Order'
  <1> USE DEF pollVars, jobVars, runVars, DataTypes, ClientData, GoroutineData
  <1>0. PICK n \in Messages : n = wmsg[w]
    BY DEF Commit, InHand
  <1>n. n.part \in Partitions /\ n.off \in Nat
    BY MessageShape
  <1>a. Accounted(n)
    BY <1>0 DEF Commit, CommitOnlyAfterHandling, Accounted
  <1>q. \A m, k : Queued(m, k) => Queued(m, k)'
    BY DEF Commit, Queued
  <1>1. ReadAccounted'
    BY <1>q DEF Order, ReadAccounted, AccountedKept, Commit
  <1>2. SendInOrder'
    BY <1>q DEF Order, SendInOrder, AccountedKept, Before, Commit
  <1>3. JobsInOrder'
    BY <1>q DEF Order, JobsInOrder, AccountedKept, Before, Commit
  <1>4. HeldInOrder'
    <2> SUFFICES ASSUME NEW u \in Workers, wmsg'[u] # NoMsg,
                        NEW m \in Messages, Before(m, wmsg'[u])
                 PROVE  Accounted(m)'
      BY DEF HeldInOrder, Before
    <2>1. wmsg'[u] = wmsg[u]
      BY DEF Commit, Release
    <2> QED
      BY <2>1 DEF Order, HeldInOrder, AccountedKept
  <1>5. NoSilentLoss'
    <2> SUFFICES ASSUME NEW m \in Messages, m.off < committed'[m.part]
                 PROVE  Accounted(m)
      BY DEF NoSilentLoss, AccountedKept
    <2>m. m.part \in Partitions /\ m.off \in Nat
      BY MessageShape
    <2>1. m.off < committed[m.part] \/ (m.part = n.part /\ m.off < n.off + 1)
      BY <1>0, <1>n, <2>m DEF Commit
    <2>2. CASE m.part = n.part /\ m.off < n.off
      BY <1>0, <2>2, NoMsgAssumption DEF Order, HeldInOrder, Before
    <2>3. CASE m.part = n.part /\ m.off = n.off
      <3>1. m = n
        BY <2>3, MessageShape
      <3> QED
        BY <1>a, <3>1
    <2> QED
      BY <1>n, <2>m, <2>1, <2>2, <2>3 DEF Order, NoSilentLoss
  <1> QED
    BY <1>1, <1>2, <1>3, <1>4, <1>5 DEF Order

\* A rebalance rewinds to the committed offsets, below which NoSilentLoss
\* accounts for every message.
LEMMA RebalanceOrder ==
    ASSUME DataTypes, Order, AccountedKept, NEW S \in SUBSET Partitions, Rebalance(S)
    PROVE  Order'
  <1> USE DEF pollVars, jobVars, workerVars, DataTypes, ClientData, GoroutineData
  <1>q. \A m, k : Queued(m, k) => Queued(m, k)'
    BY DEF Rebalance, Queued
  <1>1. ReadAccounted'
    <2> SUFFICES ASSUME NEW m \in Messages, m.part \in assigned', m.off < position'[m.part]
                 PROVE  Accounted(m)'
      BY DEF ReadAccounted
    <2>1. m.off < committed[m.part]
      BY DEF Rebalance
    <2> QED
      BY <2>1 DEF Order, NoSilentLoss, AccountedKept
  <1>2. SendInOrder'
    BY <1>q DEF Order, SendInOrder, AccountedKept, Before, Rebalance
  <1>3. JobsInOrder'
    BY <1>q DEF Order, JobsInOrder, AccountedKept, Before, Rebalance
  <1>4. HeldInOrder'
    BY DEF Order, HeldInOrder, AccountedKept, Before, Rebalance
  <1>5. NoSilentLoss'
    BY DEF Order, NoSilentLoss, AccountedKept, Rebalance
  <1> QED
    BY <1>1, <1>2, <1>3, <1>4, <1>5 DEF Order

\* Every step keeps the order.
LEMMA OrderStep ==
    ASSUME DataTypes, Order, CommitOnlyAfterHandling, [Next]_vars
    PROVE  Order'
  <1> USE DEF healthVars, consumerVars, kafkaVars, pollVars, jobVars, workerVars, runVars
  <1>a. AccountedKept
    BY AccountedStep DEF AccountedKept
  <1>1. CASE PollerStep
    <2>1. CASE PollTop \/ ManagePause \/ ManageResume \/ ManageResumeFails \/ PollNone
      BY <1>a, <2>1, QuietOrder
         DEF PollTop, ManagePause, ManageResume, ManageResumeFails, PollNone
    <2> QED
      BY <1>1, <1>a, <2>1, PollOrder, SendOrder, RebalanceOrder DEF PollerStep
  <1>2. ASSUME NEW w \in Workers, WorkerStep(w) PROVE Order'
    <2>1. CASE Exit(w) \/ Attempt(w) \/ ResultToCommit(w)
      BY <1>a, <2>1, QuietOrder DEF Exit, Attempt, ResultToCommit
    <2>2. CASE ResultConnFailed(w) \/ Panic(w)
      <3>1. \A u \in Workers : wmsg'[u] = wmsg[u] \/ wmsg'[u] = NoMsg
        BY <2>2 DEF ResultConnFailed, Panic, Release, DataTypes, GoroutineData
      <3> QED
        BY <1>a, <2>2, <3>1, QuietOrder DEF ResultConnFailed, Panic
    <2> QED
      BY <1>2, <1>a, <2>1, <2>2, TakeOrder, CommitOrder DEF WorkerStep
  <1>3. CASE DlqStep \/ RunStep \/ HealthAndEnvironment \/ UNCHANGED vars
    BY <1>3, <1>a, QuietOrder
       DEF DlqStep, DlqDelivered, DlqFailed, RunStep, CloseDLQ, CloseConsumer,
           HealthAndEnvironment, vars
  <1>4. CASE Restart
    <2>1. ReadAccounted' /\ SendInOrder' /\ JobsInOrder' /\ HeldInOrder'
      BY <1>4 DEF Restart, ReadAccounted, SendInOrder, JobsInOrder, HeldInOrder
    <2>2. NoSilentLoss'
      BY <1>4, <1>a DEF Restart, Order, NoSilentLoss, AccountedKept
    <2> QED
      BY <2>1, <2>2 DEF Order
  <1> QED
    BY <1>1, <1>2, <1>3, <1>4 DEF Next, Terminated

-----------------------------------------------------------------------------
(* A worker commits only what it has handled.                               *)

Handling == NilMeansStored /\ CommitOnlyAfterHandling

\* A step that leaves the workers' stages, messages and errors alone, except
\* for workers that become idle or leave, keeps Handling.
LEMMA QuietHandling ==
    ASSUME DataTypes, Handling, Monotone,
           \A w \in Workers : \/ wpc'[w] \in {"idle", "process", "exited"}
                              \/ wpc'[w] = wpc[w] /\ wmsg'[w] = wmsg[w] /\ werr'[w] = werr[w]
    PROVE  Handling'
  <1> USE DEF DataTypes, GoroutineData
  <1>1. NilMeansStored'
    BY DEF Handling, NilMeansStored, Monotone, Kind, Uid
  <1>2. CommitOnlyAfterHandling'
    <2> SUFFICES ASSUME NEW w \in Workers, wpc'[w] = "commit"
                 PROVE  (Settled(wmsg[w]) \/ "dlq" \in lostVia[wmsg[w]])'
      BY DEF CommitOnlyAfterHandling
    <2>1. wpc[w] = "commit" /\ wmsg'[w] = wmsg[w]
      OBVIOUS
    <2>2. PICK n \in Messages : n = wmsg[w]
      BY <2>1 DEF InHand
    <2>3. Finished(n)
      BY <2>1, <2>2 DEF Handling, CommitOnlyAfterHandling, Finished
    <2>4. Finished(n)'
      BY <2>3, FinishedStep
    <2> QED
      BY <2>1, <2>2, <2>4 DEF Finished, Settled
  <1> QED
    BY <1>1, <1>2 DEF Handling

\* A worker keeps its message when it moves from result to commit.
LEMMA HandlingStep ==
    ASSUME MaxRetries > 0, DataTypes, Handling, [Next]_vars
    PROVE  Handling'
  <1> USE DEF healthVars, consumerVars, kafkaVars, pollVars, jobVars, workerVars, runVars,
              DataTypes, GoroutineData
  <1>m. Monotone
    BY MonotoneStep
  <1>1. CASE UNCHANGED workerVars
    BY <1>1, <1>m, QuietHandling
  <1>2. ASSUME NEW w \in Workers, WorkerStep(w) PROVE Handling'
    <2>1. CASE Exit(w)
      BY <1>m, <2>1, QuietHandling DEF Exit
    <2>2. CASE ResultConnFailed(w) \/ Commit(w) \/ Panic(w)
      BY <1>m, <2>2, QuietHandling DEF ResultConnFailed, Commit, Panic, Release
    <2>3. ASSUME NEW n \in Messages, wmsg'[w] = n,
                 wpc'[w] = "commit" => Finished(n)',
                 wpc'[w] = "result" /\ werr'[w] = "nil" =>
                    Kind(n) = "valid" /\ Uid(n) \in stored',
                 \A u \in Workers \ {w} :
                    wpc'[u] = wpc[u] /\ wmsg'[u] = wmsg[u] /\ werr'[u] = werr[u]
          PROVE  Handling'
      <3>1. NilMeansStored'
        BY <1>m, <2>3 DEF Handling, NilMeansStored, Monotone, Kind, Uid
      <3>2. CommitOnlyAfterHandling'
        <4> SUFFICES ASSUME NEW u \in Workers, wpc'[u] = "commit"
                     PROVE  (Settled(wmsg[u]) \/ "dlq" \in lostVia[wmsg[u]])'
          BY DEF CommitOnlyAfterHandling
        <4>1. CASE u = w
          BY <2>3, <4>1 DEF Finished, Settled
        <4>2. CASE u # w
          <5>1. wpc[u] = "commit" /\ wmsg'[u] = wmsg[u]
            BY <2>3, <4>2
          <5>2. PICK k \in Messages : k = wmsg[u]
            BY <5>1 DEF InHand
          <5>3. Finished(k)
            BY <5>1, <5>2 DEF Handling, CommitOnlyAfterHandling, Finished
          <5>4. Finished(k)'
            BY <1>m, <5>3, FinishedStep
          <5> QED
            BY <5>1, <5>2, <5>4 DEF Finished, Settled
        <4> QED
          BY <4>1, <4>2
      <3> QED
        BY <3>1, <3>2 DEF Handling
    <2>4. CASE Take(w)
      <3>1. PICK n \in Messages : n = Head(jobs)
        BY <2>4 DEF Take
      <3>2. wpc'[w] = "commit" => Finished(n)'
        BY <2>4, <3>1 DEF Take, Finished, Settled, Kind
      <3>3. wpc'[w] # "result"
        BY <2>4, MaxRetriesAssumption, MaxRetries > 0 DEF Take
      <3> QED
        BY <2>3, <2>4, <3>1, <3>2, <3>3 DEF Take
    <2>5. CASE Attempt(w)
      <3>1. PICK n \in Messages : n = wmsg[w]
        BY <2>5 DEF Attempt, InHand
      <3>2. PICK o \in ProcessOutcomes(n) :
              /\ stored' = IF o.persisted THEN stored \cup {Uid(n)} ELSE stored
              /\ werr' = [werr EXCEPT ![w] = o.err]
              /\ IF o.err = "conn" /\ attempt[w] + 1 < MaxRetries
                   THEN attempt' = [attempt EXCEPT ![w] = @ + 1] /\ UNCHANGED wpc
                   ELSE wpc' = [wpc EXCEPT ![w] = "result"] /\ UNCHANGED attempt
        BY <2>5, <3>1 DEF Attempt
      <3>3. o.err = "nil" => Kind(n) = "valid" /\ o.persisted
        BY DEF ProcessOutcomes, AnsweredOutcomes, BrokenOutcomes, Outcome
      <3>4. werr'[w] = "nil" => Kind(n) = "valid" /\ Uid(n) \in stored'
        BY <3>2, <3>3
      <3>5. wpc'[w] \in {"process", "result"} /\ \A u \in Workers \ {w} : wpc'[u] = wpc[u]
        BY <2>5, <3>2 DEF Attempt
      <3> QED
        BY <2>3, <2>5, <3>1, <3>2, <3>4, <3>5 DEF Attempt
    <2>6. CASE ResultToCommit(w)
      <3>1. PICK n \in Messages : n = wmsg[w]
        BY <2>6 DEF ResultToCommit, InHand
      <3>2. CASE werr[w] = "nil"
        <4>1. Finished(n)'
          BY <2>6, <3>1, <3>2
             DEF ResultToCommit, Handling, NilMeansStored, Finished, Settled, Kind, Uid
        <4> QED
          BY <2>3, <2>6, <3>1, <4>1 DEF ResultToCommit
      <3>3. CASE werr[w] # "nil"
        <4>1. n \in dlqQueue' \/ "dlq" \in lostVia'[n]
          BY <2>6, <3>1, <3>3, LoseFacts DEF ResultToCommit, SendToDLQ, ClientData, LossPoints
        <4>2. Finished(n)'
          BY <4>1 DEF Finished, Settled
        <4> QED
          BY <2>3, <2>6, <3>1, <4>2 DEF ResultToCommit
      <3> QED
        BY <3>2, <3>3
    <2> QED
      BY <1>2, <2>1, <2>2, <2>4, <2>5, <2>6 DEF WorkerStep
  <1>3. CASE Restart
    BY <1>3 DEF Restart, Handling, NilMeansStored, CommitOnlyAfterHandling
  <1> QED
    BY <1>1, <1>2, <1>3 DEF Next, Terminated, PollerStep, PollTop, ManagePause, ManageResume,
          ManageResumeFails, PollNone, PollMessage, SendJob, Rebalance, DlqStep, DlqDelivered,
          DlqFailed, RunStep, CloseDLQ, CloseConsumer, HealthAndEnvironment, vars

-----------------------------------------------------------------------------
(* The theorems.                                                            *)

\* The parts of the inductive invariant.
LEMMA DeliveryParts == DeliveryInv <=> TypeInv /\ Order /\ Handling
  BY TypeGroups DEF DeliveryInv, Order, Handling

\* The invariant holds initially.
LEMMA InitDelivery == Init => DeliveryInv
  <1> SUFFICES ASSUME Init PROVE Order /\ Handling
    BY InitTypeInv, DeliveryParts
  <1>1. ReadAccounted /\ SendInOrder /\ JobsInOrder /\ HeldInOrder
    BY DEF Init, ReadAccounted, SendInOrder, JobsInOrder, HeldInOrder
  <1>2. NoSilentLoss
    <2> SUFFICES ASSUME NEW m \in Messages, m.off < committed[m.part] PROVE FALSE
      BY DEF NoSilentLoss
    <2> QED
      BY MessageShape DEF Init
  <1>3. Handling
    BY DEF Init, Handling, NilMeansStored, CommitOnlyAfterHandling
  <1> QED
    BY <1>1, <1>2, <1>3 DEF Order

\* Every step keeps the invariant.
LEMMA DeliveryStep ==
    ASSUME MaxRetries > 0
    PROVE  DeliveryInv /\ [Next]_vars => DeliveryInv'
  <1> SUFFICES ASSUME DeliveryInv, [Next]_vars PROVE DeliveryInv'
    OBVIOUS
  <1>1. TypeInv /\ DataTypes /\ Order /\ Handling
    BY DeliveryParts DEF TypeInv, DataTypes
  <1>2. TypeInv'
    BY <1>1, TypeStep
  <1>3. Handling'
    BY <1>1, HandlingStep, MaxRetries > 0
  <1>4. Order'
    BY <1>1, OrderStep DEF Handling
  <1>5. (TypeInv /\ Order /\ Handling)' => DeliveryInv'
    BY DeliveryParts, PTL
  <1> QED
    BY <1>2, <1>3, <1>4, <1>5

\* With at least one attempt per message, the invariant of a message's way from
\* Poll to its commit holds for any log, workers, partitions and buffer.
THEOREM DeliveryInvHolds ==
    ASSUME MaxRetries > 0
    PROVE  Spec => []DeliveryInv
  BY InitDelivery, DeliveryStep, MaxRetries > 0, PTL DEF Spec

\* With at least one attempt per message, whatever is polled, assigned,
\* revoked, retried, paused, killed and restarted, an offset is never
\* committed past a message that still waits to be processed: it is settled,
\* in a worker's hands, or was let go at one of the named loss points.
THEOREM NoSilentLossHolds ==
    ASSUME MaxRetries > 0
    PROVE  Spec => []NoSilentLoss
  <1>1. Spec => []DeliveryInv
    BY DeliveryInvHolds, MaxRetries > 0
  <1>2. DeliveryInv => NoSilentLoss
    BY DEF DeliveryInv
  <1> QED
    BY <1>1, <1>2, PTL

\* With at least one attempt per message, a worker commits only a message
\* that is settled or was lost on its way to the DLQ.
THEOREM CommitOnlyAfterHandlingHolds ==
    ASSUME MaxRetries > 0
    PROVE  Spec => []CommitOnlyAfterHandling
  <1>1. Spec => []DeliveryInv
    BY DeliveryInvHolds, MaxRetries > 0
  <1>2. DeliveryInv => CommitOnlyAfterHandling
    BY DEF DeliveryInv
  <1> QED
    BY <1>1, <1>2, PTL

-----------------------------------------------------------------------------
\* A consumer that believes it runs has no partition paused: Pause is only
\* called together with setting the flag, Resume resets the flag only when it
\* succeeded, and a rebalance never adds a pause.
THEOREM PauseFlagsAgreeHolds == Spec => []PauseFlagsAgree
  <1>1. Init => PauseFlagsAgree
    BY DEF Init, PauseFlagsAgree
  <1>2. PauseFlagsAgree /\ [Next]_vars => PauseFlagsAgree'
    <2> SUFFICES ASSUME PauseFlagsAgree, [Next]_vars PROVE PauseFlagsAgree'
      OBVIOUS
    <2> USE DEF PauseFlagsAgree
    <2>1. CASE ManagePause
      BY <2>1 DEF ManagePause
    <2>2. CASE ManageResume
      BY <2>2 DEF ManageResume
    <2>3. CASE CloseConsumer \/ Restart
      BY <2>3 DEF CloseConsumer, Restart
    <2>4. ASSUME NEW S \in SUBSET Partitions, Rebalance(S) PROVE PauseFlagsAgree'
      BY <2>4 DEF Rebalance, pollVars
    <2>5. ASSUME NEW p \in Partitions, PollMessage(p) PROVE PauseFlagsAgree'
      BY <2>5 DEF PollMessage
    <2>6. CASE PollTop \/ ManageResumeFails \/ PollNone \/ SendJob
      BY <2>6 DEF PollTop, ManageResumeFails, PollNone, SendJob, kafkaVars
    <2>7. ASSUME NEW w \in Workers, WorkerStep(w) PROVE PauseFlagsAgree'
      BY <2>7 DEF WorkerStep, Take, Exit, Attempt, ResultToCommit, ResultConnFailed, Commit,
                  Panic, kafkaVars, pollVars
    <2>8. CASE DlqStep \/ CloseDLQ
      BY <2>8 DEF DlqStep, DlqDelivered, DlqFailed, CloseDLQ, DropDlqQueue, pollVars
    <2>9. CASE HealthAndEnvironment \/ Terminated \/ UNCHANGED vars
      BY <2>9 DEF HealthAndEnvironment, Terminated, vars, consumerVars, kafkaVars, pollVars
    <2> QED
      BY <2>1, <2>2, <2>3, <2>4, <2>5, <2>6, <2>7, <2>8, <2>9
         DEF Next, PollerStep, RunStep
  <1> QED
    BY <1>1, <1>2, PTL DEF Spec
=============================================================================
