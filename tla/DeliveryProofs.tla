---------------------------- MODULE DeliveryProofs ----------------------------
(***************************************************************************)
(* Module Consumer implements module Delivery, for every log, number of    *)
(* partitions and workers, buffer size and number of faults; and no worker *)
(* meets the insert of another attempt of its own process.                 *)
(***************************************************************************)
EXTENDS ConsumerProofs

-----------------------------------------------------------------------------
(* Steps of the abstract specification, message by message.                 *)

SameElse(m) == \A n \in Messages : n # m => Fate(n)' = Fate(n)

\* A fate is one of the five.
LEMMA FateTypes == \A m \in Messages : Fate(m) \in Journey!Fates
  BY DEF Fate, Journey!Fates

\* A step that keeps the fates and the offsets is a stutter.
LEMMA QuietMaps ==
    ASSUME UNCHANGED committed, \A m \in Messages : Fate(m)' = Fate(m)
    PROVE  UNCHANGED Journey!deliveryVars
  BY DEF Journey!deliveryVars

LEMMA SettleMaps ==
    ASSUME UNCHANGED committed,
           \A m \in Messages : Fate(m)' = Fate(m) \/ Fate(m)' = "settled"
    PROVE  Journey!Settle
  <1>1. \A m \in Messages : Fate(m)' \in Journey!Fates
    BY FateTypes DEF Journey!Fates
  <1> QED
    BY <1>1 DEF Journey!Settle

LEMMA TakeUpMaps ==
    ASSUME UNCHANGED committed, NEW m \in Messages, SameElse(m),
           Fate(m) = "waiting", Fate(m)' = "held"
    PROVE  Journey!TakeUp(m)
  BY DEF SameElse, Journey!TakeUp

LEMMA HandMaps ==
    ASSUME UNCHANGED committed, NEW m \in Messages, SameElse(m),
           Fate(m) \in {"held", "lost"}, Fate(m)' = "queued"
    PROVE  Journey!HandToDLQ(m)
  BY DEF SameElse, Journey!HandToDLQ

LEMMA LetGoMaps ==
    ASSUME UNCHANGED committed, NEW m \in Messages, SameElse(m),
           Fate(m) # "settled", Fate(m)' = "lost"
    PROVE  Journey!LetGo(m)
  BY DEF SameElse, Journey!LetGo

LEMMA StopMaps ==
    ASSUME UNCHANGED committed,
           \A m \in Messages :
              /\ Fate(m) \in {"waiting", "settled", "lost"} => Fate(m)' = Fate(m)
              /\ Fate(m) = "queued" => Fate(m)' \in {"settled", "lost"}
              /\ Fate(m) = "held" => Fate(m)' = "lost"
    PROVE  Journey!Stop
  <1>1. \A m \in Messages : Fate(m)' \in Journey!Fates
    BY FateTypes DEF Journey!Fates
  <1> QED
    BY <1>1 DEF Journey!Stop

LEMMA CommitMaps ==
    ASSUME NEW m \in Messages, Fate(m) \in {"queued", "settled", "lost"},
           \A n \in Messages : n.part = m.part /\ n.off <= m.off => Fate(n) # "waiting",
           committed' = [committed EXCEPT ![m.part] = m.off + 1],
           \A n \in Messages : Fate(n)' = Fate(n)
    PROVE  Journey!CommitUpTo(m)
  BY DEF Journey!CommitUpTo

-----------------------------------------------------------------------------
(* What a step of the consumer does to the fates.                           *)

LEMMA QuietFate ==
    ASSUME UNCHANGED <<stored, dlqTopic, dlqQueue, lostVia, wmsg>>
    PROVE  \A m \in Messages : Fate(m)' = Fate(m)
  BY DEF Fate, Final, Held, Kind, Uid

\* A message that is held, or let go, is not waiting, and so is a settled one.
LEMMA AccountedFate ==
    ASSUME NEW m \in Messages
    PROVE  Accounted(m) <=> Fate(m) # "waiting"
  BY DEF Accounted, Settled, Fate, Final

\* A worker that releases its message holds no other.
LEMMA ReleaseHeld ==
    ASSUME DataTypes, NEW w \in Workers, Release(w), NEW n \in Messages, n # wmsg[w]
    PROVE  Held(n)' <=> Held(n)
  BY NoMsgAssumption DEF DataTypes, GoroutineData, Release, Held

\* A message is let go: its fate is "lost" unless it is settled or queued.
LEMMA LoseFate ==
    ASSUME DataTypes, NEW m \in Messages, NEW why \in LossPoints,
           lostVia' = Lose({m}, why),
           UNCHANGED <<stored, dlqTopic, dlqQueue>>,
           \A n \in Messages : n # m => (Held(n)' <=> Held(n))
    PROVE  /\ SameElse(m)
           /\ Fate(m)' = "lost" \/ Fate(m)' = Fate(m)
           /\ Fate(m) = "settled" => Fate(m)' = Fate(m)
  <1>1. why \in lostVia'[m] /\ \A n \in Messages : n # m => lostVia'[n] = lostVia[n]
    BY DEF DataTypes, ClientData, Lose
  <1>2. \A n \in Messages : Final(n)' <=> Final(n)
    BY DEF Final, Kind, Uid
  <1>3. SameElse(m)
    BY <1>1, <1>2 DEF SameElse, Fate
  <1>4. lostVia'[m] # {}
    BY <1>1
  <1> QED
    BY <1>2, <1>3, <1>4 DEF Fate

\* Letting a message go is a LetGo, or nothing.
LEMMA LoseMaps ==
    ASSUME DataTypes, NEW m \in Messages, NEW why \in LossPoints,
           lostVia' = Lose({m}, why),
           UNCHANGED <<committed, stored, dlqTopic, dlqQueue>>,
           \A n \in Messages : n # m => (Held(n)' <=> Held(n))
    PROVE  [Journey!DeliveryNext]_(Journey!deliveryVars)
  <1>1. /\ SameElse(m)
        /\ Fate(m)' = "lost" \/ Fate(m)' = Fate(m)
        /\ Fate(m) = "settled" => Fate(m)' = Fate(m)
    BY LoseFate
  <1>2. CASE Fate(m)' = Fate(m)
    BY <1>1, <1>2, QuietMaps DEF SameElse
  <1>3. CASE Fate(m)' = "lost" /\ Fate(m) # "settled"
    BY <1>1, <1>3, LetGoMaps DEF Journey!DeliveryNext
  <1> QED
    BY <1>1, <1>2, <1>3

\* Handing a worker's message to the DLQ producer.
LEMMA QueueMaps ==
    ASSUME DataTypes, NEW m \in Messages, Held(m),
           dlqQueue' = dlqQueue \cup {m},
           UNCHANGED <<committed, stored, dlqTopic, lostVia>>,
           \A n \in Messages : n # m => (Held(n)' <=> Held(n))
    PROVE  [Journey!DeliveryNext]_(Journey!deliveryVars)
  <1>1. \A n \in Messages : Final(n)' <=> Final(n)
    BY DEF Final, Kind, Uid
  <1>2. SameElse(m)
    BY <1>1 DEF SameElse, Fate
  <1>3. CASE Fate(m) \in {"settled", "queued"}
    <2>1. Fate(m)' = Fate(m)
      BY <1>1, <1>3 DEF Fate
    <2> QED
      BY <1>2, <2>1, QuietMaps DEF SameElse
  <1>4. CASE Fate(m) \notin {"settled", "queued"}
    <2>1. Fate(m) \in {"held", "lost"} /\ Fate(m)' = "queued"
      BY <1>1, <1>4 DEF Fate
    <2> QED
      BY <1>2, <2>1, HandMaps DEF Journey!DeliveryNext
  <1> QED
    BY <1>3, <1>4

\* sendToDLQ, whether Produce succeeds or not.
LEMMA SendToDLQMaps ==
    ASSUME DataTypes, NEW m \in Messages, Held(m), SendToDLQ(m),
           UNCHANGED <<committed, stored, dlqTopic>>,
           \A n \in Messages : n # m => (Held(n)' <=> Held(n))
    PROVE  [Journey!DeliveryNext]_(Journey!deliveryVars)
  <1>1. CASE dlqQueue' = dlqQueue \cup {m} /\ UNCHANGED lostVia
    BY <1>1, QueueMaps
  <1>2. CASE lostVia' = Lose({m}, "dlq") /\ UNCHANGED dlqQueue
    <2>1. "dlq" \in LossPoints
      BY DEF LossPoints
    <2> QED
      BY <1>2, <2>1, LoseMaps
  <1> QED
    BY <1>1, <1>2 DEF SendToDLQ

\* The poll goroutine lets go of what it reads while it believes it is paused.
LEMMA PollerMaps ==
    ASSUME DataTypes, PollerStep
    PROVE  [Journey!DeliveryNext]_(Journey!deliveryVars)
  <1> USE DEF kafkaVars, pollVars, jobVars, workerVars, runVars
  <1>a. ASSUME UNCHANGED <<committed, stored, dlqTopic, dlqQueue, lostVia, wmsg>>
        PROVE  [Journey!DeliveryNext]_(Journey!deliveryVars)
    BY <1>a, QuietFate, QuietMaps
  <1>1. ASSUME NEW p \in Partitions, PollMessage(p)
        PROVE  [Journey!DeliveryNext]_(Journey!deliveryVars)
    <2>0. UNCHANGED <<committed, stored, dlqTopic, dlqQueue, wmsg>>
      BY <1>1 DEF PollMessage
    <2>1. CASE UNCHANGED lostVia
      BY <1>a, <2>0, <2>1
    <2>2. CASE lostVia' = Lose({Msg(p, position[p])}, "paused")
      <3>1. Msg(p, position[p]) \in Messages
        BY <1>1, MessageOf DEF PollMessage, DataTypes, ClientData
      <3>2. "paused" \in LossPoints
        BY DEF LossPoints
      <3>3. \A n \in Messages : Held(n)' <=> Held(n)
        BY <2>0 DEF Held
      <3> QED
        BY <2>0, <2>2, <3>1, <3>2, <3>3, LoseMaps
    <2> QED
      BY <1>1, <2>1, <2>2 DEF PollMessage
  <1> QED
    BY <1>a, <1>1 DEF PollerStep, PollTop, ManagePause, ManageResume, ManageResumeFails,
          PollNone, SendJob, Rebalance

\* A worker that takes a message from the channel takes it up.
LEMMA TakeMaps ==
    ASSUME DataTypes, NEW w \in Workers, Take(w)
    PROVE  [Journey!DeliveryNext]_(Journey!deliveryVars)
  <1>0. PICK m \in Messages : m = Head(jobs)
    BY DEF Take, DataTypes, GoroutineData
  <1>1. wmsg[w] = NoMsg
    BY DEF Take, DataTypes, GoroutineData, InHand
  <1>2. /\ UNCHANGED <<committed, stored, dlqTopic, dlqQueue, lostVia>>
        /\ wmsg' = [wmsg EXCEPT ![w] = m]
    BY <1>0 DEF Take, kafkaVars, runVars
  <1>3. Held(m)' /\ \A n \in Messages : n # m => (Held(n)' <=> Held(n))
    BY <1>1, <1>2, NoMsgAssumption DEF Held, DataTypes, GoroutineData
  <1>4. \A n \in Messages : Final(n)' <=> Final(n)
    BY <1>2 DEF Final, Kind, Uid
  <1>5. SameElse(m)
    BY <1>2, <1>3, <1>4 DEF SameElse, Fate
  <1>6. CASE Fate(m) = "waiting"
    <2>1. Fate(m)' = "held"
      BY <1>2, <1>3, <1>4, <1>6 DEF Fate
    <2> QED
      BY <1>1, <1>2, <1>5, <1>6, <2>1, TakeUpMaps DEF Journey!DeliveryNext
  <1>7. CASE Fate(m) # "waiting"
    <2>1. Fate(m)' = Fate(m)
      BY <1>2, <1>3, <1>4, <1>7 DEF Fate
    <2> QED
      BY <1>2, <1>5, <2>1, QuietMaps DEF SameElse
  <1> QED
    BY <1>6, <1>7

\* What an attempt stores settles the messages of its UID.
LEMMA AttemptMaps ==
    ASSUME DataTypes, NEW w \in Workers, Attempt(w)
    PROVE  [Journey!DeliveryNext]_(Journey!deliveryVars)
  <1>1. /\ UNCHANGED <<committed, dlqTopic, dlqQueue, lostVia, wmsg>>
        /\ stored \subseteq stored'
    BY DEF Attempt, runVars
  <1>2. \A n \in Messages : Final(n) => Final(n)'
    BY <1>1 DEF Final, Kind, Uid
  <1>3. \A n \in Messages : Held(n)' <=> Held(n)
    BY <1>1 DEF Held
  <1>4. \A n \in Messages : Fate(n)' = Fate(n) \/ Fate(n)' = "settled"
    BY <1>1, <1>2, <1>3 DEF Fate
  <1> QED
    BY <1>1, <1>4, SettleMaps DEF Journey!DeliveryNext

\* A commit is made for a message that was dealt with, and what lies below it
\* has been taken up: the channel is first in, first out.
LEMMA CommitStepMaps ==
    ASSUME DataTypes, Order, CommitOnlyAfterHandling, NEW w \in Workers, Commit(w)
    PROVE  [Journey!DeliveryNext]_(Journey!deliveryVars)
  <1>0. PICK m \in Messages : m = wmsg[w]
    BY DEF Commit, InHand, DataTypes, GoroutineData
  <1>1. UNCHANGED <<stored, dlqTopic, dlqQueue, lostVia>> /\ Release(w)
    BY DEF Commit, runVars
  <1>2. Fate(m) \in {"queued", "settled", "lost"}
    BY <1>0 DEF Commit, CommitOnlyAfterHandling, Settled, Fate, Final
  <1>3. \A n \in Messages : Final(n)' <=> Final(n)
    BY <1>1 DEF Final, Kind, Uid
  <1>4. \A n \in Messages : Fate(n)' = Fate(n)
    <2> SUFFICES ASSUME NEW n \in Messages PROVE Fate(n)' = Fate(n)
      OBVIOUS
    <2>1. CASE n = m
      BY <1>1, <1>2, <1>3, <2>1 DEF Fate
    <2>2. CASE n # m
      <3>1. Held(n)' <=> Held(n)
        BY <1>0, <1>1, <2>2, ReleaseHeld
      <3> QED
        BY <1>1, <1>3, <3>1 DEF Fate
    <2> QED
      BY <2>1, <2>2
  <1>5. CASE UNCHANGED committed
    BY <1>4, <1>5, QuietMaps
  <1>6. CASE committed' = [committed EXCEPT ![m.part] = m.off + 1]
    <2>1. ASSUME NEW n \in Messages, n.part = m.part, n.off <= m.off
          PROVE  Fate(n) # "waiting"
      <3>1. n.off \in Nat /\ m.off \in Nat /\ m # NoMsg
        BY MessageShape
      <3>2. CASE n.off < m.off
        <4>1. Accounted(n)
          BY <1>0, <2>1, <3>1, <3>2 DEF Order, HeldInOrder, Before
        <4> QED
          BY <4>1, AccountedFate
      <3>3. CASE n.off = m.off
        <4>1. n = m
          BY <2>1, <3>3, MessageShape
        <4> QED
          BY <1>2, <4>1
      <3> QED
        BY <2>1, <3>1, <3>2, <3>3
    <2>2. Journey!CommitUpTo(m)
      BY <1>2, <1>4, <1>6, <2>1, CommitMaps
    <2> QED
      BY <2>2 DEF Journey!DeliveryNext
  <1> QED
    BY <1>0, <1>5, <1>6 DEF Commit

\* Every step of a worker is a step of the abstract specification.
LEMMA WorkerMaps ==
    ASSUME DataTypes, Order, CommitOnlyAfterHandling, NEW w \in Workers, WorkerStep(w)
    PROVE  [Journey!DeliveryNext]_(Journey!deliveryVars)
  <1> USE DEF kafkaVars, pollVars, jobVars, workerVars, runVars
  <1>h. ASSUME wpc[w] \in {"process", "result", "commit"}
        PROVE  wmsg[w] \in Messages /\ Held(wmsg[w])
    BY <1>h DEF DataTypes, GoroutineData, InHand, Held
  <1>1. CASE Exit(w)
    BY <1>1, QuietFate, QuietMaps DEF Exit
  <1>2. CASE ResultToCommit(w)
    <2>1. UNCHANGED <<committed, stored, dlqTopic, wmsg>> /\ wpc[w] = "result"
      BY <1>2 DEF ResultToCommit
    <2>2. \A n \in Messages : Held(n)' <=> Held(n)
      BY <2>1 DEF Held
    <2>3. CASE SendToDLQ(wmsg[w])
      BY <1>h, <2>1, <2>2, <2>3, SendToDLQMaps
    <2>4. CASE UNCHANGED <<dlqQueue, lostVia>>
      BY <2>1, <2>4, QuietFate, QuietMaps
    <2> QED
      BY <1>2, <2>3, <2>4 DEF ResultToCommit
  <1>r. ASSUME Release(w), wpc[w] \in {"process", "result", "commit"}
        PROVE  \A n \in Messages : n # wmsg[w] => (Held(n)' <=> Held(n))
    BY <1>r, ReleaseHeld
  <1>3. CASE ResultConnFailed(w)
    <2>1. /\ UNCHANGED <<committed, stored, dlqTopic, dlqQueue>> /\ wpc[w] = "result"
          /\ lostVia' = Lose({wmsg[w]}, "conn") /\ Release(w)
      BY <1>3 DEF ResultConnFailed
    <2>2. "conn" \in LossPoints
      BY DEF LossPoints
    <2> QED
      BY <1>h, <1>r, <2>1, <2>2, LoseMaps
  <1>4. CASE Panic(w)
    <2>1. /\ UNCHANGED <<committed, stored, dlqTopic>> /\ SendToDLQ(wmsg[w]) /\ Release(w)
          /\ wpc[w] \in {"process", "result", "commit"}
      BY <1>4 DEF Panic
    <2> QED
      BY <1>h, <1>r, <2>1, SendToDLQMaps
  <1> QED
    BY <1>1, <1>2, <1>3, <1>4, TakeMaps, AttemptMaps, CommitStepMaps, WorkerStep(w)
       DEF WorkerStep

\* A delivery report settles its message or lets it go.
LEMMA ReportMaps ==
    ASSUME DataTypes, DlqStep
    PROVE  [Journey!DeliveryNext]_(Journey!deliveryVars)
  <1> USE DEF workerVars, runVars, DataTypes, ClientData
  <1>1. ASSUME NEW m \in Messages, DlqDelivered(m)
        PROVE  [Journey!DeliveryNext]_(Journey!deliveryVars)
    <2>1. /\ UNCHANGED <<committed, stored, lostVia, wmsg>>
          /\ dlqTopic' = dlqTopic \cup {m} /\ dlqQueue' = dlqQueue \ {m}
      BY <1>1 DEF DlqDelivered
    <2>2. \A n \in Messages : (Held(n)' <=> Held(n)) /\ (Final(n) => Final(n)')
      BY <2>1 DEF Held, Final, Kind, Uid
    <2>3. Final(m)' /\ \A n \in Messages : n # m => (Final(n)' <=> Final(n))
      BY <2>1 DEF Final, Kind, Uid
    <2>4. \A n \in Messages : Fate(n)' = Fate(n) \/ Fate(n)' = "settled"
      BY <2>1, <2>2, <2>3 DEF Fate
    <2> QED
      BY <2>1, <2>4, SettleMaps DEF Journey!DeliveryNext
  <1>2. ASSUME NEW m \in Messages, DlqFailed(m)
        PROVE  [Journey!DeliveryNext]_(Journey!deliveryVars)
    <2>1. /\ UNCHANGED <<committed, stored, dlqTopic, wmsg>>
          /\ lostVia' = Lose({m}, "dlq") /\ dlqQueue' = dlqQueue \ {m}
      BY <1>2 DEF DlqFailed
    <2>2. lostVia'[m] # {} /\ \A n \in Messages : n # m => lostVia'[n] = lostVia[n]
      BY <2>1 DEF Lose
    <2>3. \A n \in Messages : (Held(n)' <=> Held(n)) /\ (Final(n)' <=> Final(n))
      BY <2>1 DEF Held, Final, Kind, Uid
    <2>4. SameElse(m)
      BY <2>1, <2>2, <2>3 DEF SameElse, Fate
    <2>5. CASE Final(m)
      <3>1. Fate(m)' = Fate(m)
        BY <2>3, <2>5 DEF Fate
      <3> QED
        BY <2>1, <2>4, <3>1, QuietMaps DEF SameElse
    <2>6. CASE ~Final(m)
      <3>1. Fate(m)' = "lost" /\ Fate(m) # "settled"
        BY <2>1, <2>2, <2>3, <2>6 DEF Fate
      <3> QED
        BY <2>1, <2>4, <3>1, LetGoMaps DEF Journey!DeliveryNext
    <2> QED
      BY <2>5, <2>6
  <1> QED
    BY <1>1, <1>2 DEF DlqStep

\* The DLQ producer goes away, with the process or before it: what it queued
\* is delivered or let go, and so is what a worker held.
LEMMA StopStepMaps ==
    ASSUME DataTypes, NEW delivered \in SUBSET dlqQueue, UNCHANGED <<committed, stored>>,
           dlqTopic' = dlqTopic \cup delivered, dlqQueue' = {},
           \A m \in Messages : ~Held(m)',
           \A m \in Messages :
              IF m \in dlqQueue \ delivered \/ Held(m) THEN lostVia'[m] # {}
              ELSE lostVia'[m] = lostVia[m],
           \A m \in Messages : lostVia[m] \subseteq lostVia'[m]
    PROVE  [Journey!DeliveryNext]_(Journey!deliveryVars)
  <1>1. \A m \in Messages : Final(m)' <=> Final(m) \/ m \in delivered
    BY DEF Final, Kind, Uid
  <1>2. ASSUME NEW m \in Messages
        PROVE  /\ Fate(m) \in {"waiting", "settled", "lost"} => Fate(m)' = Fate(m)
               /\ Fate(m) = "queued" => Fate(m)' \in {"settled", "lost"}
               /\ Fate(m) = "held" => Fate(m)' = "lost"
    <2>1. CASE Final(m)
      BY <1>1, <2>1 DEF Fate
    <2>2. CASE ~Final(m) /\ m \in dlqQueue
      BY <1>1, <2>2 DEF Fate
    <2>3. CASE ~Final(m) /\ m \notin dlqQueue
      BY <1>1, <2>3 DEF Fate
    <2> QED
      BY <2>1, <2>2, <2>3
  <1> QED
    BY <1>2, StopMaps DEF Journey!DeliveryNext

LEMMA EndMaps ==
    ASSUME DataTypes, CloseDLQ \/ Restart
    PROVE  [Journey!DeliveryNext]_(Journey!deliveryVars)
  <1> USE DEF workerVars, DataTypes, ClientData, GoroutineData
  <1>1. CASE CloseDLQ
    <2>1. PICK delivered \in SUBSET dlqQueue :
            DropDlqQueue(delivered) /\ lostVia' = Lose(dlqQueue \ delivered, "dlq")
      BY <1>1 DEF CloseDLQ
    <2>2. \A m \in Messages : ~Held(m) /\ ~Held(m)'
      BY <1>1, NoMsgAssumption DEF CloseDLQ, Held, InHand
    <2>3. \A m \in Messages : IF m \in dlqQueue \ delivered \/ Held(m) THEN lostVia'[m] # {}
                               ELSE lostVia'[m] = lostVia[m]
      BY <2>1, <2>2 DEF Lose
    <2>4. \A m \in Messages : lostVia[m] \subseteq lostVia'[m]
      BY <2>1 DEF Lose
    <2>5. UNCHANGED <<committed, stored>>
      BY <1>1 DEF CloseDLQ
    <2> QED
      BY <2>1, <2>2, <2>3, <2>4, <2>5, StopStepMaps DEF DropDlqQueue
  <1>2. CASE Restart
    <2>1. PICK delivered \in SUBSET dlqQueue :
            /\ dlqTopic' = dlqTopic \cup delivered
            /\ lostVia' = [m \in Messages |->
                            lostVia[m]
                            \cup (IF m \in dlqQueue \ delivered THEN {"dlq"} ELSE {})
                            \cup (IF Held(m) THEN {"abandoned"} ELSE {})]
      BY <1>2 DEF Restart
    <2>2. \A m \in Messages : ~Held(m)'
      BY <1>2, NoMsgAssumption DEF Restart, Held
    <2>3. \A m \in Messages : IF m \in dlqQueue \ delivered \/ Held(m) THEN lostVia'[m] # {}
                               ELSE lostVia'[m] = lostVia[m]
      BY <2>1
    <2>4. \A m \in Messages : lostVia[m] \subseteq lostVia'[m]
      BY <2>1
    <2>5. UNCHANGED <<committed, stored>> /\ dlqQueue' = {}
      BY <1>2 DEF Restart
    <2> QED
      BY <2>1, <2>2, <2>3, <2>4, <2>5, StopStepMaps
  <1> QED
    BY <1>1, <1>2

\* Every step maps to a step or a stutter.
LEMMA StepMaps ==
    ASSUME DeliveryInv, [Next]_vars
    PROVE  [Journey!DeliveryNext]_(Journey!deliveryVars)
  <1>1. DataTypes /\ Order /\ CommitOnlyAfterHandling
    BY DeliveryParts DEF TypeInv, DataTypes, DeliveryInv
  <1>2. CASE CloseConsumer \/ HealthAndEnvironment \/ UNCHANGED vars
    BY <1>2, QuietFate, QuietMaps
       DEF CloseConsumer, HealthAndEnvironment, vars, consumerVars, kafkaVars, workerVars, runVars
  <1> QED
    BY <1>1, <1>2, PollerMaps, WorkerMaps, ReportMaps, EndMaps DEF Next, RunStep, Terminated

\* The initial states map to initial states.
LEMMA InitMaps == Init => Journey!DeliveryInit
  <1> SUFFICES ASSUME Init PROVE Journey!DeliveryInit
    OBVIOUS
  <1>1. \A m \in Messages : ~Held(m)
    BY NoMsgAssumption DEF Init, Held
  <1>2. \A m \in Messages : Fate(m) \in {"waiting", "settled"}
    BY <1>1 DEF Init, Fate
  <1> QED
    BY <1>2 DEF Init, Journey!DeliveryInit

\* With at least one attempt per message the consumer keeps the promise of
\* module Delivery: whatever it polls, retries, loses, commits or forgets in a
\* restart is one of the abstract steps, so that an offset is committed only
\* for a message that was dealt with and past none that still waits, and what
\* is settled stays settled.
THEOREM DeliveryRefined ==
    ASSUME MaxRetries > 0
    PROVE  Spec => ImplementsDelivery
  <1>1. Spec => []DeliveryInv
    BY DeliveryInvHolds, MaxRetries > 0
  <1>2. DeliveryInv /\ [Next]_vars => [Journey!DeliveryNext]_(Journey!deliveryVars)
    BY StepMaps
  <1> QED
    BY <1>1, <1>2, InitMaps, PTL DEF Spec, ImplementsDelivery, Journey!DeliverySpec

-----------------------------------------------------------------------------
(* No worker meets an insert of its own process.                            *)

QueuedNow(m) == Queued(m, Len(jobs))

OnTheWay(m) == m = pmsg \/ QueuedNow(m) \/ Held(m)

\* Before the group has assigned a partition nothing has been read or stored.
NotYetJoined ==
    rebalances = 0 => assigned = {} /\ stored = {} /\ \A m \in Messages : ~OnTheWay(m)

\* What is on the way has been read.
BehindPosition == \A m \in Messages : OnTheWay(m) => m.off < position[m.part]

\* A message is in one place only.
InOnePlace ==
    /\ \A m \in Messages : m = pmsg => ~QueuedNow(m) /\ ~Held(m)
    /\ \A i, j \in 1 .. Len(jobs) : jobs[i] = jobs[j] => i = j
    /\ \A m \in Messages : QueuedNow(m) => ~Held(m)
    /\ \A w, u \in Workers : wmsg[w] = wmsg[u] /\ wmsg[w] # NoMsg => w = u

\* No insert of the message's order has been tried, or none that succeeded.
Untried(m) ==
    \/ m.off >= position[m.part]
    \/ m = pmsg
    \/ QueuedNow(m)
    \/ \E w \in Workers : wmsg[w] = m /\ wpc[w] = "process"

UntriedNotStored == \A m \in Messages : Untried(m) => Uid(m) \notin stored

NoneExists == \A w \in Workers : werr[w] # "exists"

\* The invariant of a process that joined its group once.  NoSelfConflict is not
\* inductive: that an attempt finds no row follows from the message having been
\* read once, being in one place, and having failed without a trace so far.
Once == NotYetJoined /\ BehindPosition /\ InOnePlace /\ UntriedNotStored /\ NoneExists

OnceInv == UniqueUids /\ restarts = 0 /\ rebalances <= 1 => Once

\* A step that brings no message forward, and at most releases some.
LEMMA ReleaseOnce ==
    ASSUME DataTypes, Once,
           UNCHANGED <<pmsg, jobs, position, stored, rebalances>>, assigned' \subseteq assigned,
           \A w \in Workers :
              /\ wmsg'[w] = wmsg[w] \/ wmsg'[w] = NoMsg
              /\ wpc'[w] = "process" => wpc[w] = "process"
              /\ werr'[w] = werr[w] \/ werr'[w] = "nil"
    PROVE  Once'
  <1>1. \A m \in Messages : /\ QueuedNow(m)' <=> QueuedNow(m)
                            /\ Held(m)' => Held(m)
    BY NoMsgAssumption DEF QueuedNow, Queued, Held
  <1>2. \A m \in Messages : OnTheWay(m)' => OnTheWay(m)
    BY <1>1 DEF OnTheWay
  <1>3. NotYetJoined' /\ BehindPosition'
    BY <1>2 DEF Once, NotYetJoined, BehindPosition
  <1>4. InOnePlace'
    BY <1>1 DEF Once, InOnePlace
  <1>5. \A m \in Messages : Untried(m)' => Untried(m)
    BY <1>1, NoMsgAssumption DEF Untried
  <1>6. UntriedNotStored' /\ NoneExists'
    BY <1>5 DEF Once, UntriedNotStored, NoneExists, Uid
  <1> QED
    BY <1>3, <1>4, <1>6 DEF Once

\* Poll delivers a message nobody has, and moves the position past it.
LEMMA PollOnce ==
    ASSUME DataTypes, Once, NEW p \in Partitions, PollMessage(p)
    PROVE  Once'
  <1> USE DEF DataTypes, ClientData
  <1>0. PICK k \in Messages : k = Msg(p, position[p])
    BY MessageOf DEF PollMessage
  <1>k. k.part = p /\ k.off = position[p] /\ position[p] \in Nat
    BY <1>0 DEF Msg
  <1>1. /\ UNCHANGED <<jobs, wmsg, wpc, werr, stored, assigned, rebalances>>
        /\ p \in assigned
        /\ position' = [position EXCEPT ![p] = @ + 1]
        /\ pmsg' = k \/ pmsg' = pmsg
        /\ pmsg = NoMsg
    BY <1>0 DEF PollMessage, jobVars, workerVars, InHand
  <1>2. \A m \in Messages : (QueuedNow(m)' <=> QueuedNow(m)) /\ (Held(m)' <=> Held(m))
    BY <1>1 DEF QueuedNow, Queued, Held
  <1>3. rebalances # 0
    BY <1>1 DEF Once, NotYetJoined
  <1>4. ~OnTheWay(k)
    BY <1>k DEF Once, BehindPosition
  <1>5. \A m \in Messages : OnTheWay(m)' => OnTheWay(m) \/ m = k
    BY <1>1, <1>2 DEF OnTheWay
  <1>6. NotYetJoined'
    BY <1>1, <1>3 DEF NotYetJoined
  <1>7. BehindPosition'
    <2> SUFFICES ASSUME NEW m \in Messages, OnTheWay(m)' PROVE m.off < position'[m.part]
      BY DEF BehindPosition
    <2>1. m.part \in Partitions /\ m.off \in Nat /\ position[m.part] \in Nat
      BY MessageShape
    <2>2. m.off < position[m.part] \/ m = k
      BY <1>5 DEF Once, BehindPosition
    <2>3. position'[m.part] = IF m.part = p THEN position[m.part] + 1 ELSE position[m.part]
      BY <1>1, <2>1
    <2> QED
      BY <1>k, <2>1, <2>2, <2>3
  <1>8. InOnePlace'
    BY <1>1, <1>2, <1>4, NoMsgAssumption DEF Once, InOnePlace, OnTheWay
  <1>9. \A m \in Messages : Untried(m)' => Untried(m)
    <2> SUFFICES ASSUME NEW m \in Messages, Untried(m)' PROVE Untried(m)
      OBVIOUS
    <2>1. m.part \in Partitions /\ m.off \in Nat /\ position[m.part] \in Nat
      BY MessageShape
    <2>2. m.off >= position'[m.part] => m.off >= position[m.part]
      BY <1>1, <2>1
    <2>3. m = k => m.off >= position[m.part]
      BY <1>k
    <2> QED
      BY <1>1, <1>2, <2>2, <2>3 DEF Untried
  <1>10. UntriedNotStored' /\ NoneExists'
    BY <1>1, <1>9 DEF Once, UntriedNotStored, NoneExists, Uid
  <1> QED
    BY <1>6, <1>7, <1>8, <1>10 DEF Once

\* The message moves from the poll goroutine to the channel.
LEMMA SendOnce ==
    ASSUME DataTypes, Once, SendJob
    PROVE  Once'
  <1> USE DEF DataTypes, ClientData, GoroutineData
  <1>0. PICK k \in Messages : k = pmsg
    BY DEF SendJob, InHand
  <1>1. /\ UNCHANGED <<wmsg, wpc, werr, position, stored, assigned, rebalances>>
        /\ jobs' = Append(jobs, k) /\ pmsg' = NoMsg
    BY <1>0 DEF SendJob, kafkaVars, workerVars, runVars
  <1>l. /\ Len(jobs) \in Nat /\ Len(jobs') = Len(jobs) + 1
        /\ \A i \in 1 .. Len(jobs) : jobs'[i] = jobs[i]
        /\ jobs'[Len(jobs) + 1] = k
    BY <1>1
  <1>2. \A m \in Messages : /\ QueuedNow(m)' <=> QueuedNow(m) \/ m = k
                            /\ Held(m)' <=> Held(m)
    <2>1. \A i : i \in 1 .. Len(jobs') <=> i \in 1 .. Len(jobs) \/ i = Len(jobs) + 1
      BY <1>l
    <2> QED
      BY <1>1, <1>l, <2>1 DEF QueuedNow, Queued, Held
  <1>3. \A m \in Messages : OnTheWay(m)' <=> OnTheWay(m)
    BY <1>0, <1>1, <1>2, NoMsgAssumption DEF OnTheWay
  <1>4. NotYetJoined' /\ BehindPosition'
    BY <1>1, <1>3 DEF Once, NotYetJoined, BehindPosition
  <1>5. InOnePlace'
    <2>1. ~QueuedNow(k) /\ ~Held(k)
      BY <1>0 DEF Once, InOnePlace
    <2>2. ASSUME NEW i \in 1 .. Len(jobs'), NEW j \in 1 .. Len(jobs'), jobs'[i] = jobs'[j]
          PROVE  i = j
      <3>1. \A n \in 1 .. Len(jobs) : jobs[n] # k
        BY <2>1 DEF QueuedNow, Queued
      <3>2. (i \in 1 .. Len(jobs) \/ i = Len(jobs) + 1)
            /\ (j \in 1 .. Len(jobs) \/ j = Len(jobs) + 1)
        BY <1>l
      <3> QED
        BY <1>l, <2>2, <3>1, <3>2 DEF Once, InOnePlace
    <2>3. \A m \in Messages : m # pmsg' /\ (QueuedNow(m)' => ~Held(m)')
      BY <1>1, <1>2, <2>1, NoMsgAssumption DEF Once, InOnePlace
    <2>4. \A w, u \in Workers : wmsg'[w] = wmsg'[u] /\ wmsg'[w] # NoMsg => w = u
      BY <1>1 DEF Once, InOnePlace
    <2> QED
      BY <2>2, <2>3, <2>4 DEF InOnePlace
  <1>6. \A m \in Messages : Untried(m)' => Untried(m)
    BY <1>0, <1>1, <1>2, NoMsgAssumption DEF Untried
  <1>7. UntriedNotStored' /\ NoneExists'
    BY <1>1, <1>6 DEF Once, UntriedNotStored, NoneExists, Uid
  <1> QED
    BY <1>4, <1>5, <1>7 DEF Once

\* The message at the head of the channel moves to a worker.
LEMMA TakeOnce ==
    ASSUME DataTypes, Once, NEW w \in Workers, Take(w)
    PROVE  Once'
  <1> USE DEF DataTypes, ClientData, GoroutineData
  <1>0. PICK k \in Messages : k = Head(jobs) /\ k = jobs[1]
    BY DEF Take
  <1>1. /\ UNCHANGED <<pmsg, werr, position, stored, assigned, rebalances>>
        /\ jobs # <<>> /\ jobs' = Tail(jobs) /\ wmsg' = [wmsg EXCEPT ![w] = k]
        /\ \A u \in Workers : u # w => wpc'[u] = wpc[u]
        /\ wmsg[w] = NoMsg
    BY <1>0 DEF Take, kafkaVars, pollVars, runVars, InHand
  <1>l. /\ Len(jobs) \in Nat /\ 1 \in 1 .. Len(jobs) /\ Len(jobs') = Len(jobs) - 1
        /\ \A i \in 1 .. Len(jobs') : i + 1 \in 1 .. Len(jobs) /\ jobs'[i] = jobs[i + 1]
    BY <1>1
  <1>q. QueuedNow(k)
    BY <1>0, <1>l DEF QueuedNow, Queued
  <1>2. \A m \in Messages : /\ QueuedNow(m)' => QueuedNow(m) /\ m # k
                            /\ Held(m)' <=> Held(m) \/ m = k
    <2>1. ASSUME NEW m \in Messages, QueuedNow(m)' PROVE QueuedNow(m) /\ m # k
      <3>1. PICK i \in 1 .. Len(jobs') : jobs'[i] = m
        BY <2>1 DEF QueuedNow, Queued
      <3>2. i + 1 \in 1 .. Len(jobs) /\ jobs[i + 1] = m /\ i + 1 # 1
        BY <1>l, <3>1
      <3> QED
        BY <1>0, <1>l, <3>2 DEF QueuedNow, Queued, Once, InOnePlace
    <2>2. \A m \in Messages : Held(m)' <=> Held(m) \/ m = k
      BY <1>1, NoMsgAssumption DEF Held
    <2> QED
      BY <2>1, <2>2
  <1>3. \A m \in Messages : OnTheWay(m)' => OnTheWay(m)
    BY <1>1, <1>2, <1>q DEF OnTheWay
  <1>4. NotYetJoined' /\ BehindPosition'
    BY <1>1, <1>3 DEF Once, NotYetJoined, BehindPosition
  <1>5. InOnePlace'
    <2>1. k # pmsg /\ ~Held(k)
      BY <1>q DEF Once, InOnePlace
    <2>2. ASSUME NEW i \in 1 .. Len(jobs'), NEW j \in 1 .. Len(jobs'), jobs'[i] = jobs'[j]
          PROVE  i = j
      <3>1. i + 1 = j + 1
        BY <1>l, <2>2 DEF Once, InOnePlace
      <3> QED
        BY <1>l, <3>1
    <2>3. \A m \in Messages : /\ m = pmsg' => ~QueuedNow(m)' /\ ~Held(m)'
                              /\ QueuedNow(m)' => ~Held(m)'
      BY <1>1, <1>2, <2>1 DEF Once, InOnePlace
    <2>4. \A x, u \in Workers : wmsg'[x] = wmsg'[u] /\ wmsg'[x] # NoMsg => x = u
      BY <1>1, <2>1 DEF Once, InOnePlace, Held
    <2> QED
      BY <2>2, <2>3, <2>4 DEF InOnePlace
  <1>6. \A m \in Messages : Untried(m)' => Untried(m)
    BY <1>1, <1>2, <1>q, NoMsgAssumption DEF Untried
  <1>7. UntriedNotStored' /\ NoneExists'
    BY <1>1, <1>6 DEF Once, UntriedNotStored, NoneExists, Uid
  <1> QED
    BY <1>4, <1>5, <1>7 DEF Once

\* The group assigns partitions for the first time: nothing was read before.
LEMMA RebalanceOnce ==
    ASSUME DataTypes, Once, NEW S \in SUBSET Partitions, Rebalance(S), rebalances' <= 1
    PROVE  Once'
  <1>1. /\ UNCHANGED <<pmsg, jobs, wmsg, wpc, werr, stored>>
        /\ rebalances = 0 /\ rebalances' = 1
    BY BoundsAssumption DEF Rebalance, pollVars, jobVars, workerVars, DataTypes, ClientData
  <1>2. stored = {} /\ \A m \in Messages : ~OnTheWay(m)
    BY <1>1 DEF Once, NotYetJoined
  <1>3. \A m \in Messages : /\ ~OnTheWay(m)'
                            /\ QueuedNow(m)' <=> QueuedNow(m)
                            /\ Held(m)' <=> Held(m)
    BY <1>1, <1>2 DEF OnTheWay, QueuedNow, Queued, Held
  <1>4. NotYetJoined' /\ BehindPosition' /\ UntriedNotStored' /\ NoneExists'
    BY <1>1, <1>2, <1>3
       DEF Once, NotYetJoined, BehindPosition, UntriedNotStored, NoneExists
  <1>5. InOnePlace'
    BY <1>1, <1>3 DEF Once, InOnePlace
  <1> QED
    BY <1>4, <1>5 DEF Once

\* What an attempt may do to a message whose order is not stored: ErrAlreadyExists
\* is not among it, and a connection error leaves nothing behind.
LEMMA FreshOutcomes ==
    ASSUME NEW m, Uid(m) \notin stored, NEW o \in ProcessOutcomes(m)
    PROVE  o.err # "exists" /\ (o.err = "conn" => o.persisted = FALSE)
  BY DEF ProcessOutcomes, AnsweredOutcomes, BrokenOutcomes, Outcome

\* An attempt stores the order of a message that is on no other way, under a UID
\* that no other message has, and the worker tries it no more.
LEMMA AttemptOnce ==
    ASSUME DataTypes, Once, UniqueUids, NEW w \in Workers, Attempt(w)
    PROVE  Once'
  <1> USE DEF DataTypes, ClientData, GoroutineData
  <1>0. PICK k \in Messages : k = wmsg[w]
    BY DEF Attempt, InHand
  <1>1. /\ UNCHANGED <<pmsg, jobs, wmsg, position, assigned, rebalances>>
        /\ wpc[w] = "process"
    BY DEF Attempt, pollVars, jobVars, runVars
  <1>2. PICK o \in ProcessOutcomes(k) :
          /\ stored' = IF o.persisted THEN stored \cup {Uid(k)} ELSE stored
          /\ werr' = [werr EXCEPT ![w] = o.err]
          /\ IF o.err = "conn" /\ attempt[w] + 1 < MaxRetries
               THEN attempt' = [attempt EXCEPT ![w] = @ + 1] /\ UNCHANGED wpc
               ELSE wpc' = [wpc EXCEPT ![w] = "result"] /\ UNCHANGED attempt
    BY <1>0 DEF Attempt
  <1>3. Uid(k) \notin stored /\ OnTheWay(k)
    BY <1>0, <1>1 DEF Once, UntriedNotStored, Untried, OnTheWay, Held
  <1>4. o.err # "exists" /\ (o.err = "conn" => o.persisted = FALSE)
    BY <1>3, FreshOutcomes
  <1>5. \A m \in Messages : (QueuedNow(m)' <=> QueuedNow(m)) /\ (Held(m)' <=> Held(m))
    BY <1>1 DEF QueuedNow, Queued, Held
  <1>6. \A m \in Messages : OnTheWay(m)' <=> OnTheWay(m)
    BY <1>1, <1>5 DEF OnTheWay
  <1>7. InOnePlace' /\ BehindPosition'
    BY <1>1, <1>5, <1>6 DEF Once, InOnePlace, BehindPosition
  <1>8. NotYetJoined' /\ NoneExists'
    BY <1>1, <1>2, <1>3, <1>4 DEF Once, NotYetJoined, NoneExists
  <1>9. UntriedNotStored'
    <2> SUFFICES ASSUME NEW m \in Messages, Untried(m)' PROVE Uid(m) \notin stored'
      BY DEF UntriedNotStored, Uid
    <2>1. Untried(m) /\ Uid(m) \notin stored
      <3>1. \A u \in Workers : wpc'[u] = "process" => wpc[u] = "process"
        BY <1>2
      <3>2. Untried(m)
        BY <1>1, <1>5, <3>1 DEF Untried
      <3> QED
        BY <3>2 DEF Once, UntriedNotStored
    <2>2. CASE o.persisted = FALSE
      BY <1>2, <2>1, <2>2
    <2>3. CASE o.persisted # FALSE
      <3>1. wpc'[w] = "result"
        BY <1>2, <1>4, <2>3
      <3>2. m # k
        <4>1. k.off < position[k.part] /\ k.part \in Partitions /\ k.off \in Nat
              /\ position[k.part] \in Nat
          BY <1>3, MessageShape DEF Once, BehindPosition
        <4>2. Held(k) /\ k # pmsg /\ ~QueuedNow(k)
          BY <1>0 DEF Once, InOnePlace, Held
        <4>3. \A u \in Workers : wmsg[u] = k => u = w
          BY <1>0, MessageShape DEF Once, InOnePlace
        <4>4. ~Untried(k)'
          <5>1. ~(k.off >= position'[k.part]) /\ k # pmsg' /\ ~QueuedNow(k)'
            BY <1>1, <1>5, <4>1, <4>2
          <5>2. ~\E u \in Workers : wmsg'[u] = k /\ wpc'[u] = "process"
            BY <1>1, <3>1, <4>3
          <5> QED
            BY <5>1, <5>2 DEF Untried
        <4> QED
          BY <4>4
      <3>3. Uid(m) # Uid(k)
        BY <3>2 DEF UniqueUids
      <3> QED
        BY <1>2, <2>1, <3>3
    <2> QED
      BY <2>2, <2>3
  <1> QED
    BY <1>7, <1>8, <1>9 DEF Once

\* Every step of a process that joined its group at most once keeps it.
LEMMA OnceStep ==
    ASSUME TypeInv, OnceInv, [Next]_vars
    PROVE  OnceInv'
  <1> SUFFICES ASSUME UniqueUids, restarts' = 0, rebalances' <= 1 PROVE Once'
    BY DEF OnceInv, UniqueUids, Uid
  <1> USE DEF healthVars, consumerVars, kafkaVars, pollVars, jobVars, workerVars, runVars
  <1>0. DataTypes
    BY DEF TypeInv, DataTypes
  <1>n. ~Restart
    BY <1>0 DEF Restart, DataTypes, ClientData
  <1>b. restarts' = restarts /\ (rebalances' = rebalances \/ rebalances' = rebalances + 1)
    <2>1. CASE PollerStep
      BY <2>1 DEF PollerStep, PollTop, ManagePause, ManageResume, ManageResumeFails,
            PollNone, SendJob, PollMessage, Rebalance
    <2>2. ASSUME NEW w \in Workers, WorkerStep(w)
          PROVE  UNCHANGED <<restarts, rebalances>>
      BY <2>2 DEF WorkerStep, Take, Exit, Attempt, ResultToCommit, ResultConnFailed, Commit,
            Panic
    <2>3. CASE DlqStep \/ RunStep \/ HealthAndEnvironment \/ UNCHANGED vars
      BY <2>3 DEF DlqStep, DlqDelivered, DlqFailed, RunStep, CloseDLQ, CloseConsumer,
            HealthAndEnvironment, vars
    <2> QED
      BY <1>n, <2>1, <2>2, <2>3 DEF Next, Terminated
  <1>1. Once
    BY <1>0, <1>b DEF OnceInv, DataTypes, ClientData
  <1>2. CASE PollerStep
    <2>1. CASE PollTop \/ ManagePause \/ ManageResume \/ ManageResumeFails \/ PollNone
      BY <1>0, <1>1, <2>1, ReleaseOnce
         DEF PollTop, ManagePause, ManageResume, ManageResumeFails, PollNone
    <2> QED
      BY <1>0, <1>1, <1>2, <2>1, PollOnce, SendOnce, RebalanceOnce DEF PollerStep
  <1>3. ASSUME NEW w \in Workers, WorkerStep(w) PROVE Once'
    <2>1. CASE Exit(w) \/ ResultToCommit(w)
      <3>1. /\ UNCHANGED <<pmsg, jobs, position, stored, rebalances, assigned, wmsg, werr>>
            /\ \A u \in Workers : wpc'[u] = "process" => wpc[u] = "process"
        BY <1>0, <2>1 DEF Exit, ResultToCommit, DataTypes, GoroutineData
      <3> QED
        BY <1>0, <1>1, <3>1, ReleaseOnce
    <2>2. CASE ResultConnFailed(w) \/ Commit(w) \/ Panic(w)
      <3>1. UNCHANGED <<pmsg, jobs, position, stored, rebalances, assigned>> /\ Release(w)
        BY <2>2 DEF ResultConnFailed, Commit, Panic
      <3>2. \A u \in Workers : /\ wmsg'[u] = wmsg[u] \/ wmsg'[u] = NoMsg
                               /\ wpc'[u] = "process" => wpc[u] = "process"
                               /\ werr'[u] = werr[u] \/ werr'[u] = "nil"
        BY <1>0, <3>1 DEF Release, DataTypes, GoroutineData
      <3> QED
        BY <1>0, <1>1, <3>1, <3>2, ReleaseOnce
    <2> QED
      BY <1>0, <1>1, <1>3, <2>1, <2>2, TakeOnce, AttemptOnce, UniqueUids DEF WorkerStep
  <1>4. CASE DlqStep \/ RunStep \/ HealthAndEnvironment \/ UNCHANGED vars
    <2>1. UNCHANGED <<pmsg, jobs, position, stored, rebalances, wmsg, wpc, werr>>
          /\ assigned' \subseteq assigned
      BY <1>4 DEF DlqStep, DlqDelivered, DlqFailed, RunStep, CloseDLQ, CloseConsumer,
            HealthAndEnvironment, vars
    <2> QED
      BY <1>0, <1>1, <2>1, ReleaseOnce
  <1> QED
    BY <1>n, <1>2, <1>3, <1>4 DEF Next, Terminated

\* In a process that joined its group once, and with a UID of its own for every
\* order, no attempt of processWithRetries finds the order already stored: a
\* connection error, the only one that is retried, leaves nothing behind.
THEOREM NoSelfConflictHolds == Spec => []NoSelfConflict
  <1>1. Init => OnceInv
    <2> SUFFICES ASSUME Init PROVE Once
      BY DEF OnceInv
    <2>0. \A m \in Messages : ~QueuedNow(m)
      BY DEF Init, QueuedNow, Queued
    <2>h. \A m \in Messages : ~Held(m)
      BY NoMsgAssumption DEF Init, Held
    <2>1. \A m \in Messages : ~OnTheWay(m)
      <3>1. pmsg = NoMsg
        BY DEF Init
      <3> QED
        BY <2>0, <2>h, <3>1, NoMsgAssumption DEF OnTheWay
    <2>2. NotYetJoined /\ BehindPosition /\ UntriedNotStored /\ NoneExists
      BY <2>1 DEF Init, NotYetJoined, BehindPosition, UntriedNotStored, NoneExists
    <2>3. InOnePlace
      <3>1. jobs = <<>> /\ \A w \in Workers : wmsg[w] = NoMsg
        BY DEF Init
      <3> QED
        BY <2>0, <2>h, <3>1 DEF InOnePlace
    <2> QED
      BY <2>2, <2>3 DEF Once
  <1>2. TypeInv /\ OnceInv /\ [Next]_vars => OnceInv'
    BY OnceStep
  <1>3. OnceInv => NoSelfConflict
    BY DEF OnceInv, Once, NoneExists, NoSelfConflict
  <1> QED
    BY <1>1, <1>2, <1>3, InitTypeInv, TypeStep, PTL DEF Spec
=============================================================================
