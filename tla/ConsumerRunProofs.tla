-------------------------- MODULE ConsumerRunProofs --------------------------
(***************************************************************************)
(* Module Consumer implements module ConsumerRun, on which App is built,   *)
(* whenever there is a worker at all.                                      *)
(***************************************************************************)
EXTENDS Consumer, TLAPS

\* A goroutine leaves because of the cancel, and Run goes on when all have left.
LifeInv ==
    /\ jobsClosed => ctxDone
    /\ \A w \in Workers : wpc[w] = "exited" => ctxDone
    /\ mpc # "running" => \A w \in Workers : wpc[w] = "exited"

PcType == wpc \in [Workers -> {"idle", "process", "result", "commit", "exited"}]

Inv == PcType /\ LifeInv

\* Every step of the poll goroutine leaves the workers and Run alone.
LEMMA PollerLife ==
    ASSUME Inv, PollerStep
    PROVE  Inv' /\ UNCHANGED <<mpc, wpc, ctxDone>>
  <1> USE DEF healthVars, consumerVars, kafkaVars, pollVars, jobVars, workerVars, runVars
  <1>1. UNCHANGED <<mpc, wpc, ctxDone>> /\ (jobsClosed' => jobsClosed \/ ctxDone)
    <2>1. CASE PollTop
      BY <2>1 DEF PollTop
    <2>2. CASE ManagePause \/ ManageResume \/ ManageResumeFails
      BY <2>2 DEF ManagePause, ManageResume, ManageResumeFails
    <2>3. CASE PollNone \/ SendJob
      BY <2>3 DEF PollNone, SendJob
    <2>4. ASSUME NEW p \in Partitions, PollMessage(p)
          PROVE  UNCHANGED <<mpc, wpc, ctxDone, jobsClosed>>
      BY <2>4 DEF PollMessage
    <2>5. ASSUME NEW S \in SUBSET Partitions, Rebalance(S)
          PROVE  UNCHANGED <<mpc, wpc, ctxDone, jobsClosed>>
      BY <2>5 DEF Rebalance
    <2> QED
      BY <2>1, <2>2, <2>3, <2>4, <2>5 DEF PollerStep
  <1> QED
    BY <1>1 DEF Inv, PcType, LifeInv

\* A step of a worker changes its own program counter only, and from "exited"
\* there is none.
LEMMA WorkerLife ==
    ASSUME Inv, NEW w \in Workers, WorkerStep(w)
    PROVE  /\ Inv'
           /\ UNCHANGED <<mpc, ctxDone>>
           /\ mpc = "running"
           /\ \E s \in {"idle", "process", "result", "commit", "exited"} :
                wpc' = [wpc EXCEPT ![w] = s]
  <1> USE DEF healthVars, consumerVars, kafkaVars, pollVars, jobVars, workerVars, runVars
  <1>1. UNCHANGED <<mpc, ctxDone, jobsClosed>> /\ wpc[w] # "exited"
    <2>1. CASE Take(w) \/ Exit(w)
      BY <2>1 DEF Take, Exit
    <2>2. CASE Attempt(w)
      BY <2>2 DEF Attempt
    <2>3. CASE ResultToCommit(w) \/ ResultConnFailed(w)
      BY <2>3 DEF ResultToCommit, ResultConnFailed
    <2>4. CASE Commit(w) \/ Panic(w)
      BY <2>4 DEF Commit, Panic
    <2> QED
      BY <2>1, <2>2, <2>3, <2>4 DEF WorkerStep
  <1>2. \E s \in {"idle", "process", "result", "commit", "exited"} :
            wpc' = [wpc EXCEPT ![w] = s] /\ (s = "exited" => ctxDone)
    <2>1. CASE Take(w)
      BY <2>1 DEF Take
    <2>2. CASE Exit(w)
      BY <2>2 DEF Exit, Inv, LifeInv
    <2>3. CASE Attempt(w)
      <3>1. CASE UNCHANGED wpc
        BY <3>1, <1>1 DEF Inv, PcType
      <3>2. CASE wpc' = [wpc EXCEPT ![w] = "result"]
        BY <3>2
      <3> QED
        BY <2>3, <3>1, <3>2 DEF Attempt
    <2>4. CASE ResultToCommit(w)
      BY <2>4 DEF ResultToCommit
    <2>5. CASE ResultConnFailed(w) \/ Commit(w) \/ Panic(w)
      BY <2>5 DEF ResultConnFailed, Commit, Panic, Release
    <2> QED
      BY <2>1, <2>2, <2>3, <2>4, <2>5 DEF WorkerStep
  <1>3. mpc = "running"
    BY <1>1 DEF Inv, LifeInv
  <1> QED
    BY <1>1, <1>2, <1>3 DEF Inv, PcType, LifeInv

\* The remaining steps.
LEMMA OtherLife ==
    ASSUME Inv,
           DlqStep \/ RunStep \/ HealthAndEnvironment \/ Restart \/ UNCHANGED vars
    PROVE  Inv'
  <1> USE DEF healthVars, consumerVars, kafkaVars, pollVars, jobVars, workerVars, runVars,
              Inv, PcType, LifeInv
  <1>1. CASE DlqStep
    BY <1>1 DEF DlqStep, DlqDelivered, DlqFailed
  <1>2. CASE RunStep
    BY <1>2 DEF RunStep, CloseDLQ, CloseConsumer
  <1>3. CASE HealthAndEnvironment
    <2>1. UNCHANGED <<wpc, mpc, jobsClosed>> /\ (ctxDone => ctxDone')
      BY <1>3 DEF HealthAndEnvironment, HealthStep, HcPing, HcApply, HcStop, DbDown, DbUp, Cancel
    <2> QED
      BY <2>1
  <1>4. CASE Restart
    BY <1>4 DEF Restart
  <1>5. CASE UNCHANGED vars
    BY <1>5 DEF vars
  <1> QED
    BY <1>1, <1>2, <1>3, <1>4, <1>5

LEMMA LifeHolds == Spec => []Inv
  <1>1. Init => Inv
    BY DEF Init, Inv, PcType, LifeInv
  <1>2. Inv /\ [Next]_vars => Inv'
    BY PollerLife, WorkerLife, OtherLife DEF Next, Terminated
  <1> QED
    BY <1>1, <1>2, PTL DEF Spec

-----------------------------------------------------------------------------
(* The refinement.                                                          *)

Run == IF mpc = "closed" THEN "returned" ELSE "running"
Inserting == \E w \in Workers : wpc[w] = "process"

\* What a step does to the three variables of ConsumerRun.
LifeStep ==
    \/ Life!CancelRun \/ Life!BeginInsert \/ Life!EndInsert \/ Life!ReturnRun
    \/ Life!Reborn \/ UNCHANGED Life!runVars

\* Run is closed only from a state in which all workers have left.
LEMMA CloseIsReturn ==
    ASSUME Inv, Workers # {}, RunStep
    PROVE  LifeStep
  <1> USE DEF healthVars, consumerVars, workerVars
  <1>1. UNCHANGED <<wpc, ctxDone>>
    BY DEF RunStep, CloseDLQ, CloseConsumer
  <1>2. CASE CloseDLQ
    BY <1>1, <1>2 DEF CloseDLQ, LifeStep, Life!runVars
  <1>3. CASE CloseConsumer
    <2>1. ctxDone /\ ~Inserting
      BY <1>3 DEF CloseConsumer, Inv, LifeInv, Inserting
    <2> QED
      BY <1>1, <1>3, <2>1 DEF CloseConsumer, LifeStep, Life!ReturnRun, Inserting
  <1> QED
    BY <1>2, <1>3 DEF RunStep

LEMMA StepRefines ==
    ASSUME Inv, Workers # {}, [Next]_vars
    PROVE  LifeStep
  <1> USE DEF healthVars, consumerVars, kafkaVars, pollVars, jobVars, workerVars, runVars
  <1>1. CASE UNCHANGED <<mpc, wpc, ctxDone>>
    BY <1>1 DEF LifeStep, Life!runVars
  <1>2. ASSUME NEW w \in Workers, WorkerStep(w)
        PROVE  LifeStep
    <2>1. UNCHANGED <<mpc, ctxDone>> /\ mpc = "running"
      BY <1>2, WorkerLife
    <2>2. CASE Inserting' = Inserting
      BY <2>1, <2>2 DEF LifeStep, Life!runVars, Inserting
    <2>3. CASE Inserting' /\ ~Inserting
      BY <2>1, <2>3 DEF LifeStep, Life!BeginInsert, Inserting
    <2>4. CASE ~Inserting' /\ Inserting
      BY <2>1, <2>4 DEF LifeStep, Life!EndInsert, Inserting
    <2> QED
      BY <2>2, <2>3, <2>4 DEF Inserting
  <1>3. CASE HealthAndEnvironment
    <2>1. UNCHANGED <<mpc, wpc>> /\ (ctxDone' = ctxDone \/ ctxDone' = TRUE)
      BY <1>3 DEF HealthAndEnvironment, HealthStep, HcPing, HcApply, HcStop, DbDown, DbUp, Cancel
    <2>2. CASE ctxDone' = TRUE
      BY <2>1, <2>2 DEF LifeStep, Life!CancelRun
    <2> QED
      BY <1>1, <2>1, <2>2
  <1>4. CASE Restart
    BY <1>4 DEF Restart, LifeStep, Life!Reborn
  <1>5. CASE DlqStep
    BY <1>1, <1>5 DEF DlqStep, DlqDelivered, DlqFailed
  <1>6. CASE PollerStep
    BY <1>1, <1>6, PollerLife
  <1>7. CASE UNCHANGED vars
    BY <1>1, <1>7 DEF vars
  <1> QED
    BY <1>2, <1>3, <1>4, <1>5, <1>6, <1>7, CloseIsReturn DEF Next, Terminated

\* With at least one worker, Run returns only after a cancel, and then no
\* worker is or will be inside the database: what App.Run relies on.
THEOREM RunContract ==
    ASSUME Workers # {}
    PROVE  Spec => ImplementsConsumerRun
  <1>1. Init => Life!RunInit
    BY DEF Init, HealthInit, Life!RunInit
  <1>2. Inv /\ [Next]_vars =>
          [Life!CancelRun \/ Life!BeginInsert \/ Life!EndInsert \/ Life!ReturnRun
           \/ Life!Reborn]_(Life!runVars)
    BY StepRefines, Workers # {} DEF LifeStep
  <1> QED
    BY <1>1, <1>2, LifeHolds, PTL DEF Spec, ImplementsConsumerRun, Life!RunSpec
=============================================================================
