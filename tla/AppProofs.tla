------------------------------ MODULE AppProofs ------------------------------
(***************************************************************************)
(* The shutdown of module App, for any set of connections: ShutdownInv is  *)
(* inductive, and what the runs check follows from it.                     *)
(***************************************************************************)
EXTENDS App, TLAPS

LEMMA InitShutdownInv == Init => ShutdownInv
  BY DEF Init, ShutdownInv, TypeOK

\* Every step of the main goroutine keeps the invariant.
LEMMA MainKeeps ==
  ASSUME ShutdownInv, New \/ MainStep \/ Signal
  PROVE  ShutdownInv'
<1> USE DEF ShutdownInv, TypeOK, InShutdown, runVars
<1>1. CASE New
  BY <1>1 DEF New
<1>2. CASE StartAll
  BY <1>2 DEF StartAll
<1>3. CASE Notify \/ TakeSignal \/ ShutdownBegin
  BY <1>3 DEF Notify, TakeSignal, ShutdownBegin
<1>4. CASE CancelContext
  BY <1>4 DEF CancelContext, CancelRun
<1>5. CASE ShutdownDone
  BY <1>5 DEF ShutdownDone
<1>6. CASE ShutdownTimesOut
  BY <1>6 DEF ShutdownTimesOut
<1>7. CASE Join
  BY <1>7 DEF Join
<1>8. CASE CloseDB
  BY <1>8 DEF CloseDB
<1>9. CASE Return
  BY <1>9 DEF Return
<1>10. CASE Signal
  <2>1. UNCHANGED <<runVars, mpc, timedOut, dbClosed, spc, conn>>
    BY <1>10 DEF Signal
  <2>2. sig' \in {"none", "pending", "taken"}
        /\ exit' \in {"no", "clean", "failed", "fatal", "killed"}
    BY <1>10 DEF Signal
  <2> QED
    BY <2>1, <2>2
<1> QED
  BY <1>1, <1>2, <1>3, <1>4, <1>5, <1>6, <1>7, <1>8, <1>9, <1>10 DEF MainStep

\* So does every step of the server's goroutine and of the consumer.
LEMMA OthersKeep ==
  ASSUME ShutdownInv, ServerStep \/ ConsumerStep
  PROVE  ShutdownInv'
<1> USE DEF ShutdownInv, TypeOK, InShutdown, mainVars, runVars
<1>1. CASE Listen
  BY <1>1 DEF Listen
<1>2. CASE Bind
  BY <1>2 DEF Bind
<1>3. CASE ServeReturns
  BY <1>3 DEF ServeReturns
<1>6. CASE Fatal
  BY <1>6 DEF Fatal
<1>4. ASSUME ConsumerStep, BeginInsert \/ EndInsert
      PROVE  ShutdownInv'
  <2>1. UNCHANGED <<mainVars, spc, conn, ctxDone, run>>
    BY <1>4 DEF ConsumerStep, BeginInsert, EndInsert
  <2>2. inserting' \in BOOLEAN /\ (run = "returned" => ~inserting')
    BY <1>4 DEF BeginInsert, EndInsert
  <2> QED
    BY <2>1, <2>2
<1>5. ASSUME ConsumerStep, ReturnRun
      PROVE  ShutdownInv'
  BY <1>5 DEF ConsumerStep, ReturnRun
<1> QED
  BY <1>1, <1>2, <1>3, <1>4, <1>5, <1>6 DEF ServerStep, ConsumerStep

\* A handler changes its connection only: after Shutdown has returned without
\* an error there is none left to change.
LEMMA HandlerKeeps ==
  ASSUME ShutdownInv, NEW c \in Conns, HandlerStep(c)
  PROVE  ShutdownInv'
<1> USE DEF ShutdownInv, TypeOK, InShutdown, mainVars, runVars, Turn
<1>1. CASE Accept(c)
  BY <1>1 DEF Accept
<1>2. CASE Receive(c)
  BY <1>2 DEF Receive
<1>3. CASE Query(c)
  BY <1>3 DEF Query
<1>4. CASE Answer(c)
  BY <1>4 DEF Answer
<1>5. CASE Hangup(c)
  BY <1>5 DEF Hangup
<1> QED
  BY <1>1, <1>2, <1>3, <1>4, <1>5 DEF HandlerStep

\* What each wait of App.Run has established holds until the process ends.
THEOREM ShutdownInvHolds == Spec => []ShutdownInv
<1>1. ShutdownInv /\ [Next]_vars => ShutdownInv'
  <2> SUFFICES ASSUME ShutdownInv, [Next]_vars
               PROVE  ShutdownInv'
    OBVIOUS
  <2>1. CASE UNCHANGED vars
    BY <2>1 DEF ShutdownInv, TypeOK, vars, mainVars, runVars
  <2>2. CASE New \/ MainStep \/ Signal
    BY <2>2, MainKeeps
  <2>3. CASE ServerStep \/ ConsumerStep
    BY <2>3, OthersKeep
  <2>4. ASSUME NEW c \in Conns, HandlerStep(c)
        PROVE  ShutdownInv'
    BY <2>4, HandlerKeeps
  <2> QED
    BY <2>1, <2>2, <2>3, <2>4 DEF Next
<1> QED
  BY InitShutdownInv, <1>1, PTL DEF Spec

\* db.Close never runs under an insert of a worker.
THEOREM WorkersSparedHolds == Spec => []WorkersSpared
<1>1. ShutdownInv => WorkersSpared
  BY DEF ShutdownInv, WorkersSpared
<1> QED
  BY ShutdownInvHolds, <1>1, PTL

\* db.Close runs under a request only after Shutdown gave up waiting.
THEOREM RequestsSparedHolds == Spec => []RequestsSpared
<1>1. ShutdownInv => RequestsSpared
  BY DEF ShutdownInv, RequestsSpared
<1> QED
  BY ShutdownInvHolds, <1>1, PTL
=============================================================================
