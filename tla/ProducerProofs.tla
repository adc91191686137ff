--------------------------- MODULE ProducerProofs ---------------------------
(***************************************************************************)
(* The wait group of module Producer, for any number of messages.          *)
(***************************************************************************)
EXTENDS Producer, TLAPS

\* A Done leaves pc and gpc where they were or lets a waiter go.
LEMMA DoneFacts ==
  ASSUME NEW next, Done(next), wg \in Nat, wg > 0
  PROVE  /\ wg' = wg - 1 /\ wg' \in Nat
         /\ pc' = next \/ (next = "blocked" /\ pc' = "woken")
         /\ gpc' = gpc \/ (gpc = "blocked" /\ gpc' = "woken")
  BY DEF Done, Woken

LEMMA StepKeeps ==
  ASSUME ProducerInv, exit = "no", Step
  PROVE  ProducerInv'
<1> USE DEF ProducerInv, TypeOK, CounterExact, Waits
<1>1. CASE Add
  BY <1>1 DEF Add, Adding
<1>2. CASE Place
  BY <1>2, CountsAssumption DEF Place, Loop
<1>3. CASE PlaceFails
  <2>1. wg > 0 /\ Done(Loop) /\ Loop \in {"direct", "file"}
    BY <1>3 DEF PlaceFails, Loop
  <2>2. wg' = wg - 1 /\ wg' \in Nat /\ pc' \in {"direct", "file"}
        /\ (gpc' = gpc \/ gpc' = "woken")
    BY <2>1, DoneFacts
  <2> QED
    BY <1>3, <2>2 DEF PlaceFails
<1>4. CASE OpenFile
  BY <1>4, CountsAssumption DEF OpenFile
<1>5. CASE StreamEnds
  BY <1>5 DEF StreamEnds
<1>6. CASE MainWait
  BY <1>6 DEF MainWait, WaitStep
<1>7. CASE MainFlush
  BY <1>7 DEF MainFlush
<1>8. CASE SignalWait
  BY <1>8 DEF SignalWait, WaitStep
<1>9. CASE SignalFlush
  BY <1>9 DEF SignalFlush
<1> QED
  BY <1>1, <1>2, <1>3, <1>4, <1>5, <1>6, <1>7, <1>8, <1>9 DEF Step

LEMMA OthersKeep ==
  ASSUME ProducerInv, exit = "no", Deliver \/ Report \/ Signal
  PROVE  ProducerInv'
<1> USE DEF ProducerInv, TypeOK, CounterExact, Waits
<1>1. CASE Deliver
  BY <1>1 DEF Deliver
<1>2. CASE Report
  <2>1. wg > 0 /\ Done(pc)
    BY <1>2 DEF Report
  <2>2. /\ wg' = wg - 1 /\ wg' \in Nat
        /\ pc' = pc \/ (pc = "blocked" /\ pc' = "woken")
        /\ gpc' = gpc \/ gpc' = "woken"
    BY <2>1, DoneFacts
  <2> QED
    BY <1>2, <2>1, <2>2 DEF Report
<1>3. CASE Signal
  BY <1>3 DEF Signal
<1> QED
  BY <1>1, <1>2, <1>3

LEMMA ProducerInvHolds == Spec => []ProducerInv
<1>1. Init => ProducerInv
  BY CountsAssumption DEF Init, ProducerInv, TypeOK, CounterExact, Waits
<1>2. ProducerInv /\ [Next]_vars => ProducerInv'
  <2> SUFFICES ASSUME ProducerInv, [Next]_vars
               PROVE  ProducerInv'
    OBVIOUS
  <2>1. CASE UNCHANGED vars
    BY <2>1 DEF vars, ProducerInv, TypeOK, CounterExact
  <2>2. CASE exit = "no" /\ Step
    BY <2>2, StepKeeps
  <2>3. CASE exit = "no" /\ (Deliver \/ Report \/ Signal)
    BY <2>3, OthersKeep
  <2> QED
    BY <2>1, <2>2, <2>3 DEF Next
<1> QED
  BY <1>1, <1>2, PTL DEF Spec

\* deliveryWg counts what is outstanding, for any number of messages.
THEOREM CounterExactHolds == Spec => []CounterExact
<1>1. ProducerInv => CounterExact
  BY DEF ProducerInv
<1> QED
  BY ProducerInvHolds, <1>1, PTL

\* The wait group's counter never goes below zero (sync.WaitGroup would
\* panic), and the positions of main and of the signal goroutine are sound.
THEOREM ProducerTypeCorrect == Spec => []TypeOK
<1>1. ProducerInv => TypeOK
  BY DEF ProducerInv
<1> QED
  BY ProducerInvHolds, <1>1, PTL

\* A command that ends by itself leaves no message without a report.
THEOREM MainLeavesNothingHolds == Spec => []MainLeavesNothing
<1>1. ProducerInv => MainLeavesNothing
  BY DEF ProducerInv, TypeOK, CounterExact, MainLeavesNothing
<1> QED
  BY ProducerInvHolds, <1>1, PTL
=============================================================================
