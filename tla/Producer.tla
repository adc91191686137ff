------------------------------ MODULE Producer ------------------------------
(***************************************************************************)
(* cmd/producer: the command that fills the orders topic.  One sender at a *)
(* time places messages (main in its two loops, then the goroutine that    *)
(* reads the file), the goroutine of the delivery reports and the signal   *)
(* goroutine run beside it.  deliveryWg counts what is outstanding.        *)
(*                                                                         *)
(* External: the Kafka producer reports on every message it took, sooner   *)
(* or later; a WaitGroup lets its waiters go when the counter reaches 0,   *)
(* and a waiter that then finds it above 0 panics ("WaitGroup is reused    *)
(* before previous Wait has returned").                                    *)
(***************************************************************************)
EXTENDS Naturals

CONSTANTS
    Direct,     \* -gibberish and -invalid-json messages
    InFile      \* objects of the JSON file

ASSUME CountsAssumption == Direct \in Nat /\ InFile \in Nat

VARIABLES
    pc,         \* the sender and the rest of main
    left,       \* messages of its loop still to place
    wg,         \* the counter of deliveryWg
    queued,     \* messages the Kafka producer has not reported on
    events,     \* reports in its channel
    gpc,        \* the signal goroutine
    exit        \* "no", "main", "signal" (os.Exit), "panic"

vars == <<pc, left, wg, queued, events, gpc, exit>>

Waits == {"wait", "blocked", "woken"}

TypeOK ==
    /\ pc \in {"direct", "directAdded", "file", "fileAdded", "flush"} \cup Waits
    /\ left \in Nat
    /\ wg \in Nat /\ queued \in Nat /\ events \in Nat
    /\ gpc \in {"signal", "flush"} \cup Waits
    /\ exit \in {"no", "main", "signal", "panic"}

Init ==
    /\ pc = "direct" /\ left = Direct
    /\ wg = 0 /\ queued = 0 /\ events = 0
    /\ gpc = "signal" /\ exit = "no"

\* A waiter is let go when the counter reaches 0.
Woken(waiter) == IF waiter = "blocked" THEN "woken" ELSE waiter

\* deliveryWg.Done() by a goroutine that leaves pc at next.
Done(next) ==
    /\ wg' = wg - 1
    /\ pc' = IF wg = 1 THEN Woken(next) ELSE next
    /\ gpc' = IF wg = 1 THEN Woken(gpc) ELSE gpc

-----------------------------------------------------------------------------
(* The sender.                                                              *)

\* Mutant: Add is forgotten.
AddingForgotten(from, to) ==
    /\ pc = from
    /\ left > 0
    /\ pc' = to
    /\ UNCHANGED <<left, wg, queued, events, gpc, exit>>

\* One turn of a loop, after its tick: deliveryWg.Add(1).
Adding(from, to) ==
    /\ pc = from
    /\ left > 0
    /\ wg' = wg + 1
    /\ pc' = to
    /\ UNCHANGED <<left, queued, events, gpc, exit>>

Add == Adding("direct", "directAdded") \/ Adding("file", "fileAdded")

\* The loop a message comes from.
Loop == IF pc = "directAdded" THEN "direct" ELSE "file"

\* placeOrder: Produce takes the message.
Place ==
    /\ pc \in {"directAdded", "fileAdded"}
    /\ queued' = queued + 1
    /\ left' = left - 1
    /\ pc' = Loop
    /\ UNCHANGED <<wg, events, gpc, exit>>

\* Mutant: the error path forgets Done.
PlaceFailsWithoutDone ==
    /\ pc \in {"directAdded", "fileAdded"}
    /\ left' = left - 1
    /\ pc' = Loop
    /\ UNCHANGED <<wg, queued, events, gpc, exit>>

\* placeOrder fails, the producer's queue is full: Done at once.
PlaceFails ==
    /\ pc \in {"directAdded", "fileAdded"}
    /\ left' = left - 1
    /\ Done(Loop)
    /\ UNCHANGED <<queued, events, exit>>

\* Both loops are done: streamJSONObjects and the goroutine that drains it.
OpenFile ==
    /\ pc = "direct"
    /\ left = 0
    /\ pc' = "file"
    /\ left' = InFile
    /\ UNCHANGED <<wg, queued, events, gpc, exit>>

\* The stream ends, at the end of the file or at an error, which is only
\* logged; fileReadingWg.Wait returns.
StreamEnds ==
    /\ pc = "file"
    /\ left' = 0
    /\ pc' = "wait"
    /\ UNCHANGED <<wg, queued, events, gpc, exit>>

-----------------------------------------------------------------------------
(* The Kafka producer and the goroutine of the reports.                     *)

Deliver ==
    /\ queued > 0
    /\ queued' = queued - 1
    /\ events' = events + 1
    /\ UNCHANGED <<pc, left, wg, gpc, exit>>

\* A report, of a delivery or of its failure.
Report ==
    /\ events > 0
    /\ events' = events - 1
    /\ Done(pc)
    /\ UNCHANGED <<left, queued, exit>>

-----------------------------------------------------------------------------
(* The two ends.                                                            *)

\* One step of deliveryWg.Wait.
WaitStep(at) ==
    CASE at = "wait" -> IF wg = 0 THEN "flush" ELSE "blocked"
      [] at = "woken" -> IF wg = 0 THEN "flush" ELSE "panic"
      [] OTHER -> at

\* Mutant: main does not wait for the reports.
MainWaitSkipped ==
    /\ pc \in {"wait", "woken"}
    /\ pc' = "flush"
    /\ UNCHANGED <<left, wg, queued, events, gpc, exit>>

MainWait ==
    /\ pc \in {"wait", "woken"}
    /\ IF WaitStep(pc) = "panic" THEN exit' = "panic" /\ UNCHANGED pc
       ELSE pc' = WaitStep(pc) /\ UNCHANGED exit
    /\ UNCHANGED <<left, wg, queued, events, gpc>>

\* Flush returns when nothing is left or after 15 seconds, and main ends.
MainFlush ==
    /\ pc = "flush"
    /\ exit' = "main"
    /\ UNCHANGED <<pc, left, wg, queued, events, gpc>>

Signal ==
    /\ gpc = "signal"
    /\ gpc' = "wait"
    /\ UNCHANGED <<pc, left, wg, queued, events, exit>>

SignalWait ==
    /\ gpc \in {"wait", "woken"}
    /\ IF WaitStep(gpc) = "panic" THEN exit' = "panic" /\ UNCHANGED gpc
       ELSE gpc' = WaitStep(gpc) /\ UNCHANGED exit
    /\ UNCHANGED <<pc, left, wg, queued, events>>

\* Flush, then os.Exit(0): the sender is not stopped first.
SignalFlush ==
    /\ gpc = "flush"
    /\ exit' = "signal"
    /\ UNCHANGED <<pc, left, wg, queued, events, gpc>>

-----------------------------------------------------------------------------
Step ==
    \/ Add \/ Place \/ PlaceFails \/ OpenFile \/ StreamEnds
    \/ MainWait \/ MainFlush
    \/ SignalWait \/ SignalFlush

Next ==
    \/ exit = "no" /\ (Step \/ Deliver \/ Report \/ Signal)
    \/ exit # "no" /\ UNCHANGED vars

Spec == Init /\ [][Next]_vars

\* The goroutines keep running and Kafka reports on every message it took
\* (message.timeout.ms at the latest).
Fairness ==
    /\ WF_vars(exit = "no" /\ Step)
    /\ WF_vars(exit = "no" /\ Deliver)
    /\ WF_vars(exit = "no" /\ Report)

FairSpec == Spec /\ Fairness

-----------------------------------------------------------------------------
\* deliveryWg counts exactly the messages that are being placed, queued or
\* reported on and not yet seen: it is 0 exactly when nothing is outstanding,
\* whichever of them failed, and Done never takes it below (which would panic).
CounterExact ==
    wg = queued + events + (IF pc \in {"directAdded", "fileAdded"} THEN 1 ELSE 0)

\* When the command ends by itself every message it placed was reported on,
\* although the last Flush may time out.
MainLeavesNothing == exit = "main" => queued = 0 /\ events = 0

\* The command ends, whatever is refused by the queue, fails to be delivered
\* or stays unread in the file.
ProducerEnds == <>(exit # "no")

\* The signal goroutine announces that it is "flushing pending messages": a
\* signal ends the command by os.Exit after a Flush, not by a panic.
SignalReachesFlush == exit # "panic"

\* The inductive invariant: main is past its Wait only at a counter of 0, and
\* nobody adds to it then.
ProducerInv ==
    /\ TypeOK
    /\ CounterExact
    /\ pc \in {"directAdded", "fileAdded"} => left > 0
    /\ pc = "flush" => wg = 0
    /\ exit = "main" => pc = "flush"
=============================================================================
