----------------------------- MODULE ConsumerRun -----------------------------
(***************************************************************************)
(* What KafkaConsumer.Run (internal/consumer/consumer.go) promises         *)
(* App.Run: it returns only after its context was cancelled, and when it   *)
(* has returned no worker is inside the database, nor will one be.  Module *)
(* Consumer implements this, module App is built on it.                    *)
(***************************************************************************)

VARIABLES
    ctxDone,     \* the context of App.Run is cancelled
    run,         \* KafkaConsumer.Run: "running", "returned"
    inserting    \* some worker is inside ProcessNewOrder

runVars == <<ctxDone, run, inserting>>

RunInit == ctxDone = FALSE /\ run = "running" /\ inserting = FALSE

CancelRun ==
    /\ ctxDone' = TRUE
    /\ UNCHANGED <<run, inserting>>

\* Workers go on with what is left in the channel after a cancel.
BeginInsert ==
    /\ run = "running"
    /\ inserting' = TRUE
    /\ UNCHANGED <<ctxDone, run>>

EndInsert ==
    /\ inserting
    /\ inserting' = FALSE
    /\ UNCHANGED <<ctxDone, run>>

ReturnRun ==
    /\ run = "running"
    /\ ctxDone
    /\ ~inserting
    /\ run' = "returned"
    /\ UNCHANGED <<ctxDone, inserting>>

\* The process ends and another one starts.
Reborn ==
    /\ ctxDone' = FALSE
    /\ run' = "running"
    /\ inserting' = FALSE

RunSpec ==
    RunInit /\ [][CancelRun \/ BeginInsert \/ EndInsert \/ ReturnRun \/ Reborn]_runVars
=============================================================================
