------------------------------- MODULE DBHealth -------------------------------
(***************************************************************************)
(* internal/pkg/health/dbhealth.go: the goroutine that pings the database  *)
(* and the flag it shares with the poll goroutine (IsHealthy) and with the *)
(* workers (MarkUnhealthy).                                                *)
(*                                                                         *)
(* The ping and the update of the flag are separate steps: what the ping   *)
(* saw may be out of date when the flag is written.  The Load of           *)
(* wasHealthy and the Store that follows it are one step: this goroutine   *)
(* is the only one that raises the flag and the others only lower it, so   *)
(* no step between the two can be told from one before or after both.      *)
(***************************************************************************)
EXTENDS Naturals

CONSTANT MaxOutages         \* how often the database may go down

ASSUME MaxOutagesAssumption == MaxOutages \in Nat

VARIABLES
    isHealthy,   \* DBHealthChecker.isHealthy
    hcPc,        \* the checker: "ping" (before a check), "apply" (ping returned), "stopped"
    pingOk,      \* what the last ping returned
    ctxDone,     \* the context of App.Run is cancelled
    dbUp,        \* the database answers
    outages      \* outages so far

healthVars == <<isHealthy, hcPc, pingOk, ctxDone, dbUp, outages>>

HealthTypeOK ==
    /\ isHealthy \in BOOLEAN
    /\ hcPc \in {"ping", "apply", "stopped"}
    /\ pingOk \in BOOLEAN
    /\ ctxDone \in BOOLEAN
    /\ dbUp \in BOOLEAN
    /\ outages \in 0 .. MaxOutages

\* The zero value of the flag; Start opens with a synchronous check.
HealthInit ==
    /\ isHealthy = FALSE
    /\ hcPc = "ping"
    /\ pingOk = FALSE
    /\ ctxDone = FALSE
    /\ dbUp = TRUE
    /\ outages = 0

-----------------------------------------------------------------------------
\* checkHealth, first part: PingContext succeeds when the database answers and
\* the context it derives from is live.
HcPing ==
    /\ hcPc = "ping"
    /\ pingOk' = (dbUp /\ ~ctxDone)
    /\ hcPc' = "apply"
    /\ UNCHANGED <<isHealthy, ctxDone, dbUp, outages>>

\* Mutant: a failed ping does not lower the flag.
HcApplyOnlyRaises ==
    /\ hcPc = "apply"
    /\ isHealthy' = (isHealthy \/ pingOk)
    /\ pingOk' = FALSE
    /\ hcPc' = "ping"
    /\ UNCHANGED <<ctxDone, dbUp, outages>>

\* Mutant: a good ping does not raise the flag again after a mark.
HcApplyOnlyLowers ==
    /\ hcPc = "apply"
    /\ isHealthy' = (isHealthy /\ pingOk)
    /\ pingOk' = FALSE
    /\ hcPc' = "ping"
    /\ UNCHANGED <<ctxDone, dbUp, outages>>

\* checkHealth, second part: the flag takes the value the ping returned, which
\* is then forgotten.
HcApply ==
    /\ hcPc = "apply"
    /\ isHealthy' = pingOk
    /\ pingOk' = FALSE
    /\ hcPc' = "ping"
    /\ UNCHANGED <<ctxDone, dbUp, outages>>

\* The select of Start's goroutine takes ctx.Done instead of the next tick;
\* when both are ready Go picks either.  (Leaving before the first, synchronous
\* check is the same as failing it: the context is done and the flag is down.)
HcStop ==
    /\ hcPc = "ping"
    /\ ctxDone
    /\ hcPc' = "stopped"
    /\ UNCHANGED <<isHealthy, pingOk, ctxDone, dbUp, outages>>

HealthStep == HcPing \/ HcApply \/ HcStop

\* MarkUnhealthy: CompareAndSwap(true, false).
MarkUnhealthy == isHealthy' = FALSE

-----------------------------------------------------------------------------
\* The database goes away and comes back.
DbDown ==
    /\ dbUp
    /\ outages < MaxOutages
    /\ dbUp' = FALSE
    /\ outages' = outages + 1
    /\ UNCHANGED <<isHealthy, hcPc, pingOk, ctxDone>>

DbUp ==
    /\ ~dbUp
    /\ dbUp' = TRUE
    /\ UNCHANGED <<isHealthy, hcPc, pingOk, ctxDone, outages>>

\* App.Run calls cancel() after SIGINT or SIGTERM.
Cancel ==
    /\ ~ctxDone
    /\ ctxDone' = TRUE
    /\ UNCHANGED <<isHealthy, hcPc, pingOk, dbUp, outages>>
=============================================================================
