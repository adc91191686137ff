--------------------------------- MODULE App ---------------------------------
(***************************************************************************)
(* internal/app/app.go and cmd/service/main.go: start and shutdown of the  *)
(* service.  The main goroutine builds the parts (New), starts the HTTP    *)
(* server and the consumer, waits for a signal, cancels the context, shuts *)
(* the server down with a timeout, waits for both goroutines and closes    *)
(* the database pool.  The consumer is the one of module ConsumerRun,      *)
(* which module Consumer implements.                                       *)
(*                                                                         *)
(* The health checker's goroutine is started and not waited for; it shares *)
(* nothing with the shutdown but the context (module DBHealth).  net/http  *)
(* is external: Shutdown closes the listener, waits for Serve to leave,    *)
(* closes idle connections and waits for the busy ones until its context   *)
(* ends; it interrupts no handler.                                         *)
(***************************************************************************)
EXTENDS ConsumerRun

CONSTANT Conns      \* connections of HTTP clients

VARIABLES
    mpc,        \* the main goroutine, at the step it takes next
    sig,        \* the first SIGINT or SIGTERM: "none", "pending", "taken"
    spc,        \* the server goroutine
    conn,       \* a connection: "free", "new", "active", "query", "idle"
    timedOut,   \* Shutdown returned the error of its context
    dbClosed,   \* db.Close was called
    exit        \* how the process ended: "no", "clean", "failed", "fatal", "killed"

mainVars == <<mpc, sig, timedOut, dbClosed, exit>>
vars == <<runVars, mainVars, spc, conn>>

TypeOK ==
    /\ ctxDone \in BOOLEAN /\ inserting \in BOOLEAN
    /\ run \in {"off", "running", "returned"}
    /\ mpc \in {"new", "start", "notify", "wait", "cancel", "shutdown", "drain",
                "join", "closeDB", "return"}
    /\ sig \in {"none", "pending", "taken"}
    /\ spc \in {"off", "starting", "binding", "listening", "failed", "stopped"}
    /\ conn \in [Conns -> {"free", "new", "active", "query", "idle"}]
    /\ timedOut \in BOOLEAN /\ dbClosed \in BOOLEAN
    /\ exit \in {"no", "clean", "failed", "fatal", "killed"}

Init ==
    /\ ctxDone = FALSE /\ run = "off" /\ inserting = FALSE
    /\ mpc = "new" /\ sig = "none" /\ spc = "off"
    /\ conn = [c \in Conns |-> "free"]
    /\ timedOut = FALSE /\ dbClosed = FALSE /\ exit = "no"

\* Server.Shutdown was called: net/http's inShutdown flag.
InShutdown == mpc \in {"drain", "join", "closeDB", "return"}

-----------------------------------------------------------------------------
(* The main goroutine.                                                      *)

\* New: a failed Preload is only logged, any other error ends the process.
New ==
    /\ mpc = "new"
    /\ \/ mpc' = "start" /\ UNCHANGED exit
       \/ exit' = "failed" /\ UNCHANGED mpc
    /\ UNCHANGED <<runVars, sig, timedOut, dbClosed, spc, conn>>

\* Run starts its goroutines.
StartAll ==
    /\ mpc = "start"
    /\ mpc' = "notify"
    /\ spc' = "starting" /\ run' = "running"
    /\ UNCHANGED <<ctxDone, inserting, sig, timedOut, dbClosed, exit, conn>>

\* signal.Notify, after the goroutines were started.
Notify ==
    /\ mpc = "notify"
    /\ mpc' = "wait"
    /\ UNCHANGED <<runVars, sig, timedOut, dbClosed, exit, spc, conn>>

\* <-sigChan.
TakeSignal ==
    /\ mpc = "wait"
    /\ sig = "pending"
    /\ sig' = "taken"
    /\ mpc' = "cancel"
    /\ UNCHANGED <<runVars, timedOut, dbClosed, exit, spc, conn>>

CancelContext ==
    /\ mpc = "cancel"
    /\ mpc' = "shutdown"
    /\ CancelRun
    /\ UNCHANGED <<sig, timedOut, dbClosed, exit, spc, conn>>

\* Shutdown sets its flag and closes the listener.
ShutdownBegin ==
    /\ mpc = "shutdown"
    /\ mpc' = "drain"
    /\ UNCHANGED <<runVars, sig, timedOut, dbClosed, exit, spc, conn>>

\* Mutant: the server is closed without waiting for its handlers.
ShutdownDoneAtOnce ==
    /\ mpc = "drain"
    /\ spc # "listening"
    /\ mpc' = "join"
    /\ UNCHANGED <<runVars, sig, timedOut, dbClosed, exit, spc, conn>>

\* Shutdown returns nil: Serve has left and no connection is busy; the idle
\* ones, and those that never sent a request, are closed.
ShutdownDone ==
    /\ mpc = "drain"
    /\ spc # "listening"
    /\ \A c \in Conns : conn[c] \notin {"active", "query"}
    /\ conn' = [c \in Conns |-> "free"]
    /\ mpc' = "join"
    /\ UNCHANGED <<runVars, sig, timedOut, dbClosed, exit, spc>>

\* Mutant: Shutdown gets a context without a timeout.
ShutdownNeverTimesOut == FALSE /\ UNCHANGED vars

\* Shutdown returns the error of its context, which is only logged.
ShutdownTimesOut ==
    /\ mpc = "drain"
    /\ spc # "listening"
    /\ timedOut' = TRUE
    /\ mpc' = "join"
    /\ UNCHANGED <<runVars, sig, dbClosed, exit, spc, conn>>

\* Mutant: the consumer's goroutine is not in the wait group.
JoinServerOnly ==
    /\ mpc = "join"
    /\ spc = "stopped"
    /\ mpc' = "closeDB"
    /\ UNCHANGED <<runVars, sig, timedOut, dbClosed, exit, spc, conn>>

\* Mutant: the server's goroutine is not in the wait group.
JoinConsumerOnly ==
    /\ mpc = "join"
    /\ run = "returned"
    /\ mpc' = "closeDB"
    /\ UNCHANGED <<runVars, sig, timedOut, dbClosed, exit, spc, conn>>

\* wg.Wait: the goroutines of the server and of the consumer are done.
Join ==
    /\ mpc = "join"
    /\ spc = "stopped" /\ run = "returned"
    /\ mpc' = "closeDB"
    /\ UNCHANGED <<runVars, sig, timedOut, dbClosed, exit, spc, conn>>

\* The deferred function of Run, then the end of main.
CloseDB ==
    /\ mpc = "closeDB"
    /\ dbClosed' = TRUE
    /\ mpc' = "return"
    /\ UNCHANGED <<runVars, sig, timedOut, exit, spc, conn>>

Return ==
    /\ mpc = "return"
    /\ exit' = "clean"
    /\ UNCHANGED <<runVars, mpc, sig, timedOut, dbClosed, spc, conn>>

\* A signal: before Notify it kills the process, afterwards the first one
\* waits in the channel and the others change nothing.
Signal ==
    /\ IF mpc \in {"new", "start", "notify"}
         THEN exit' = "killed" /\ UNCHANGED sig
         ELSE sig = "none" /\ sig' = "pending" /\ UNCHANGED exit
    /\ UNCHANGED <<runVars, mpc, timedOut, dbClosed, spc, conn>>

-----------------------------------------------------------------------------
(* The server goroutine.                                                    *)

\* ListenAndServe looks at the flag, binds, and looks again.
Listen ==
    /\ spc = "starting"
    /\ spc' = IF InShutdown THEN "stopped" ELSE "binding"
    /\ UNCHANGED <<runVars, mainVars, conn>>

Bind ==
    /\ spc = "binding"
    /\ \/ spc' = IF InShutdown THEN "stopped" ELSE "listening"
       \/ spc' = "failed"
    /\ UNCHANGED <<runVars, mainVars, conn>>

\* Mutant: Start takes ErrServerClosed for a failure.
ServeReturnsClosedIsError ==
    /\ spc = "listening"
    /\ spc' = "failed"
    /\ UNCHANGED <<runVars, mainVars, conn>>

\* Serve returns: ErrServerClosed, which Start turns into nil, or the error of
\* an Accept that failed by itself.
ServeReturns ==
    /\ spc = "listening"
    /\ spc' = IF InShutdown THEN "stopped" ELSE "failed"
    /\ UNCHANGED <<runVars, mainVars, conn>>

\* logger.Fatalw, some time after Start returned an error: the process ends
\* here, without the deferred db.Close, and perhaps in the middle of a shutdown
\* that a signal has begun meanwhile.
Fatal ==
    /\ spc = "failed"
    /\ exit' = "fatal"
    /\ UNCHANGED <<runVars, mpc, sig, timedOut, dbClosed, spc, conn>>

-----------------------------------------------------------------------------
(* The handlers.                                                            *)

Turn(c, from, to) ==
    /\ conn[c] \in from
    /\ conn' = [conn EXCEPT ![c] = to]
    /\ UNCHANGED <<runVars, mainVars, spc>>

Accept(c) == spc = "listening" /\ ~InShutdown /\ Turn(c, {"free"}, "new")

\* A request begins; recoveryMiddleware makes a handler's panic an answer.
Receive(c) == Turn(c, {"new", "idle"}, "active")
Query(c) == Turn(c, {"active"}, "query")

\* A connection stays open for the next request unless the server shuts down.
Answer(c) == Turn(c, {"active", "query"}, IF InShutdown THEN "free" ELSE "idle")
Hangup(c) == Turn(c, {"new", "idle"}, "free")

-----------------------------------------------------------------------------
MainStep ==
    \/ StartAll \/ Notify \/ TakeSignal \/ CancelContext \/ ShutdownBegin
    \/ ShutdownDone \/ ShutdownTimesOut \/ Join \/ CloseDB \/ Return

ServerStep == Listen \/ Bind \/ ServeReturns \/ Fatal

ConsumerStep ==
    /\ BeginInsert \/ EndInsert \/ ReturnRun
    /\ UNCHANGED <<mainVars, spc, conn>>

HandlerStep(c) == Accept(c) \/ Receive(c) \/ Query(c) \/ Answer(c) \/ Hangup(c)

Next ==
    \/ /\ exit = "no"
       /\ New \/ MainStep \/ Signal \/ ServerStep \/ ConsumerStep
          \/ \E c \in Conns : HandlerStep(c)
    \/ exit # "no" /\ UNCHANGED vars

Spec == Init /\ [][Next]_vars

\* The goroutines of main and of the server keep running, an insert ends and
\* the consumer returns once cancelled (ShutdownTerminates of module
\* Consumer).  Nothing is assumed of the handlers: none has a time limit.
Fairness ==
    /\ WF_vars(exit = "no" /\ MainStep)
    /\ WF_vars(exit = "no" /\ (Listen \/ Bind \/ Fatal))
    /\ WF_vars(exit = "no" /\ InShutdown /\ ServeReturns)
    /\ WF_vars(exit = "no" /\ EndInsert /\ UNCHANGED <<mainVars, spc, conn>>)
    /\ SF_vars(exit = "no" /\ ReturnRun /\ UNCHANGED <<mainVars, spc, conn>>)

FairSpec == Spec /\ Fairness

-----------------------------------------------------------------------------
\* The pool is closed under no worker: when db.Close runs, and ever after, no
\* insert of the consumer is under way, however the signal, the consumer's own
\* end and the server's interleave.
WorkersSpared == dbClosed => ~inserting /\ run = "returned"

\* The pool is closed under a request only if Shutdown gave up waiting: every
\* other request was answered, those that began during the shutdown and those
\* on kept-alive connections included.
RequestsSpared ==
    dbClosed /\ ~timedOut => \A c \in Conns : conn[c] \notin {"active", "query"}

\* A shutdown that finds the server serving, or not yet binding its port, is
\* carried through to the end of main with the pool closed: ErrServerClosed,
\* which ListenAndServe returns while Shutdown still waits, does not end in
\* Fatalw, a handler that hangs does not hold it up, and neither does the
\* consumer.  A server that has failed, or fails to bind, may cut it short.
ShutdownCompletes ==
    InShutdown /\ spc \in {"starting", "listening"} ~> exit = "clean" /\ dbClosed

\* A signal ends the process, whether it arrives before, while or after the
\* parts start, although handlers may never answer and a second signal does
\* not help: Shutdown does not wait for ever, and nobody waits for a goroutine
\* that waits for somebody else.
SignalEndsProcess == sig = "pending" ~> exit # "no"

-----------------------------------------------------------------------------
\* The inductive invariant: what each wait of the shutdown has established
\* holds until the end.
ShutdownInv ==
    /\ TypeOK
    /\ run = "returned" => ~inserting
    /\ mpc \in {"closeDB", "return"} => spc = "stopped" /\ run = "returned"
    /\ mpc \in {"join", "closeDB", "return"} =>
        spc # "listening" /\ (timedOut \/ \A c \in Conns : conn[c] = "free")
    /\ dbClosed => mpc = "return"
=============================================================================
