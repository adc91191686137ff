------------------------------ MODULE OrderStore ------------------------------
(***************************************************************************)
(* What the OrderStore interface (internal/service/service.go) promises    *)
(* its callers: an Insert takes effect at once or not at all, and what it  *)
(* returns is one of the outcomes of module StoreContract.  The one        *)
(* exception is a COMMIT whose answer is lost: the order is in doubt, and  *)
(* the server settles it later.                                            *)
(***************************************************************************)
EXTENDS StoreContract

CONSTANTS
    Callers,     \* goroutines that call Insert
    Orders,      \* the orders they may insert
    UidOf(_),    \* the UID of an order
    Accepted(_), \* the schema takes the values of an order
    NoOrder

VARIABLES
    stored,   \* committed orders
    state,    \* a caller: "idle", "called", "returned"
    arg, ret, \* its order, and what Insert returned
    doubt     \* orders whose COMMIT was not answered and may still be applied

storeVars == <<stored, state, arg, ret, doubt>>

Present(o) == \E s \in stored : UidOf(s) = UidOf(o)

StoreInit ==
    /\ stored = {} /\ doubt = {}
    /\ state = [c \in Callers |-> "idle"]
    /\ arg = [c \in Callers |-> NoOrder]
    /\ ret = [c \in Callers |-> "nil"]

Call(c, o) ==
    /\ state[c] = "idle"
    /\ state' = [state EXCEPT ![c] = "called"]
    /\ arg' = [arg EXCEPT ![c] = o]
    /\ UNCHANGED <<stored, ret, doubt>>

Effect(c) ==
    LET o == arg[c]
    IN  /\ state[c] = "called"
        /\ state' = [state EXCEPT ![c] = "returned"]
        /\ \E oc \in AnsweredOutcomes(Accepted(o), Present(o))
                     \cup BrokenOutcomes(Accepted(o), Present(o)) :
            /\ ret' = [ret EXCEPT ![c] = oc.err]
            /\ stored' = IF oc.persisted THEN stored \cup {o} ELSE stored
            /\ \/ UNCHANGED doubt
               \/ /\ oc = Outcome("other", FALSE) /\ Accepted(o) /\ ~Present(o)
                  /\ doubt' = doubt \cup {o}
        /\ UNCHANGED arg

Return(c) ==
    /\ state[c] = "returned"
    /\ state' = [state EXCEPT ![c] = "idle"]
    /\ arg' = [arg EXCEPT ![c] = NoOrder]
    /\ ret' = [ret EXCEPT ![c] = "nil"]
    /\ UNCHANGED <<stored, doubt>>

Resolve(o) ==
    /\ o \in doubt
    /\ doubt' = doubt \ {o}
    /\ \/ ~Present(o) /\ stored' = stored \cup {o}
       \/ UNCHANGED stored
    /\ UNCHANGED <<state, arg, ret>>

StoreNext ==
    \/ \E c \in Callers : Effect(c) \/ Return(c) \/ \E o \in Orders : Call(c, o)
    \/ \E o \in Orders : Resolve(o)

StoreSpec == StoreInit /\ [][StoreNext]_storeVars
=============================================================================
