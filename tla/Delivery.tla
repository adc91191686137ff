------------------------------- MODULE Delivery -------------------------------
(***************************************************************************)
(* What internal/consumer promises the producers of the orders topic, told *)
(* by the fate of each message and the committed offsets, without poll     *)
(* loop, channel, workers or client:                                       *)
(*   "waiting"  nobody has begun to process it                             *)
(*   "held"     a worker has it                                            *)
(*   "queued"   handed to the DLQ producer, whose report is still out      *)
(*   "settled"  stored, in the DLQ topic, or undecodable and discarded     *)
(*   "lost"     let go without being settled: a redelivery may settle it   *)
(* Module Consumer implements this.                                        *)
(***************************************************************************)
EXTENDS Naturals

CONSTANTS Partitions, Messages

VARIABLES
    fate,        \* of each message
    committed    \* committed offset of each partition

deliveryVars == <<fate, committed>>

Fates == {"waiting", "held", "queued", "settled", "lost"}

DeliveryInit ==
    /\ fate \in [Messages -> {"waiting", "settled"}]
    /\ committed = [p \in Partitions |-> 0]

\* An order is stored, which settles every message with its UID, or a message
\* has reached the DLQ topic.
Settle ==
    /\ fate' \in [Messages -> Fates]
    /\ \A m \in Messages : fate'[m] \in {fate[m], "settled"}
    /\ UNCHANGED committed

TakeUp(m) ==
    /\ fate[m] = "waiting"
    /\ fate' = [fate EXCEPT ![m] = "held"]
    /\ UNCHANGED committed

\* Only a worker sends to the DLQ.
HandToDLQ(m) ==
    /\ fate[m] \in {"held", "lost"}
    /\ fate' = [fate EXCEPT ![m] = "queued"]
    /\ UNCHANGED committed

\* What is settled is never let go.
LetGo(m) ==
    /\ fate[m] # "settled"
    /\ fate' = [fate EXCEPT ![m] = "lost"]
    /\ UNCHANGED committed

\* The DLQ producer or the whole process goes away: what is not delivered by
\* then, and what a worker holds, is let go.
Stop ==
    /\ fate' \in [Messages -> Fates]
    /\ \A m \in Messages :
        /\ fate[m] \in {"waiting", "settled", "lost"} => fate'[m] = fate[m]
        /\ fate[m] = "queued" => fate'[m] \in {"settled", "lost"}
        /\ fate[m] = "held" => fate'[m] = "lost"
    /\ UNCHANGED committed

\* A commit covers the message it is made for and all before it: the message
\* has been dealt with, and none of the others is waiting.
CommitUpTo(m) ==
    /\ fate[m] \in {"queued", "settled", "lost"}
    /\ \A n \in Messages : n.part = m.part /\ n.off <= m.off => fate[n] # "waiting"
    /\ committed' = [committed EXCEPT ![m.part] = m.off + 1]
    /\ UNCHANGED fate

DeliveryNext ==
    \/ Settle
    \/ \E m \in Messages : TakeUp(m) \/ HandToDLQ(m) \/ LetGo(m) \/ CommitUpTo(m)
    \/ Stop

DeliverySpec == DeliveryInit /\ [][DeliveryNext]_deliveryVars
=============================================================================
