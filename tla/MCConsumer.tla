------------------------------ MODULE MCConsumer ------------------------------
(* Instances of module Consumer for TLC: the logs, by the cases they hold.  *)
EXTENDS ConsumerClaims, TLC

CONSTANTS p1, p2, w1, w2

Entry(kind, uid) == [kind |-> kind, uid |-> uid]

\* One partition: two good orders.
PairLog == p1 :> <<Entry("valid", "a"), Entry("valid", "b")>>

\* One partition: an order that Validate rejects, and a good one.
MixedLog == p1 :> <<Entry("invalid", "b"), Entry("valid", "a")>>

\* One partition: a good order, and an undecodable message, which is committed
\* as soon as a worker sees it.
OvertakingLog == p1 :> <<Entry("valid", "a"), Entry("malformed", "x")>>

\* Two partitions: an order that the schema refuses, and one that Validate
\* rejects.
TwoPartitionLog == p1 :> <<Entry("rejected", "a")>> @@ p2 :> <<Entry("invalid", "b")>>

WorkerSymmetry == Permutations(Workers)
=============================================================================
