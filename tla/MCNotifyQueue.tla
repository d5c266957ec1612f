----------------------------- MODULE MCNotifyQueue -----------------------------
(***************************************************************************)
(* Instances of NotifyQueue for TLC.                                       *)
(***************************************************************************)
EXTENDS NotifyQueue, TLC

CONSTANTS n1, n2, i1, i2, ep1, ep2, k1

\* Both notifications go to one vendor; they carry no idempotency key, or the same.
MCEndpoint == [n \in Notifications |-> ep1]
MCNoKeys == [n \in Notifications |-> NoKey]
MCSameKey == [n \in Notifications |-> k1]

MCSymmetry == Permutations(Notifications) \cup Permutations(Instances)

================================================================================
