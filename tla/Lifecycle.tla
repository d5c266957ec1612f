------------------------------- MODULE Lifecycle -------------------------------
(***************************************************************************)
(* What notifyd promises about one notification, whatever its queue, its   *)
(* workers and its crashes do: the statuses of model/notification.go, the  *)
(* transitions of allowedTransitions and no others, and that a success is  *)
(* claimed only for a notification the vendor has acknowledged.            *)
(* NotifyQueue implements this specification.                              *)
(***************************************************************************)
EXTENDS Naturals

CONSTANT Notifications      \* the notifications business systems may submit

VARIABLES
    status,                 \* [Notifications -> Status], "absent" before it is stored
    acked                   \* notifications a vendor answered with a success

vars == <<status, acked>>

Status == {"absent", "pending", "in_flight", "succeeded", "dead", "canceled"}

\* Terminal: the dispatcher delivers no more on its own.
Terminal == {"succeeded", "dead", "canceled"}

\* allowedTransitions, with the arrival of the notification added. The table
\* also lists pending -> dead, which no operation of the store takes.
AllowedTransitions ==
    {<<"absent",    "pending">>} \cup
    {<<"pending",   s>> : s \in {"in_flight", "canceled", "dead"}} \cup
    {<<"in_flight", s>> : s \in {"succeeded", "pending", "dead"}} \cup
    {<<"dead",      "pending">>}

CanTransition(from, to) == <<from, to>> \in AllowedTransitions

Init ==
    /\ status = [n \in Notifications |-> "absent"]
    /\ acked = {}

\* A vendor acknowledges a notification the service has accepted.
Acknowledge(n) ==
    /\ status[n] # "absent"
    /\ acked' = acked \cup {n}
    /\ UNCHANGED status

\* One statement of the store moves any number of notifications (a claim takes a
\* batch, the reaper recovers every expired lease), each along the table.
Move ==
    /\ status' \in [Notifications -> Status]
    /\ \A n \in Notifications :
          status'[n] # status[n] =>
             /\ CanTransition(status[n], status'[n])
             /\ status'[n] = "succeeded" => n \in acked
    /\ UNCHANGED acked

Next == Move \/ \E n \in Notifications : Acknowledge(n)

Spec == Init /\ [][Next]_vars

================================================================================
