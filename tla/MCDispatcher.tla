------------------------------ MODULE MCDispatcher ------------------------------
(***************************************************************************)
(* Instances of Dispatcher for TLC.                                        *)
(***************************************************************************)
EXTENDS Dispatcher, TLC

CONSTANTS n1, n2, n3, epA, epB

MCNames == 0 :> epA @@ 1 :> epB
MCOneName == 0 :> epA

\* Two notifications for one endpoint and, if there is a third, one for another.
MCEndpoint == [n \in Notifications |-> IF n = n3 THEN epB ELSE epA]

================================================================================
