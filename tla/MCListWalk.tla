------------------------------- MODULE MCListWalk -------------------------------
(***************************************************************************)
(* Instances of Ingress and ListWalk for TLC: one client has a key, one    *)
(* has none, and one sends what does not pass validation.                  *)
(***************************************************************************)
EXTENDS ListWalk

CONSTANTS c1, c2, c3, k1

MCKey == [c \in Clients |-> IF c = c1 THEN k1 ELSE NoKey]

MCMaxTries == [c \in Clients |-> CASE c = c1 -> 3 [] c = c2 -> 2 [] OTHER -> 1]

================================================================================
