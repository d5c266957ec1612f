------------------------------- MODULE MCShutdown -------------------------------
(***************************************************************************)
(* Instances of Shutdown for TLC.                                          *)
(***************************************************************************)
EXTENDS Shutdown, TLC

CONSTANTS n1, n2

MCSymmetry == Permutations(Notifications)

================================================================================
