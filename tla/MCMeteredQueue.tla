---------------------------- MODULE MCMeteredQueue ----------------------------
(***************************************************************************)
(* The instance of MeteredQueue for TLC: MCNotifyQueue's, with counters.   *)
(***************************************************************************)
EXTENDS MeteredQueue, MCNotifyQueue

===============================================================================
