--------------------------- MODULE MCEndpointDispatch ---------------------------
(***************************************************************************)
(* Instances of EndpointDispatch for TLC.                                  *)
(***************************************************************************)
EXTENDS EndpointDispatch, TLC

CONSTANTS s1, s2, s3

MCSymmetry == Permutations(Slots)

================================================================================
