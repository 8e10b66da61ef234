------------------------ MODULE MCOCISecurityPolicy ------------------------
(* OCISecurityPolicyProperties on a small instance for TLC: the .cfg files *)
(* give ListIDs two model values.                                          *)
EXTENDS OCISecurityPolicyProperties, TLC

(* OCIDs are interchangeable; used by the runs without liveness only.      *)
Symmetry == Permutations(ListIDs)
=============================================================================
