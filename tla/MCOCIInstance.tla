--------------------------- MODULE MCOCIInstance ---------------------------
(* OCIInstanceProperties on a small instance for TLC: the .cfg files give  *)
(* InstanceIDs two or three model values.                                  *)
EXTENDS OCIInstanceProperties, TLC

(* OCIDs are interchangeable; used by the runs without liveness only.      *)
Symmetry == Permutations(InstanceIDs)
=============================================================================
