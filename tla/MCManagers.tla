---------------------------- MODULE MCManagers ----------------------------
(* ManagersProperties on a small instance for TLC: the .cfg files give     *)
(* InstanceIDs three model values.                                         *)
EXTENDS ManagersProperties, TLC

(* OCIDs are interchangeable.                                              *)
Symmetry == Permutations(InstanceIDs)
=============================================================================
