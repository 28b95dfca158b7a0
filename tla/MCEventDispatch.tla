--------------------------- MODULE MCEventDispatch ---------------------------
(* Small instances of EventDispatch for TLC. *)
EXTENDS EventDispatch, TLC

ReplicaSymmetry == Permutations(Replica)
=============================================================================
