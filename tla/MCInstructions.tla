-------------------------- MODULE MCInstructions ---------------------------
(* Instances of Instructions for TLC. *)
EXTENDS Instructions, TLC

Symmetry == Permutations(Frames)
=============================================================================
