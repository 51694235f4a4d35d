---------------------------- MODULE MCPageTable ----------------------------
(* The clients are interchangeable: no action tells them apart. *)
EXTENDS PageTable, TLC

ClientSymmetry == Permutations(Clients)
=============================================================================
