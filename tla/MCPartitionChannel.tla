------------------------- MODULE MCPartitionChannel -------------------------
(* Instances of PartitionChannel for TLC. *)
EXTENDS PartitionChannel, TLC

Symmetry == Permutations(Threads)
=============================================================================
