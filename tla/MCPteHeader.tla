---------------------------- MODULE MCPteHeader ----------------------------
(* Instances of PteHeader for TLC. *)
EXTENDS PteHeader, TLC

Symmetry == Permutations(Clients)
=============================================================================
