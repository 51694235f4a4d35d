--------------------------- MODULE MCSharedCache ---------------------------
(* Instances of SharedCache for TLC. *)
EXTENDS SharedCache, TLC

Symmetry == Permutations(Clients) \cup Permutations(VPages) \cup Permutations(PPages)
=============================================================================
