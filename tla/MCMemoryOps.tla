---------------------------- MODULE MCMemoryOps ----------------------------
(* A file as long as the cache, one that ends inside a chunk, and an empty one. *)
EXTENDS MemoryOps

MCFiles == {<<1, 0, 0, 1, 1, 0>>, <<0, 1, 1>>, <<>>}
=============================================================================
