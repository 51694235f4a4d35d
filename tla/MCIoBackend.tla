---------------------------- MODULE MCIoBackend ----------------------------
(***************************************************************************)
(* Instance of IoBackend: all five backends, files shorter than the slots. *)
(***************************************************************************)
EXTENDS IoBackend
=============================================================================
