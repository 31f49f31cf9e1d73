------------------------------ MODULE MCMuxClient ------------------------------
(* Instance of MuxClient for TLC. *)
EXTENDS MuxClient
=============================================================================
