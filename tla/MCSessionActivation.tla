-------------------------- MODULE MCSessionActivation --------------------------
(* Instance of SessionActivation for TLC. *)
EXTENDS SessionActivation
=============================================================================
