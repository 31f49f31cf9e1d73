--------------------------- MODULE MCReadyScheduler ---------------------------
(* Instance of ReadyScheduler for TLC. *)
EXTENDS ReadyScheduler
=============================================================================
