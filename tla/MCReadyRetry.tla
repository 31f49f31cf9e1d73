----------------------------- MODULE MCReadyRetry -----------------------------
(* Instance of ReadyRetry for TLC. *)
EXTENDS ReadyRetry
=============================================================================
