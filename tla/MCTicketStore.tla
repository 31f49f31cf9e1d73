---------------------------- MODULE MCTicketStore ----------------------------
(* Instances of TicketStore for TLC. *)
EXTENDS TicketStore
=============================================================================
