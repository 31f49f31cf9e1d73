------------------------------ MODULE MCTickets ------------------------------
(* Instances of Tickets for TLC. *)
EXTENDS Tickets

CONSTANTS w1, w2, g1, g2

\* Parent and MayDepend of the instances: no containers, a work in a goal in a goal,
\* a goal above the second work; no prerequisites, the first work as prerequisite of
\* the second, and either as prerequisite of the other.
Flat     == [t \in Ticket |-> None]
Nested   == [t \in Ticket |-> IF t = w1 THEN g1 ELSE IF t = g1 THEN g2 ELSE None]
LastUp   == [t \in Ticket |-> IF t = w2 THEN g1 ELSE None]
NoDep    == [w \in Work |-> {}]
OnFirst  == [w \in Work |-> IF w = w2 THEN {w1} ELSE {}]
Mutual   == [w \in Work |-> {w1, w2} \ {w}]
=============================================================================
