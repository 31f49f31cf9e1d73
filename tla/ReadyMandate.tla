----------------------------- MODULE ReadyMandate -----------------------------
(***************************************************************************)
(* What the Ready Work scheduler promises to those who install its policy  *)
(* and to those who revoke it: work is started and served only under the   *)
(* mandate in force, one work at a time and within its capacity; a mandate *)
(* is withdrawn only when it was revoked or has expired; and once a        *)
(* revocation is settled nothing is served any more under what it revoked. *)
(***************************************************************************)
EXTENDS Integers, FiniteSets

CONSTANTS Work, Capacity, None

VARIABLES
  mandate,          \* the policy in force, of a generation
  revoked, settled, \* the last generation revoked, and the last one settled
  board, queued,    \* the works, and those that have a child queued
  serving           \* the work that is being served

vars == <<mandate, revoked, settled, board, queued, serving>>

Occupied == {w \in Work : board[w] \in {"DispatchPending", "Running", "Cancelling"}}

\* Only what no settled revocation covers lets work in.
Mandated == mandate # None /\ mandate.gen > settled

Init == /\ mandate = None /\ revoked = 0 /\ settled = 0
        /\ board = [w \in Work |-> "Ready"] /\ queued = {} /\ serving = None

Grant(g) ==
  /\ mandate = None /\ settled < g /\ g <= revoked + 1
  /\ mandate' = [gen |-> g, expired |-> FALSE]
  /\ UNCHANGED <<revoked, settled, board, queued, serving>>

Expire ==
  /\ mandate # None /\ mandate' = [mandate EXCEPT !.expired = TRUE]
  /\ UNCHANGED <<revoked, settled, board, queued, serving>>

Withdraw ==
  /\ mandate # None /\ (mandate.gen <= revoked \/ mandate.expired)
  /\ mandate' = None /\ serving' = None
  /\ UNCHANGED <<revoked, settled, board, queued>>

Revoke ==
  /\ revoked' = revoked + 1
  /\ UNCHANGED <<mandate, settled, board, queued, serving>>

Settle(g) ==
  /\ settled < g /\ g <= revoked /\ settled' = g
  /\ serving # None => mandate.gen > g
  /\ UNCHANGED <<mandate, revoked, board, queued, serving>>

\* A Start of the scheduler's own.
Start(w) ==
  /\ Mandated /\ serving = None /\ serving' = w
  /\ board[w] = "Ready" /\ Cardinality(Occupied) < Capacity
  /\ board' = [board EXCEPT ![w] = "DispatchPending"]
  /\ UNCHANGED <<mandate, revoked, settled, queued>>

\* A Start that was made before, whose child may be missing.
Serve(w) ==
  /\ Mandated /\ serving = None /\ serving' = w
  /\ board[w] = "DispatchPending"
  /\ UNCHANGED <<mandate, revoked, settled, board, queued>>

Queue ==
  /\ Mandated /\ serving # None /\ serving' = None
  /\ queued' = queued \cup {serving}
  /\ UNCHANGED <<mandate, revoked, settled, board>>

Abandon ==
  /\ serving' = None
  /\ UNCHANGED <<mandate, revoked, settled, board, queued>>

\* The other clients of the board; a work runs once its child is queued.
Elsewhere(w) ==
  /\ \/ board[w] = "Ready" /\ board' = [board EXCEPT ![w] = "DispatchPending"]
     \/ /\ board[w] = "DispatchPending" /\ w \in queued
        /\ board' = [board EXCEPT ![w] = "Running"]
     \/ /\ board[w] \in {"DispatchPending", "Running"}
        /\ board' = [board EXCEPT ![w] = "Cancelling"]
     \/ board[w] \in {"Running", "Cancelling"} /\ board' = [board EXCEPT ![w] = "Done"]
  /\ UNCHANGED <<mandate, revoked, settled, queued, serving>>

Next ==
  \/ Expire \/ Withdraw \/ Revoke \/ Queue \/ Abandon
  \/ \E g \in 1..(revoked + 1) : Grant(g) \/ Settle(g)
  \/ \E w \in Work : Start(w) \/ Serve(w) \/ Elsewhere(w)

Spec == Init /\ [][Next]_vars
=============================================================================
