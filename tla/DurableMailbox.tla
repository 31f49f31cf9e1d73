--------------------------- MODULE DurableMailbox ---------------------------
(***************************************************************************)
(* What a broker mailbox promises its users, whatever its files, counters  *)
(* and connections do: an accepted message stays pending until its         *)
(* consumer, having received it, acknowledges it.  The two exceptions are  *)
(* the ones the code documents: a FencedRun whose target connection was    *)
(* superseded is retired, and a file that does not parse is quarantined.   *)
(***************************************************************************)
CONSTANTS Msg, Fenced, Bad

VARIABLES
  pending,  \* accepted and not yet removed
  seen,     \* handed to the consumer at least once
  removed

Init ==
  /\ pending \subseteq Msg
  /\ seen = {} /\ removed = {}

Accept(m) ==
  /\ m \notin pending \cup removed
  /\ pending' = pending \cup {m}
  /\ UNCHANGED <<seen, removed>>

\* At least once: the consumer may receive a message again after its ACK.
Receive(m) ==
  /\ m \in pending \cup removed
  /\ seen' = seen \cup {m}
  /\ UNCHANGED <<pending, removed>>

Remove(S) ==
  /\ S \subseteq pending /\ S \subseteq seen \cup Fenced \cup Bad
  /\ pending' = pending \ S
  /\ removed' = removed \cup S
  /\ UNCHANGED seen

Next ==
  \/ \E m \in Msg : Accept(m) \/ Receive(m)
  \/ \E S \in SUBSET Msg : Remove(S)

Spec == Init /\ [][Next]_<<pending, seen, removed>>
=============================================================================
