----------------------------- MODULE SessionTurns -----------------------------
(***************************************************************************)
(* What the activation router promises to the inbox of a session: its      *)
(* messages are heard in order, by executions that have the session one    *)
(* after the other.  An execution has its turn at most once, it hears      *)
(* messages only between the start and the close of that turn, and it      *)
(* keeps the session until it has closed.                                  *)
(***************************************************************************)
EXTENDS Naturals

CONSTANTS Run, None

VARIABLES
  sent, heard,   \* messages: how many, and how many were heard
  turn, phase,   \* whose turn it is, and how far it is
  past           \* executions that will not have a turn any more

Init == sent = 0 /\ heard = 0 /\ turn = None /\ phase = "free" /\ past = {}

Send == sent' = sent + 1 /\ UNCHANGED <<heard, turn, phase, past>>

Take(r) ==
  /\ turn = None /\ r \notin past
  /\ turn' = r /\ phase' \in {"starting", "open"}
  /\ UNCHANGED <<sent, heard, past>>

Open ==
  /\ phase = "starting" /\ phase' = "open"
  /\ UNCHANGED <<sent, heard, turn, past>>

Hear ==
  /\ phase = "open" /\ heard' = sent
  /\ UNCHANGED <<sent, turn, phase, past>>

Close ==
  /\ turn # None /\ phase' = "closing"
  /\ UNCHANGED <<sent, heard, turn, past>>

Give ==
  /\ phase = "closing" /\ turn' = None /\ phase' = "free"
  /\ past' = past \cup {turn}
  /\ UNCHANGED <<sent, heard>>

\* It never gets its turn.
Refuse(r) ==
  /\ r # turn /\ past' = past \cup {r}
  /\ UNCHANGED <<sent, heard, turn, phase>>

Next == Send \/ Open \/ Hear \/ Close \/ Give \/ \E r \in Run : Take(r) \/ Refuse(r)

Spec == Init /\ [][Next]_<<sent, heard, turn, phase, past>>
=============================================================================
