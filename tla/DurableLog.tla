------------------------------ MODULE DurableLog ------------------------------
(***************************************************************************)
(* What a ticket scope promises its clients: one log that only grows, in   *)
(* which an operation occurs at most once.  A power loss may take back the *)
(* end of the log, but nothing that was acknowledged.                      *)
(***************************************************************************)
EXTENDS Integers, Sequences

CONSTANTS Op, Epoch, None

VARIABLES log, acked

Done(l) == {l[i] : i \in 1..Len(l)} \cap Op

Init == log = None /\ acked = {}

Create == log = None /\ log' = <<>> /\ acked' = acked

Extend(e) ==
  /\ log # None /\ e \notin Done(log)
  /\ log' = Append(log, e)
  /\ acked' = acked

Acknowledge(o) ==
  /\ log # None /\ o \in Done(log)
  /\ acked' = acked \cup {o}
  /\ log' = log

TakeBack ==
  /\ log # None
  /\ \/ log' = None /\ acked = {}
     \/ \E n \in 0..Len(log) :
          log' = SubSeq(log, 1, n) /\ acked \subseteq Done(SubSeq(log, 1, n))
  /\ acked' = acked

Next == Create \/ TakeBack \/ (\E e \in Op \cup {Epoch} : Extend(e))
        \/ (\E o \in Op : Acknowledge(o))

Spec == Init /\ [][Next]_<<log, acked>>
=============================================================================
