----------------------------- MODULE RequestReply -----------------------------
(***************************************************************************)
(* What a multiplexed request promises to its caller and to the mailbox of *)
(* replies: a call ends at most once; it succeeds only with the reply of   *)
(* its target, which is consumed then; a reply is taken from the mailbox   *)
(* by its own call, or after that call is over; a malformed one stays; and *)
(* a call is cancelled only if it ends without an answer.                  *)
(***************************************************************************)
CONSTANTS Req, None

VARIABLES
  phase, result,  \* calls: how far each is, and what it returned
  cancelled,      \* calls that their target is told to give up
  replies, box    \* the replies that were made, and those in the mailbox

vars == <<phase, result, cancelled, replies, box>>

Answers  == {"ok", "rejected", "malformed"}
Failures == {"transport", "timeout", "dropped"}

Init ==
  /\ phase = [r \in Req |-> "idle"] /\ result = [r \in Req |-> None]
  /\ cancelled = {} /\ replies = {} /\ box = {}

Goes(r, p) == phase' = [phase EXCEPT ![r] = p]

\* A call on a connection that died already has nothing to wait for.
Call(r) ==
  /\ phase[r] = "idle" /\ \E p \in {"open", "over"} : Goes(r, p)
  /\ UNCHANGED <<result, cancelled, replies, box>>

Answer(r, q) ==
  /\ phase[r] # "idle" /\ <<r, q>> \notin replies
  /\ q # "forged" => <<r, "good">> \notin replies /\ <<r, "bad">> \notin replies
  /\ replies' = replies \cup {<<r, q>>} /\ box' = box \cup {<<r, q>>}
  /\ UNCHANGED <<phase, result, cancelled>>

\* The call has its reply, and gives it up to the mailbox.
Accept(r) ==
  /\ phase[r] = "open" /\ <<r, "good">> \in box /\ Goes(r, "answered")
  /\ UNCHANGED <<result, cancelled, replies, box>>

Consume(m) ==
  /\ m[2] # "bad" /\ (m[2] = "good" => phase[m[1]] \in {"answered", "over"})
  /\ box' = box \ {m}
  /\ UNCHANGED <<phase, result, cancelled, replies>>

\* Calls that will not be served any more: late, or on a connection that dies.
Lose(lost) ==
  /\ \A r \in lost : phase[r] # "idle"
  /\ phase' = [r \in Req |-> IF r \in lost THEN "over" ELSE phase[r]]
  /\ UNCHANGED <<result, cancelled, replies, box>>

Cancel(r) ==
  /\ phase[r] = "over" /\ result[r] = None /\ cancelled' = cancelled \cup {r}
  /\ UNCHANGED <<phase, result, replies, box>>

End(r, how) ==
  /\ phase[r] # "idle" /\ result[r] = None
  /\ result' = [result EXCEPT ![r] = how] /\ Goes(r, "over")
  /\ \/ how \in Answers /\ r \notin cancelled /\ cancelled' = cancelled
     \/ how \in Failures /\ cancelled' \in {cancelled, cancelled \cup {r}}
  /\ how = "ok" => <<r, "good">> \in replies \ box
  /\ how = "malformed" => <<r, "bad">> \in replies
  /\ UNCHANGED <<replies, box>>

Next ==
  \/ \E r \in Req : \/ Call(r) \/ Accept(r) \/ Cancel(r)
                    \/ \E how \in Answers \cup Failures : End(r, how)
                    \/ \E q \in {"good", "bad", "forged"} : Answer(r, q)
  \/ \E m \in replies : Consume(m)
  \/ \E lost \in SUBSET Req : Lose(lost)

Spec == Init /\ [][Next]_vars
=============================================================================
