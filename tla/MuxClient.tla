------------------------------- MODULE MuxClient -------------------------------
(***************************************************************************)
(* The multiplexed request/reply client of the broker: crates/app/         *)
(* bamboo-broker, src/mux.rs, over the reader of src/client.rs.            *)
(*                                                                         *)
(* Many requests share one connection.  The reader puts each frame of the  *)
(* broker into the queue of its kind; the router hands replies to the      *)
(* waiters of the pending table and acknowledges those that have none.     *)
(* The broker is what the client sees of it: a mailbox of replies that     *)
(* keeps a message until it is acknowledged and pushes what it holds to    *)
(* every new connection (DurableMailbox), frames in order on the wire, and *)
(* a target that answers what was delivered to it.  A request is one call, *)
(* its id is never used again.                                             *)
(***************************************************************************)
EXTENDS Integers, FiniteSets, Sequences

CONSTANTS
  Req, None,
  MaxConn,    \* bound: connections, one after the other
  MaxEvents,  \* bound: reconnections and messages that answer a request, together
  MaxFaults   \* bound: refused deliveries, acknowledgements that fail, lost frames

Conn == 1..MaxConn

\* A reply by what it is: "bad" has a body that does not parse, "forged" comes from
\* somebody other than the target.
Quality == {"good", "bad", "forged"}
Reply   == Req \X Quality

\* A oneshot without a reply: its sender is gone, or its receiver is.
Closed  == <<"closed">>
Dropped == <<"dropped">>

ASSUME MuxAssumption == /\ MaxConn \in Nat \ {0} /\ MaxEvents \in Nat /\ MaxFaults \in Nat
                        /\ None \notin Req \cup Reply \cup {Closed, Dropped}
                        /\ None \notin {"ok", "rejected", "malformed"}

VARIABLES
  conn, up,                 \* the connection, and whether its reader runs
  out,                      \* deliver and ack frames on the way to the broker
  messages, delivered, errors, acks,  \* the reader's queues of each connection
  router,                   \* connections whose router runs
  waiters,                  \* the pending tables
  pc, on, slot,             \* a request: where it is, its connection, its oneshot
  sent, replied, result,    \* the flags of its guard, what the call returned
  dlock, alock,             \* who holds delivery_lock and ack_lock of a connection
  accepted, box, pushed,    \* broker: requests delivered, replies held, pushed on conn
  replies, faults, cancelled \* history: replies made, faults, requests with a Cancel sent

queueVars == <<messages, delivered, errors, acks>>
callVars  == <<on, slot, result, dlock, alock>>
boxVars   == <<accepted, box, pushed, replies>>
connVars  == <<conn, up, router, boxVars>>
vars == <<connVars, out, queueVars, waiters, pc, callVars, sent, replied, faults, cancelled>>

Waiting == {"lock", "receipt", "reply", "acklock", "acking"}

Init ==
  /\ conn = 1 /\ up = TRUE /\ router = {1} /\ out = <<>>
  /\ messages = [c \in Conn |-> <<>>] /\ delivered = [c \in Conn |-> <<>>]
  /\ errors = [c \in Conn |-> <<>>] /\ acks = [c \in Conn |-> <<>>]
  /\ waiters = {}
  /\ pc = [r \in Req |-> "idle"] /\ on = [r \in Req |-> 1] /\ slot = [r \in Req |-> None]
  /\ sent = [r \in Req |-> FALSE] /\ replied = [r \in Req |-> FALSE]
  /\ result = [r \in Req |-> None]
  /\ dlock = [c \in Conn |-> None] /\ alock = [c \in Conn |-> None]
  /\ accepted = {} /\ box = {} /\ pushed = {} /\ replies = {}
  /\ faults = 0 /\ cancelled = {}

-----------------------------------------------------------------------------
(* Helpers. *)

Live(c) == c = conn /\ up
Goto(r, l) == pc' = [pc EXCEPT ![r] = l]
Pop(q, c) == [q EXCEPT ![c] = Tail(@)]
Budget == conn + Cardinality(replies) <= MaxEvents
Fault == faults < MaxFaults /\ faults' = faults + 1

\* What the reader, while it runs, appends to one of its queues.
Read(q, x) == IF up THEN [q EXCEPT ![conn] = Append(@, x)] ELSE q

\* A frame written to the sink of a connection; a dead one swallows it.
Write(c, frame) == out' = IF Live(c) THEN Append(out, frame) ELSE out

Released(lock, r) == [c \in Conn |-> IF lock[c] = r THEN None ELSE lock[c]]

\* PendingRequest::drop sends a Cancel of a request sent and not answered.
CancelUnanswered(r) ==
  cancelled' = IF sent'[r] /\ ~replied'[r] THEN cancelled \cup {r} ELSE cancelled

\* The call returns, or is dropped: the receiver of its oneshot goes, so a reply left
\* in it is seen by nobody, then its locks and its waiter.
Return(r, how) ==
  /\ Goto(r, "done") /\ result' = [result EXCEPT ![r] = how]
  /\ slot' = [slot EXCEPT ![r] = None] /\ UNCHANGED on
  /\ dlock' = Released(dlock, r) /\ alock' = Released(alock, r)
  /\ waiters' = waiters \ {r} /\ CancelUnanswered(r)

-----------------------------------------------------------------------------
(* request_validated *)

\* The waiter is in the table before anything is sent.
Request(r) ==
  /\ pc[r] = "idle" /\ on' = [on EXCEPT ![r] = conn]
  /\ waiters' = waiters \cup {r}
  /\ sent' = [sent EXCEPT ![r] = TRUE] /\ Goto(r, "lock")
  /\ UNCHANGED <<connVars, out, queueVars, slot, replied, result, dlock, alock, faults,
                 cancelled>>

\* deliver_exact: the lock, then the frame; the sink of a dead connection may fail.
DeliverSend(r) ==
  /\ pc[r] = "lock" /\ dlock[on[r]] = None /\ UNCHANGED <<sent, replied>>
  /\ \/ /\ dlock' = [dlock EXCEPT ![on[r]] = r] /\ Write(on[r], <<"deliver", r>>)
        /\ Goto(r, "receipt")
        /\ UNCHANGED <<waiters, on, slot, result, alock, cancelled>>
     \/ ~Live(on[r]) /\ Return(r, "transport") /\ UNCHANGED out
  /\ UNCHANGED <<connVars, queueVars, faults>>

\* Mutant: after a rejection the guard is still armed.
DisarmedNot(r) == UNCHANGED sent

\* The broker did not enqueue the request: there is nothing to cancel.
Disarmed(r) == sent' = [sent EXCEPT ![r] = FALSE]

\* A refusal is read before a receipt, an entry of another request is skipped, and a
\* closed queue of errors ends the call even if the receipt is there.
Receipt(r) ==
  LET c == on[r] IN
  /\ pc[r] = "receipt" /\ UNCHANGED replied
  /\ \/ /\ errors[c] # <<>> /\ errors' = Pop(errors, c) /\ UNCHANGED delivered
        /\ \/ Head(errors[c]) = r /\ Disarmed(r) /\ Return(r, "rejected")
           \/ Head(errors[c]) # r /\ UNCHANGED <<waiters, pc, callVars, sent, cancelled>>
     \/ /\ errors[c] = <<>> /\ Live(c) /\ delivered[c] # <<>>
        /\ delivered' = Pop(delivered, c) /\ UNCHANGED <<errors, sent, waiters, cancelled>>
        /\ \/ /\ Head(delivered[c]) = r /\ Goto(r, "reply")
              /\ dlock' = [dlock EXCEPT ![c] = None]
              /\ UNCHANGED <<on, slot, result, alock>>
           \/ Head(delivered[c]) # r /\ UNCHANGED <<pc, callVars>>
     \/ /\ errors[c] = <<>> /\ ~Live(c) /\ UNCHANGED <<errors, delivered, sent>>
        /\ Return(r, "transport")
  /\ UNCHANGED <<connVars, out, messages, acks, faults>>

\* Mutant: the reply is acknowledged before it is parsed.
TakeReplyUnparsed(r) ==
  /\ pc[r] = "reply" /\ slot[r] \in Reply /\ Goto(r, "acklock")
  /\ replied' = [replied EXCEPT ![r] = TRUE]
  /\ UNCHANGED <<connVars, out, queueVars, waiters, callVars, sent, faults, cancelled>>

\* rx: the reply is parsed before it is acknowledged; a closed oneshot is an error.
TakeReply(r) ==
  /\ pc[r] = "reply" /\ UNCHANGED sent
  /\ \/ slot[r] = Closed /\ UNCHANGED replied /\ Return(r, "transport")
     \/ /\ slot[r] \in Reply /\ replied' = [replied EXCEPT ![r] = TRUE]
        /\ \/ slot[r][2] = "bad" /\ Return(r, "malformed")
           \/ /\ slot[r][2] # "bad" /\ Goto(r, "acklock")
              /\ UNCHANGED <<waiters, callVars, cancelled>>
  /\ UNCHANGED <<connVars, out, queueVars, faults>>

\* ack_confirmed
AckSend(r) ==
  /\ pc[r] = "acklock" /\ alock[on[r]] = None /\ UNCHANGED <<sent, replied>>
  /\ \/ /\ alock' = [alock EXCEPT ![on[r]] = r]
        /\ Write(on[r], <<"ack", slot[r], r>>) /\ Goto(r, "acking")
        /\ UNCHANGED <<waiters, on, slot, result, dlock, cancelled>>
     \/ ~Live(on[r]) /\ Return(r, "transport") /\ UNCHANGED out
  /\ UNCHANGED <<connVars, queueVars, faults>>

\* Mutant: any result counts, an older request's included.
MatchesAny(entry, r) == TRUE

\* The result is for this message and this acknowledgement.
Matches(entry, r) == entry.id = slot[r] /\ entry.request = r

AckResult(r) ==
  LET c == on[r] IN
  /\ pc[r] = "acking" /\ UNCHANGED <<sent, replied>>
  /\ \/ /\ acks[c] # <<>> /\ acks' = Pop(acks, c)
        /\ \/ /\ Matches(Head(acks[c]), r)
              /\ Return(r, IF Head(acks[c]).accepted THEN "ok" ELSE "rejected")
           \/ ~Matches(Head(acks[c]), r) /\ UNCHANGED <<waiters, pc, callVars, cancelled>>
     \/ acks[c] = <<>> /\ ~Live(c) /\ Return(r, "transport") /\ UNCHANGED acks
  /\ UNCHANGED <<connVars, out, messages, delivered, errors, faults>>

\* The deadline: the futures are dropped, while the guard keeps the waiter.
Timeout(r) ==
  /\ pc[r] \in Waiting
  /\ dlock' = Released(dlock, r) /\ alock' = Released(alock, r)
  /\ slot' = [slot EXCEPT ![r] = Dropped] /\ Goto(r, "timeout")
  /\ UNCHANGED <<connVars, out, queueVars, waiters, on, sent, replied, result, faults,
                 cancelled>>

\* Then a Cancel is written, if the reply had not come, and the guard is told.
TimeoutCancel(r) ==
  /\ pc[r] = "timeout" /\ Goto(r, "timedout")
  /\ cancelled' = IF sent[r] /\ ~replied[r] THEN cancelled \cup {r} ELSE cancelled
  /\ sent' = [sent EXCEPT ![r] = replied[r]] /\ UNCHANGED replied
  /\ UNCHANGED <<connVars, out, queueVars, waiters, callVars, faults>>

\* The call that timed out returns; a caller may drop a call at any of its awaits.
Finish(r) ==
  /\ UNCHANGED <<sent, replied>>
  /\ \/ pc[r] = "timedout" /\ Return(r, "timeout")
     \/ pc[r] \in Waiting \cup {"timeout"} /\ Return(r, "dropped")
  /\ UNCHANGED <<connVars, out, queueVars, faults>>

-----------------------------------------------------------------------------
(* The router. *)

\* Mutant: the correlation id alone finds the waiter.
AnswersAny(m) == TRUE

\* The kind and the sender are those the waiter expects.
Answers(m) == m[2] # "forged"

\* owned_reply: the body parses, so nobody could use the message better later.
Retirable(m) == m[2] # "bad"

\* retire_orphan_reply: an Ack without receipt, once, and only if it is written soon.
Retire(c, m) ==
  \/ Retirable(m) /\ Write(c, <<"ack", m, None>>) /\ UNCHANGED faults
  \/ Retirable(m) /\ Live(c) /\ Fault /\ UNCHANGED out
  \/ ~Retirable(m) /\ UNCHANGED <<out, faults>>

\* One message: to its waiter; not to a waiter that expects another sender; late, if
\* there is no waiter or the waiter's receiver is gone.
Route(c) ==
  /\ c \in router /\ messages[c] # <<>> /\ messages' = Pop(messages, c)
  /\ LET m == Head(messages[c])
         r == m[1]
         registered == r \in waiters /\ on[r] = c
     IN \/ /\ registered /\ Answers(m) /\ waiters' = waiters \ {r}
           /\ \/ /\ slot[r] # Dropped /\ slot' = [slot EXCEPT ![r] = m]
                 /\ UNCHANGED <<out, faults>>
              \/ slot[r] = Dropped /\ UNCHANGED slot /\ Retire(c, m)
        \/ registered /\ ~Answers(m) /\ UNCHANGED <<waiters, slot, out, faults>>
        \/ ~registered /\ UNCHANGED <<waiters, slot>> /\ Retire(c, m)
  /\ UNCHANGED <<connVars, delivered, errors, acks, pc, on, sent, replied, result, dlock, alock,
                 cancelled>>

\* Mutant: the senders of the pending table outlive the connection.
RouterExitKeeps(c) ==
  /\ c \in router /\ messages[c] = <<>> /\ ~Live(c) /\ router' = router \ {c}
  /\ UNCHANGED <<conn, up, boxVars, out, queueVars, waiters, pc, callVars, sent, replied,
                 faults, cancelled>>

\* The reader is gone and its messages are routed: every sender left is dropped.
RouterExit(c) ==
  /\ c \in router /\ messages[c] = <<>> /\ ~Live(c) /\ router' = router \ {c}
  /\ LET left == {r \in waiters : on[r] = c} IN
       /\ waiters' = waiters \ left
       /\ slot' = [r \in Req |-> IF r \in left /\ slot[r] = None THEN Closed ELSE slot[r]]
  /\ UNCHANGED <<conn, up, boxVars, out, queueVars, pc, on, sent, replied, result, dlock, alock,
                 faults, cancelled>>

-----------------------------------------------------------------------------
(* The broker, the target and the connection. *)

\* The next frame.  A delivery may be refused, and an acknowledgement may fail; an
\* answer to a connection that died is lost.
BrokerHandle ==
  /\ out # <<>> /\ out' = Tail(out)
  /\ LET f == Head(out) IN
       \/ /\ f[1] = "deliver" /\ UNCHANGED <<box, acks>>
          /\ \/ /\ accepted' = accepted \cup {f[2]}
                /\ delivered' = Read(delivered, f[2]) /\ UNCHANGED <<errors, faults>>
             \/ /\ Fault /\ errors' = Read(errors, f[2]) /\ UNCHANGED <<accepted, delivered>>
       \/ /\ f[1] = "ack" /\ UNCHANGED <<accepted, delivered, errors>>
          /\ \E ok \in BOOLEAN :
               /\ IF ok THEN box' = box \ {f[2]} /\ UNCHANGED faults
                        ELSE Fault /\ UNCHANGED box
               /\ acks' = IF f[3] = None THEN acks
                          ELSE Read(acks, [id |-> f[2], request |-> f[3], accepted |-> ok])
  /\ UNCHANGED <<conn, up, router, messages, waiters, pc, callVars, sent, replied, pushed,
                 replies, cancelled>>

\* The target answers a request it was given, once; another peer may use its id.
Answer(r, q) ==
  /\ r \in accepted /\ <<r, q>> \notin replies /\ Budget
  /\ q # "forged" => replies \cap {<<r, "good">>, <<r, "bad">>} = {}
  /\ replies' = replies \cup {<<r, q>>} /\ box' = box \cup {<<r, q>>}
  /\ UNCHANGED <<conn, up, router, out, queueVars, waiters, pc, callVars, sent, replied,
                 accepted, pushed, faults, cancelled>>

\* A message is pushed once to each connection, as long as it is not acknowledged.
Push(m) ==
  /\ up /\ m \in box \ pushed /\ pushed' = pushed \cup {m}
  /\ messages' = Read(messages, m)
  /\ UNCHANGED <<conn, up, router, out, delivered, errors, acks, waiters, pc, callVars, sent,
                 replied, accepted, box, replies, faults, cancelled>>

Disconnect ==
  /\ up /\ up' = FALSE
  /\ UNCHANGED <<conn, router, boxVars, out, queueVars, waiters, pc, callVars, sent, replied,
                 faults, cancelled>>

\* The owner connects anew; frames of the old connection still on the way are lost.
Reconnect ==
  /\ ~up /\ conn < MaxConn /\ Budget /\ conn' = conn + 1 /\ up' = TRUE
  /\ router' = router \cup {conn'} /\ out' = <<>> /\ pushed' = {}
  /\ UNCHANGED <<queueVars, waiters, pc, callVars, sent, replied, accepted, box, replies,
                 faults, cancelled>>

-----------------------------------------------------------------------------
(* Specification. *)

\* The steps of a call that wait for nothing but the connection.
Own(r) == \/ DeliverSend(r) \/ Receipt(r) \/ TakeReply(r) \/ AckSend(r) \/ AckResult(r)
          \/ TimeoutCancel(r)

Next == \/ \E r \in Req : Request(r) \/ Own(r) \/ Timeout(r) \/ Finish(r)
        \/ \E c \in Conn : Route(c) \/ RouterExit(c)
        \/ BrokerHandle \/ Disconnect \/ Reconnect
        \/ \E r \in Req, q \in Quality : Answer(r, q)
        \/ \E m \in box : Push(m)

Spec == Init /\ [][Next]_vars

\* The tasks of the client are scheduled.  Neither a deadline nor the broker is relied on.
FairSpec == /\ Spec
            /\ \A r \in Req : WF_vars(Own(r)) /\ WF_vars(pc[r] = "timedout" /\ Finish(r))
            /\ \A c \in Conn : WF_vars(Route(c)) /\ WF_vars(RouterExit(c))

-----------------------------------------------------------------------------
(* Properties. *)

\* The variables have their types, only a call in progress has a waiter, and a lock is
\* held by a call that is where the lock is needed (PendingRequest, mux.rs:49).
TypeOK ==
  /\ conn \in Conn /\ up \in BOOLEAN /\ router \subseteq Conn
  /\ waiters \subseteq {r \in Req : pc[r] \in Waiting \cup {"timeout", "timedout"}}
  /\ pc \in [Req -> Waiting \cup {"idle", "timeout", "timedout", "done"}] /\ on \in [Req -> Conn]
  /\ slot \in [Req -> Reply \cup {None, Closed, Dropped}]
  /\ sent \in [Req -> BOOLEAN] /\ replied \in [Req -> BOOLEAN]
  /\ result \in [Req -> {None, "ok", "rejected", "malformed", "transport", "timeout", "dropped"}]
  /\ \A c \in Conn :
       /\ dlock[c] # None => pc[dlock[c]] = "receipt" /\ on[dlock[c]] = c
       /\ alock[c] # None => pc[alock[c]] = "acking" /\ on[alock[c]] = c
  /\ accepted \subseteq Req /\ box \subseteq replies /\ pushed \subseteq replies
  /\ replies \subseteq Reply /\ faults \in 0..MaxFaults /\ cancelled \subseteq Req

\* A call that succeeds has the reply of its target, and the reply is consumed: it will
\* not come back on the next connection ("its durably acknowledged MCP reply",
\* mux.rs:210).
OkMeansConsumed ==
  \A r \in Req : result[r] = "ok" => <<r, "good">> \in replies \ box

\* While a call waits on a live connection, the reply of its target is not retired by
\* the router: it is in the mailbox until the call's own acknowledgement (mux.rs:291).
LiveReplyKept ==
  \A r \in Req :
    Live(on[r]) /\ pc[r] \in Waiting \ {"acking"} /\ <<r, "good">> \in replies
      => <<r, "good">> \in box

\* A malformed answer remains recoverable, whatever happens to its request
\* (mux.rs:243): neither the call nor the router acknowledges it.
MalformedKept == \A m \in replies : m[2] = "bad" => m \in box

\* A Cancel is for a call that got no answer: not for one that was rejected by the
\* broker (a scoped peer may not be allowed to send it) or that has its reply.
CancelJustified ==
  \A r \in cancelled : result[r] \notin {"ok", "rejected", "malformed"}

\* A call on a connection that died ends, though its deadline never comes: nothing it
\* waits for outlives the reader (mux.rs:160).
NoHang ==
  \A r \in Req : pc[r] \in Waiting /\ ~Live(on[r]) ~> pc[r] = "done"

\* How far a call is: a call on a dead connection waits for nothing but its end.
Phase(r) ==
  IF pc[r] = "idle" THEN "idle"
  ELSE IF pc[r] \notin Waiting \/ ~Live(on[r]) THEN "over"
  ELSE IF pc[r] = "acking" THEN "answered" ELSE "open"

Exchange == INSTANCE RequestReply WITH phase <- [r \in Req |-> Phase(r)]

\* Calls that share a connection are as good as calls of their own: each ends once, with
\* its own reply or without one, and the router, the deadline and a reconnection take
\* nothing from the mailbox that a call still waits for (request_validated, spawn).
ImplementsRequestReply == Exchange!Spec
=============================================================================
