---------------------------- MODULE MuxClientProofs ----------------------------
(***************************************************************************)
(* Proofs about MuxClient, for any requests, connections and faults: what  *)
(* the client acknowledges, when it cancels, and that the router retires   *)
(* no reply that somebody waits for.                                       *)
(***************************************************************************)
EXTENDS MuxClient, TLAPS

-----------------------------------------------------------------------------
(* The inductive invariant. *)

Entries(s) == {s[i] : i \in 1..Len(s)}
Distinct(s) == \A i, j \in 1..Len(s) : s[i] = s[j] => i = j

Good(r) == <<r, "good">>
Frame == ({"deliver"} \X Req) \cup ({"ack"} \X Reply \X (Req \cup {None}))
Result == [id : Reply, request : Req, accepted : BOOLEAN]

QueueType ==
  /\ out \in Seq(Frame) /\ messages \in [Conn -> Seq(Reply)]
  /\ delivered \in [Conn -> Seq(Req)] /\ errors \in [Conn -> Seq(Req)]
  /\ acks \in [Conn -> Seq(Result)]
  /\ dlock \in [Conn -> Req \cup {None}] /\ alock \in [Conn -> Req \cup {None}]

\* A call has its reply from the messages of its connection, and it has no waiter then;
\* what it acknowledges is a good reply, that it was told of.
SlotInv ==
  \A r \in Req :
    /\ slot[r] \in Reply => slot[r] \in replies /\ slot[r][1] = r /\ slot[r][2] # "forged"
    /\ r \in waiters => slot[r] \in {None, Dropped}
    /\ pc[r] = "idle" => slot[r] = None
    /\ slot[r] = Dropped => pc[r] \notin Waiting
    /\ pc[r] \in {"acklock", "acking"} => slot[r] = Good(r) /\ replied[r]

\* Nothing malformed is acknowledged; an accepted acknowledgement took its message away.
AckInv ==
  /\ \A c \in Conn : Entries(messages[c]) \subseteq replies
  /\ \A f \in Entries(out) : f[1] = "ack" => f[2] \in replies /\ f[2][2] # "bad"
  /\ \A c \in Conn : \A x \in Entries(acks[c]) : x.accepted => x.id \in replies \ box
  /\ MalformedKept /\ OkMeansConsumed

\* A call is cancelled at its end, and its result is the last thing it gets.
CancelInv ==
  /\ CancelJustified
  /\ \A r \in Req : /\ pc[r] # "done" => result[r] = None
                    /\ r \in cancelled => pc[r] \in {"timedout", "done"}

\* A reply is to a request that was delivered, and is good or bad, not both.
AnswerInv ==
  /\ \A r \in Req : pc[r] = "idle" => r \notin accepted /\ <<"deliver", r>> \notin Entries(out)
  /\ \A m \in replies : m[1] \in accepted
  /\ \A r \in Req : ~(Good(r) \in replies /\ <<r, "bad">> \in replies)

\* The messages of the connection are pushed once; those of later ones are to come.
PushInv ==
  /\ \A r \in Req : on[r] <= conn
  /\ \A c \in Conn : c > conn => messages[c] = <<>>
  /\ Distinct(messages[conn]) /\ Entries(messages[conn]) \subseteq pushed

\* While a call waits on a live connection: its waiter stays until its reply is routed,
\* which then comes no second time, and no acknowledgement of it is on the way.
KeepInv ==
  \A r \in Req : Live(on[r]) /\ pc[r] \in Waiting \ {"acking"} =>
    /\ Good(r) \in replies => Good(r) \in box
    /\ \A f \in Entries(out) : f[1] = "ack" => f[2] # Good(r)
    /\ r \in waiters \/ (slot[r] \in pushed /\ slot[r] \in Reply)
    /\ slot[r] \in Reply => slot[r] \notin Entries(messages[conn])

IInv == /\ TypeOK /\ QueueType /\ SlotInv /\ AckInv /\ CancelInv
        /\ AnswerInv /\ PushInv /\ KeepInv

-----------------------------------------------------------------------------
(* Queues. *)

\* Appending adds one entry.
LEMMA AppendFacts ==
  ASSUME NEW S, NEW s \in Seq(S), NEW m \in S
  PROVE  /\ Append(s, m) \in Seq(S) /\ Entries(Append(s, m)) = Entries(s) \cup {m}
         /\ Distinct(s) /\ m \notin Entries(s) => Distinct(Append(s, m))
<1>1. /\ Append(s, m) \in Seq(S) /\ Len(Append(s, m)) = Len(s) + 1 /\ Len(s) \in Nat
      /\ \A i \in 1..Len(s) : Append(s, m)[i] = s[i]
      /\ Append(s, m)[Len(s) + 1] = m
  OBVIOUS
<1>2. Entries(Append(s, m)) = Entries(s) \cup {m}
  BY <1>1 DEF Entries
<1>3. ASSUME Distinct(s), m \notin Entries(s) PROVE Distinct(Append(s, m))
  BY <1>1, <1>3 DEF Distinct, Entries
<1> QED BY <1>1, <1>2, <1>3

\* Taking the head takes that entry, and all of it when entries are distinct.
LEMMA TailFacts ==
  ASSUME NEW S, NEW s \in Seq(S), s # <<>>
  PROVE  /\ Tail(s) \in Seq(S) /\ Head(s) \in S
         /\ Entries(s) = Entries(Tail(s)) \cup {Head(s)}
         /\ Distinct(s) => Distinct(Tail(s)) /\ Head(s) \notin Entries(Tail(s))
<1>1. /\ Tail(s) \in Seq(S) /\ Len(s) \in Nat \ {0} /\ Len(Tail(s)) = Len(s) - 1
      /\ \A i \in 1..Len(s) - 1 : Tail(s)[i] = s[i + 1]
      /\ Head(s) = s[1] /\ Head(s) \in S
  OBVIOUS
<1>2. Entries(s) = Entries(Tail(s)) \cup {Head(s)}
  <2>1. ASSUME NEW x \in Entries(s) PROVE x \in Entries(Tail(s)) \cup {Head(s)}
    <3>1. PICK i \in 1..Len(s) : x = s[i]
      BY <2>1 DEF Entries
    <3>2. CASE i # 1
      <4>1. i - 1 \in 1..Len(Tail(s)) /\ Tail(s)[i - 1] = s[i]
        BY <1>1, <3>2
      <4> QED BY <3>1, <4>1 DEF Entries
    <3> QED BY <1>1, <3>1, <3>2
  <2>2. Entries(Tail(s)) \subseteq Entries(s) /\ Head(s) \in Entries(s)
    BY <1>1 DEF Entries
  <2> QED BY <2>1, <2>2
<1>3. ASSUME Distinct(s) PROVE Distinct(Tail(s)) /\ Head(s) \notin Entries(Tail(s))
  BY <1>1, <1>3 DEF Distinct, Entries
<1> QED BY <1>1, <1>2, <1>3

\* An empty queue has no entries.
LEMMA EmptyEntries == Entries(<<>>) = {} /\ Distinct(<<>>)
BY DEF Entries, Distinct

\* A reply names its request and its quality, and is not a mark of the router.
LEMMA ReplyFacts ==
  ASSUME NEW m \in Reply
  PROVE  m[1] \in Req /\ m[2] \in Quality /\ m = <<m[1], m[2]>> /\ m \notin {None, Closed, Dropped}
<1>1. m[1] \in Req /\ m[2] \in Quality /\ m = <<m[1], m[2]>> /\ m # Closed /\ m # Dropped
  BY DEF Reply, Closed, Dropped
<1> QED BY <1>1, MuxAssumption

\* A frame is a delivery or an acknowledgement.
LEMMA FrameFacts ==
  /\ \A f \in Frame : f[1] \in {"deliver", "ack"}
  /\ \A f \in Frame : f[1] = "deliver" => f[2] \in Req /\ f = <<"deliver", f[2]>>
  /\ \A f \in Frame : f[1] = "ack" => f[2] \in Reply /\ f[3] \in Req \cup {None}
  /\ \A r \in Req : <<"deliver", r>> \in Frame
  /\ \A m \in Reply, r \in Req \cup {None} : <<"ack", m, r>> \in Frame
BY DEF Frame

\* What a queue of the reader is after a frame is read from it or appended to it.
LEMMA PopFacts ==
  ASSUME NEW S, NEW q \in [Conn -> Seq(S)], NEW c \in Conn, q[c] # <<>>
  PROVE  /\ Pop(q, c) \in [Conn -> Seq(S)] /\ Head(q[c]) \in S
         /\ \A d \in Conn : d # c => Pop(q, c)[d] = q[d]
         /\ Entries(q[c]) = Entries(Pop(q, c)[c]) \cup {Head(q[c])}
         /\ Distinct(q[c]) => Distinct(Pop(q, c)[c]) /\ Head(q[c]) \notin Entries(Pop(q, c)[c])
<1>1. q[c] \in Seq(S)
  OBVIOUS
<1>2. Tail(q[c]) \in Seq(S)
  BY <1>1, TailFacts
<1>3. Pop(q, c) \in [Conn -> Seq(S)] /\ Pop(q, c)[c] = Tail(q[c])
  BY <1>2 DEF Pop
<1> QED BY <1>1, <1>3, TailFacts DEF Pop

\* What a queue of the reader is after a frame is appended to it, if the connection is up.
LEMMA ReadFacts ==
  ASSUME NEW S, NEW q \in [Conn -> Seq(S)], NEW x \in S, conn \in Conn
  PROVE  /\ Read(q, x) \in [Conn -> Seq(S)]
         /\ \A d \in Conn : d # conn => Read(q, x)[d] = q[d]
         /\ Entries(Read(q, x)[conn]) \subseteq Entries(q[conn]) \cup {x}
         /\ Distinct(q[conn]) /\ x \notin Entries(q[conn]) => Distinct(Read(q, x)[conn])
<1>1. q[conn] \in Seq(S)
  OBVIOUS
<1>2. Append(q[conn], x) \in Seq(S)
  BY <1>1, AppendFacts
<1>3. Read(q, x) \in [Conn -> Seq(S)] /\ Read(q, x)[conn] \in {q[conn], Append(q[conn], x)}
  BY <1>2 DEF Read
<1>4. \A d \in Conn : d # conn => Read(q, x)[d] = q[d]
  BY <1>2 DEF Read
<1>5. /\ Entries(Append(q[conn], x)) = Entries(q[conn]) \cup {x}
      /\ Distinct(q[conn]) /\ x \notin Entries(q[conn]) => Distinct(Append(q[conn], x))
  BY <1>1, AppendFacts
<1>6. CASE Read(q, x)[conn] = q[conn]
  BY <1>3, <1>4, <1>6
<1>7. CASE Read(q, x)[conn] = Append(q[conn], x)
  BY <1>3, <1>4, <1>5, <1>7
<1> QED BY <1>3, <1>6, <1>7

\* What is written on a live connection is appended to the frames, and is lost on a dead one.
LEMMA WriteFacts ==
  ASSUME QueueType, NEW c, NEW f \in Frame, Write(c, f)
  PROVE  /\ out' \in Seq(Frame) /\ Entries(out') \subseteq Entries(out) \cup {f}
         /\ ~Live(c) => out' = out
BY AppendFacts DEF Write, QueueType

-----------------------------------------------------------------------------
(* Every step keeps the types. *)

CallPc == Waiting \cup {"idle", "timeout", "timedout", "done"}
Outcome == {None, "ok", "rejected", "malformed", "transport", "timeout", "dropped"}

\* The types of the connection and the broker, of the queues, and of the calls.
ConnType ==
  /\ conn \in Conn /\ up \in BOOLEAN /\ router \subseteq Conn
  /\ accepted \subseteq Req /\ box \subseteq replies /\ pushed \subseteq replies
  /\ replies \subseteq Reply /\ faults \in 0..MaxFaults

WireType ==
  /\ out \in Seq(Frame) /\ messages \in [Conn -> Seq(Reply)]
  /\ delivered \in [Conn -> Seq(Req)] /\ errors \in [Conn -> Seq(Req)]
  /\ acks \in [Conn -> Seq(Result)]

CallType ==
  /\ waiters \subseteq {r \in Req : pc[r] \in Waiting \cup {"timeout", "timedout"}}
  /\ pc \in [Req -> CallPc] /\ on \in [Req -> Conn]
  /\ slot \in [Req -> Reply \cup {None, Closed, Dropped}]
  /\ sent \in [Req -> BOOLEAN] /\ replied \in [Req -> BOOLEAN]
  /\ result \in [Req -> Outcome] /\ cancelled \subseteq Req
  /\ dlock \in [Conn -> Req \cup {None}] /\ alock \in [Conn -> Req \cup {None}]
  /\ \A c \in Conn :
       /\ dlock[c] # None => pc[dlock[c]] = "receipt" /\ on[dlock[c]] = c
       /\ alock[c] # None => pc[alock[c]] = "acking" /\ on[alock[c]] = c

\* The types in three parts: the connection, the wire and the calls.
LEMMA TypeParts == TypeOK /\ QueueType <=> ConnType /\ WireType /\ CallType
BY DEF TypeOK, QueueType, ConnType, WireType, CallType, CallPc, Outcome

\* The same of the next state.
LEMMA TypePartsNext == (TypeOK /\ QueueType)' <=> ConnType' /\ WireType' /\ CallType'
BY DEF TypeOK, QueueType, ConnType, WireType, CallType, CallPc, Outcome

\* The call moves on and takes no lock.
LEMMA MoveType ==
  ASSUME CallType, NEW r \in Req, NEW l \in CallPc, Goto(r, l),
         pc[r] \in CallPc \ {"receipt", "acking"},
         UNCHANGED <<dlock, alock>>,
         on' = on \/ (pc[r] = "idle" /\ \E c \in Conn : on' = [on EXCEPT ![r] = c]),
         waiters' \subseteq waiters \cup {r}, r \in waiters' => l \in Waiting \cup {"timeout", "timedout"},
         slot' \in [Req -> Reply \cup {None, Closed, Dropped}],
         sent' \in [Req -> BOOLEAN], replied' \in [Req -> BOOLEAN],
         result' \in [Req -> Outcome], cancelled' \subseteq Req
  PROVE  CallType'
<1>1. pc' \in [Req -> CallPc] /\ on' \in [Req -> Conn]
  BY DEF CallType, Goto
<1>2. waiters' \subseteq {x \in Req : pc'[x] \in Waiting \cup {"timeout", "timedout"}}
  BY DEF CallType, Goto
<1>3. ASSUME NEW c \in Conn
      PROVE  /\ dlock'[c] # None => pc'[dlock'[c]] = "receipt" /\ on'[dlock'[c]] = c
             /\ alock'[c] # None => pc'[alock'[c]] = "acking" /\ on'[alock'[c]] = c
  <2>1. dlock[c] # None => dlock[c] # r /\ dlock[c] \in Req
    BY DEF CallType
  <2>2. alock[c] # None => alock[c] # r /\ alock[c] \in Req
    BY DEF CallType
  <2>3. \A x \in Req \ {r} : pc'[x] = pc[x] /\ on'[x] = on[x]
    BY DEF CallType, Goto
  <2> QED BY <2>1, <2>2, <2>3 DEF CallType
<1> QED BY <1>1, <1>2, <1>3 DEF CallType

\* The locks of a call are released, and it moves on.
LEMMA ReleaseType ==
  ASSUME CallType, NEW r \in Req, NEW l \in CallPc, Goto(r, l), UNCHANGED on,
         dlock' = Released(dlock, r), alock' = Released(alock, r),
         waiters' \subseteq waiters, r \in waiters' => l \in Waiting \cup {"timeout", "timedout"},
         slot' \in [Req -> Reply \cup {None, Closed, Dropped}],
         sent' \in [Req -> BOOLEAN], replied' \in [Req -> BOOLEAN],
         result' \in [Req -> Outcome], cancelled' \subseteq Req
  PROVE  CallType'
<1>1. pc' \in [Req -> CallPc]
  BY DEF CallType, Goto
<1>2. waiters' \subseteq {x \in Req : pc'[x] \in Waiting \cup {"timeout", "timedout"}}
  BY DEF CallType, Goto
<1>3. dlock' \in [Conn -> Req \cup {None}] /\ alock' \in [Conn -> Req \cup {None}]
  BY DEF CallType, Released
<1>4. ASSUME NEW c \in Conn
      PROVE  /\ dlock'[c] # None => pc'[dlock'[c]] = "receipt" /\ on'[dlock'[c]] = c
             /\ alock'[c] # None => pc'[alock'[c]] = "acking" /\ on'[alock'[c]] = c
  <2>1. r # None
    BY MuxAssumption
  <2>2. dlock'[c] # None => dlock'[c] = dlock[c] /\ dlock[c] # r /\ dlock[c] \in Req
    BY <2>1 DEF CallType, Released
  <2>3. alock'[c] # None => alock'[c] = alock[c] /\ alock[c] # r /\ alock[c] \in Req
    BY <2>1 DEF CallType, Released
  <2>4. \A x \in Req \ {r} : pc'[x] = pc[x]
    BY DEF CallType, Goto
  <2> QED BY <2>2, <2>3, <2>4 DEF CallType
<1> QED BY <1>1, <1>2, <1>3, <1>4 DEF CallType

\* A call that returns keeps the types of the calls.
LEMMA ReturnType ==
  ASSUME CallType, NEW r \in Req, NEW how \in Outcome, Return(r, how),
         sent' \in [Req -> BOOLEAN], replied' \in [Req -> BOOLEAN]
  PROVE  CallType'
<1>1. /\ slot' \in [Req -> Reply \cup {None, Closed, Dropped}] /\ result' \in [Req -> Outcome]
      /\ cancelled' \subseteq Req /\ waiters' = waiters \ {r} /\ "done" \in CallPc
  BY DEF Return, CallType, CancelUnanswered, CallPc
<1> QED BY <1>1, ReleaseType DEF Return

\* A step of a call leaves the connection and the broker alone.
LEMMA CallSteps ==
  ASSUME ConnType, WireType, CallType, SlotInv, NEW r \in Req,
         Request(r) \/ Own(r) \/ Timeout(r) \/ Finish(r)
  PROVE  CallType'
<1> USE DEF callVars, queueVars, connVars
<1>1. CASE Request(r)
  <2>1. /\ "lock" \in CallPc /\ pc[r] \in CallPc \ {"receipt", "acking"} /\ conn \in Conn
        /\ "lock" \in Waiting
    BY <1>1 DEF Request, CallPc, Waiting, ConnType
  <2>2. sent' \in [Req -> BOOLEAN]
    BY <1>1 DEF Request, CallType
  <2> QED BY <1>1, <2>1, <2>2, MoveType DEF Request, CallType
<1>2. CASE DeliverSend(r)
  <2>1. CASE /\ dlock' = [dlock EXCEPT ![on[r]] = r] /\ Goto(r, "receipt")
             /\ UNCHANGED <<waiters, on, slot, result, alock, cancelled, sent, replied>>
    <3>0. pc[r] = "lock" /\ on[r] \in Conn /\ r # None
      BY <1>2, MuxAssumption DEF DeliverSend, CallType
    <3>1. pc' \in [Req -> CallPc] /\ \A x \in Req : pc'[x] = IF x = r THEN "receipt" ELSE pc[x]
      BY <2>1 DEF CallType, Goto, CallPc, Waiting
    <3>2. waiters' \subseteq {x \in Req : pc'[x] \in Waiting \cup {"timeout", "timedout"}}
      BY <2>1, <3>1 DEF CallType, Waiting
    <3>3. dlock' \in [Conn -> Req \cup {None}]
      BY <2>1 DEF CallType
    <3>4. ASSUME NEW c \in Conn
          PROVE  /\ dlock'[c] # None => pc'[dlock'[c]] = "receipt" /\ on'[dlock'[c]] = c
                 /\ alock'[c] # None => pc'[alock'[c]] = "acking" /\ on'[alock'[c]] = c
      <4>1. alock[c] # None => alock[c] # r /\ alock[c] \in Req
        BY <3>0 DEF CallType
      <4>2. dlock'[c] = (IF c = on[r] THEN r ELSE dlock[c]) /\ dlock[c] \in Req \cup {None}
        BY <2>1 DEF CallType
      <4> QED BY <2>1, <3>0, <3>1, <4>1, <4>2 DEF CallType
    <3> QED BY <2>1, <3>1, <3>2, <3>3, <3>4 DEF CallType
  <2>2. CASE Return(r, "transport") /\ UNCHANGED <<sent, replied>>
    BY <2>2, ReturnType DEF CallType, Outcome
  <2> QED BY <1>2, <2>1, <2>2 DEF DeliverSend
<1>3. CASE Receipt(r)
  <2>0. pc[r] = "receipt" /\ replied' = replied
    BY <1>3 DEF Receipt
  <2>1. CASE Disarmed(r) /\ Return(r, "rejected")
    <3>1. sent' \in [Req -> BOOLEAN]
      BY <2>1 DEF Disarmed, CallType
    <3> QED BY <2>0, <2>1, <3>1, ReturnType DEF CallType, Outcome
  <2>2. CASE UNCHANGED <<waiters, pc, callVars, sent, cancelled>>
    BY <2>0, <2>2 DEF CallType
  <2>3. CASE /\ Goto(r, "reply") /\ dlock' = [dlock EXCEPT ![on[r]] = None]
             /\ UNCHANGED <<on, slot, result, alock, sent, waiters, cancelled>>
    <3>1. pc' \in [Req -> CallPc] /\ \A x \in Req : pc'[x] = IF x = r THEN "reply" ELSE pc[x]
      BY <2>3 DEF CallType, Goto, CallPc, Waiting
    <3>2. waiters' \subseteq {x \in Req : pc'[x] \in Waiting \cup {"timeout", "timedout"}}
      BY <2>3, <3>1 DEF CallType, Waiting
    <3>3. dlock' \in [Conn -> Req \cup {None}]
      BY <2>3 DEF CallType
    <3>4. ASSUME NEW c \in Conn
          PROVE  /\ dlock'[c] # None => pc'[dlock'[c]] = "receipt" /\ on'[dlock'[c]] = c
                 /\ alock'[c] # None => pc'[alock'[c]] = "acking" /\ on'[alock'[c]] = c
      <4>1. alock[c] # None => alock[c] # r /\ alock[c] \in Req
        BY <2>0 DEF CallType
      <4>2. dlock'[c] = (IF c = on[r] THEN None ELSE dlock[c]) /\ dlock[c] \in Req \cup {None}
        BY <2>3 DEF CallType
      <4> QED BY <2>0, <2>3, <3>1, <4>1, <4>2 DEF CallType
    <3> QED BY <2>0, <2>3, <3>1, <3>2, <3>3, <3>4 DEF CallType
  <2>4. CASE UNCHANGED <<pc, callVars, sent, waiters, cancelled>>
    BY <2>0, <2>4 DEF CallType
  <2>5. CASE Return(r, "transport") /\ UNCHANGED sent
    BY <2>0, <2>5, ReturnType DEF CallType, Outcome
  <2> QED BY <1>3, <2>1, <2>2, <2>3, <2>4, <2>5 DEF Receipt
<1>4. CASE TakeReply(r)
  <2>0. pc[r] = "reply" /\ sent' = sent /\ replied' \in [Req -> BOOLEAN]
    <3>1. pc[r] = "reply" /\ sent' = sent /\ replied' \in {replied, [replied EXCEPT ![r] = TRUE]}
      BY <1>4 DEF TakeReply
    <3>2. [replied EXCEPT ![r] = TRUE] \in [Req -> BOOLEAN] /\ replied \in [Req -> BOOLEAN]
      BY DEF CallType
    <3> QED BY <3>1, <3>2
  <2>1. CASE Return(r, "transport") \/ Return(r, "malformed")
    BY <2>0, <2>1, ReturnType DEF CallType, Outcome
  <2>2. CASE Goto(r, "acklock") /\ UNCHANGED <<waiters, callVars, cancelled>>
    <3>1. "acklock" \in CallPc /\ pc[r] \in CallPc \ {"receipt", "acking"} /\ "acklock" \in Waiting
      BY <2>0 DEF CallPc, Waiting
    <3> QED BY <2>0, <2>2, <3>1, MoveType DEF CallType
  <2> QED BY <1>4, <2>1, <2>2 DEF TakeReply
<1>5. CASE AckSend(r)
  <2>1. CASE /\ alock' = [alock EXCEPT ![on[r]] = r] /\ Goto(r, "acking")
             /\ UNCHANGED <<waiters, on, slot, result, dlock, cancelled, sent, replied>>
    <3>0. pc[r] = "acklock" /\ on[r] \in Conn /\ r # None
      BY <1>5, MuxAssumption DEF AckSend, CallType
    <3>1. pc' \in [Req -> CallPc] /\ \A x \in Req : pc'[x] = IF x = r THEN "acking" ELSE pc[x]
      BY <2>1 DEF CallType, Goto, CallPc, Waiting
    <3>2. waiters' \subseteq {x \in Req : pc'[x] \in Waiting \cup {"timeout", "timedout"}}
      BY <2>1, <3>1 DEF CallType, Waiting
    <3>3. alock' \in [Conn -> Req \cup {None}]
      BY <2>1 DEF CallType
    <3>4. ASSUME NEW c \in Conn
          PROVE  /\ dlock'[c] # None => pc'[dlock'[c]] = "receipt" /\ on'[dlock'[c]] = c
                 /\ alock'[c] # None => pc'[alock'[c]] = "acking" /\ on'[alock'[c]] = c
      <4>1. dlock[c] # None => dlock[c] # r /\ dlock[c] \in Req
        BY <3>0 DEF CallType
      <4>2. alock'[c] = (IF c = on[r] THEN r ELSE alock[c]) /\ alock[c] \in Req \cup {None}
        BY <2>1 DEF CallType
      <4> QED BY <2>1, <3>0, <3>1, <4>1, <4>2 DEF CallType
    <3> QED BY <2>1, <3>1, <3>2, <3>3, <3>4 DEF CallType
  <2>2. CASE Return(r, "transport") /\ UNCHANGED <<sent, replied>>
    BY <2>2, ReturnType DEF CallType, Outcome
  <2> QED BY <1>5, <2>1, <2>2 DEF AckSend
<1>6. CASE AckResult(r)
  <2>1. UNCHANGED <<sent, replied>>
    BY <1>6 DEF AckResult
  <2>2. CASE UNCHANGED <<waiters, pc, callVars, cancelled>>
    BY <2>1, <2>2 DEF CallType
  <2>3. CASE Return(r, "ok") \/ Return(r, "rejected") \/ Return(r, "transport")
    BY <2>1, <2>3, ReturnType DEF CallType, Outcome
  <2> QED BY <1>6, <2>2, <2>3 DEF AckResult
<1>7. CASE TimeoutCancel(r)
  <2>1. "timedout" \in CallPc /\ pc[r] \in CallPc \ {"receipt", "acking"}
    BY <1>7 DEF TimeoutCancel, CallPc, Waiting
  <2>2. sent' \in [Req -> BOOLEAN] /\ cancelled' \subseteq Req
    BY <1>7 DEF TimeoutCancel, CallType
  <2> QED BY <1>7, <2>1, <2>2, MoveType DEF TimeoutCancel, CallType
<1>8. CASE Timeout(r)
  <2>1. slot' \in [Req -> Reply \cup {None, Closed, Dropped}] /\ "timeout" \in CallPc
    BY <1>8 DEF Timeout, CallType, CallPc
  <2> QED BY <1>8, <2>1, ReleaseType DEF Timeout, CallType
<1>9. CASE Finish(r)
  BY <1>9, ReturnType DEF Finish, CallType, Outcome
<1> QED BY <1>1, <1>2, <1>3, <1>4, <1>5, <1>6, <1>7, <1>8, <1>9 DEF Own

\* Every step keeps the types.
LEMMA StepType ==
  ASSUME ConnType, WireType, CallType, SlotInv, AckInv, [Next]_vars
  PROVE  ConnType' /\ WireType' /\ CallType'
<1> USE DEF callVars, queueVars, connVars, boxVars
<1>0. QueueType
  BY DEF QueueType, WireType, CallType
<1>1. ASSUME NEW r \in Req, Request(r) \/ Own(r) \/ Timeout(r) \/ Finish(r)
      PROVE  ConnType' /\ WireType' /\ CallType'
  <2>1. CallType'
    BY <1>1, CallSteps
  <2>2. ConnType'
    BY <1>1 DEF Request, Own, DeliverSend, Receipt, TakeReply, AckSend, AckResult, TimeoutCancel,
                Timeout, Finish, ConnType
  <2>3. WireType'
    <3>1. CASE Request(r) \/ TakeReply(r) \/ TimeoutCancel(r) \/ Timeout(r) \/ Finish(r)
      BY <3>1 DEF Request, TakeReply, TimeoutCancel, Timeout, Finish, WireType
    <3>2. CASE DeliverSend(r)
      <4>1. out' = out \/ Write(on[r], <<"deliver", r>>)
        BY <3>2 DEF DeliverSend
      <4>2. <<"deliver", r>> \in Frame
        BY FrameFacts
      <4>3. out' \in Seq(Frame)
        BY <1>0, <4>1, <4>2, WriteFacts DEF WireType
      <4> QED BY <3>2, <4>3 DEF DeliverSend, WireType
    <3>3. CASE AckSend(r)
      <4>1. out' = out \/ Write(on[r], <<"ack", slot[r], r>>)
        BY <3>3 DEF AckSend
      <4>2. <<"ack", slot[r], r>> \in Frame
        <5>1. slot[r] \in Reply
          <6>1. slot[r] = Good(r)
            BY <3>3 DEF AckSend, SlotInv
          <6> QED BY <6>1 DEF Good, Reply, Quality
        <5> QED BY <5>1, FrameFacts
      <4>3. out' \in Seq(Frame)
        BY <1>0, <4>1, <4>2, WriteFacts DEF WireType
      <4> QED BY <3>3, <4>3 DEF AckSend, WireType
    <3>4. CASE Receipt(r)
      <4>1. on[r] \in Conn
        BY DEF CallType
      <4>2. errors' = errors \/ (errors[on[r]] # <<>> /\ errors' = Pop(errors, on[r]))
        BY <3>4 DEF Receipt
      <4>3. delivered' = delivered \/ (delivered[on[r]] # <<>> /\ delivered' = Pop(delivered, on[r]))
        BY <3>4 DEF Receipt
      <4>4. errors' \in [Conn -> Seq(Req)] /\ delivered' \in [Conn -> Seq(Req)]
        <5>1. errors[on[r]] # <<>> => Pop(errors, on[r]) \in [Conn -> Seq(Req)]
          BY <4>1, PopFacts DEF WireType
        <5>2. delivered[on[r]] # <<>> => Pop(delivered, on[r]) \in [Conn -> Seq(Req)]
          BY <4>1, PopFacts DEF WireType
        <5> QED BY <4>2, <4>3, <5>1, <5>2 DEF WireType
      <4> QED BY <3>4, <4>4 DEF Receipt, WireType
    <3>5. CASE AckResult(r)
      <4>1. on[r] \in Conn
        BY DEF CallType
      <4>2. acks' = acks \/ (acks[on[r]] # <<>> /\ acks' = Pop(acks, on[r]))
        BY <3>5 DEF AckResult
      <4>3. acks' \in [Conn -> Seq(Result)]
        <5>1. acks[on[r]] # <<>> => Pop(acks, on[r]) \in [Conn -> Seq(Result)]
          BY <4>1, PopFacts DEF WireType
        <5> QED BY <4>2, <5>1 DEF WireType
      <4> QED BY <3>5, <4>3 DEF AckResult, WireType
    <3> QED BY <1>1, <3>1, <3>2, <3>3, <3>4, <3>5 DEF Own
  <2> QED BY <2>1, <2>2, <2>3
<1>2. ASSUME NEW c \in Conn, Route(c) PROVE ConnType' /\ WireType' /\ CallType'
  <2> DEFINE m == Head(messages[c])
  <2>1. messages' \in [Conn -> Seq(Reply)] /\ m \in Reply
    BY <1>2, PopFacts DEF Route, WireType
  <2>2. waiters' \subseteq waiters /\ (slot' = slot \/ slot' = [slot EXCEPT ![m[1]] = m])
    BY <1>2 DEF Route
  <2>3. (out' = out \/ Write(c, <<"ack", m, None>>)) /\ (faults' = faults \/ Fault)
    BY <1>2 DEF Route, Retire
  <2>4. <<"ack", m, None>> \in Frame
    BY <2>1, FrameFacts
  <2>5. out' \in Seq(Frame)
    BY <1>0, <2>3, <2>4, WriteFacts DEF WireType
  <2>6. faults' \in 0..MaxFaults
    BY <2>3, MuxAssumption DEF Fault, ConnType
  <2> HIDE DEF m
  <2>7. slot' \in [Req -> Reply \cup {None, Closed, Dropped}]
    BY <2>1, <2>2 DEF CallType
  <2>8. ConnType' /\ WireType'
    BY <1>2, <2>1, <2>5, <2>6 DEF Route, ConnType, WireType
  <2>9. CallType'
    BY <1>2, <2>2, <2>7 DEF Route, CallType
  <2> QED BY <2>8, <2>9
<1>3. ASSUME NEW c \in Conn, RouterExit(c) PROVE ConnType' /\ WireType' /\ CallType'
  <2>1. waiters' \subseteq waiters /\ slot' \in [Req -> Reply \cup {None, Closed, Dropped}]
    BY <1>3 DEF RouterExit, CallType
  <2>2. CallType'
    BY <1>3, <2>1 DEF RouterExit, CallType
  <2> QED BY <1>3, <2>2 DEF RouterExit, ConnType, WireType
<1>4. CASE BrokerHandle
  <2> DEFINE f == Head(out)
  <2>1. out' \in Seq(Frame) /\ f \in Frame
    BY <1>4, TailFacts DEF BrokerHandle, WireType
  <2>2. faults' \in 0..MaxFaults
    <3>1. faults' = faults \/ Fault
      BY <1>4 DEF BrokerHandle
    <3> QED BY <3>1, MuxAssumption DEF Fault, ConnType
  <2>3. CASE f[1] = "deliver" /\ f[2] \in Req /\ UNCHANGED <<box, acks>>
    <3>1. delivered' \in {delivered, Read(delivered, f[2])} /\ errors' \in {errors, Read(errors, f[2])}
          /\ accepted' \in {accepted, accepted \cup {f[2]}}
      BY <1>4, <2>3 DEF BrokerHandle
    <3>2. delivered' \in [Conn -> Seq(Req)] /\ errors' \in [Conn -> Seq(Req)] /\ accepted' \subseteq Req
      <4>1. Read(delivered, f[2]) \in [Conn -> Seq(Req)] /\ Read(errors, f[2]) \in [Conn -> Seq(Req)]
        BY <2>3, ReadFacts DEF WireType, ConnType
      <4>2. delivered \in [Conn -> Seq(Req)] /\ errors \in [Conn -> Seq(Req)] /\ accepted \subseteq Req
        BY DEF WireType, ConnType
      <4> QED BY <2>3, <3>1, <4>1, <4>2
    <3> QED BY <1>4, <2>1, <2>2, <2>3, <3>2 DEF BrokerHandle, ConnType, WireType, CallType
  <2>4. CASE f[1] = "ack" /\ f[2] \in Reply /\ f[3] \in Req \cup {None}
    <3>1. PICK ok \in BOOLEAN :
            /\ box' = box \ {f[2]} \/ box' = box
            /\ acks' = IF f[3] = None THEN acks
                       ELSE Read(acks, [id |-> f[2], request |-> f[3], accepted |-> ok])
      BY <1>4, <2>4 DEF BrokerHandle
    <3>2. f[3] # None => [id |-> f[2], request |-> f[3], accepted |-> ok] \in Result
      BY <2>4 DEF Result
    <3>3. acks' \in [Conn -> Seq(Result)]
      BY <3>1, <3>2, ReadFacts DEF WireType, ConnType
    <3>4. UNCHANGED <<accepted, delivered, errors>> /\ box' \subseteq box
      BY <1>4, <2>4, <3>1 DEF BrokerHandle
    <3> QED BY <1>4, <2>1, <2>2, <3>3, <3>4 DEF BrokerHandle, ConnType, WireType, CallType
  <2> QED BY <2>1, <2>3, <2>4, <1>4, FrameFacts DEF BrokerHandle
<1>5. CASE Disconnect
  BY <1>5 DEF Disconnect, ConnType, WireType, CallType
<1>6. CASE Reconnect
  <2>1. conn' \in Conn
    BY <1>6, MuxAssumption DEF Reconnect, ConnType, Conn
  <2>2. <<>> \in Seq(Frame)
    OBVIOUS
  <2>3. ConnType'
    BY <1>6, <2>1 DEF Reconnect, ConnType
  <2>4. WireType'
    BY <1>6, <2>2 DEF Reconnect, WireType
  <2> QED BY <1>6, <2>3, <2>4 DEF Reconnect, CallType
<1>7. ASSUME NEW r \in Req, NEW q \in Quality, Answer(r, q) PROVE ConnType' /\ WireType' /\ CallType'
  <2>1. <<r, q>> \in Reply
    BY DEF Reply
  <2>2. ConnType'
    BY <1>7, <2>1 DEF Answer, ConnType
  <2>3. WireType'
    BY <1>7 DEF Answer, WireType
  <2> QED BY <1>7, <2>2, <2>3 DEF Answer, CallType
<1>8. ASSUME NEW m \in box, Push(m) PROVE ConnType' /\ WireType' /\ CallType'
  <2>1. m \in Reply /\ m \in replies
    BY DEF ConnType
  <2>2. messages' \in [Conn -> Seq(Reply)]
    BY <1>8, <2>1, ReadFacts DEF Push, WireType, ConnType
  <2>3. ConnType'
    BY <1>8, <2>1 DEF Push, ConnType
  <2>4. WireType'
    BY <1>8, <2>2 DEF Push, WireType
  <2> QED BY <1>8, <2>3, <2>4 DEF Push, CallType
<1>9. CASE UNCHANGED vars
  BY <1>9 DEF vars, ConnType, WireType, CallType
<1> QED BY <1>1, <1>2, <1>3, <1>4, <1>5, <1>6, <1>7, <1>8, <1>9 DEF Next

-----------------------------------------------------------------------------
(* The kinds of steps of a call. *)

CallStep(r) == Request(r) \/ Own(r) \/ Timeout(r) \/ Finish(r)

Stays(r) == /\ result'[r] = result[r] /\ (r \in cancelled' <=> r \in cancelled)
            /\ on'[r] = on[r] /\ (r \in waiters' <=> r \in waiters)

\* The call begins.
Begins(r) == /\ pc[r] = "idle" /\ pc'[r] = "lock" /\ r \in waiters' /\ on'[r] = conn
             /\ slot'[r] = slot[r] /\ result'[r] = result[r] /\ (r \in cancelled' <=> r \in cancelled)

\* The call goes on waiting.
GoesOn(r) == /\ Stays(r) /\ slot'[r] = slot[r] /\ replied'[r] = replied[r]
             /\ \/ pc[r] = "lock" /\ pc'[r] = "receipt"
                \/ pc[r] = "receipt" /\ pc'[r] \in {"receipt", "reply"}
                \/ pc[r] = "acklock" /\ pc'[r] = "acking"
                \/ pc[r] = "acking" /\ pc'[r] = "acking"

\* The call has its reply.
Takes(r) == /\ Stays(r) /\ pc[r] = "reply" /\ pc'[r] = "acklock"
            /\ slot'[r] = slot[r] /\ slot[r] \in Reply /\ slot[r][2] # "bad" /\ replied'[r]

\* The call is late, and cancels.
IsLate(r) == /\ Stays(r) /\ pc[r] \in Waiting /\ pc'[r] = "timeout" /\ slot'[r] = Dropped
Cancels(r) == /\ pc[r] = "timeout" /\ pc'[r] = "timedout" /\ slot'[r] = slot[r]
              /\ result'[r] = result[r] /\ on'[r] = on[r] /\ (r \in waiters' <=> r \in waiters)

\* The call ends; one with an answer of the broker or of its target does not cancel.
Ends(r) ==
  /\ pc[r] \in Waiting \cup {"timeout", "timedout"} /\ pc'[r] = "done" /\ slot'[r] = None
  /\ r \notin waiters' /\ on'[r] = on[r]
  /\ \/ result'[r] \in {"transport", "timeout", "dropped"}
     \/ /\ result'[r] \in {"ok", "rejected", "malformed"} /\ pc[r] \in Waiting
        /\ (r \in cancelled' <=> r \in cancelled)
  /\ result'[r] = "ok" => \E x \in Entries(acks[on[r]]) : x.accepted /\ x.id = slot[r] /\ pc[r] = "acking"
  /\ result'[r] = "malformed" => slot[r] \in Reply /\ slot[r][2] = "bad"

CallKind(r) ==
  Begins(r) \/ GoesOn(r) \/ Takes(r) \/ IsLate(r) \/ Cancels(r) \/ Ends(r)

\* The step concerns no other call and nothing of the broker.
Alone(r) ==
  /\ \A x \in Req \ {r} :
       /\ pc'[x] = pc[x] /\ on'[x] = on[x] /\ slot'[x] = slot[x] /\ replied'[x] = replied[x]
       /\ result'[x] = result[x] /\ (x \in waiters' <=> x \in waiters)
       /\ (x \in cancelled' <=> x \in cancelled)
  /\ UNCHANGED <<conn, up, accepted, box, pushed, replies, messages>>

\* What it sends, and that it appends to no queue of results.
Sends(r) ==
  /\ \A f \in Entries(out') \ Entries(out) :
       \/ pc[r] = "lock" /\ f = <<"deliver", r>>
       \/ pc[r] = "acklock" /\ pc'[r] = "acking" /\ f = <<"ack", slot[r], r>>
  /\ \A c \in Conn : Entries(acks'[c]) \subseteq Entries(acks[c])

\* A step that moves one call.
LEMMA GotoFacts ==
  ASSUME CallType, NEW r \in Req, NEW l, Goto(r, l)
  PROVE  pc'[r] = l /\ \A x \in Req \ {r} : pc'[x] = pc[x]
BY DEF CallType, Goto

\* A step that ends one call.
LEMMA ReturnFacts ==
  ASSUME CallType, NEW r \in Req, NEW how, Return(r, how)
  PROVE  /\ pc'[r] = "done" /\ slot'[r] = None /\ r \notin waiters' /\ on' = on /\ result'[r] = how
         /\ ~(sent'[r] /\ ~replied'[r]) => (r \in cancelled' <=> r \in cancelled)
         /\ \A x \in Req \ {r} :
              /\ pc'[x] = pc[x] /\ slot'[x] = slot[x] /\ result'[x] = result[x]
              /\ (x \in waiters' <=> x \in waiters) /\ (x \in cancelled' <=> x \in cancelled)
<1>1. pc'[r] = "done" /\ \A x \in Req \ {r} : pc'[x] = pc[x]
  BY GotoFacts DEF Return
<1>2. /\ slot'[r] = None /\ result'[r] = how
      /\ \A x \in Req \ {r} : slot'[x] = slot[x] /\ result'[x] = result[x]
  BY DEF Return, CallType
<1>3. waiters' = waiters \ {r} /\ on' = on
  BY DEF Return
<1>4. cancelled' = IF sent'[r] /\ ~replied'[r] THEN cancelled \cup {r} ELSE cancelled
  BY DEF Return, CancelUnanswered
<1> QED BY <1>1, <1>2, <1>3, <1>4

\* Every step of a call is of one of its kinds.
LEMMA CallKinds ==
  ASSUME ConnType, WireType, CallType, SlotInv, NEW r \in Req, CallStep(r)
  PROVE  CallKind(r) /\ Alone(r) /\ Sends(r)
<1> USE DEF callVars, queueVars, connVars, boxVars
<1>0. /\ on[r] \in Conn /\ QueueType /\ UNCHANGED <<conn, up, accepted, box, pushed, replies, messages>>
      /\ replied \in [Req -> BOOLEAN] /\ sent \in [Req -> BOOLEAN]
  <2>1. UNCHANGED <<conn, up, accepted, box, pushed, replies, messages>>
    BY DEF CallStep, Own, Request, DeliverSend, Receipt, TakeReply, AckSend, AckResult, TimeoutCancel,
           Timeout, Finish
  <2> QED BY <2>1 DEF CallType, QueueType, WireType
<1>s. ASSUME out' = out, acks' = acks PROVE Sends(r)
  BY <1>s DEF Sends
\* One that returns: it is where it may, and its result is justified.
<1>r. ASSUME NEW how, Return(r, how), \A x \in Req \ {r} : replied'[x] = replied[x],
             pc[r] \in Waiting \cup {"timeout", "timedout"},
             \/ how \in {"transport", "timeout", "dropped"}
             \/ how \in {"ok", "rejected", "malformed"} /\ pc[r] \in Waiting /\ ~(sent'[r] /\ ~replied'[r]),
             how = "ok" => \E x \in Entries(acks[on[r]]) : x.accepted /\ x.id = slot[r] /\ pc[r] = "acking",
             how = "malformed" => slot[r] \in Reply /\ slot[r][2] = "bad"
      PROVE  CallKind(r) /\ Alone(r)
  <2>1. Ends(r)
    BY <1>r, ReturnFacts DEF Ends
  <2>2. Alone(r)
    BY <1>0, <1>r, ReturnFacts DEF Alone
  <2> QED BY <2>1, <2>2 DEF CallKind
<1>1. CASE Request(r)
  <2>1. pc[r] = "idle" /\ pc'[r] = "lock" /\ \A x \in Req \ {r} : pc'[x] = pc[x]
    BY <1>1, GotoFacts DEF Request
  <2>2. on'[r] = conn /\ \A x \in Req \ {r} : on'[x] = on[x]
    BY <1>1 DEF Request, CallType
  <2>3. waiters' = waiters \cup {r} /\ UNCHANGED <<slot, result, replied, cancelled, out, acks>>
    BY <1>1 DEF Request
  <2> QED BY <1>0, <1>s, <2>1, <2>2, <2>3 DEF CallKind, Begins, Alone
<1>2. CASE DeliverSend(r)
  <2>0. pc[r] = "lock" /\ UNCHANGED <<sent, replied, acks>>
    BY <1>2 DEF DeliverSend
  <2>1. CASE Write(on[r], <<"deliver", r>>) /\ Goto(r, "receipt")
             /\ UNCHANGED <<waiters, on, slot, result, cancelled>>
    <3>1. pc'[r] = "receipt" /\ \A x \in Req \ {r} : pc'[x] = pc[x]
      BY <2>1, GotoFacts
    <3>2. Entries(out') \subseteq Entries(out) \cup {<<"deliver", r>>}
      BY <1>0, <2>1, FrameFacts, WriteFacts
    <3> QED BY <1>0, <2>0, <2>1, <3>1, <3>2 DEF CallKind, GoesOn, Stays, Alone, Sends
  <2>2. CASE Return(r, "transport") /\ out' = out
    BY <1>r, <1>s, <2>0, <2>2 DEF Waiting
  <2> QED BY <1>2, <2>1, <2>2 DEF DeliverSend
<1>3. CASE Receipt(r)
  <2>0. pc[r] = "receipt" /\ UNCHANGED <<replied, out, acks>>
    BY <1>3 DEF Receipt
  <2>1. CASE Disarmed(r) /\ Return(r, "rejected")
    <3>1. ~sent'[r]
      BY <2>1 DEF Disarmed, CallType
    <3> QED BY <1>r, <1>s, <2>0, <2>1, <3>1 DEF Waiting
  <2>2. CASE UNCHANGED <<waiters, pc, callVars, cancelled>>
    BY <1>0, <1>s, <2>0, <2>2 DEF CallKind, GoesOn, Stays, Alone
  <2>3. CASE Goto(r, "reply") /\ UNCHANGED <<on, slot, result, waiters, cancelled>>
    <3>1. pc'[r] = "reply" /\ \A x \in Req \ {r} : pc'[x] = pc[x]
      BY <2>3, GotoFacts
    <3> QED BY <1>0, <1>s, <2>0, <2>3, <3>1 DEF CallKind, GoesOn, Stays, Alone
  <2>4. CASE Return(r, "transport")
    BY <1>r, <1>s, <2>0, <2>4 DEF Waiting
  <2> QED BY <1>3, <2>1, <2>2, <2>3, <2>4 DEF Receipt
<1>4. CASE TakeReply(r)
  <2>0. pc[r] = "reply" /\ UNCHANGED <<sent, out, acks>>
    BY <1>4 DEF TakeReply
  <2>1. CASE Return(r, "transport") /\ replied' = replied
    BY <1>r, <1>s, <2>0, <2>1 DEF Waiting
  <2>2. CASE replied' = [replied EXCEPT ![r] = TRUE] /\ slot[r] \in Reply
    <3>1. replied'[r] /\ \A x \in Req \ {r} : replied'[x] = replied[x]
      BY <1>0, <2>2
    <3>2. CASE slot[r][2] = "bad" /\ Return(r, "malformed")
      BY <1>r, <1>s, <2>0, <2>2, <3>1, <3>2 DEF Waiting
    <3>3. CASE slot[r][2] # "bad" /\ Goto(r, "acklock") /\ UNCHANGED <<waiters, callVars, cancelled>>
      <4>1. pc'[r] = "acklock" /\ \A x \in Req \ {r} : pc'[x] = pc[x]
        BY <3>3, GotoFacts
      <4> QED BY <1>0, <1>s, <2>0, <2>2, <3>1, <3>3, <4>1 DEF CallKind, Takes, Stays, Alone
    <3> QED BY <1>4, <2>0, <3>2, <3>3, ReturnFacts, MuxAssumption, <2>2, ReplyFacts DEF TakeReply
  <2> QED BY <1>4, <2>1, <2>2 DEF TakeReply
<1>5. CASE AckSend(r)
  <2>0. pc[r] = "acklock" /\ UNCHANGED <<sent, replied, acks>>
    BY <1>5 DEF AckSend
  <2>1. CASE Write(on[r], <<"ack", slot[r], r>>) /\ Goto(r, "acking")
             /\ UNCHANGED <<waiters, on, slot, result, cancelled>>
    <3>1. pc'[r] = "acking" /\ \A x \in Req \ {r} : pc'[x] = pc[x]
      BY <2>1, GotoFacts
    <3>2. <<"ack", slot[r], r>> \in Frame
      <4>1. slot[r] = Good(r) /\ Good(r) \in Reply
        BY <2>0 DEF SlotInv, Good, Reply, Quality
      <4> QED BY <4>1, FrameFacts
    <3>3. Entries(out') \subseteq Entries(out) \cup {<<"ack", slot[r], r>>}
      BY <1>0, <2>1, <3>2, WriteFacts
    <3> QED BY <1>0, <2>0, <2>1, <3>1, <3>3 DEF CallKind, GoesOn, Stays, Alone, Sends
  <2>2. CASE Return(r, "transport") /\ out' = out
    BY <1>r, <1>s, <2>0, <2>2 DEF Waiting
  <2> QED BY <1>5, <2>1, <2>2 DEF AckSend
<1>6. CASE AckResult(r)
  <2>0. pc[r] = "acking" /\ UNCHANGED <<sent, replied, out>> /\ replied[r]
    BY <1>6 DEF AckResult, SlotInv
  <2>p. ASSUME acks[on[r]] # <<>>
        PROVE  /\ Head(acks[on[r]]) \in Entries(acks[on[r]])
               /\ \A c \in Conn : Entries(Pop(acks, on[r])[c]) \subseteq Entries(acks[c])
    <3>1. acks \in [Conn -> Seq(Result)]
      BY DEF WireType
    <3>2. /\ \A d \in Conn : d # on[r] => Pop(acks, on[r])[d] = acks[d]
          /\ Entries(acks[on[r]]) = Entries(Pop(acks, on[r])[on[r]]) \cup {Head(acks[on[r]])}
      <4>1. acks[on[r]] \in Seq(Result) /\ Pop(acks, on[r])[on[r]] = Tail(acks[on[r]])
        BY <1>0, <3>1 DEF Pop
      <4>2. \A d \in Conn : d # on[r] => Pop(acks, on[r])[d] = acks[d]
        BY <3>1 DEF Pop
      <4>3. Entries(acks[on[r]]) = Entries(Tail(acks[on[r]])) \cup {Head(acks[on[r]])}
        BY <2>p, <4>1, TailFacts
      <4> QED BY <4>1, <4>2, <4>3
    <3>3. ASSUME NEW c \in Conn PROVE Entries(Pop(acks, on[r])[c]) \subseteq Entries(acks[c])
      <4>1. CASE c = on[r]
        BY <3>2, <4>1
      <4>2. CASE c # on[r]
        BY <3>2, <4>2
      <4> QED BY <4>1, <4>2
    <3> QED BY <3>2, <3>3
  <2>1. Sends(r)
    <3>1. acks' = acks \/ (acks[on[r]] # <<>> /\ acks' = Pop(acks, on[r]))
      BY <1>6 DEF AckResult
    <3> QED BY <2>0, <2>p, <3>1 DEF Sends
  <2>2. CASE UNCHANGED <<waiters, pc, callVars, cancelled>>
    BY <1>0, <2>0, <2>1, <2>2 DEF CallKind, GoesOn, Stays, Alone
  <2>3. CASE Return(r, "transport")
    BY <1>r, <2>0, <2>1, <2>3 DEF Waiting
  <2>4. CASE /\ acks[on[r]] # <<>> /\ Matches(Head(acks[on[r]]), r)
             /\ Return(r, IF Head(acks[on[r]]).accepted THEN "ok" ELSE "rejected")
    <3>1. Head(acks[on[r]]) \in Entries(acks[on[r]]) /\ Head(acks[on[r]]).id = slot[r]
      BY <2>4, <2>p DEF Matches
    <3> QED BY <1>r, <2>0, <2>1, <2>4, <3>1 DEF Waiting
  <2> QED BY <1>6, <2>2, <2>3, <2>4 DEF AckResult
<1>7. CASE Timeout(r)
  <2>1. pc[r] \in Waiting /\ pc'[r] = "timeout" /\ \A x \in Req \ {r} : pc'[x] = pc[x]
    BY <1>7, GotoFacts DEF Timeout
  <2>2. slot'[r] = Dropped /\ \A x \in Req \ {r} : slot'[x] = slot[x]
    BY <1>7 DEF Timeout, CallType
  <2>3. UNCHANGED <<out, acks, waiters, on, replied, result, cancelled>>
    BY <1>7 DEF Timeout
  <2> QED BY <1>0, <1>s, <2>1, <2>2, <2>3 DEF CallKind, IsLate, Stays, Alone
<1>8. CASE TimeoutCancel(r)
  <2>1. pc[r] = "timeout" /\ pc'[r] = "timedout" /\ \A x \in Req \ {r} : pc'[x] = pc[x]
    BY <1>8, GotoFacts DEF TimeoutCancel
  <2>2. /\ UNCHANGED <<out, acks, waiters, on, replied, result, slot>>
        /\ cancelled \subseteq cancelled' /\ cancelled' \subseteq cancelled \cup {r}
    BY <1>8 DEF TimeoutCancel
  <2> QED BY <1>0, <1>s, <2>1, <2>2 DEF CallKind, Cancels, Alone
<1>9. CASE Finish(r)
  BY <1>r, <1>s, <1>9 DEF Finish
<1> QED BY <1>1, <1>2, <1>3, <1>4, <1>5, <1>6, <1>7, <1>8, <1>9 DEF CallStep, Own

-----------------------------------------------------------------------------
(* The steps of the router and of the broker. *)

\* A message of c is handed to its waiter, or not at all, and then it may be retired.
Handed(c, m) ==
  /\ m[1] \in waiters /\ on[m[1]] = c /\ m[2] # "forged" /\ slot[m[1]] # Dropped
  /\ waiters' = waiters \ {m[1]} /\ slot' = [slot EXCEPT ![m[1]] = m] /\ out' = out

Kept(c, m) == UNCHANGED <<waiters, slot, out>>

RetireSent(c, m) == /\ Entries(out') \subseteq Entries(out) \cup {<<"ack", m, None>>}
                    /\ m[2] # "bad" /\ Live(c)

Orphaned(c, m) ==
  /\ slot' = slot
  /\ \/ waiters' = waiters /\ ~(m[1] \in waiters /\ on[m[1]] = c)
     \/ waiters' = waiters \ {m[1]} /\ slot[m[1]] = Dropped
  /\ out' = out \/ RetireSent(c, m)

RouteKind(c, m) ==
  /\ m \in Reply /\ m \in replies /\ messages[c] # <<>>
  /\ \A d \in Conn : d # c => messages'[d] = messages[d]
  /\ Entries(messages[c]) = Entries(messages'[c]) \cup {m}
  /\ Distinct(messages[c]) => Distinct(messages'[c]) /\ m \notin Entries(messages'[c])
  /\ UNCHANGED <<conn, up, accepted, box, pushed, replies, acks, pc, on, replied, result, cancelled>>
  /\ Handed(c, m) \/ Kept(c, m) \/ Orphaned(c, m)

\* Every step of the router is of one of its kinds.
LEMMA RouteKinds ==
  ASSUME ConnType, WireType, CallType, AckInv, NEW c \in Conn, Route(c)
  PROVE  \E m : RouteKind(c, m)
<1> USE DEF callVars, queueVars, connVars, boxVars
<1> DEFINE m == Head(messages[c])
<1>1. messages[c] # <<>> /\ messages[c] \in Seq(Reply) /\ messages' = Pop(messages, c)
  BY DEF Route, WireType
<1>2. messages'[c] = Tail(messages[c]) /\ \A d \in Conn : d # c => messages'[d] = messages[d]
  BY <1>1 DEF Pop, WireType
<1>3. /\ m \in Reply /\ Entries(messages[c]) = Entries(messages'[c]) \cup {m}
      /\ Distinct(messages[c]) => Distinct(messages'[c]) /\ m \notin Entries(messages'[c])
  BY <1>1, <1>2, TailFacts
<1>4. m \in replies
  BY <1>3 DEF AckInv
<1>5. UNCHANGED <<conn, up, accepted, box, pushed, replies, acks, pc, on, replied, result, cancelled>>
  BY DEF Route
<1>6. \/ Handed(c, m)
      \/ /\ slot[m[1]] = Dropped /\ UNCHANGED slot /\ waiters' = waiters \ {m[1]} /\ Retire(c, m)
      \/ Kept(c, m)
      \/ ~(m[1] \in waiters /\ on[m[1]] = c) /\ UNCHANGED <<waiters, slot>> /\ Retire(c, m)
  BY DEF Route, Answers, Handed, Kept
<1>7. ASSUME Retire(c, m)
      PROVE  out' = out \/ RetireSent(c, m)
  <2>1. <<"ack", m, None>> \in Frame /\ QueueType
    BY <1>3, FrameFacts DEF QueueType, WireType, CallType
  <2>2. CASE Write(c, <<"ack", m, None>>) /\ Retirable(m)
    BY <2>1, <2>2, WriteFacts DEF Retirable, RetireSent
  <2> QED BY <1>7, <2>2 DEF Retire
<1> HIDE DEF m
<1>8. CASE Handed(c, m) \/ Kept(c, m)
  BY <1>1, <1>2, <1>3, <1>4, <1>5, <1>8 DEF RouteKind
<1>9. CASE Retire(c, m) /\ ~(Handed(c, m) \/ Kept(c, m))
  <2>1. slot' = slot
    BY <1>6, <1>9
  <2>2. \/ waiters' = waiters /\ ~(m[1] \in waiters /\ on[m[1]] = c)
        \/ waiters' = waiters \ {m[1]} /\ slot[m[1]] = Dropped
    BY <1>6, <1>9
  <2>3. Orphaned(c, m)
    BY <1>7, <1>9, <2>1, <2>2 DEF Orphaned
  <2> QED BY <1>1, <1>2, <1>3, <1>4, <1>5, <2>3 DEF RouteKind
<1> QED BY <1>6, <1>8, <1>9

\* The broker accepts a delivery or not, and removes a message that is acknowledged or not.
BrokerKind(f) ==
  /\ f \in Entries(out) /\ Entries(out') \subseteq Entries(out)
  /\ UNCHANGED <<conn, up, messages, waiters, pc, on, slot, replied, result, cancelled, pushed, replies>>
  /\ \/ /\ f[2] \in Req /\ f = <<"deliver", f[2]>> /\ UNCHANGED <<box, acks>>
        /\ accepted \subseteq accepted' /\ accepted' \subseteq accepted \cup {f[2]}
     \/ /\ f[1] = "ack" /\ accepted' = accepted /\ box' \in {box, box \ {f[2]}}
        /\ \A c \in Conn : \A x \in Entries(acks'[c]) :
             x \in Entries(acks[c]) \/ (x.id = f[2] /\ (x.accepted => box' = box \ {f[2]}))

\* Every step of the broker and of the connection is of one of its kinds.
LEMMA BrokerKinds ==
  ASSUME ConnType, WireType, CallType, BrokerHandle PROVE \E f : BrokerKind(f)
<1> USE DEF callVars, queueVars, connVars, boxVars
<1> DEFINE f == Head(out)
<1>1. out # <<>> /\ out' = Tail(out) /\ out \in Seq(Frame)
  BY DEF BrokerHandle, WireType
<1>2. f \in Frame /\ f \in Entries(out) /\ Entries(out') \subseteq Entries(out)
  <2>1. f \in Frame /\ Entries(out) = Entries(Tail(out)) \cup {f}
    BY <1>1, TailFacts
  <2> QED BY <1>1, <2>1
<1>3. UNCHANGED <<conn, up, messages, waiters, pc, on, slot, replied, result, cancelled, pushed, replies>>
  BY DEF BrokerHandle
<1>4. CASE f[1] = "deliver"
  <2>1. f[2] \in Req /\ f = <<"deliver", f[2]>>
    BY <1>2, <1>4, FrameFacts
  <2>2. UNCHANGED <<box, acks>> /\ (accepted' = accepted \cup {f[2]} \/ accepted' = accepted)
    BY <1>4 DEF BrokerHandle
  <2> HIDE DEF f
  <2> QED BY <1>2, <1>3, <2>1, <2>2 DEF BrokerKind
<1>5. CASE f[1] = "ack"
  <2>1. f[2] \in Reply /\ f[3] \in Req \cup {None}
    BY <1>2, <1>5, FrameFacts
  <2>2. PICK ok \in BOOLEAN :
          /\ accepted' = accepted /\ box' \in {box, box \ {f[2]}} /\ (ok => box' = box \ {f[2]})
          /\ acks' = IF f[3] = None THEN acks
                     ELSE Read(acks, [id |-> f[2], request |-> f[3], accepted |-> ok])
    BY <1>5 DEF BrokerHandle
  <2> HIDE DEF f
  <2>3. ASSUME NEW c \in Conn, NEW x \in Entries(acks'[c]), x \notin Entries(acks[c])
        PROVE  x.id = f[2] /\ (x.accepted => box' = box \ {f[2]})
    <3> DEFINE z == [id |-> f[2], request |-> f[3], accepted |-> ok]
    <3>1. f[3] # None /\ z \in Result
      BY <2>1, <2>2, <2>3 DEF Result
    <3>2. acks' = Read(acks, z) /\ acks \in [Conn -> Seq(Result)] /\ conn \in Conn
      BY <2>2, <3>1 DEF WireType, ConnType
    <3>3. z.id = f[2] /\ z.accepted = ok
      OBVIOUS
    <3> HIDE DEF z
    <3>4. Entries(acks'[c]) \subseteq Entries(acks[c]) \cup {z}
      <4>1. c = conn \/ acks'[c] = acks[c]
        BY <3>1, <3>2, ReadFacts
      <4>2. Entries(acks'[conn]) \subseteq Entries(acks[conn]) \cup {z}
        BY <3>1, <3>2, ReadFacts
      <4> QED BY <4>1, <4>2
    <3> QED BY <2>2, <2>3, <3>3, <3>4
  <2> QED BY <1>2, <1>3, <1>5, <2>2, <2>3 DEF BrokerKind
<1> QED BY <1>2, <1>4, <1>5, FrameFacts

-----------------------------------------------------------------------------
(* Every step keeps the rest of the invariant. *)

\* Replies and the marks in a slot are told apart.
LEMMA Distinguished ==
  /\ None \notin Reply \cup {Closed, Dropped} /\ Closed \notin Reply /\ Dropped \notin Reply
  /\ Closed # Dropped
  /\ \A r \in Req : Good(r) \in Reply /\ Good(r)[1] = r /\ Good(r)[2] = "good"
BY ReplyFacts, MuxAssumption DEF Closed, Dropped, Good, Reply, Quality

\* SlotInv: a slot holds a reply to its own call.
LEMMA StepSlot ==
  ASSUME ConnType, WireType, CallType, SlotInv, AckInv, [Next]_vars PROVE SlotInv'
<1> USE DEF callVars, queueVars, connVars, boxVars
<1>1. ASSUME NEW r \in Req, CallStep(r) PROVE SlotInv'
  <2>1. CallKind(r) /\ Alone(r)
    BY <1>1, CallKinds
  <2>2. /\ slot'[r] \in Reply => slot'[r] \in replies /\ slot'[r][1] = r /\ slot'[r][2] # "forged"
        /\ slot'[r] \in Reply => slot[r] = slot'[r]
    BY <2>1, Distinguished DEF CallKind, Begins, GoesOn, Takes, IsLate, Cancels, Ends, SlotInv
  <2>3. r \in waiters' => slot'[r] \in {None, Dropped}
    BY <2>1, Distinguished DEF CallKind, Begins, GoesOn, Takes, IsLate, Cancels, Ends, Stays, SlotInv
  <2>4. (slot'[r] = Dropped => pc'[r] \notin Waiting) /\ pc'[r] # "idle"
    BY <2>1, Distinguished
       DEF CallKind, Begins, GoesOn, Takes, IsLate, Cancels, Ends, SlotInv, Waiting
  <2>5. pc'[r] \in {"acklock", "acking"} => slot'[r] = Good(r) /\ replied'[r]
    <3>1. CASE Takes(r)
      <4>1. slot[r][1] = r /\ slot[r][2] = "good" /\ slot[r] = <<slot[r][1], slot[r][2]>>
        BY <3>1, ReplyFacts DEF Takes, SlotInv, Quality
      <4> QED BY <3>1, <4>1 DEF Takes, Good
    <3>2. CASE ~Takes(r)
      BY <2>1, <3>2 DEF CallKind, Begins, GoesOn, IsLate, Cancels, Ends, SlotInv, Waiting
    <3> QED BY <3>1, <3>2
  <2> QED BY <2>1, <2>2, <2>3, <2>4, <2>5 DEF SlotInv, Alone
<1>2. ASSUME NEW c \in Conn, NEW m, RouteKind(c, m) PROVE SlotInv'
  <2>1. UNCHANGED <<pc, replies, replied>> /\ waiters' \subseteq waiters
    BY <1>2 DEF RouteKind, Handed, Kept, Orphaned
  <2>2. CASE slot' = slot
    BY <2>1, <2>2 DEF SlotInv
  <2>3. CASE Handed(c, m)
    <3>1. /\ m[1] \in Req /\ slot'[m[1]] = m /\ m \in Reply /\ m \in replies
          /\ \A x \in Req \ {m[1]} : slot'[x] = slot[x]
      BY <1>2, <2>3, ReplyFacts DEF RouteKind, Handed, CallType
    <3>2. pc[m[1]] \notin {"acklock", "acking", "idle"}
      BY <2>3, <3>1, Distinguished DEF Handed, SlotInv, CallType, Waiting
    <3> QED BY <2>1, <2>3, <3>1, <3>2, Distinguished DEF SlotInv, Handed
  <2> QED BY <1>2, <2>2, <2>3 DEF RouteKind, Kept, Orphaned
<1>3. ASSUME NEW c \in Conn, RouterExit(c) PROVE SlotInv'
  <2>1. \A r \in Req : slot'[r] = slot[r] \/ (slot[r] = None /\ slot'[r] = Closed /\ r \in waiters)
    BY <1>3 DEF RouterExit
  <2>2. UNCHANGED <<pc, replies, replied>> /\ waiters' \subseteq waiters
    BY <1>3 DEF RouterExit
  <2>3. \A r \in Req : slot'[r] = Closed /\ r \in waiters' => slot[r] = Closed
    BY <1>3, Distinguished DEF RouterExit
  <2>4. ASSUME NEW r \in Req, slot'[r] # slot[r] PROVE pc[r] \notin {"acklock", "acking", "idle"}
    BY <2>1, <2>4, Distinguished DEF SlotInv, CallType, Waiting
  <2> QED BY <2>1, <2>2, <2>3, <2>4, Distinguished DEF SlotInv
<1>4. CASE UNCHANGED <<slot, pc, replied, waiters>> /\ replies \subseteq replies'
  BY <1>4 DEF SlotInv
<1>5. CASE BrokerHandle \/ Disconnect \/ Reconnect \/ UNCHANGED vars
  BY <1>4, <1>5 DEF BrokerHandle, Disconnect, Reconnect, vars
<1>6. CASE (\E r \in Req, q \in Quality : Answer(r, q)) \/ \E m \in box : Push(m)
  BY <1>4, <1>6 DEF Answer, Push
<1> QED BY <1>1, <1>2, <1>3, <1>5, <1>6, RouteKinds DEF Next, CallStep

\* CancelInv: a call is cancelled only at its end, for a reason.
LEMMA StepCancel ==
  ASSUME ConnType, WireType, CallType, SlotInv, CancelInv, [Next]_vars PROVE CancelInv'
<1> USE DEF callVars, queueVars, connVars, boxVars
<1>1. ASSUME NEW r \in Req, CallStep(r) PROVE CancelInv'
  <2>1. CallKind(r) /\ Alone(r)
    BY <1>1, CallKinds
  <2>2. r \in cancelled' => result'[r] \notin {"ok", "rejected", "malformed"}
    BY <2>1, MuxAssumption
       DEF CallKind, Begins, GoesOn, Takes, IsLate, Cancels, Ends, Stays, CancelInv, CancelJustified, Waiting
  <2>3. pc'[r] # "done" => result'[r] = None
    BY <2>1 DEF CallKind, Begins, GoesOn, Takes, IsLate, Cancels, Ends, Stays, CancelInv, Waiting
  <2>4. r \in cancelled' => pc'[r] \in {"timedout", "done"}
    BY <2>1 DEF CallKind, Begins, GoesOn, Takes, IsLate, Cancels, Ends, Stays, CancelInv, Waiting
  <2>5. cancelled' \subseteq Req
    BY <1>1, CallSteps DEF CallStep, CallType
  <2> QED BY <2>1, <2>2, <2>3, <2>4, <2>5 DEF CancelInv, CancelJustified, Alone
<1>2. CASE UNCHANGED <<pc, result, cancelled>>
  BY <1>2 DEF CancelInv, CancelJustified
<1>3. CASE \/ \E c \in Conn : Route(c) \/ RouterExit(c)
           \/ BrokerHandle \/ Disconnect \/ Reconnect
           \/ \E r \in Req, q \in Quality : Answer(r, q)
           \/ \E m \in box : Push(m)
  BY <1>2, <1>3 DEF Route, RouterExit, BrokerHandle, Disconnect, Reconnect, Answer, Push
<1> QED BY <1>1, <1>2, <1>3 DEF Next, CallStep, vars

\* AckInv: an accepted acknowledgement took away its message, which was not malformed.
LEMMA StepAck ==
  ASSUME ConnType, WireType, CallType, SlotInv, AckInv, [Next]_vars PROVE AckInv'
<1> USE DEF callVars, queueVars, connVars, boxVars
<1>0. \A c \in Conn : Entries(messages[c]) \subseteq replies
  BY DEF AckInv
<1>1. ASSUME NEW r \in Req, CallStep(r) PROVE AckInv'
  <2>1. CallKind(r) /\ Alone(r) /\ Sends(r)
    BY <1>1, CallKinds
  <2>2. UNCHANGED <<replies, box, messages>>
    BY <2>1 DEF Alone
  <2>3. \A f \in Entries(out') : f[1] = "ack" => f[2] \in replies /\ f[2][2] # "bad"
    <3>1. ASSUME NEW f \in Entries(out') \ Entries(out), f[1] = "ack"
          PROVE  f[2] \in replies /\ f[2][2] # "bad"
      <4>1. pc[r] = "acklock" /\ f[2] = slot[r]
        BY <2>1, <3>1 DEF Sends
      <4> QED BY <4>1, Distinguished DEF SlotInv
    <3> QED BY <3>1 DEF AckInv
  <2>4. \A c \in Conn : \A x \in Entries(acks'[c]) : x.accepted => x.id \in replies \ box
    BY <2>1 DEF Sends, AckInv
  <2>5. result'[r] = "ok" => Good(r) \in replies \ box
    <3>1. CASE Ends(r) /\ result'[r] = "ok"
      <4>1. PICK x \in Entries(acks[on[r]]) : x.accepted /\ x.id = slot[r] /\ pc[r] = "acking"
        BY <3>1 DEF Ends
      <4>2. x.id \in replies \ box
        BY <4>1 DEF AckInv, CallType
      <4> QED BY <4>1, <4>2 DEF SlotInv
    <3>2. CASE ~Ends(r)
      <4>1. result'[r] = result[r]
        BY <2>1, <3>2 DEF CallKind, Begins, GoesOn, Takes, IsLate, Cancels, Stays
      <4> QED BY <4>1 DEF AckInv, OkMeansConsumed, Good
    <3> QED BY <3>1, <3>2
  <2>6. OkMeansConsumed'
    BY <2>1, <2>2, <2>5 DEF AckInv, OkMeansConsumed, Alone, Good
  <2>7. MalformedKept'
    BY <2>2 DEF AckInv, MalformedKept
  <2> QED BY <1>0, <2>2, <2>3, <2>4, <2>6, <2>7 DEF AckInv
<1>2. ASSUME NEW c \in Conn, NEW m, RouteKind(c, m) PROVE AckInv'
  <2>1. UNCHANGED <<replies, box, acks, result>> /\ m \in replies
    BY <1>2 DEF RouteKind
  <2>2. ASSUME NEW d \in Conn PROVE Entries(messages'[d]) \subseteq replies
    BY <1>0, <1>2 DEF RouteKind
  <2>3. out' = out \/ (m[2] # "bad" /\ Entries(out') \subseteq Entries(out) \cup {<<"ack", m, None>>})
    BY <1>2 DEF RouteKind, Handed, Kept, Orphaned, RetireSent
  <2>4. \A f \in Entries(out') : f[1] = "ack" => f[2] \in replies /\ f[2][2] # "bad"
    BY <2>1, <2>3 DEF AckInv
  <2>5. OkMeansConsumed' /\ MalformedKept'
    BY <2>1 DEF AckInv, OkMeansConsumed, MalformedKept
  <2> QED BY <2>1, <2>2, <2>4, <2>5 DEF AckInv
<1>3. ASSUME NEW f, BrokerKind(f) PROVE AckInv'
  <2>1. UNCHANGED <<replies, messages, result>> /\ Entries(out') \subseteq Entries(out)
    BY <1>3 DEF BrokerKind
  <2>2. CASE UNCHANGED <<box, acks>>
    BY <2>1, <2>2 DEF AckInv, OkMeansConsumed, MalformedKept
  <2>3. CASE /\ f[1] = "ack" /\ box' \in {box, box \ {f[2]}}
             /\ \A c \in Conn : \A x \in Entries(acks'[c]) :
                  x \in Entries(acks[c]) \/ (x.id = f[2] /\ (x.accepted => box' = box \ {f[2]}))
    <3>1. f[2] \in replies /\ f[2][2] # "bad" /\ box' \subseteq box
      BY <1>3, <2>3 DEF BrokerKind, AckInv
    <3>2. \A c \in Conn : \A x \in Entries(acks'[c]) : x.accepted => x.id \in replies \ box'
      BY <2>3, <3>1 DEF AckInv
    <3>3. OkMeansConsumed' /\ MalformedKept'
      BY <2>1, <2>3, <3>1 DEF AckInv, OkMeansConsumed, MalformedKept
    <3> QED BY <1>0, <2>1, <3>2, <3>3 DEF AckInv
  <2> QED BY <1>3, <2>2, <2>3 DEF BrokerKind
<1>4. ASSUME NEW r \in Req, NEW q \in Quality, Answer(r, q) PROVE AckInv'
  <2>1. /\ UNCHANGED <<out, messages, acks, result>> /\ <<r, q>> \notin replies
        /\ replies' = replies \cup {<<r, q>>} /\ box' = box \cup {<<r, q>>}
    BY <1>4 DEF Answer
  <2>2. \A x \in replies \ box : x \in replies' \ box'
    BY <2>1
  <2>3. OkMeansConsumed' /\ MalformedKept'
    BY <2>1, <2>2 DEF AckInv, OkMeansConsumed, MalformedKept
  <2>4. \A c \in Conn : \A x \in Entries(acks'[c]) : x.accepted => x.id \in replies' \ box'
    BY <2>1, <2>2 DEF AckInv
  <2>5. /\ \A c \in Conn : Entries(messages'[c]) \subseteq replies'
        /\ \A f \in Entries(out') : f[1] = "ack" => f[2] \in replies' /\ f[2][2] # "bad"
    BY <2>1 DEF AckInv
  <2> QED BY <2>3, <2>4, <2>5 DEF AckInv
<1>5. ASSUME NEW m \in box, Push(m) PROVE AckInv'
  <2>1. UNCHANGED <<out, acks, result, replies, box>> /\ messages' = Read(messages, m)
    BY <1>5 DEF Push
  <2>2. ASSUME NEW c \in Conn PROVE Entries(messages'[c]) \subseteq replies
    <3>1. m \in Reply /\ m \in replies /\ messages \in [Conn -> Seq(Reply)] /\ conn \in Conn
      BY DEF ConnType, WireType
    <3>2. c = conn \/ messages'[c] = messages[c]
      BY <2>1, <3>1, ReadFacts
    <3>3. Entries(messages'[conn]) \subseteq Entries(messages[conn]) \cup {m}
      BY <2>1, <3>1, ReadFacts
    <3> QED BY <1>0, <3>1, <3>2, <3>3
  <2>3. OkMeansConsumed' /\ MalformedKept'
    BY <2>1 DEF AckInv, OkMeansConsumed, MalformedKept
  <2> QED BY <2>1, <2>2, <2>3 DEF AckInv
<1>6. CASE UNCHANGED <<messages, acks, result, replies, box>> /\ out' \in {out, <<>>}
  <2>1. Entries(out') \subseteq Entries(out)
    BY <1>6, EmptyEntries
  <2> QED BY <1>6, <2>1 DEF AckInv, OkMeansConsumed, MalformedKept
<1>7. CASE (\E c \in Conn : RouterExit(c)) \/ Disconnect \/ Reconnect \/ UNCHANGED vars
  BY <1>6, <1>7 DEF RouterExit, Disconnect, Reconnect, vars
<1> QED BY <1>1, <1>2, <1>3, <1>4, <1>5, <1>7, RouteKinds, BrokerKinds DEF Next, CallStep

\* AnswerInv: a reply is to a request that was delivered.
LEMMA StepAnswer ==
  ASSUME ConnType, WireType, CallType, SlotInv, AckInv, AnswerInv, [Next]_vars PROVE AnswerInv'
<1> USE DEF callVars, queueVars, connVars, boxVars
<1>1. ASSUME NEW r \in Req, CallStep(r) PROVE AnswerInv'
  <2>1. CallKind(r) /\ Alone(r) /\ Sends(r)
    BY <1>1, CallKinds
  <2>2. pc'[r] # "idle"
    BY <2>1 DEF CallKind, Begins, GoesOn, Takes, IsLate, Cancels, Ends
  <2>3. UNCHANGED <<accepted, replies>>
    BY <2>1 DEF Alone
  <2>4. ASSUME NEW x \in Req, pc'[x] = "idle" PROVE x \notin accepted /\ <<"deliver", x>> \notin Entries(out')
    <3>1. x # r /\ pc[x] = "idle"
      BY <2>1, <2>2, <2>4 DEF Alone
    <3> QED BY <2>1, <3>1 DEF Sends, AnswerInv
  <2> QED BY <2>3, <2>4 DEF AnswerInv
<1>2. ASSUME NEW c \in Conn, NEW m, RouteKind(c, m) PROVE AnswerInv'
  <2>1. UNCHANGED <<pc, accepted, replies>>
    BY <1>2 DEF RouteKind
  <2>2. Entries(out') \subseteq Entries(out) \cup {<<"ack", m, None>>}
    BY <1>2 DEF RouteKind, Handed, Kept, Orphaned, RetireSent
  <2> QED BY <2>1, <2>2 DEF AnswerInv
<1>3. ASSUME NEW f, BrokerKind(f) PROVE AnswerInv'
  <2>1. UNCHANGED <<pc, replies>> /\ Entries(out') \subseteq Entries(out) /\ accepted \subseteq accepted'
    BY <1>3 DEF BrokerKind
  <2>2. \A r \in Req : pc[r] = "idle" => r \notin accepted'
    BY <1>3 DEF BrokerKind, AnswerInv
  <2> QED BY <2>1, <2>2 DEF AnswerInv
<1>4. ASSUME NEW r \in Req, NEW q \in Quality, Answer(r, q) PROVE AnswerInv'
  <2>1. /\ UNCHANGED <<out, pc, accepted>> /\ r \in accepted /\ replies' = replies \cup {<<r, q>>}
        /\ q # "forged" => replies \cap {<<r, "good">>, <<r, "bad">>} = {}
    BY <1>4 DEF Answer
  <2>2. \A m \in replies' : m[1] \in accepted
    BY <2>1 DEF AnswerInv
  <2>3. ASSUME NEW x \in Req PROVE ~(Good(x) \in replies' /\ <<x, "bad">> \in replies')
    <3>1. CASE x = r
      BY <2>1, <3>1 DEF AnswerInv, Good
    <3>2. CASE x # r
      BY <2>1, <3>2 DEF AnswerInv, Good
    <3> QED BY <3>1, <3>2
  <2> QED BY <2>1, <2>2, <2>3 DEF AnswerInv
<1>5. CASE UNCHANGED <<pc, accepted, replies>> /\ out' \in {out, <<>>}
  <2>1. Entries(out') \subseteq Entries(out)
    BY <1>5, EmptyEntries
  <2> QED BY <1>5, <2>1 DEF AnswerInv
<1>6. CASE \/ \E c \in Conn : RouterExit(c)
           \/ Disconnect \/ Reconnect \/ UNCHANGED vars \/ \E m \in box : Push(m)
  BY <1>5, <1>6 DEF RouterExit, Disconnect, Reconnect, vars, Push
<1> QED BY <1>1, <1>2, <1>3, <1>4, <1>6, RouteKinds, BrokerKinds DEF Next, CallStep

\* PushInv: a message is pushed once.
LEMMA StepPush ==
  ASSUME ConnType, WireType, CallType, SlotInv, AckInv, PushInv, [Next]_vars PROVE PushInv'
<1> USE DEF callVars, queueVars, connVars, boxVars
<1>0. conn \in Int /\ Conn \subseteq Int /\ conn \in Conn
  BY MuxAssumption DEF ConnType, Conn
<1>1. ASSUME NEW r \in Req, CallStep(r) PROVE PushInv'
  <2>1. CallKind(r) /\ Alone(r)
    BY <1>1, CallKinds
  <2>2. on'[r] = on[r] \/ on'[r] = conn
    BY <2>1 DEF CallKind, Begins, GoesOn, Takes, IsLate, Cancels, Ends, Stays
  <2> QED BY <1>0, <2>1, <2>2 DEF PushInv, Alone
<1>2. ASSUME NEW c \in Conn, NEW m, RouteKind(c, m) PROVE PushInv'
  <2>1. UNCHANGED <<conn, on, pushed>>
    BY <1>2 DEF RouteKind
  <2>2. \A d \in Conn : d > conn => messages'[d] = <<>>
    BY <1>2 DEF RouteKind, PushInv
  <2>3. Distinct(messages'[conn]) /\ Entries(messages'[conn]) \subseteq pushed
    <3>1. CASE c = conn
      BY <1>2, <3>1 DEF RouteKind, PushInv
    <3>2. CASE c # conn
      BY <1>0, <1>2, <3>2 DEF RouteKind, PushInv
    <3> QED BY <3>1, <3>2
  <2> QED BY <2>1, <2>2, <2>3 DEF PushInv
<1>3. CASE UNCHANGED <<conn, on, pushed, messages>>
  BY <1>3 DEF PushInv
<1>4. CASE \/ BrokerHandle \/ Disconnect \/ UNCHANGED vars \/ \E c \in Conn : RouterExit(c)
           \/ \E r \in Req, q \in Quality : Answer(r, q)
  BY <1>3, <1>4 DEF BrokerHandle, Disconnect, RouterExit, Answer, vars
<1>5. CASE Reconnect
  <2>1. conn' = conn + 1 /\ conn' \in Conn /\ UNCHANGED <<on, messages>> /\ pushed' = {}
    BY <1>5, <1>0, MuxAssumption DEF Reconnect, Conn
  <2>2. messages[conn'] = <<>>
    BY <1>0, <2>1 DEF PushInv
  <2>3. \A r \in Req : on[r] \in Int /\ on[r] <= conn
    BY <1>0 DEF PushInv, CallType
  <2>4. \A r \in Req : on'[r] <= conn'
    BY <1>0, <2>1, <2>3
  <2>5. \A c \in Conn : c > conn' => messages'[c] = <<>>
    BY <1>0, <2>1 DEF PushInv
  <2>6. messages'[conn'] = <<>>
    BY <2>1, <2>2
  <2> QED BY <2>4, <2>5, <2>6, EmptyEntries DEF PushInv
<1>6. ASSUME NEW m \in box, Push(m) PROVE PushInv'
  <2>1. /\ UNCHANGED <<conn, on>> /\ messages' = Read(messages, m)
        /\ m \notin pushed /\ pushed' = pushed \cup {m}
    BY <1>6 DEF Push
  <2>2. m \in Reply /\ messages \in [Conn -> Seq(Reply)]
    BY DEF ConnType, WireType
  <2>3. \A c \in Conn : c # conn => messages'[c] = messages[c]
    BY <1>0, <2>1, <2>2, ReadFacts
  <2>4. /\ Entries(messages'[conn]) \subseteq Entries(messages[conn]) \cup {m}
        /\ Distinct(messages[conn]) /\ m \notin Entries(messages[conn]) => Distinct(messages'[conn])
    BY <1>0, <2>1, <2>2, ReadFacts
  <2>5. Distinct(messages'[conn]) /\ Entries(messages'[conn]) \subseteq pushed'
    BY <2>1, <2>4 DEF PushInv
  <2>6. \A c \in Conn : c > conn => messages'[c] = <<>>
    BY <1>0, <2>3 DEF PushInv
  <2> QED BY <2>1, <2>5, <2>6 DEF PushInv
<1> QED BY <1>1, <1>2, <1>4, <1>5, <1>6, RouteKinds DEF Next, CallStep

\* What KeepInv says of one call that waits.
KeptFor(r) ==
  /\ Good(r) \in replies => Good(r) \in box
  /\ \A f \in Entries(out) : f[1] = "ack" => f[2] # Good(r)
  /\ r \in waiters \/ (slot[r] \in pushed /\ slot[r] \in Reply)
  /\ slot[r] \in Reply => slot[r] \notin Entries(messages[conn])

Waits(r) == Live(on[r]) /\ pc[r] \in Waiting \ {"acking"}

\* KeepInv of one call that waits, by the kind of the step.
LEMMA KeepStep ==
  ASSUME ConnType, WireType, CallType, SlotInv, AckInv, AnswerInv, PushInv, KeepInv,
         [Next]_vars, NEW x \in Req, Waits(x)'
  PROVE  KeptFor(x)'
<1> USE DEF callVars, queueVars, connVars, boxVars
<1>0. Waits(x) => KeptFor(x)
  BY DEF KeepInv, Waits, KeptFor
<1>1. ASSUME NEW r \in Req, CallStep(r) PROVE KeptFor(x)'
  <2>1. CallKind(r) /\ Alone(r) /\ Sends(r)
    BY <1>1, CallKinds
  <2>2. UNCHANGED <<conn, up, replies, box, pushed, messages>>
    BY <2>1 DEF Alone
  <2>3. CASE x # r
    <3>1. pc'[x] = pc[x] /\ on'[x] = on[x] /\ slot'[x] = slot[x] /\ (x \in waiters' <=> x \in waiters)
      BY <2>1, <2>3 DEF Alone
    <3>2. KeptFor(x)
      BY <1>0, <2>2, <3>1 DEF Waits, Live
    <3>3. \A f \in Entries(out') : f[1] = "ack" => f[2] # Good(x)
      <4>1. ASSUME NEW f \in Entries(out') \ Entries(out), f[1] = "ack" PROVE f[2] # Good(x)
        <5>1. f[2] = Good(r)
          BY <2>1, <4>1 DEF Sends, SlotInv
        <5> QED BY <2>3, <5>1 DEF Good
      <4> QED BY <3>2, <4>1 DEF KeptFor
    <3> QED BY <2>2, <3>1, <3>2, <3>3 DEF KeptFor
  <2>4. CASE x = r /\ Begins(r)
    <3>1. Good(x) \notin replies /\ x \in waiters' /\ slot'[x] \notin Reply
      <4>1. pc[x] = "idle" /\ x \in waiters' /\ slot'[x] = slot[x]
        BY <2>4 DEF Begins
      <4>2. slot'[x] \notin Reply
        BY <4>1, Distinguished DEF SlotInv
      <4>3. x \notin accepted /\ Good(x)[1] = x
        BY <4>1, Distinguished DEF AnswerInv
      <4>4. Good(x) \notin replies
        BY <4>3 DEF AnswerInv
      <4> QED BY <4>1, <4>2, <4>4
    <3>2. \A f \in Entries(out') : f[1] = "ack" => f[2] # Good(x)
      <4>1. Entries(out') \subseteq Entries(out)
        BY <2>1, <2>4 DEF Begins, Sends
      <4> QED BY <3>1, <4>1 DEF AckInv
    <3> QED BY <2>2, <3>1, <3>2 DEF KeptFor
  <2>5. CASE x = r /\ (GoesOn(r) \/ Takes(r))
    <3>1. /\ pc[x] \in Waiting \ {"acking"} /\ on'[x] = on[x] /\ slot'[x] = slot[x]
          /\ (x \in waiters' <=> x \in waiters) /\ pc'[x] # "acking"
      BY <2>5 DEF GoesOn, Takes, Stays, Waits, Waiting
    <3>2. KeptFor(x)
      BY <1>0, <2>2, <3>1 DEF Waits, Live
    <3>3. \A f \in Entries(out') : f[1] = "ack" => f[2] # Good(x)
      <4>1. ASSUME NEW f \in Entries(out') \ Entries(out) PROVE f[1] # "ack"
        BY <2>1, <2>5, <3>1, <4>1 DEF Sends
      <4> QED BY <3>2, <4>1 DEF KeptFor
    <3> QED BY <2>2, <3>1, <3>2, <3>3 DEF KeptFor
  <2>6. ~(IsLate(x) \/ Cancels(x) \/ Ends(x))
    BY DEF IsLate, Cancels, Ends, Waits, Waiting
  <2> QED BY <2>1, <2>3, <2>4, <2>5, <2>6 DEF CallKind
<1>2. ASSUME NEW c \in Conn, NEW m, RouteKind(c, m) PROVE KeptFor(x)'
  <2>1. UNCHANGED <<conn, up, pc, on, pushed, replies, box>> /\ m \in Reply /\ m \in replies
    BY <1>2 DEF RouteKind
  <2>2. Waits(x) /\ KeptFor(x)
    BY <1>0, <2>1 DEF Waits, Live
  <2>3. on[x] = conn /\ conn \in Conn /\ slot[x] # Dropped
    BY <2>2 DEF Waits, Live, SlotInv, ConnType
  <2>4. Entries(messages'[conn]) \subseteq Entries(messages[conn])
    <3>1. CASE c = conn
      BY <1>2, <3>1 DEF RouteKind
    <3>2. CASE c # conn
      BY <1>2, <2>3, <3>2 DEF RouteKind
    <3> QED BY <3>1, <3>2
  <2>5. CASE Handed(c, m)
    <3>1. CASE x = m[1]
      <4>1. c = conn /\ slot'[x] = m /\ out' = out
        BY <2>3, <2>5, <3>1 DEF Handed, CallType
      <4>2. m \in pushed /\ m \notin Entries(messages'[conn])
        BY <1>2, <4>1 DEF RouteKind, PushInv
      <4> QED BY <2>1, <2>2, <4>1, <4>2 DEF KeptFor
    <3>2. CASE x # m[1]
      <4>1. slot'[x] = slot[x] /\ out' = out /\ (x \in waiters' <=> x \in waiters)
        BY <2>5, <3>2 DEF Handed, CallType
      <4> QED BY <2>1, <2>2, <2>4, <4>1 DEF KeptFor
    <3> QED BY <3>1, <3>2
  <2>6. CASE Kept(c, m)
    BY <2>1, <2>2, <2>4, <2>6 DEF Kept, KeptFor
  <2>7. CASE Orphaned(c, m)
    <3>1. slot' = slot /\ (x \in waiters' <=> x \in waiters)
      BY <2>3, <2>7 DEF Orphaned
    <3>2. RetireSent(c, m) => m # Good(x)
      <4>1. CASE RetireSent(c, m) /\ m = Good(x)
        <5>1. c = conn /\ m[1] = x /\ m \in Entries(messages[conn])
          BY <1>2, <4>1, Distinguished DEF RetireSent, Live, RouteKind
        <5>2. x \notin waiters
          BY <2>3, <2>7, <5>1 DEF Orphaned
        <5>3. slot[x] \in Reply /\ slot[x] \in replies /\ slot[x][1] = x /\ slot[x][2] # "forged"
          BY <2>2, <5>2 DEF KeptFor, SlotInv
        <5>4. slot[x] \in {Good(x), <<x, "bad">>}
          BY <5>3, ReplyFacts DEF Good, Quality
        <5>5. slot[x] # <<x, "bad">>
          BY <2>1, <4>1, <5>3 DEF AnswerInv
        <5>6. slot[x] \notin Entries(messages[conn])
          BY <2>2, <5>3 DEF KeptFor
        <5> QED BY <4>1, <5>1, <5>4, <5>5, <5>6
      <4> QED BY <4>1
    <3>3. \A f \in Entries(out') : f[1] = "ack" => f[2] # Good(x)
      <4>1. CASE out' = out
        BY <2>2, <4>1 DEF KeptFor
      <4>2. CASE RetireSent(c, m)
        BY <2>2, <3>2, <4>2 DEF KeptFor, RetireSent
      <4> QED BY <2>7, <4>1, <4>2 DEF Orphaned
    <3> QED BY <2>1, <2>2, <2>4, <3>1, <3>3 DEF KeptFor
  <2> QED BY <1>2, <2>5, <2>6, <2>7 DEF RouteKind
<1>3. ASSUME NEW c \in Conn, RouterExit(c) PROVE KeptFor(x)'
  <2>1. UNCHANGED <<conn, up, pc, on, pushed, replies, box, out, messages>> /\ ~Live(c)
    BY <1>3 DEF RouterExit
  <2>2. Waits(x) /\ KeptFor(x)
    BY <1>0, <2>1 DEF Waits, Live
  <2>3. on[x] # c
    BY <2>1, <2>2 DEF Waits
  <2>4. slot'[x] = slot[x] /\ (x \in waiters' <=> x \in waiters)
    BY <1>3, <2>3 DEF RouterExit
  <2> QED BY <2>1, <2>2, <2>4 DEF KeptFor
<1>4. ASSUME NEW f, BrokerKind(f) PROVE KeptFor(x)'
  <2>1. /\ UNCHANGED <<conn, up, pc, on, slot, waiters, pushed, replies, messages>>
        /\ f \in Entries(out) /\ Entries(out') \subseteq Entries(out)
    BY <1>4 DEF BrokerKind
  <2>2. KeptFor(x)
    BY <1>0, <2>1 DEF Waits, Live
  <2>3. box' = box \/ (f[1] = "ack" /\ box' = box \ {f[2]})
    BY <1>4 DEF BrokerKind
  <2> QED BY <2>1, <2>2, <2>3 DEF KeptFor
<1>5. CASE Disconnect
  BY <1>5 DEF Disconnect, Waits, Live
<1>6. CASE Reconnect
  <2>1. conn' = conn + 1 /\ on' = on /\ on[x] <= conn /\ conn \in Int /\ on[x] \in Int
    BY <1>6, MuxAssumption DEF Reconnect, PushInv, ConnType, CallType, Conn
  <2>2. ~Live(on[x])'
    BY <2>1 DEF Live
  <2> QED BY <2>2 DEF Waits
<1>7. ASSUME NEW r \in Req, NEW q \in Quality, Answer(r, q) PROVE KeptFor(x)'
  <2>1. /\ UNCHANGED <<conn, up, pc, on, slot, waiters, pushed, messages, out>>
        /\ replies' = replies \cup {<<r, q>>} /\ box' = box \cup {<<r, q>>}
    BY <1>7 DEF Answer
  <2>2. KeptFor(x)
    BY <1>0, <2>1 DEF Waits, Live
  <2> QED BY <2>1, <2>2 DEF KeptFor
<1>8. ASSUME NEW m \in box, Push(m) PROVE KeptFor(x)'
  <2>1. /\ UNCHANGED <<conn, up, pc, on, slot, waiters, out, replies, box>>
        /\ messages' = Read(messages, m) /\ m \notin pushed /\ pushed' = pushed \cup {m}
    BY <1>8 DEF Push
  <2>2. KeptFor(x)
    BY <1>0, <2>1 DEF Waits, Live
  <2>3. m \in Reply /\ messages \in [Conn -> Seq(Reply)] /\ conn \in Conn
    BY DEF ConnType, WireType
  <2>4. Entries(messages'[conn]) \subseteq Entries(messages[conn]) \cup {m}
    BY <2>1, <2>3, ReadFacts
  <2>5. slot[x] \in Reply => slot[x] # m
    BY <2>1, <2>2, Distinguished DEF KeptFor, SlotInv
  <2> QED BY <2>1, <2>2, <2>4, <2>5 DEF KeptFor
<1>9. CASE UNCHANGED vars
  BY <1>0, <1>9 DEF vars, Waits, Live, KeptFor
<1> QED BY <1>1, <1>2, <1>3, <1>4, <1>5, <1>6, <1>7, <1>8, <1>9, RouteKinds, BrokerKinds
        DEF Next, CallStep

\* KeepInv of all calls.
LEMMA StepKeep ==
  ASSUME ConnType, WireType, CallType, SlotInv, AckInv, AnswerInv, PushInv, KeepInv, [Next]_vars
  PROVE  KeepInv'
BY KeepStep DEF KeepInv, Waits, KeptFor

-----------------------------------------------------------------------------
(* The theorems. *)

\* The first state satisfies the invariant.
LEMMA InitInv == ASSUME Init PROVE IInv
<1>1. 1 \in Conn /\ None \notin Reply \cup {Closed, Dropped} /\ 0 \in 0..MaxFaults
      /\ None \notin {"ok", "rejected", "malformed"}
  BY MuxAssumption DEF Conn
<1>2. ConnType
  BY <1>1 DEF Init, ConnType
<1>3. WireType
  BY DEF Init, WireType
<1>4. CallType
  BY <1>1 DEF Init, CallType, CallPc, Outcome
<1>5. \A c \in Conn : messages[c] = <<>> /\ acks[c] = <<>>
  BY DEF Init
<1>6. out = <<>> /\ Entries(out) = {}
  BY EmptyEntries DEF Init
<1>7. \A c \in Conn : Entries(messages[c]) = {} /\ Entries(acks[c]) = {} /\ Distinct(messages[c])
  BY <1>5, EmptyEntries
<1>8. SlotInv /\ CancelInv
  BY <1>1, Distinguished DEF Init, SlotInv, CancelInv, CancelJustified, Waiting
<1>9. AckInv
  BY <1>1, <1>6, <1>7 DEF Init, AckInv, MalformedKept, OkMeansConsumed
<1>10. AnswerInv /\ KeepInv
  BY <1>6 DEF Init, AnswerInv, KeepInv, Waiting
<1>11. PushInv
  BY <1>1, <1>5, <1>7 DEF Init, PushInv
<1> QED BY <1>2, <1>3, <1>4, <1>8, <1>9, <1>10, <1>11, TypeParts DEF IInv

\* The invariant holds always, with any losses, refusals and reconnections.
THEOREM InvCorrect == Spec => []IInv
<1>1. Init => IInv
  BY InitInv
<1>2. IInv /\ [Next]_vars => IInv'
  <2> SUFFICES ASSUME IInv, [Next]_vars PROVE IInv'
    OBVIOUS
  <2>1. ConnType /\ WireType /\ CallType
    BY TypeParts DEF IInv
  <2>2. TypeOK' /\ QueueType'
    BY <2>1, StepType, TypePartsNext DEF IInv
  <2> QED BY <2>1, <2>2, StepSlot, StepAck, StepCancel, StepAnswer, StepPush, StepKeep DEF IInv
<1> QED BY <1>1, <1>2, PTL DEF Spec

\* The types hold, and a lock is held by a call that is where it needs it.
THEOREM TypeCorrect == Spec => []TypeOK
<1>1. IInv => TypeOK
  BY DEF IInv
<1> QED BY <1>1, InvCorrect, PTL

\* A call that succeeds has the reply of its target, and the broker has consumed it.
THEOREM OkCorrect == Spec => []OkMeansConsumed
<1>1. IInv => OkMeansConsumed
  BY DEF IInv, AckInv
<1> QED BY <1>1, InvCorrect, PTL

\* The reply of a call that waits on a live connection is in the mailbox until the call
\* acknowledges it: the router does not retire it.
THEOREM LiveCorrect == Spec => []LiveReplyKept
<1>1. IInv => LiveReplyKept
  BY DEF IInv, KeepInv, LiveReplyKept, Good
<1> QED BY <1>1, InvCorrect, PTL

\* A reply that does not parse stays in the mailbox, whatever happens to its request.
THEOREM MalformedCorrect == Spec => []MalformedKept
<1>1. IInv => MalformedKept
  BY DEF IInv, AckInv
<1> QED BY <1>1, InvCorrect, PTL

\* No Cancel is sent for a call that was rejected or has its reply.
THEOREM CancelCorrect == Spec => []CancelJustified
<1>1. IInv => CancelJustified
  BY DEF IInv, CancelInv
<1> QED BY <1>1, InvCorrect, PTL

-----------------------------------------------------------------------------
(* The client implements RequestReply. *)

Phases == [r \in Req |-> Phase(r)]
callState == <<Phases, result, cancelled, replies, box>>

\* A step of one call changes the phase of that call.
LEMMA AlonePhases ==
  ASSUME NEW r \in Req, Alone(r)
  PROVE  /\ Phases' = [Phases EXCEPT ![r] = Phase(r)']
         /\ Phase(r)' = Phase(r) => Phases' = Phases
<1>1. ASSUME NEW x \in Req, x # r PROVE Phase(x)' = Phase(x)
  <2>1. pc'[x] = pc[x] /\ on'[x] = on[x] /\ conn' = conn /\ up' = up
    BY <1>1 DEF Alone
  <2> QED BY <2>1 DEF Phase, Live
<1> QED BY <1>1 DEF Phases

\* What is written to the target is not taken back.
LEMMA CancelGrows ==
  ASSUME NEW r \in Req, CallStep(r) PROVE cancelled \subseteq cancelled'
<1>1. ASSUME NEW how, Return(r, how) PROVE cancelled \subseteq cancelled'
  BY <1>1 DEF Return, CancelUnanswered
<1>2. CASE Request(r) \/ Timeout(r) \/ TimeoutCancel(r)
  BY <1>2 DEF Request, Timeout, TimeoutCancel
<1>3. CASE DeliverSend(r)
  BY <1>1, <1>3 DEF DeliverSend
<1>4. CASE Receipt(r)
  BY <1>1, <1>4 DEF Receipt
<1>5. CASE TakeReply(r)
  BY <1>1, <1>5 DEF TakeReply
<1>6. CASE AckSend(r)
  BY <1>1, <1>6 DEF AckSend
<1>7. CASE AckResult(r)
  BY <1>1, <1>7 DEF AckResult
<1>8. CASE Finish(r)
  BY <1>1, <1>8 DEF Finish
<1> QED BY <1>2, <1>3, <1>4, <1>5, <1>6, <1>7, <1>8 DEF CallStep, Own

\* The steps of a call: it begins, accepts its reply, is lost, is cancelled or ends.
LEMMA CallRefines ==
  ASSUME IInv, ConnType, WireType, CallType, CallType', NEW r \in Req, CallStep(r)
  PROVE  Exchange!Next \/ UNCHANGED callState
<1>0. CallKind(r) /\ Alone(r) /\ SlotInv /\ AckInv /\ CancelInv /\ KeepInv
  BY CallKinds DEF IInv
<1>1. UNCHANGED <<conn, up, replies, box>>
  BY <1>0 DEF Alone
<1>2. /\ Phases' = [Phases EXCEPT ![r] = Phase(r)']
      /\ Phase(r)' = Phase(r) => Phases' = Phases
      /\ Phases[r] = Phase(r)
  BY <1>0, AlonePhases DEF Phases
<1>r. result'[r] = result[r] => result' = result
  BY <1>0 DEF Alone, CallType
<1>s. cancelled \subseteq Req /\ cancelled' \subseteq Req /\ cancelled \subseteq cancelled'
  BY CancelGrows DEF CallType
<1>t. \A x \in Req \ {r} : x \in cancelled' <=> x \in cancelled
  BY <1>0 DEF Alone
<1>c. (r \in cancelled' <=> r \in cancelled) => cancelled' = cancelled
  BY <1>s, <1>t
<1>v. cancelled' = cancelled \/ cancelled' = cancelled \cup {r}
  <2>1. CASE r \in cancelled'
    <3>1. \A x : x \in cancelled' <=> x \in cancelled \cup {r}
      BY <1>s, <1>t, <2>1
    <3> QED BY <3>1
  <2>2. CASE r \notin cancelled'
    BY <1>s, <1>c, <2>2
  <2> QED BY <2>1, <2>2
<1>3. CASE Begins(r)
  <2>1. Phase(r) = "idle" /\ Phase(r)' \in {"open", "over"}
    BY <1>3 DEF Begins, Phase, Waiting
  <2>2. Exchange!Call(r)
    BY <1>1, <1>2, <1>3, <1>c, <1>r, <2>1 DEF Begins, Exchange!Call, Exchange!Goes, Phases
  <2> QED BY <2>2 DEF Exchange!Next
<1>4. CASE GoesOn(r) \/ Takes(r)
  <2>0. /\ pc[r] \in Waiting /\ pc'[r] \in Waiting /\ on'[r] = on[r]
        /\ result' = result /\ cancelled' = cancelled
    BY <1>4, <1>c, <1>r DEF GoesOn, Takes, Stays, Waiting
  <2>1. Live(on[r])' <=> Live(on[r])
    BY <1>1, <2>0 DEF Live
  <2>3. CASE Live(on[r]) /\ pc[r] = "acklock" /\ pc'[r] = "acking"
    <3>1. Phase(r) = "open" /\ Phase(r)' = "answered"
      BY <2>0, <2>1, <2>3 DEF Phase, Waiting
    <3>2. Good(r) \in box
      <4>1. slot[r] = Good(r) /\ Good(r) \in Reply
        BY <1>0, <2>3, Distinguished DEF SlotInv
      <4>2. Good(r) \in replies
        BY <1>0, <4>1 DEF SlotInv
      <4> QED BY <1>0, <2>0, <2>3, <4>2 DEF KeepInv
    <3>3. Exchange!Accept(r)
      BY <1>1, <1>2, <2>0, <3>1, <3>2 DEF Exchange!Accept, Exchange!Goes, Phases, Good
    <3> QED BY <3>3 DEF Exchange!Next
  <2>4. CASE ~(Live(on[r]) /\ pc[r] = "acklock" /\ pc'[r] = "acking")
    <3>1. Live(on[r]) => (pc[r] = "acking" <=> pc'[r] = "acking")
      BY <1>4, <2>4 DEF GoesOn, Takes
    <3>2. Phase(r)' = Phase(r)
      BY <2>0, <2>1, <3>1 DEF Phase, Waiting
    <3> QED BY <1>1, <1>2, <2>0, <3>2 DEF callState
  <2> QED BY <2>3, <2>4
<1>5. CASE IsLate(r)
  <2>1. Phase(r) # "idle" /\ Phase(r)' = "over" /\ result' = result /\ cancelled' = cancelled
    BY <1>5, <1>c, <1>r DEF IsLate, Stays, Phase, Waiting
  <2>2. Phases' = [x \in Req |-> IF x \in {r} THEN "over" ELSE Phases[x]]
    BY <1>2, <2>1 DEF Phases
  <2>3. Exchange!Lose({r})
    BY <1>1, <1>2, <2>1, <2>2 DEF Exchange!Lose, Phases
  <2> QED BY <2>3 DEF Exchange!Next
<1>6. CASE Cancels(r)
  <2>1. Phase(r) = "over" /\ Phase(r)' = "over" /\ result' = result
    BY <1>6, <1>r DEF Cancels, Phase, Waiting
  <2>2. result[r] = None
    BY <1>0, <1>6 DEF Cancels, CancelInv
  <2>4. CASE cancelled' = cancelled
    BY <1>1, <1>2, <2>1, <2>4 DEF callState
  <2>5. CASE cancelled' = cancelled \cup {r}
    <3>1. Exchange!Cancel(r)
      BY <1>1, <1>2, <2>1, <2>2, <2>5 DEF Exchange!Cancel, Phases
    <3> QED BY <3>1 DEF Exchange!Next
  <2> QED BY <1>v, <2>4, <2>5
<1>7. CASE Ends(r)
  <2> DEFINE how == result'[r]
  <2>1. Phase(r) # "idle" /\ Phase(r)' = "over" /\ result[r] = None
    BY <1>0, <1>7 DEF Ends, Phase, Waiting, CancelInv
  <2>2. result' = [result EXCEPT ![r] = how]
    BY <1>0 DEF Alone, CallType
  <2>3. \/ how \in Exchange!Answers /\ r \notin cancelled /\ cancelled' = cancelled
        \/ how \in Exchange!Failures /\ cancelled' \in {cancelled, cancelled \cup {r}}
    <3>1. CASE how \in {"transport", "timeout", "dropped"}
      BY <1>v, <3>1 DEF Exchange!Failures
    <3>2. CASE /\ how \in {"ok", "rejected", "malformed"} /\ pc[r] \in Waiting
               /\ (r \in cancelled' <=> r \in cancelled)
      <4>1. r \notin cancelled
        BY <1>0, <3>2 DEF CancelInv, Waiting
      <4> QED BY <1>c, <3>2, <4>1 DEF Exchange!Answers
    <3> QED BY <1>7, <3>1, <3>2 DEF Ends
  <2>4. how = "ok" => Good(r) \in replies \ box
    <3>1. ASSUME how = "ok" PROVE Good(r) \in replies \ box
      <4>1. PICK x \in Entries(acks[on[r]]) : x.accepted /\ x.id = slot[r] /\ pc[r] = "acking"
        BY <1>7, <3>1 DEF Ends
      <4>2. x.id \in replies \ box
        BY <1>0, <4>1 DEF AckInv, CallType
      <4> QED BY <1>0, <4>1, <4>2 DEF SlotInv
    <3> QED BY <3>1
  <2>5. how = "malformed" => <<r, "bad">> \in replies
    <3>1. ASSUME how = "malformed" PROVE <<r, "bad">> \in replies
      <4>1. slot[r] \in Reply /\ slot[r][2] = "bad"
        BY <1>7, <3>1 DEF Ends
      <4>2. slot[r] \in replies /\ slot[r] = <<r, "bad">>
        BY <1>0, <4>1, ReplyFacts DEF SlotInv
      <4> QED BY <4>2
    <3> QED BY <3>1
  <2>6. how \in Exchange!Answers \cup Exchange!Failures
    BY <2>3
  <2> HIDE DEF how
  <2>7. Exchange!End(r, how)
    BY <1>1, <1>2, <2>1, <2>2, <2>3, <2>4, <2>5 DEF Exchange!End, Exchange!Goes, Phases, Good
  <2> QED BY <2>6, <2>7 DEF Exchange!Next
<1> QED BY <1>0, <1>3, <1>4, <1>5, <1>6, <1>7 DEF CallKind

\* The other steps: a reply is made or consumed, or a connection is lost.
LEMMA StepRefines ==
  ASSUME IInv, [Next]_vars PROVE Exchange!Next \/ UNCHANGED callState
<1> USE DEF callVars, queueVars, connVars, boxVars
<1>0. ConnType /\ WireType /\ CallType /\ CallType'
  BY StepType, TypeParts DEF IInv
<1>s. UNCHANGED <<conn, up, pc, on>> => Phases' = Phases
  BY DEF Phases, Phase, Live
<1>1. ASSUME NEW r \in Req, CallStep(r) PROVE Exchange!Next \/ UNCHANGED callState
  BY <1>0, <1>1, CallRefines
<1>2. ASSUME NEW c \in Conn, NEW m, RouteKind(c, m) PROVE UNCHANGED callState
  BY <1>2, <1>s DEF RouteKind, callState
<1>3. ASSUME NEW c \in Conn, RouterExit(c) PROVE UNCHANGED callState
  BY <1>3, <1>s DEF RouterExit, callState
<1>4. ASSUME NEW f, BrokerKind(f) PROVE Exchange!Next \/ UNCHANGED callState
  <2>1. UNCHANGED <<Phases, result, cancelled, replies>> /\ f \in Entries(out)
    BY <1>4, <1>s DEF BrokerKind
  <2>2. CASE box' = box
    BY <2>1, <2>2 DEF callState
  <2>3. CASE f[1] = "ack" /\ box' = box \ {f[2]}
    <3>1. f[2] \in replies /\ f[2][2] # "bad" /\ f[2] \in Reply
      BY <1>0, <2>1, <2>3 DEF IInv, AckInv, ConnType
    <3>2. f[2][1] \in Req /\ (f[2][2] = "good" => f[2] = Good(f[2][1]))
      BY <3>1, ReplyFacts DEF Good
    <3>3. f[2][2] = "good" => Phase(f[2][1]) \in {"answered", "over"}
      <4>1. pc[f[2][1]] # "idle"
        BY <3>1, <3>2 DEF IInv, AnswerInv
      <4>2. f[2][2] = "good" => ~(Live(on[f[2][1]]) /\ pc[f[2][1]] \in Waiting \ {"acking"})
        BY <2>1, <2>3, <3>2 DEF IInv, KeepInv
      <4> QED BY <4>1, <4>2 DEF Phase
    <3>4. Exchange!Consume(f[2])
      BY <2>1, <2>3, <3>1, <3>2, <3>3 DEF Exchange!Consume, Phases
    <3> QED BY <3>1, <3>4 DEF Exchange!Next
  <2> QED BY <1>4, <2>2, <2>3 DEF BrokerKind
<1>5. CASE Disconnect
  <2>1. UNCHANGED <<pc, on, conn, result, cancelled, replies, box>> /\ up' = FALSE
    BY <1>5 DEF Disconnect
  <2> DEFINE lost == {r \in Req : pc[r] # "idle"}
  <2>2. Phases' = [r \in Req |-> IF r \in lost THEN "over" ELSE Phases[r]]
    <3>1. ASSUME NEW r \in Req PROVE Phase(r)' = IF r \in lost THEN "over" ELSE Phase(r)
      BY <2>1 DEF Phase, Live
    <3> QED BY <3>1 DEF Phases
  <2>3. \A r \in lost : Phases[r] # "idle"
    BY DEF Phases, Phase
  <2>4. Exchange!Lose(lost)
    BY <2>1, <2>2, <2>3 DEF Exchange!Lose, Phases
  <2>5. lost \in SUBSET Req
    OBVIOUS
  <2> HIDE DEF lost
  <2> QED BY <2>4, <2>5 DEF Exchange!Next
<1>6. CASE Reconnect
  <2>1. UNCHANGED <<pc, on, result, cancelled, replies, box>> /\ ~up /\ conn' = conn + 1
    BY <1>6 DEF Reconnect
  <2>2. ASSUME NEW r \in Req PROVE ~Live(on[r]) /\ ~Live(on[r])'
    <3>1. on[r] <= conn /\ conn \in Int /\ on[r] \in Int
      BY <1>0, MuxAssumption DEF IInv, PushInv, ConnType, CallType, Conn
    <3> QED BY <2>1, <3>1 DEF Live
  <2>3. Phases' = Phases
    BY <2>1, <2>2 DEF Phases, Phase
  <2> QED BY <2>1, <2>3 DEF callState
<1>7. ASSUME NEW r \in Req, NEW q \in Quality, Answer(r, q) PROVE Exchange!Next
  <2>1. UNCHANGED <<Phases, result, cancelled>>
    BY <1>7, <1>s DEF Answer
  <2>2. Phase(r) # "idle"
    BY <1>7 DEF Answer, Phase, IInv, AnswerInv
  <2>3. Exchange!Answer(r, q)
    BY <1>7, <2>1, <2>2 DEF Answer, Exchange!Answer, Phases
  <2> QED BY <2>3 DEF Exchange!Next, Quality
<1>8. ASSUME NEW m \in box, Push(m) PROVE UNCHANGED callState
  BY <1>8, <1>s DEF Push, callState
<1>9. CASE UNCHANGED vars
  BY <1>9, <1>s DEF vars, callState
<1> QED BY <1>0, <1>1, <1>2, <1>3, <1>4, <1>5, <1>6, <1>7, <1>8, <1>9, RouteKinds, BrokerKinds
        DEF Next, CallStep, IInv

\* Refinement: every behaviour of the client, with any losses, refusals, deadlines and
\* reconnections, is one of RequestReply.
THEOREM ExchangeCorrect == Spec => ImplementsRequestReply
<1>1. Init => Exchange!Init
  BY DEF Init, Exchange!Init, Phase
<1>2. IInv /\ [Next]_vars => [Exchange!Next]_(Exchange!vars)
  BY StepRefines DEF callState, Phases, Exchange!vars
<1> QED BY <1>1, <1>2, InvCorrect, PTL DEF Spec, ImplementsRequestReply, Exchange!Spec
=============================================================================
