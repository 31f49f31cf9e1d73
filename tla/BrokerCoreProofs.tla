-------------------------- MODULE BrokerCoreProofs --------------------------
(***************************************************************************)
(* Proofs about BrokerCore for any set of messages, senders and            *)
(* connections, any number of I/O errors and crashes, with or without GC.  *)
(***************************************************************************)
EXTENDS BrokerCore, FiniteSetTheorems, TLAPS

USE DEF disk, table, ctr, local, hist, bound, Goto

SenderLabel == {"idle", "lookup", "scanNew", "scanCur", "seed", "write", "rename",
                "count", "push", "list", "claim", "send"}
ConnLabel == {"idle", "lookup", "scanNew", "scanCur", "seed", "remove", "decr",
              "recover", "resend", "list", "claim", "send", "live", "closed"}

\* What the type invariant rests on: a handler that is at a label has the
\* locals that label reads.
LocalsOK ==
  /\ \A s \in Sender : pc[s] \in SenderLabel
  /\ \A c \in Conn : pc[c] \in ConnLabel
  /\ \A s \in Sender : pc[s] # "idle" => msg[s] \in Msg
  /\ \A s \in Sender : pc[s] \in {"list", "claim", "send"} => sink[s] \in Conn
  /\ \A c \in Conn : pc[c] = "idle" => sink[c] = None
  /\ \A c \in Conn : sink[c] \in {None, c}
  /\ \A c \in Conn : pc[c] \in {"recover", "resend", "list", "claim", "send", "live"}
                       => sink[c] = c

TypeInv == TypeOK /\ LocalsOK

\* Cardinalities of the Maildir directories are natural numbers.
LEMMA PendingIsNat ==
  ASSUME TypeOK
  PROVE  Cardinality(new) \in Nat /\ Cardinality(cur) \in Nat
<1>1. IsFiniteSet(new) /\ IsFiniteSet(cur)
  BY FS_Subset, MsgAssumption DEF TypeOK, DiskOK
<1> QED BY <1>1, FS_CardinalityType

LEMMA InitTypeInv == Init => TypeInv
<1> SUFFICES ASSUME Init PROVE TypeInv
  OBVIOUS
<1> USE MsgAssumption, KindAssumption, ProcAssumption
        DEF Init, Label, SenderLabel, ConnLabel, Proc
<1>1. DiskOK
  BY DEF DiskOK
<1>2. TablesOK
  BY DEF TablesOK
<1>3. HandlersOK
  BY DEF HandlersOK
<1>4. HistoryOK
  BY DEF HistoryOK
<1>5. LocalsOK
  BY DEF LocalsOK
<1> QED BY <1>1, <1>2, <1>3, <1>4, <1>5 DEF TypeInv, TypeOK

LEMMA NextTypeInv == TypeInv /\ [Next]_vars => TypeInv'
<1> SUFFICES ASSUME TypeInv, [Next]_vars PROVE TypeInv'
  OBVIOUS
<1> USE MsgAssumption, KindAssumption, ProcAssumption
        DEF TypeInv, TypeOK, DiskOK, TablesOK, HandlersOK, HistoryOK, LocalsOK, Label, SenderLabel, ConnLabel, Proc
<1>1. ASSUME NEW s \in Sender, Deliver(s) PROVE TypeInv'
  <2>1. ASSUME NEW m \in Msg, DeliverBegin(s, m) PROVE TypeInv'
    <3>1. DiskOK'
      BY <2>1 DEF DeliverBegin
    <3>2. TablesOK'
      BY <2>1 DEF DeliverBegin
    <3>3. HandlersOK'
      BY <2>1 DEF DeliverBegin
    <3>4. HistoryOK'
      BY <2>1 DEF DeliverBegin
    <3>5. LocalsOK'
      BY <2>1 DEF DeliverBegin
    <3> QED BY <3>1, <3>2, <3>3, <3>4, <3>5
  <2>2. CASE DeliverTemp(s)
    BY <2>2 DEF DeliverTemp
  <2>3. CASE DeliverRename(s)
    <3>0. msg[s] \in Msg /\ new' \subseteq new \cup {msg[s]} /\ tmp' \subseteq tmp
          /\ raced' \subseteq raced \cup {msg[s]}
      BY <2>3 DEF DeliverRename
    <3>1. DiskOK'
      BY <2>3, <3>0 DEF DeliverRename
    <3>2. TablesOK'
      BY <2>3 DEF DeliverRename
    <3>3. HandlersOK'
      BY <2>3 DEF DeliverRename
    <3>4. HistoryOK'
      BY <2>3, <3>0 DEF DeliverRename
    <3>5. LocalsOK'
      BY <2>3 DEF DeliverRename
    <3> QED BY <3>1, <3>2, <3>3, <3>4, <3>5
  <2>4. CASE DeliverCount(s)
    BY <2>4 DEF DeliverCount
  <2>5. CASE PushNew(s)
    <3>1. DiskOK'
      BY <2>5 DEF PushNew
    <3>2. TablesOK'
      BY <2>5 DEF PushNew
    <3>3. HandlersOK'
      BY <2>5 DEF PushNew
    <3>4. HistoryOK'
      <4>1. msg[s] \in Msg /\ receipted' \subseteq receipted \cup {msg[s]}
        BY <2>5 DEF PushNew
      <4> QED BY <2>5, <4>1 DEF PushNew
    <3>5. LocalsOK'
      BY <2>5 DEF PushNew
    <3> QED BY <3>1, <3>2, <3>3, <3>4, <3>5
  <2>6. CASE DeliverDone(s)
    <3>1. DiskOK'
      BY <2>6 DEF DeliverDone
    <3>2. TablesOK'
      BY <2>6 DEF DeliverDone
    <3>3. HandlersOK'
      BY <2>6 DEF DeliverDone
    <3>4. HistoryOK'
      <4>1. msg[s] \in Msg /\ receipted' \subseteq receipted \cup {msg[s]}
        BY <2>6 DEF DeliverDone
      <4> QED BY <2>6, <4>1 DEF DeliverDone
    <3>5. LocalsOK'
      BY <2>6 DEF DeliverDone
    <3> QED BY <3>1, <3>2, <3>3, <3>4, <3>5
  <2>7. CASE DeliverFail(s)
    BY <2>7 DEF DeliverFail
  <2> QED BY <1>1, <2>1, <2>2, <2>3, <2>4, <2>5, <2>6, <2>7 DEF Deliver
<1>2. ASSUME NEW c \in Conn, Subscribe(c) PROVE TypeInv'
  <2>1. CASE SubscribeInsert(c)
    <3>1. DiskOK'
      BY <2>1 DEF SubscribeInsert
    <3>2. TablesOK'
      BY <2>1 DEF SubscribeInsert
    <3>3. HandlersOK'
      BY <2>1 DEF SubscribeInsert
    <3>4. HistoryOK'
      BY <2>1 DEF SubscribeInsert
    <3>5. LocalsOK'
      BY <2>1 DEF SubscribeInsert
    <3> QED BY <3>1, <3>2, <3>3, <3>4, <3>5
  <2>2. CASE Recover(c)
    BY <2>2 DEF Recover
  <2>3. CASE RecoverDone(c)
    BY <2>3 DEF RecoverDone
  <2>4. CASE SubscribePublish(c)
    <3>1. DiskOK'
      BY <2>4 DEF SubscribePublish
    <3>2. TablesOK'
      BY <2>4 DEF SubscribePublish
    <3>3. HandlersOK'
      BY <2>4 DEF SubscribePublish
    <3>4. HistoryOK'
      BY <2>4 DEF SubscribePublish
    <3>5. LocalsOK'
      BY <2>4 DEF SubscribePublish
    <3> QED BY <3>1, <3>2, <3>3, <3>4, <3>5
  <2>5. CASE SubscribeFail(c)
    <3>1. DiskOK'
      BY <2>5 DEF SubscribeFail, UnsubscribeIfOwner, CanFail
    <3>2. TablesOK'
      <4>1. sub' \in Conn \cup {None} /\ observed' \in BOOLEAN
        BY <2>5, Zenon DEF SubscribeFail, UnsubscribeIfOwner
      <4> QED BY <2>5, <4>1 DEF SubscribeFail
    <3>3. HandlersOK'
      BY <2>5 DEF SubscribeFail, UnsubscribeIfOwner, CanFail
    <3>4. HistoryOK'
      BY <2>5 DEF SubscribeFail, UnsubscribeIfOwner, CanFail
    <3>5. LocalsOK'
      BY <2>5 DEF SubscribeFail, UnsubscribeIfOwner, CanFail
    <3> QED BY <3>1, <3>2, <3>3, <3>4, <3>5
  <2>6. CASE Close(c)
    BY <2>6 DEF Close, UnsubscribeIfOwner
  <2> QED BY <1>2, <2>1, <2>2, <2>3, <2>4, <2>5, <2>6 DEF Subscribe
<1>3. ASSUME NEW c \in Conn, Consume(c) PROVE TypeInv'
  <2>1. ASSUME NEW m \in Msg, Forward(c, m) PROVE TypeInv'
    BY <2>1 DEF Forward
  <2>2. ASSUME NEW m \in Msg, AckBegin(c, m) PROVE TypeInv'
    BY <2>2 DEF AckBegin
  <2>3. CASE AckUnseeded(c)
    BY <2>3 DEF AckUnseeded
  <2>4. CASE AckRemove(c)
    <3>0. cur' \subseteq cur /\ acked' \subseteq acked \cup cur
      BY <2>4 DEF AckRemove, AckReturn
    <3>1. DiskOK'
      BY <2>4, <3>0 DEF AckRemove
    <3>2. TablesOK'
      BY <2>4 DEF AckRemove, AckReturn
    <3>3. HandlersOK'
      BY <2>4 DEF AckRemove, AckReturn
    <3>4. HistoryOK'
      BY <2>4, <3>0 DEF AckRemove
    <3>5. LocalsOK'
      BY <2>4 DEF AckRemove, AckReturn
    <3> QED BY <3>1, <3>2, <3>3, <3>4, <3>5
  <2>5. CASE AckDecrement(c)
    BY <2>5 DEF AckDecrement, AckReturn
  <2> QED BY <1>3, <2>1, <2>2, <2>3, <2>4, <2>5 DEF Consume
<1>4. ASSUME NEW p \in Proc, CountAndDrain(p) PROVE TypeInv'
  <2>1. CASE Lookup(p)
    BY <2>1 DEF Lookup, AfterCount
  <2>2. CASE ScanNew(p)
    BY <2>2, PendingIsNat DEF ScanNew
  <2>3. CASE ScanCur(p)
    BY <2>3, PendingIsNat DEF ScanCur
  <2>4. CASE Seed(p)
    BY <2>4 DEF Seed, AfterCount
  <2>5. CASE DrainList(p)
    BY <2>5 DEF DrainList
  <2>6. CASE DrainClaim(p)
    <3>1. DiskOK'
      <4>1. new' \subseteq new /\ cur' \subseteq cur \cup new /\ corrupt' \subseteq corrupt \cup new
        BY <2>6 DEF DrainClaim
      <4> QED BY <2>6, <4>1 DEF DrainClaim
    <3>2. TablesOK'
      BY <2>6 DEF DrainClaim
    <3>3. HandlersOK'
      BY <2>6 DEF DrainClaim
    <3>4. HistoryOK'
      BY <2>6 DEF DrainClaim
    <3>5. LocalsOK'
      BY <2>6 DEF DrainClaim
    <3> QED BY <3>1, <3>2, <3>3, <3>4, <3>5
  <2>7. CASE DrainClaimed(p)
    BY <2>7 DEF DrainClaimed
  <2>8. CASE Route(p)
    <3>1. DiskOK'
      BY <2>8, PendingIsNat DEF Route, RouteFenced, RoutePlain, Observation
    <3>2. TablesOK'
      <4>1. seeded' \in BOOLEAN
        BY <2>8, Zenon DEF Route, RouteFenced, RoutePlain
      <4>2. count' \in Nat
        BY <2>8, PendingIsNat DEF Route, RouteFenced, RoutePlain
      <4> QED BY <2>8, <4>1, <4>2 DEF Route
    <3>3. HandlersOK'
      BY <2>8, PendingIsNat DEF Route, RouteFenced, RoutePlain, Observation
    <3>4. HistoryOK'
      <4>1. sink[p] \in Conn
        BY <2>8 DEF Route
      <4>2. PICK m \in Msg : \/ RouteFenced(p, m) \/ RoutePlain(p, m)
                             \/ UNCHANGED <<pushed, retired>>
        BY <2>8 DEF Route
      <4>3. pushed' \subseteq pushed \cup (Conn \X {m})
        BY <4>1, <4>2 DEF RouteFenced, RoutePlain
      <4>4. retired' \subseteq retired \cup {m}
        BY <4>2 DEF RouteFenced, RoutePlain
      <4>5. pushed' \subseteq Conn \X Msg
        <5>1. Conn \X {m} \subseteq Conn \X Msg
          OBVIOUS
        <5> QED BY <4>3, <5>1 DEF HistoryOK
      <4> QED BY <2>8, <4>4, <4>5 DEF Route
    <3>5. LocalsOK'
      BY <2>8, PendingIsNat DEF Route, RouteFenced, RoutePlain, Observation
    <3> QED BY <3>1, <3>2, <3>3, <3>4, <3>5
  <2> QED BY <1>4, <2>1, <2>2, <2>3, <2>4, <2>5, <2>6, <2>7, <2>8 DEF CountAndDrain
<1>5. CASE Gc
  <2>1. CASE GcSnapshot \/ GcScan \/ GcRecheckSub \/ GcRecheckEmpty
    <3>1. UNCHANGED <<disk, table, ctr, pc, local, hist, bound>>
      BY <2>1 DEF GcStep, GcSnapshot, GcScan, GcRecheckSub, GcRecheckEmpty
    <3>2. gcpc' \in {"idle", "scan", "recheckSub", "recheckEmpty", "remove"}
      BY <2>1, Zenon DEF GcStep, GcSnapshot, GcScan, GcRecheckSub, GcRecheckEmpty
    <3> QED BY <3>1, <3>2
  <2>2. CASE GcRemove
    BY <2>2 DEF GcRemove
  <2>3. CASE GcForget
    BY <2>3 DEF GcForget
  <2> QED BY <1>5, <2>1, <2>2, <2>3 DEF Gc
<1>6. CASE Crash
  <2>1. DiskOK'
    BY <1>6 DEF Crash
  <2>2. TablesOK'
    <3>1. observed' \in BOOLEAN /\ seeded' \in BOOLEAN
      BY <1>6, Zenon DEF Crash
    <3> QED BY <1>6, <3>1 DEF Crash
  <2>3. HandlersOK'
    BY <1>6 DEF Crash
  <2>4. HistoryOK'
    BY <1>6 DEF Crash
  <2>5. LocalsOK'
    BY <1>6 DEF Crash
  <2> QED BY <2>1, <2>2, <2>3, <2>4, <2>5
<1>7. CASE UNCHANGED vars
  BY <1>7 DEF vars
<1> QED BY <1>1, <1>2, <1>3, <1>4, <1>5, <1>6, <1>7 DEF Next

\* Every reachable state of the mailbox is well typed: in particular the
\* pending counter never goes below zero and only named sinks are pushed to.
THEOREM TypeCorrect == Spec => []TypeOK
<1>1. TypeInv => TypeOK
  BY DEF TypeInv
<1> QED BY InitTypeInv, NextTypeInv, <1>1, PTL DEF Spec

-----------------------------------------------------------------------------
(* Messages are delivered once, fenced, claimed and kept. *)

\* A message is handed to deliver by one sender, once.
SentInv ==
  /\ new \cup cur \cup receipted \cup retired \subseteq sent
  /\ \A p \in Proc : claimed[p] \subseteq sent
  /\ \A c \in Conn, m \in Msg : <<c, m>> \in pushed => m \in sent
  /\ \A s \in Sender : pc[s] # "idle" => msg[s] \in sent \ receipted
  /\ \A s, t \in Sender :
       s # t /\ pc[s] # "idle" /\ pc[t] # "idle" => msg[s] # msg[t]

LEMMA InitSentInv == Init => SentInv
BY ProcAssumption DEF Init, SentInv, Proc

LEMMA NextSentInv == TypeInv /\ SentInv /\ [Next]_vars => SentInv'
<1> SUFFICES ASSUME TypeInv, SentInv, [Next]_vars PROVE SentInv'
  OBVIOUS
<1>0. HandlersOK /\ DiskOK
  BY DEF TypeInv, TypeOK
<1> USE <1>0, ProcAssumption DEF SentInv, HandlersOK, DiskOK, Proc
<1>1. ASSUME NEW s \in Sender, Deliver(s) PROVE SentInv'
  <2>1. ASSUME NEW m \in Msg, DeliverBegin(s, m) PROVE SentInv'
    BY <2>1 DEF DeliverBegin
  <2>2. CASE DeliverTemp(s)
    BY <2>2 DEF DeliverTemp
  <2>3. CASE DeliverRename(s)
    BY <2>3 DEF DeliverRename
  <2>4. CASE DeliverCount(s)
    BY <2>4 DEF DeliverCount
  <2>5. CASE PushNew(s)
    BY <2>5 DEF PushNew
  <2>6. CASE DeliverDone(s)
    BY <2>6 DEF DeliverDone
  <2>7. CASE DeliverFail(s)
    BY <2>7 DEF DeliverFail, CanFail
  <2> QED BY <1>1, <2>1, <2>2, <2>3, <2>4, <2>5, <2>6, <2>7 DEF Deliver
<1>2. ASSUME NEW c \in Conn, Subscribe(c) PROVE SentInv'
  <2>1. CASE SubscribeInsert(c)
    BY <2>1 DEF SubscribeInsert
  <2>2. CASE Recover(c)
    BY <2>2 DEF Recover
  <2>3. CASE RecoverDone(c)
    BY <2>3 DEF RecoverDone
  <2>4. CASE SubscribePublish(c)
    BY <2>4 DEF SubscribePublish
  <2>5. CASE SubscribeFail(c)
    BY <2>5 DEF SubscribeFail, CanFail, UnsubscribeIfOwner
  <2>6. CASE Close(c)
    BY <2>6 DEF Close, UnsubscribeIfOwner
  <2> QED BY <1>2, <2>1, <2>2, <2>3, <2>4, <2>5, <2>6 DEF Subscribe
<1>3. ASSUME NEW c \in Conn, Consume(c) PROVE SentInv'
  <2>1. ASSUME NEW m \in Msg, Forward(c, m) PROVE SentInv'
    BY <2>1 DEF Forward
  <2>2. ASSUME NEW m \in Msg, AckBegin(c, m) PROVE SentInv'
    BY <2>2 DEF AckBegin
  <2>3. CASE AckUnseeded(c)
    BY <2>3 DEF AckUnseeded
  <2>4. CASE AckRemove(c)
    BY <2>4 DEF AckRemove, AckReturn
  <2>5. CASE AckDecrement(c)
    BY <2>5 DEF AckDecrement, AckReturn
  <2> QED BY <1>3, <2>1, <2>2, <2>3, <2>4, <2>5 DEF Consume
<1>4. ASSUME NEW p \in Proc, CountAndDrain(p) PROVE SentInv'
  <2>1. CASE Lookup(p)
    BY <2>1 DEF Lookup, AfterCount
  <2>2. CASE ScanNew(p)
    BY <2>2 DEF ScanNew
  <2>3. CASE ScanCur(p)
    BY <2>3 DEF ScanCur
  <2>4. CASE Seed(p)
    BY <2>4 DEF Seed, AfterCount
  <2>5. CASE DrainList(p)
    BY <2>5 DEF DrainList
  <2>6. CASE DrainClaim(p)
    BY <2>6 DEF DrainClaim
  <2>7. CASE DrainClaimed(p)
    BY <2>7 DEF DrainClaimed
  <2>8. CASE Route(p)
    <3>1. PICK m \in Msg :
            /\ m \in claimed[p] /\ claimed' = [claimed EXCEPT ![p] = @ \ {m}]
            /\ \/ m \in Fenced /\ RouteFenced(p, m)
               \/ m \in Plain /\ RoutePlain(p, m)
               \/ m \in Leased /\ UNCHANGED <<cur, seeded, count, pushed, retired>>
      BY <2>8 DEF Route, First
    <3>2. cur' \subseteq cur /\ retired' \subseteq retired \cup {m}
      BY <3>1 DEF RouteFenced, RoutePlain
    <3>3. \A c \in Conn, n \in Msg : <<c, n>> \in pushed' => <<c, n>> \in pushed \/ n = m
      BY <3>1 DEF RouteFenced, RoutePlain
    <3> QED BY <2>8, <3>1, <3>2, <3>3 DEF Route
  <2> QED BY <1>4, <2>1, <2>2, <2>3, <2>4, <2>5, <2>6, <2>7, <2>8 DEF CountAndDrain
<1>5. CASE Gc
  BY <1>5 DEF Gc, GcStep, GcSnapshot, GcScan, GcRecheckSub, GcRecheckEmpty,
              GcRemove, GcForget
<1>6. CASE Crash
  BY <1>6 DEF Crash
<1>7. CASE UNCHANGED vars
  BY <1>7 DEF vars
<1> QED BY <1>1, <1>2, <1>3, <1>4, <1>5, <1>6, <1>7 DEF Next

\* A generation in use is that of a connection that has subscribed, and a
\* connection subscribes once.
FenceInv ==
  /\ sub # None => sink[sub] = sub
  /\ \A m \in Msg : gen[m] \in Conn => sink[gen[m]] = gen[m]
  /\ NoStaleRun

LEMMA InitFenceInv == Init => FenceInv
BY ProcAssumption DEF Init, FenceInv, NoStaleRun, Proc

LEMMA NextFenceInv == TypeInv /\ SentInv /\ FenceInv /\ [Next]_vars => FenceInv'
<1> SUFFICES ASSUME TypeInv, SentInv, FenceInv, [Next]_vars PROVE FenceInv'
  OBVIOUS
<1>0. /\ HandlersOK /\ HistoryOK /\ sub \in Conn \cup {None}
      /\ \A c \in Conn : pc[c] = "idle" => sink[c] = None
      /\ \A c \in Conn, m \in Msg : <<c, m>> \in pushed => m \in sent
      /\ retired \subseteq sent
  BY DEF TypeInv, TypeOK, TablesOK, LocalsOK, SentInv
<1> USE <1>0, ProcAssumption, KindAssumption
        DEF FenceInv, NoStaleRun, HandlersOK, HistoryOK, Proc
<1>1. ASSUME NEW s \in Sender, Deliver(s) PROVE FenceInv'
  <2>1. ASSUME NEW m \in Msg, DeliverBegin(s, m) PROVE FenceInv'
    BY <2>1 DEF DeliverBegin
  <2>2. CASE DeliverTemp(s)
    BY <2>2 DEF DeliverTemp
  <2>3. CASE DeliverRename(s)
    BY <2>3 DEF DeliverRename
  <2>4. CASE DeliverCount(s)
    BY <2>4 DEF DeliverCount
  <2>5. CASE PushNew(s)
    BY <2>5 DEF PushNew
  <2>6. CASE DeliverDone(s)
    BY <2>6 DEF DeliverDone
  <2>7. CASE DeliverFail(s)
    BY <2>7 DEF DeliverFail, CanFail
  <2> QED BY <1>1, <2>1, <2>2, <2>3, <2>4, <2>5, <2>6, <2>7 DEF Deliver
<1>2. ASSUME NEW c \in Conn, Subscribe(c) PROVE FenceInv'
  <2>1. CASE SubscribeInsert(c)
    BY <2>1 DEF SubscribeInsert
  <2>2. CASE Recover(c)
    BY <2>2 DEF Recover
  <2>3. CASE RecoverDone(c)
    BY <2>3 DEF RecoverDone
  <2>4. CASE SubscribePublish(c)
    BY <2>4 DEF SubscribePublish
  <2>5. CASE SubscribeFail(c)
    BY <2>5 DEF SubscribeFail, CanFail, UnsubscribeIfOwner
  <2>6. CASE Close(c)
    BY <2>6 DEF Close, UnsubscribeIfOwner
  <2> QED BY <1>2, <2>1, <2>2, <2>3, <2>4, <2>5, <2>6 DEF Subscribe
<1>3. ASSUME NEW c \in Conn, Consume(c) PROVE FenceInv'
  <2>1. ASSUME NEW m \in Msg, Forward(c, m) PROVE FenceInv'
    BY <2>1 DEF Forward
  <2>2. ASSUME NEW m \in Msg, AckBegin(c, m) PROVE FenceInv'
    BY <2>2 DEF AckBegin
  <2>3. CASE AckUnseeded(c)
    BY <2>3 DEF AckUnseeded
  <2>4. CASE AckRemove(c)
    BY <2>4 DEF AckRemove, AckReturn
  <2>5. CASE AckDecrement(c)
    BY <2>5 DEF AckDecrement, AckReturn
  <2> QED BY <1>3, <2>1, <2>2, <2>3, <2>4, <2>5 DEF Consume
<1>4. ASSUME NEW p \in Proc, CountAndDrain(p) PROVE FenceInv'
  <2>1. CASE Lookup(p)
    BY <2>1 DEF Lookup, AfterCount
  <2>2. CASE ScanNew(p)
    BY <2>2 DEF ScanNew
  <2>3. CASE ScanCur(p)
    BY <2>3 DEF ScanCur
  <2>4. CASE Seed(p)
    BY <2>4 DEF Seed, AfterCount
  <2>5. CASE DrainList(p)
    BY <2>5 DEF DrainList
  <2>6. CASE DrainClaim(p)
    BY <2>6 DEF DrainClaim
  <2>7. CASE DrainClaimed(p)
    BY <2>7 DEF DrainClaimed
  <2>8. CASE Route(p)
    <3>1. PICK m \in Msg :
            /\ m \in claimed[p] /\ claimed' = [claimed EXCEPT ![p] = @ \ {m}]
            /\ \/ m \in Fenced /\ RouteFenced(p, m)
               \/ m \in Plain /\ RoutePlain(p, m)
               \/ m \in Leased /\ UNCHANGED <<cur, seeded, count, pushed, retired>>
      BY <2>8 DEF Route, First
    <3>2. \A c \in Conn, n \in Fenced :
            <<c, n>> \in pushed' => <<c, n>> \in pushed \/ gen[n] = c
      BY <3>1 DEF RouteFenced, RoutePlain, Observation, Plain
    <3>3. \A n \in retired' : n \in retired \/ gen[n] # sub
      BY <3>1 DEF RouteFenced, RoutePlain, Observation
    <3> QED BY <2>8, <3>2, <3>3 DEF Route
  <2> QED BY <1>4, <2>1, <2>2, <2>3, <2>4, <2>5, <2>6, <2>7, <2>8 DEF CountAndDrain
<1>5. CASE Gc
  BY <1>5 DEF Gc, GcStep, GcSnapshot, GcScan, GcRecheckSub, GcRecheckEmpty,
              GcRemove, GcForget
<1>6. CASE Crash
  BY <1>6 DEF Crash
<1>7. CASE UNCHANGED vars
  BY <1>7 DEF vars
<1> QED BY <1>1, <1>2, <1>3, <1>4, <1>5, <1>6, <1>7 DEF Next

\* Who claims a receipted message that is still in new/, and what a sender
\* knows of its own message while it drains.
WakeInv ==
  /\ \A m \in new \cap receipted : sub # None =>
       \/ pc[sub] \in {"recover", "resend", "list"}
       \/ pc[sub] = "claim" /\ m \in todo[sub]
  /\ \A s \in Sender : pc[s] = "claim" /\ msg[s] \in new => msg[s] \in todo[s]
  /\ \A s \in Sender : pc[s] = "send" => msg[s] \notin new

LEMMA InitWakeInv == Init => WakeInv
BY ProcAssumption DEF Init, WakeInv, Proc

LEMMA NextWakeInv == TypeInv /\ SentInv /\ WakeInv /\ [Next]_vars => WakeInv'
<1> SUFFICES ASSUME TypeInv, SentInv, WakeInv, [Next]_vars PROVE WakeInv'
  OBVIOUS
<1>0. /\ HandlersOK /\ sub \in Conn \cup {None} /\ new \subseteq Msg
      /\ \A s \in Sender : pc[s] # "idle" => msg[s] \in Msg \ receipted
      /\ \A s, t \in Sender :
           s # t /\ pc[s] # "idle" /\ pc[t] # "idle" => msg[s] # msg[t]
  BY DEF TypeInv, TypeOK, DiskOK, TablesOK, LocalsOK, SentInv
<1> USE <1>0, ProcAssumption DEF WakeInv, HandlersOK, Proc
<1>1. ASSUME NEW s \in Sender, Deliver(s) PROVE WakeInv'
  <2>1. ASSUME NEW m \in Msg, DeliverBegin(s, m) PROVE WakeInv'
    BY <2>1 DEF DeliverBegin
  <2>2. CASE DeliverTemp(s)
    BY <2>2 DEF DeliverTemp
  <2>3. CASE DeliverRename(s)
    BY <2>3 DEF DeliverRename
  <2>4. CASE DeliverCount(s)
    BY <2>4 DEF DeliverCount
  <2>5. CASE PushNew(s)
    BY <2>5 DEF PushNew
  <2>6. CASE DeliverDone(s)
    BY <2>6 DEF DeliverDone
  <2>7. CASE DeliverFail(s)
    BY <2>7 DEF DeliverFail, CanFail
  <2> QED BY <1>1, <2>1, <2>2, <2>3, <2>4, <2>5, <2>6, <2>7 DEF Deliver
<1>2. ASSUME NEW c \in Conn, Subscribe(c) PROVE WakeInv'
  <2>1. CASE SubscribeInsert(c)
    BY <2>1 DEF SubscribeInsert
  <2>2. CASE Recover(c)
    BY <2>2 DEF Recover
  <2>3. CASE RecoverDone(c)
    BY <2>3 DEF RecoverDone
  <2>4. CASE SubscribePublish(c)
    BY <2>4 DEF SubscribePublish
  <2>5. CASE SubscribeFail(c)
    BY <2>5 DEF SubscribeFail, CanFail, UnsubscribeIfOwner
  <2>6. CASE Close(c)
    BY <2>6 DEF Close, UnsubscribeIfOwner
  <2> QED BY <1>2, <2>1, <2>2, <2>3, <2>4, <2>5, <2>6 DEF Subscribe
<1>3. ASSUME NEW c \in Conn, Consume(c) PROVE WakeInv'
  <2>1. ASSUME NEW m \in Msg, Forward(c, m) PROVE WakeInv'
    BY <2>1 DEF Forward
  <2>2. ASSUME NEW m \in Msg, AckBegin(c, m) PROVE WakeInv'
    BY <2>2 DEF AckBegin
  <2>3. CASE AckUnseeded(c)
    BY <2>3 DEF AckUnseeded
  <2>4. CASE AckRemove(c)
    BY <2>4 DEF AckRemove, AckReturn
  <2>5. CASE AckDecrement(c)
    BY <2>5 DEF AckDecrement, AckReturn
  <2> QED BY <1>3, <2>1, <2>2, <2>3, <2>4, <2>5 DEF Consume
<1>4. ASSUME NEW p \in Proc, CountAndDrain(p) PROVE WakeInv'
  <2>1. CASE Lookup(p)
    BY <2>1 DEF Lookup, AfterCount
  <2>2. CASE ScanNew(p)
    BY <2>2 DEF ScanNew
  <2>3. CASE ScanCur(p)
    BY <2>3 DEF ScanCur
  <2>4. CASE Seed(p)
    BY <2>4 DEF Seed, AfterCount
  <2>5. CASE DrainList(p)
    BY <2>5 DEF DrainList
  <2>6. CASE DrainClaim(p)
    BY <2>6 DEF DrainClaim
  <2>7. CASE DrainClaimed(p)
    BY <2>7 DEF DrainClaimed
  <2>8. CASE Route(p)
    BY <2>8 DEF Route, RouteFenced, RoutePlain, Observation
  <2> QED BY <1>4, <2>1, <2>2, <2>3, <2>4, <2>5, <2>6, <2>7, <2>8 DEF CountAndDrain
<1>5. CASE Gc
  BY <1>5 DEF Gc, GcStep, GcSnapshot, GcScan, GcRecheckSub, GcRecheckEmpty,
              GcRemove, GcForget
<1>6. CASE Crash
  BY <1>6 DEF Crash
<1>7. CASE UNCHANGED vars
  BY <1>7 DEF vars
<1> QED BY <1>1, <1>2, <1>3, <1>4, <1>5, <1>6, <1>7 DEF Next

Landed(m) ==
  m \in receipted
    \/ \E s \in Sender : m = msg[s] /\ pc[s] \in {"count", "push", "list", "claim", "send"}

\* A message that reached new/ stays on disk until it is acknowledged or
\* retired, and what the GC is about to remove arrived after its last check.
LossInv ==
  /\ gcpc = "remove" => new \cup cur \subseteq raced
  /\ \A m \in Msg \ (raced \cup Bad) : Landed(m) => m \in new \cup cur \cup acked \cup retired

LEMMA InitLossInv == Init => LossInv
BY ProcAssumption DEF Init, LossInv, Landed, Proc

LEMMA NextLossInv == TypeInv /\ LossInv /\ [Next]_vars => LossInv'
<1> SUFFICES ASSUME TypeInv, LossInv, [Next]_vars PROVE LossInv'
  OBVIOUS
<1>0. HandlersOK /\ new \subseteq Msg /\ cur \subseteq Msg
  BY DEF TypeInv, TypeOK, DiskOK
<1> USE <1>0, ProcAssumption DEF LossInv, Landed, HandlersOK, Proc
<1>1. ASSUME NEW s \in Sender, Deliver(s) PROVE LossInv'
  <2>1. ASSUME NEW m \in Msg, DeliverBegin(s, m) PROVE LossInv'
    BY <2>1 DEF DeliverBegin
  <2>2. CASE DeliverTemp(s)
    BY <2>2 DEF DeliverTemp
  <2>3. CASE DeliverRename(s)
    BY <2>3 DEF DeliverRename
  <2>4. CASE DeliverCount(s)
    BY <2>4 DEF DeliverCount
  <2>5. CASE PushNew(s)
    BY <2>5 DEF PushNew
  <2>6. CASE DeliverDone(s)
    BY <2>6 DEF DeliverDone
  <2>7. CASE DeliverFail(s)
    BY <2>7 DEF DeliverFail, CanFail
  <2> QED BY <1>1, <2>1, <2>2, <2>3, <2>4, <2>5, <2>6, <2>7 DEF Deliver
<1>2. ASSUME NEW c \in Conn, Subscribe(c) PROVE LossInv'
  <2>1. CASE SubscribeInsert(c)
    BY <2>1 DEF SubscribeInsert
  <2>2. CASE Recover(c)
    BY <2>2 DEF Recover
  <2>3. CASE RecoverDone(c)
    BY <2>3 DEF RecoverDone
  <2>4. CASE SubscribePublish(c)
    BY <2>4 DEF SubscribePublish
  <2>5. CASE SubscribeFail(c)
    BY <2>5 DEF SubscribeFail, CanFail, UnsubscribeIfOwner
  <2>6. CASE Close(c)
    BY <2>6 DEF Close, UnsubscribeIfOwner
  <2> QED BY <1>2, <2>1, <2>2, <2>3, <2>4, <2>5, <2>6 DEF Subscribe
<1>3. ASSUME NEW c \in Conn, Consume(c) PROVE LossInv'
  <2>1. ASSUME NEW m \in Msg, Forward(c, m) PROVE LossInv'
    BY <2>1 DEF Forward
  <2>2. ASSUME NEW m \in Msg, AckBegin(c, m) PROVE LossInv'
    BY <2>2 DEF AckBegin
  <2>3. CASE AckUnseeded(c)
    BY <2>3 DEF AckUnseeded
  <2>4. CASE AckRemove(c)
    BY <2>4 DEF AckRemove, AckReturn
  <2>5. CASE AckDecrement(c)
    BY <2>5 DEF AckDecrement, AckReturn
  <2> QED BY <1>3, <2>1, <2>2, <2>3, <2>4, <2>5 DEF Consume
<1>4. ASSUME NEW p \in Proc, CountAndDrain(p) PROVE LossInv'
  <2>1. CASE Lookup(p)
    BY <2>1 DEF Lookup, AfterCount
  <2>2. CASE ScanNew(p)
    BY <2>2 DEF ScanNew
  <2>3. CASE ScanCur(p)
    BY <2>3 DEF ScanCur
  <2>4. CASE Seed(p)
    BY <2>4 DEF Seed, AfterCount
  <2>5. CASE DrainList(p)
    BY <2>5 DEF DrainList
  <2>6. CASE DrainClaim(p)
    BY <2>6 DEF DrainClaim
  <2>7. CASE DrainClaimed(p)
    BY <2>7 DEF DrainClaimed
  <2>8. CASE Route(p)
    <3>1. PICK m \in Msg :
            /\ m \in claimed[p] /\ claimed' = [claimed EXCEPT ![p] = @ \ {m}]
            /\ \/ m \in Fenced /\ RouteFenced(p, m)
               \/ m \in Plain /\ RoutePlain(p, m)
               \/ m \in Leased /\ UNCHANGED <<cur, seeded, count, pushed, retired>>
      BY <2>8 DEF Route, First
    <3>2. cur' \subseteq cur /\ retired' = retired \cup (cur \ cur')
      BY <3>1 DEF RouteFenced, RoutePlain
    <3> QED BY <2>8, <3>1, <3>2 DEF Route
  <2> QED BY <1>4, <2>1, <2>2, <2>3, <2>4, <2>5, <2>6, <2>7, <2>8 DEF CountAndDrain
<1>5. CASE Gc
  BY <1>5 DEF Gc, GcStep, GcSnapshot, GcScan, GcRecheckSub, GcRecheckEmpty,
              GcRemove, GcForget
<1>6. CASE Crash
  BY <1>6 DEF Crash
<1>7. CASE UNCHANGED vars
  BY <1>7 DEF vars
<1> QED BY <1>1, <1>2, <1>3, <1>4, <1>5, <1>6, <1>7 DEF Next

-----------------------------------------------------------------------------

IInv == TypeInv /\ SentInv /\ FenceInv /\ WakeInv /\ LossInv

LEMMA Inductive == Spec => []IInv
<1>1. Init => IInv
  BY InitTypeInv, InitSentInv, InitFenceInv, InitWakeInv, InitLossInv DEF IInv
<1>2. IInv /\ [Next]_vars => IInv'
  BY NextTypeInv, NextSentInv, NextFenceInv, NextWakeInv, NextLossInv DEF IInv
<1> QED BY <1>1, <1>2, PTL DEF Spec

\* No lost wakeup: a receipted message is never left in new/ beside a
\* subscriber that will not claim it, whatever fails or crashes.
THEOREM WakeupCorrect == Spec => []NoLostWakeup
<1>1. IInv => NoLostWakeup
  BY DEF IInv, WakeInv, NoLostWakeup
<1> QED BY Inductive, <1>1, PTL

\* The connection fence: a FencedRun reaches only the generation it names
\* and is retired only after that generation was superseded.
THEOREM FenceCorrect == Spec => []NoStaleRun
<1>1. IInv => NoStaleRun
  BY DEF IInv, FenceInv
<1> QED BY Inductive, <1>1, PTL

\* Durability: a receipted message is never lost except through the window
\* between the last emptiness check of the GC and its remove_dir_all.
THEOREM DurabilityCorrect == Spec => []NoLossOutsideRace
<1>1. IInv => NoLossOutsideRace
  BY DEF IInv, TypeInv, TypeOK, HistoryOK, LossInv, Landed, NoLossOutsideRace
<1> QED BY Inductive, <1>1, PTL

-----------------------------------------------------------------------------
(* Without GC the broker mailbox implements DurableMailbox. *)

Known == new \cup cur \cup acked \cup retired \cup corrupt

RefInv ==
  /\ gcpc = "idle"
  /\ new \cap cur = {}
  /\ Known \subseteq sent
  /\ \A s \in Sender :
       pc[s] \in {"lookup", "scanNew", "scanCur", "seed", "write", "rename"}
         => msg[s] \notin Known
  /\ \A p \in Proc : claimed[p] \subseteq Known
  /\ \A c \in Conn, m \in Msg : <<c, m>> \in pushed => m \in Known
  /\ \A c \in Conn : pc[c] \in {"lookup", "scanNew", "scanCur", "seed", "remove"}
                       => msg[c] \in got

LEMMA InitRefInv == Init => RefInv
BY ProcAssumption DEF Init, RefInv, Known, Proc

LEMMA NextRefInv == ~GcEnabled /\ TypeInv /\ SentInv /\ RefInv /\ [Next]_vars => RefInv'
<1> SUFFICES ASSUME ~GcEnabled, TypeInv, SentInv, RefInv, [Next]_vars PROVE RefInv'
  OBVIOUS
<1>0. /\ HandlersOK /\ new \subseteq Msg /\ cur \subseteq Msg
      /\ \A s \in Sender : pc[s] # "idle" => msg[s] \in Msg /\ msg[s] \in sent
      /\ \A s, t \in Sender :
           s # t /\ pc[s] # "idle" /\ pc[t] # "idle" => msg[s] # msg[t]
      /\ \A s \in Sender : pc[s] \in SenderLabel
      /\ \A c \in Conn : pc[c] \in ConnLabel
  BY DEF TypeInv, TypeOK, DiskOK, LocalsOK, SentInv
<1> USE <1>0, ProcAssumption
        DEF RefInv, Known, HandlersOK, Proc, SenderLabel, ConnLabel
<1>1. ASSUME NEW s \in Sender, Deliver(s) PROVE RefInv'
  <2>1. ASSUME NEW m \in Msg, DeliverBegin(s, m) PROVE RefInv'
    BY <2>1 DEF DeliverBegin
  <2>2. CASE DeliverTemp(s)
    BY <2>2 DEF DeliverTemp
  <2>3. CASE DeliverRename(s)
    BY <2>3 DEF DeliverRename
  <2>4. CASE DeliverCount(s)
    BY <2>4 DEF DeliverCount
  <2>5. CASE PushNew(s)
    BY <2>5 DEF PushNew
  <2>6. CASE DeliverDone(s)
    BY <2>6 DEF DeliverDone
  <2>7. CASE DeliverFail(s)
    BY <2>7 DEF DeliverFail, CanFail
  <2> QED BY <1>1, <2>1, <2>2, <2>3, <2>4, <2>5, <2>6, <2>7 DEF Deliver
<1>2. ASSUME NEW c \in Conn, Subscribe(c) PROVE RefInv'
  <2>1. CASE SubscribeInsert(c)
    BY <2>1 DEF SubscribeInsert
  <2>2. CASE Recover(c)
    BY <2>2 DEF Recover
  <2>3. CASE RecoverDone(c)
    BY <2>3 DEF RecoverDone
  <2>4. CASE SubscribePublish(c)
    BY <2>4 DEF SubscribePublish
  <2>5. CASE SubscribeFail(c)
    BY <2>5 DEF SubscribeFail, CanFail, UnsubscribeIfOwner
  <2>6. CASE Close(c)
    BY <2>6 DEF Close, UnsubscribeIfOwner
  <2> QED BY <1>2, <2>1, <2>2, <2>3, <2>4, <2>5, <2>6 DEF Subscribe
<1>3. ASSUME NEW c \in Conn, Consume(c) PROVE RefInv'
  <2>1. ASSUME NEW m \in Msg, Forward(c, m) PROVE RefInv'
    BY <2>1 DEF Forward
  <2>2. ASSUME NEW m \in Msg, AckBegin(c, m) PROVE RefInv'
    BY <2>2 DEF AckBegin
  <2>3. CASE AckUnseeded(c)
    BY <2>3 DEF AckUnseeded
  <2>4. CASE AckRemove(c)
    BY <2>4 DEF AckRemove, AckReturn
  <2>5. CASE AckDecrement(c)
    BY <2>5 DEF AckDecrement, AckReturn
  <2> QED BY <1>3, <2>1, <2>2, <2>3, <2>4, <2>5 DEF Consume
<1>4. ASSUME NEW p \in Proc, CountAndDrain(p) PROVE RefInv'
  <2>1. CASE Lookup(p)
    BY <2>1 DEF Lookup, AfterCount
  <2>2. CASE ScanNew(p)
    BY <2>2 DEF ScanNew
  <2>3. CASE ScanCur(p)
    BY <2>3 DEF ScanCur
  <2>4. CASE Seed(p)
    BY <2>4 DEF Seed, AfterCount
  <2>5. CASE DrainList(p)
    BY <2>5 DEF DrainList
  <2>6. CASE DrainClaim(p)
    BY <2>6 DEF DrainClaim
  <2>7. CASE DrainClaimed(p)
    BY <2>7 DEF DrainClaimed
  <2>8. CASE Route(p)
    <3>1. PICK m \in Msg :
            /\ m \in claimed[p] /\ claimed' = [claimed EXCEPT ![p] = @ \ {m}]
            /\ \/ m \in Fenced /\ RouteFenced(p, m)
               \/ m \in Plain /\ RoutePlain(p, m)
               \/ m \in Leased /\ UNCHANGED <<cur, seeded, count, pushed, retired>>
      BY <2>8 DEF Route, First
    <3>2. cur' \subseteq cur /\ retired' = retired \cup (cur \ cur')
      BY <3>1 DEF RouteFenced, RoutePlain
    <3>3. \A c \in Conn, n \in Msg : <<c, n>> \in pushed' => <<c, n>> \in pushed \/ n = m
      BY <3>1 DEF RouteFenced, RoutePlain
    <3> QED BY <2>8, <3>1, <3>2, <3>3 DEF Route
  <2> QED BY <1>4, <2>1, <2>2, <2>3, <2>4, <2>5, <2>6, <2>7, <2>8 DEF CountAndDrain
<1>5. CASE Gc
  BY <1>5 DEF Gc, GcStep, GcSnapshot, GcScan, GcRecheckSub, GcRecheckEmpty,
              GcRemove, GcForget
<1>6. CASE Crash
  BY <1>6 DEF Crash
<1>7. CASE UNCHANGED vars
  BY <1>7 DEF vars
<1> QED BY <1>1, <1>2, <1>3, <1>4, <1>5, <1>6, <1>7 DEF Next

Mapped == <<new \cup cur, got, acked \cup retired \cup corrupt>>
Refines == AtLeastOnce!Next \/ UNCHANGED Mapped

LEMMA StutterRefines ==
  UNCHANGED <<new, cur, got, acked, retired, corrupt>> => Refines
BY DEF Refines, Mapped

LEMMA RemoveRefines ==
  ASSUME NEW S \in SUBSET Msg, S \subseteq new \cup cur,
         S \subseteq got \cup Fenced \cup Bad, got' = got,
         new' \cup cur' = (new \cup cur) \ S,
         acked' \cup retired' \cup corrupt' = acked \cup retired \cup corrupt \cup S
  PROVE  Refines
BY DEF Refines, AtLeastOnce!Next, AtLeastOnce!Remove

LEMMA StepRefines == ~GcEnabled /\ TypeInv /\ RefInv /\ [Next]_vars => Refines
<1> SUFFICES ASSUME ~GcEnabled, TypeInv, RefInv, [Next]_vars PROVE Refines
  OBVIOUS
<1>0. /\ HandlersOK /\ new \subseteq Msg /\ cur \subseteq Msg
      /\ \A s \in Sender : pc[s] # "idle" => msg[s] \in Msg
  BY DEF TypeInv, TypeOK, DiskOK, LocalsOK
<1> USE <1>0, ProcAssumption DEF RefInv, Known, HandlersOK, Proc
<1>1. ASSUME NEW s \in Sender, Deliver(s) PROVE Refines
  <2>1. CASE DeliverRename(s)
    <3>1. CASE s \in tmp
      <4>1. /\ msg[s] \in Msg /\ msg[s] \notin Known
            /\ new' = new \cup {msg[s]} /\ UNCHANGED <<cur, got, acked, retired, corrupt>>
        BY <2>1, <3>1 DEF DeliverRename
      <4>2. AtLeastOnce!Accept(msg[s])
        BY <4>1 DEF AtLeastOnce!Accept
      <4> QED BY <4>1, <4>2 DEF Refines, AtLeastOnce!Next
    <3>2. CASE s \notin tmp
      BY <2>1, <3>2, StutterRefines DEF DeliverRename
    <3> QED BY <3>1, <3>2
  <2>2. CASE ~DeliverRename(s)
    <3>1. UNCHANGED <<new, cur, got, acked, retired, corrupt>>
      BY <1>1, <2>2 DEF Deliver, DeliverBegin, DeliverTemp, DeliverCount, PushNew,
                        DeliverDone, DeliverFail
    <3> QED BY <3>1, StutterRefines
  <2> QED BY <2>1, <2>2
<1>2. ASSUME NEW c \in Conn, Subscribe(c) PROVE Refines
  <2>1. CASE Recover(c)
    <3>1. UNCHANGED <<new, got, acked, retired>>
      BY <2>1 DEF Recover
    <3>2. new' \cup cur' = (new \cup cur) \ (cur \cap Bad)
      BY <2>1 DEF Recover
    <3>3. acked' \cup retired' \cup corrupt' = acked \cup retired \cup corrupt \cup (cur \cap Bad)
      BY <2>1 DEF Recover
    <3>4. /\ cur \cap Bad \in SUBSET Msg /\ cur \cap Bad \subseteq new \cup cur
          /\ cur \cap Bad \subseteq got \cup Fenced \cup Bad
      OBVIOUS
    <3> QED BY <3>1, <3>2, <3>3, <3>4, RemoveRefines
  <2>2. CASE ~Recover(c)
    <3>1. UNCHANGED <<new, cur, got, acked, retired, corrupt>>
      BY <1>2, <2>2 DEF Subscribe, SubscribeInsert, RecoverDone, SubscribePublish,
                        SubscribeFail, Close
    <3> QED BY <3>1, StutterRefines
  <2> QED BY <2>1, <2>2
<1>3. ASSUME NEW c \in Conn, Consume(c) PROVE Refines
  <2>1. ASSUME NEW m \in Msg, Forward(c, m) PROVE Refines
    <3>1. AtLeastOnce!Receive(m)
      BY <2>1 DEF Forward, AtLeastOnce!Receive
    <3> QED BY <3>1 DEF Refines, AtLeastOnce!Next
  <2>2. CASE AckRemove(c)
    <3>1. CASE msg[c] \in cur
      <4>1. /\ {msg[c]} \in SUBSET Msg /\ {msg[c]} \subseteq new \cup cur
            /\ {msg[c]} \subseteq got \cup Fenced \cup Bad /\ UNCHANGED <<new, got, retired, corrupt>>
            /\ cur' = cur \ {msg[c]} /\ acked' = acked \cup {msg[c]}
        BY <2>2, <3>1 DEF AckRemove
      <4>2. new' \cup cur' = (new \cup cur) \ {msg[c]}
        BY <3>1, <4>1
      <4>3. acked' \cup retired' \cup corrupt' = acked \cup retired \cup corrupt \cup {msg[c]}
        BY <4>1
      <4> QED BY <4>1, <4>2, <4>3, RemoveRefines
    <3>2. CASE msg[c] \notin cur
      BY <2>2, <3>2, StutterRefines DEF AckRemove
    <3> QED BY <3>1, <3>2
  <2>3. CASE AckDecrement(c) \/ AckUnseeded(c) \/ \E m \in Msg : AckBegin(c, m)
    <3>1. UNCHANGED <<new, cur, got, acked, retired, corrupt>>
      BY <2>3 DEF AckDecrement, AckUnseeded, AckBegin
    <3> QED BY <3>1, StutterRefines
  <2> QED BY <1>3, <2>1, <2>2, <2>3 DEF Consume
<1>4. ASSUME NEW p \in Proc, CountAndDrain(p) PROVE Refines
  <2>1. CASE DrainClaim(p)
    <3>1. PICK m \in Msg :
            /\ new' = new \ {m}
            /\ \/ m \in new \ Bad /\ cur' = cur \cup {m} /\ UNCHANGED corrupt
               \/ m \in new \cap Bad /\ corrupt' = corrupt \cup {m} /\ UNCHANGED cur
               \/ m \notin new /\ UNCHANGED <<cur, corrupt>>
      BY <2>1 DEF DrainClaim
    <3>2. UNCHANGED <<got, acked, retired>>
      BY <2>1 DEF DrainClaim
    <3>3. CASE m \in new \cap Bad
      <4>1. new' \cup cur' = (new \cup cur) \ {m}
        BY <3>1, <3>3
      <4>2. acked' \cup retired' \cup corrupt' = acked \cup retired \cup corrupt \cup {m}
        BY <3>1, <3>2, <3>3
      <4>3. {m} \in SUBSET Msg /\ {m} \subseteq new \cup cur
            /\ {m} \subseteq got \cup Fenced \cup Bad
        BY <3>3
      <4> QED BY <3>2, <4>1, <4>2, <4>3, RemoveRefines
    <3>4. CASE m \notin new \cap Bad
      <4>1. new' \cup cur' = new \cup cur /\ corrupt' = corrupt
        BY <3>1, <3>4
      <4> QED BY <3>2, <4>1 DEF Refines, Mapped
    <3> QED BY <3>3, <3>4
  <2>2. CASE Route(p)
    <3>1. PICK m \in Msg :
            /\ m \in claimed[p] /\ claimed' = [claimed EXCEPT ![p] = @ \ {m}]
            /\ \/ m \in Fenced /\ RouteFenced(p, m)
               \/ m \in Plain /\ RoutePlain(p, m)
               \/ m \in Leased /\ UNCHANGED <<cur, seeded, count, pushed, retired>>
      BY <2>2 DEF Route, First
    <3>2. UNCHANGED <<new, got, acked, corrupt>>
      BY <2>2 DEF Route
    <3>3. CASE UNCHANGED <<cur, retired>>
      BY <3>2, <3>3, StutterRefines
    <3>4. CASE /\ m \in cur /\ m \in Fenced
               /\ cur' = cur \ {m} /\ retired' = retired \cup {m}
      <4>1. new' \cup cur' = (new \cup cur) \ {m}
        BY <3>2, <3>4
      <4>2. acked' \cup retired' \cup corrupt' = acked \cup retired \cup corrupt \cup {m}
        BY <3>2, <3>4
      <4>3. {m} \in SUBSET Msg /\ {m} \subseteq new \cup cur
            /\ {m} \subseteq got \cup Fenced \cup Bad
        BY <3>4
      <4> QED BY <3>2, <4>1, <4>2, <4>3, RemoveRefines
    <3>5. CASE m \in Fenced /\ m \notin cur
      <4>1. UNCHANGED <<cur, retired>>
        <5>1. cur \ {m} = cur
          BY <3>5
        <5>2. (cur' = cur \/ cur' = cur \ {m}) /\ retired' = retired
          BY <3>1, <3>5 DEF RouteFenced, RoutePlain
        <5> QED BY <5>1, <5>2
      <4> QED BY <3>3, <4>1
    <3> QED BY <3>1, <3>3, <3>4, <3>5 DEF RouteFenced, RoutePlain
  <2>3. CASE ~DrainClaim(p) /\ ~Route(p)
    <3>1. UNCHANGED <<new, cur, got, acked, retired, corrupt>>
      BY <1>4, <2>3 DEF CountAndDrain, Lookup, ScanNew, ScanCur, Seed, DrainList,
                        DrainClaimed
    <3> QED BY <3>1, StutterRefines
  <2> QED BY <2>1, <2>2, <2>3
<1>5. CASE Gc
  <2>1. UNCHANGED <<new, cur, got, acked, retired, corrupt>>
    BY <1>5 DEF Gc, GcStep, GcSnapshot, GcScan, GcRecheckSub, GcRecheckEmpty,
                GcRemove, GcForget
  <2> QED BY <2>1, StutterRefines
<1>6. CASE Crash \/ UNCHANGED vars
  <2>1. UNCHANGED <<new, cur, got, acked, retired, corrupt>>
    BY <1>6 DEF Crash, vars
  <2> QED BY <2>1, StutterRefines
<1> QED BY <1>1, <1>2, <1>3, <1>4, <1>5, <1>6 DEF Next

\* Refinement: while the GC does not run, every behaviour of the broker is
\* one of the durable at-least-once mailbox.
THEOREM RefinementCorrect == ~GcEnabled => (Spec => ImplementsDurableMailbox)
<1> SUFFICES ASSUME ~GcEnabled PROVE Spec => ImplementsDurableMailbox
  OBVIOUS
<1>1. Init => AtLeastOnce!Init
  BY KindAssumption DEF Init, AtLeastOnce!Init
<1>2. Spec => []RefInv
  <2>1. RefInv /\ IInv /\ [Next]_vars => RefInv'
    BY NextRefInv DEF IInv
  <2> QED BY InitRefInv, Inductive, <2>1, PTL DEF Spec
<1>3. IInv /\ RefInv /\ [Next]_vars
        => [AtLeastOnce!Next]_<<new \cup cur, got, acked \cup retired \cup corrupt>>
  BY StepRefines DEF IInv, Refines, Mapped
<1> QED BY <1>1, <1>2, <1>3, Inductive, PTL
        DEF Spec, ImplementsDurableMailbox, AtLeastOnce!Spec

-----------------------------------------------------------------------------
(* Without GC the pending counter follows the mailbox, and the cap holds. *)

\* What a full scan counts, the senders admitted and not yet visible, and the ACKs that
\* removed their message and did not count it yet.
Pending == Cardinality(new) + Cardinality(cur)
Writing == {s \in Sender : pc[s] \in {"write", "rename"}}
Owing == {c \in Conn : pc[c] = "decr"}

\* Nobody adds to a mailbox whose counter is not seeded, so a scan in progress has seen at
\* least what is left of it.
SeedInv ==
  /\ ~seeded => /\ \A s \in Sender : pc[s] \notin {"write", "rename", "count"}
                /\ \A p \in Proc : /\ pc[p] = "scanCur" => Cardinality(new) <= scan[p]
                                   /\ pc[p] = "seed" => Pending <= scan[p]
  /\ ~seeded /\ faults = 0 => \A c \in Conn : pc[c] \notin {"remove", "decr"}

\* The counter runs ahead of the mailbox by what ACKs still owe it, and behind it by what
\* deliveries will add.
DebtInv ==
  seeded /\ faults = 0 => Pending + Cardinality(Owing) <= count + Cardinality(Uncounted)

\* The cap leaves room for every delivery that was admitted.
RoomInv ==
  faults = 0 =>
    /\ Writing # {} => Pending + Cardinality(Writing) <= MaxPending + Cardinality(Sender) - 1
    /\ Pending <= MaxPending + Cardinality(Sender) - 1 \/ new \cup cur \subseteq Backlog

CountInv == SeedInv /\ DebtInv /\ RoomInv

\* A subset of a finite set is finite, and not larger.
LEMMA SubsetCard ==
  ASSUME NEW T, IsFiniteSet(T), NEW S, S \subseteq T
  PROVE  /\ IsFiniteSet(S) /\ Cardinality(S) \in Nat /\ Cardinality(T) \in Nat
         /\ Cardinality(S) <= Cardinality(T)
<1>1. IsFiniteSet(S) /\ Cardinality(S) <= Cardinality(T)
  BY FS_Subset
<1> QED BY <1>1, FS_CardinalityType

\* The sets that are counted are finite.
LEMMA CountedSets ==
  ASSUME TypeInv
  PROVE  /\ IsFiniteSet(new) /\ IsFiniteSet(cur) /\ IsFiniteSet(Sender)
         /\ Cardinality(new) \in Nat /\ Cardinality(cur) \in Nat /\ Cardinality(Sender) \in Nat
         /\ \A S \in SUBSET Sender : IsFiniteSet(S) /\ Cardinality(S) \in Nat
         /\ \A S \in SUBSET Conn : IsFiniteSet(S) /\ Cardinality(S) \in Nat
         /\ Pending \in Nat
<1>1. IsFiniteSet(new) /\ IsFiniteSet(cur)
  BY FS_Subset, MsgAssumption DEF TypeInv, TypeOK, DiskOK
<1>2. IsFiniteSet(Sender) /\ IsFiniteSet(Conn)
  BY FS_Subset, FiniteAssumption DEF Proc
<1>3. Cardinality(new) \in Nat /\ Cardinality(cur) \in Nat /\ Cardinality(Sender) \in Nat
  BY <1>1, <1>2, FS_CardinalityType
<1> QED BY <1>1, <1>2, <1>3, SubsetCard DEF Pending

\* One element more, or one less.
LEMMA OneMore ==
  ASSUME NEW S, IsFiniteSet(S), NEW x, x \notin S
  PROVE  Cardinality(S \cup {x}) = Cardinality(S) + 1
BY FS_AddElement

\* The converse.
LEMMA OneLess ==
  ASSUME NEW S, IsFiniteSet(S), NEW x, x \in S
  PROVE  Cardinality(S) \in Nat /\ Cardinality(S) >= 1 /\ Cardinality(S \ {x}) = Cardinality(S) - 1
<1>1. IsFiniteSet(S \ {x}) /\ Cardinality(S \ {x}) \in Nat
  BY FS_Subset, FS_CardinalityType
<1>2. S = (S \ {x}) \cup {x} /\ x \notin S \ {x}
  OBVIOUS
<1>3. Cardinality(S) = Cardinality(S \ {x}) + 1
  BY <1>1, <1>2, FS_AddElement
<1> QED BY <1>1, <1>3

\* Two disjoint parts of the senders.
LEMMA TwoParts ==
  ASSUME NEW S, IsFiniteSet(S), NEW A, NEW B, A \subseteq S, B \subseteq S, A \cap B = {}
  PROVE  /\ Cardinality(A) \in Nat /\ Cardinality(B) \in Nat /\ Cardinality(S) \in Nat
         /\ Cardinality(A) + Cardinality(B) <= Cardinality(S)
<1>1. IsFiniteSet(A) /\ IsFiniteSet(B) /\ IsFiniteSet(A \cup B)
  BY FS_Subset
<1>2. Cardinality(A \cup B) <= Cardinality(S)
  BY FS_Subset
<1>3. Cardinality(A \cup B) = Cardinality(A) + Cardinality(B)
  <2>1. Cardinality(A \cap B) = 0
    BY FS_EmptySet
  <2>2. Cardinality(A \cup B) = Cardinality(A) + Cardinality(B) - Cardinality(A \cap B)
    BY <1>1, FS_Union
  <2> QED BY <1>1, <2>1, <2>2, FS_CardinalityType
<1> QED BY <1>1, <1>2, <1>3, FS_CardinalityType

\* The mailbox only loses messages, or moves them from new/ to cur/.
Shrinks ==
  /\ Cardinality(new') <= Cardinality(new) /\ Pending' <= Pending
  /\ new' \cup cur' \subseteq new \cup cur

\* What shrinks it.
LEMMA ShrinkSteps ==
  ASSUME TypeInv, NEW n, NEW c, n \subseteq new, c \subseteq cur, new' = n, cur' = c
  PROVE  Shrinks
<1>1. IsFiniteSet(new) /\ IsFiniteSet(cur)
  BY CountedSets
<1>2. /\ Cardinality(n) \in Nat /\ Cardinality(new) \in Nat /\ Cardinality(n) <= Cardinality(new)
      /\ Cardinality(c) \in Nat /\ Cardinality(cur) \in Nat /\ Cardinality(c) <= Cardinality(cur)
  BY <1>1, SubsetCard
<1>3. Pending' = Cardinality(n) + Cardinality(c)
  BY DEF Pending
<1> QED BY <1>2, <1>3 DEF Shrinks, Pending

\* Claiming a message takes it from new/ and puts it into cur/.
LEMMA MoveShrinks ==
  ASSUME TypeInv, NEW m \in new, new' = new \ {m}, cur' = cur \cup {m}
  PROVE  Shrinks
<1>1. IsFiniteSet(new) /\ IsFiniteSet(cur) /\ Cardinality(new) \in Nat /\ Cardinality(cur) \in Nat
  BY CountedSets
<1>2. Cardinality(new \ {m}) = Cardinality(new) - 1
  BY <1>1, OneLess
<1>3. Cardinality(cur \cup {m}) \in {Cardinality(cur), Cardinality(cur) + 1}
  <2>1. CASE m \in cur
    <3>1. cur \cup {m} = cur
      BY <2>1
    <3> QED BY <3>1
  <2>2. CASE m \notin cur
    BY <1>1, <2>2, OneMore
  <2> QED BY <2>1, <2>2
<1>4. Pending' = Cardinality(new \ {m}) + Cardinality(cur \cup {m})
  BY DEF Pending
<1>5. Pending' <= Pending
  BY <1>1, <1>2, <1>3, <1>4 DEF Pending
<1> QED BY <1>1, <1>2, <1>5 DEF Shrinks

\* A step that counts nothing and lets nobody in.
LEMMA SteadyCounts ==
  ASSUME TypeInv, TypeInv', CountInv, Shrinks, UNCHANGED <<seeded, count, faults, scan>>,
         \A s \in Sender : pc'[s] = "count" <=> pc[s] = "count",
         \A s \in Sender : pc'[s] \in {"write", "rename"} => pc[s] \in {"write", "rename"},
         \A c \in Conn : pc'[c] = "decr" <=> pc[c] = "decr",
         \A p \in Proc : pc'[p] \in {"remove", "scanCur", "seed"} => pc'[p] = pc[p]
  PROVE  CountInv'
<1>0. /\ Uncounted' = Uncounted /\ Writing' \subseteq Writing /\ Owing' = Owing
  BY DEF Uncounted, Writing, Owing
<1>1. /\ Pending \in Nat /\ Pending' \in Nat /\ Cardinality(new) \in Nat /\ Cardinality(new') \in Nat
      /\ Cardinality(Uncounted) \in Nat /\ Cardinality(Writing) \in Nat /\ Cardinality(Owing) \in Nat
      /\ Cardinality(Sender) \in Nat /\ count \in Nat /\ MaxPending \in Nat
      /\ \A p \in Proc : scan[p] \in Nat
      /\ Cardinality(Writing') \in Nat /\ Cardinality(Writing') <= Cardinality(Writing)
  <2>1. Pending' \in Nat /\ Cardinality(new') \in Nat
    <3>1. new' \subseteq Msg /\ cur' \subseteq Msg
      BY DEF TypeInv, TypeOK, DiskOK
    <3>2. Cardinality(new') \in Nat /\ Cardinality(cur') \in Nat
      BY <3>1, MsgAssumption, SubsetCard
    <3> QED BY <3>2 DEF Pending
  <2>2. Uncounted \in SUBSET Sender /\ Writing \in SUBSET Sender /\ Owing \in SUBSET Conn
    BY DEF Uncounted, Writing, Owing
  <2>3. Cardinality(Writing') \in Nat /\ Cardinality(Writing') <= Cardinality(Writing)
    BY <1>0, <2>2, CountedSets, SubsetCard
  <2> QED BY <2>1, <2>2, <2>3, CountedSets, BoundAssumption DEF TypeInv, TypeOK, TablesOK, HandlersOK
<1>2. SeedInv'
  <2>1. ASSUME ~seeded, NEW p \in Proc, pc'[p] = "scanCur" PROVE Cardinality(new') <= scan'[p]
    BY <1>1, <2>1 DEF CountInv, SeedInv, Shrinks
  <2>2. ASSUME ~seeded, NEW p \in Proc, pc'[p] = "seed" PROVE Pending' <= scan'[p]
    BY <1>1, <2>2 DEF CountInv, SeedInv, Shrinks
  <2>3. ASSUME ~seeded, NEW s \in Sender PROVE pc'[s] \notin {"write", "rename", "count"}
    BY <2>3 DEF CountInv, SeedInv
  <2>4. ASSUME ~seeded, faults = 0, NEW c \in Conn PROVE pc'[c] \notin {"remove", "decr"}
    BY <2>4 DEF CountInv, SeedInv, Proc
  <2> QED BY <2>1, <2>2, <2>3, <2>4 DEF SeedInv
<1>3. DebtInv'
  BY <1>0, <1>1 DEF CountInv, DebtInv, Shrinks
<1>4. RoomInv'
  <2>1. faults = 0 /\ Writing' # {} => Pending' + Cardinality(Writing') <= MaxPending + Cardinality(Sender) - 1
    <3>1. faults = 0 /\ Writing # {} => Pending' + Cardinality(Writing) <= MaxPending + Cardinality(Sender) - 1
      BY <1>1 DEF CountInv, RoomInv, Shrinks
    <3> QED BY <1>0, <1>1, <3>1
  <2>2. faults = 0 => Pending' <= MaxPending + Cardinality(Sender) - 1 \/ new' \cup cur' \subseteq Backlog
    BY <1>1 DEF CountInv, RoomInv, Shrinks
  <2> QED BY <1>0, <2>1, <2>2 DEF RoomInv
<1> QED BY <1>2, <1>3, <1>4 DEF CountInv

\* A step that fails lets nobody in either.
LEMMA FaultCounts ==
  ASSUME TypeInv, CountInv, UNCHANGED <<seeded, new, cur, scan>>, faults' = faults + 1,
         \A p \in Proc : pc'[p] \in {"scanCur", "seed", "write", "rename", "count"} => pc'[p] = pc[p]
  PROVE  CountInv'
<1>1. faults' # 0
  <2>1. faults \in Nat
    BY DEF TypeInv, TypeOK, TablesOK
  <2> QED BY <2>1
<1>2. Pending' = Pending
  BY DEF Pending
<1>3. SeedInv'
  BY <1>1, <1>2 DEF CountInv, SeedInv, Proc
<1> QED BY <1>1, <1>3 DEF CountInv, DebtInv, RoomInv

\* A handler that has the counter's value may be admitted below the cap.
LEMMA Admitted ==
  ASSUME TypeInv, TypeInv', CountInv, NEW p \in Proc, AfterCount(p, count'),
         UNCHANGED <<new, cur, faults, scan>>, seeded' = TRUE,
         pc[p] \in {"lookup", "seed"},
         seeded => count' = count, ~seeded => Pending <= count'
  PROVE  CountInv'
<1>0. /\ Uncounted' = Uncounted /\ Owing' = Owing /\ Pending' = Pending
      /\ p \in Sender => p \notin Uncounted \cup Writing
      /\ pc \in [Proc -> Label] /\ pc' = [pc EXCEPT ![p] = pc'[p]]
      /\ Uncounted \in SUBSET Sender /\ Writing \in SUBSET Sender /\ Writing' \in SUBSET Sender
      /\ Owing \in SUBSET Conn
  <2>1. pc \in [Proc -> Label]
    BY DEF TypeInv, TypeOK, HandlersOK
  <2>2. pc'[p] \in {"remove", "idle", "write"} /\ pc' = [pc EXCEPT ![p] = pc'[p]]
    BY <2>1 DEF AfterCount
  <2>3. \A x \in Proc \ {p} : pc'[x] = pc[x]
    BY <2>1, <2>2
  <2>4. \A x \in Proc : (pc'[x] = "count" <=> pc[x] = "count") /\ (pc'[x] = "decr" <=> pc[x] = "decr")
    BY <2>2, <2>3
  <2> QED BY <2>1, <2>2, <2>4 DEF Uncounted, Owing, Pending, Writing, Proc
<1>1. /\ Pending \in Nat /\ Cardinality(Uncounted) \in Nat /\ Cardinality(Owing) \in Nat
      /\ Cardinality(Sender) \in Nat /\ count \in Nat /\ count' \in Nat /\ MaxPending \in Nat
  BY <1>0, CountedSets, BoundAssumption DEF TypeInv, TypeOK, TablesOK
<1>2. SeedInv'
  BY DEF SeedInv
<1>3. DebtInv'
  <2>1. CASE seeded
    BY <1>0, <2>1 DEF CountInv, DebtInv
  <2>2. CASE ~seeded
    <3>1. faults = 0 => Owing = {}
      BY <2>2 DEF CountInv, SeedInv, Owing
    <3>2. faults = 0 => Cardinality(Owing) = 0
      BY <3>1, FS_EmptySet
    <3> QED BY <1>0, <1>1, <2>2, <3>2 DEF DebtInv
  <2> QED BY <2>1, <2>2
<1>4. RoomInv'
  <2>1. ASSUME faults = 0, pc'[p] = "write"
        PROVE  Pending + Cardinality(Writing') <= MaxPending + Cardinality(Sender) - 1
    <3>1. count' < MaxPending
      BY <2>1, <1>1 DEF AfterCount, TypeInv, TypeOK, HandlersOK
    <3>2. Pending + Cardinality(Owing) <= count' + Cardinality(Uncounted)
      BY <1>0, <1>3, <2>1 DEF DebtInv
    <3>3. Uncounted \cap Writing' = {}
      BY <1>0 DEF Uncounted, Writing
    <3>4. Cardinality(Uncounted) + Cardinality(Writing') <= Cardinality(Sender) /\ Cardinality(Writing') \in Nat
      BY <1>0, <3>3, TwoParts, CountedSets
    <3> QED BY <1>1, <3>1, <3>2, <3>4
  <2>2. pc'[p] # "write" => Writing' \subseteq Writing
    BY <1>0 DEF Writing, AfterCount, Proc
  <2>3. ASSUME faults = 0, pc'[p] # "write", Writing' # {}
        PROVE  Pending + Cardinality(Writing') <= MaxPending + Cardinality(Sender) - 1
    <3>1. Pending + Cardinality(Writing) <= MaxPending + Cardinality(Sender) - 1
      BY <2>2, <2>3 DEF CountInv, RoomInv
    <3>2. /\ Cardinality(Writing') <= Cardinality(Writing)
          /\ Cardinality(Writing') \in Nat /\ Cardinality(Writing) \in Nat
      BY <1>0, <2>2, <2>3, SubsetCard, CountedSets
    <3> QED BY <1>1, <3>1, <3>2
  <2>4. faults = 0 => Pending <= MaxPending + Cardinality(Sender) - 1 \/ new \cup cur \subseteq Backlog
    BY DEF CountInv, RoomInv
  <2> QED BY <1>0, <2>1, <2>3, <2>4 DEF RoomInv
<1> QED BY <1>2, <1>3, <1>4 DEF CountInv

\* A message lands: it is not counted yet, and its place was kept.
LEMMA LandedCounts ==
  ASSUME TypeInv, CountInv, NEW s \in Sender, DeliverRename(s), s \in tmp
  PROVE  CountInv'
<1>0. /\ pc \in [Proc -> Label] /\ s \in Proc /\ pc[s] = "rename" /\ pc' = [pc EXCEPT ![s] = "count"]
      /\ new' = new \cup {msg[s]} /\ UNCHANGED <<cur, seeded, count, scan, faults>> /\ s \notin Conn
  BY ProcAssumption DEF TypeInv, TypeOK, HandlersOK, DeliverRename, Proc
<1>1. seeded
  BY <1>0 DEF CountInv, SeedInv
<1>2. /\ Uncounted' = Uncounted \cup {s} /\ s \notin Uncounted /\ Writing' = Writing \ {s} /\ s \in Writing
      /\ Owing' = Owing
  BY <1>0 DEF Uncounted, Writing, Owing, Proc
<1>3. /\ IsFiniteSet(Uncounted) /\ IsFiniteSet(Writing)
      /\ Cardinality(Uncounted) \in Nat /\ Cardinality(Writing) \in Nat /\ Cardinality(Owing) \in Nat
      /\ Cardinality(Sender) \in Nat /\ Pending \in Nat /\ count \in Nat /\ MaxPending \in Nat
  <2>1. Uncounted \in SUBSET Sender /\ Writing \in SUBSET Sender /\ Owing \in SUBSET Conn
    BY DEF Uncounted, Writing, Owing
  <2> QED BY <2>1, CountedSets, BoundAssumption DEF TypeInv, TypeOK, TablesOK
<1>4. Cardinality(Uncounted') = Cardinality(Uncounted) + 1
  BY <1>2, <1>3, OneMore
<1>5. Cardinality(Writing') = Cardinality(Writing) - 1 /\ Cardinality(Writing) >= 1
  BY <1>2, <1>3, OneLess
<1>6. Pending' <= Pending + 1 /\ Pending' \in Nat
  <2>1. IsFiniteSet(new) /\ Cardinality(new) \in Nat /\ Cardinality(cur) \in Nat
    BY CountedSets
  <2>2. CASE msg[s] \in new
    <3>1. new' = new
      BY <1>0, <2>2
    <3> QED BY <1>0, <2>1, <3>1 DEF Pending
  <2>3. CASE msg[s] \notin new
    <3>1. Cardinality(new') = Cardinality(new) + 1
      BY <1>0, <2>1, <2>3, OneMore
    <3> QED BY <1>0, <2>1, <3>1 DEF Pending
  <2> QED BY <2>2, <2>3
<1>7. SeedInv'
  BY <1>0, <1>1 DEF SeedInv
<1>8. DebtInv'
  <2>1. faults = 0 => Pending + Cardinality(Owing) <= count + Cardinality(Uncounted)
    BY <1>1 DEF CountInv, DebtInv
  <2>2. faults = 0 => Pending' + Cardinality(Owing) <= count + (Cardinality(Uncounted) + 1)
    BY <1>3, <1>6, <2>1
  <2> QED BY <1>0, <1>2, <1>4, <2>2 DEF DebtInv
<1>9. RoomInv'
  <2>1. faults = 0 => Pending + Cardinality(Writing) <= MaxPending + Cardinality(Sender) - 1
    BY <1>2 DEF CountInv, RoomInv
  <2>2. faults = 0 => /\ Pending' + (Cardinality(Writing) - 1) <= MaxPending + Cardinality(Sender) - 1
                      /\ Pending' <= MaxPending + Cardinality(Sender) - 1
    BY <1>3, <1>5, <1>6, <2>1
  <2> QED BY <1>0, <1>5, <2>2 DEF RoomInv
<1> QED BY <1>7, <1>8, <1>9 DEF CountInv

\* The counter follows a message that landed.
LEMMA AddCounts ==
  ASSUME TypeInv, CountInv, NEW s \in Sender, DeliverCount(s)
  PROVE  CountInv'
<1>0. /\ pc \in [Proc -> Label] /\ s \in Proc /\ pc[s] = "count" /\ pc' = [pc EXCEPT ![s] = "push"]
      /\ UNCHANGED <<new, cur, scan, faults>> /\ seeded' = TRUE
  BY DEF TypeInv, TypeOK, HandlersOK, DeliverCount, Proc
<1>1. seeded /\ count' = count + 1
  BY <1>0 DEF CountInv, SeedInv, DeliverCount
<1>2. /\ Uncounted' = Uncounted \ {s} /\ s \in Uncounted /\ Writing' = Writing /\ Owing' = Owing
      /\ Pending' = Pending
  BY <1>0, ProcAssumption DEF Uncounted, Writing, Owing, Proc, Pending
<1>3. /\ IsFiniteSet(Uncounted) /\ Cardinality(Uncounted) \in Nat /\ Cardinality(Owing) \in Nat
      /\ Pending \in Nat /\ count \in Nat
  <2>1. Uncounted \in SUBSET Sender /\ Owing \in SUBSET Conn
    BY DEF Uncounted, Owing
  <2> QED BY <2>1, CountedSets DEF TypeInv, TypeOK, TablesOK
<1>4. Cardinality(Uncounted') = Cardinality(Uncounted) - 1
  BY <1>2, <1>3, OneLess
<1>5. SeedInv'
  BY <1>0 DEF SeedInv
<1>6. DebtInv'
  <2>1. faults = 0 => Pending + Cardinality(Owing) <= count + Cardinality(Uncounted)
    BY <1>1 DEF CountInv, DebtInv
  <2>2. faults = 0 => Pending + Cardinality(Owing) <= (count + 1) + (Cardinality(Uncounted) - 1)
    BY <1>3, <2>1
  <2> QED BY <1>0, <1>1, <1>2, <1>4, <2>2 DEF DebtInv
<1>7. RoomInv'
  BY <1>0, <1>2 DEF CountInv, RoomInv
<1> QED BY <1>5, <1>6, <1>7 DEF CountInv

\* A message leaves cur/: the counter is owed one, or loses one at once.
LEMMA RemoveCounts ==
  ASSUME TypeInv, NEW m \in cur, new' = new, cur' = cur \ {m}
  PROVE  Shrinks /\ Pending \in Nat /\ Pending >= 1 /\ Pending' = Pending - 1
<1>1. IsFiniteSet(cur) /\ Cardinality(new) \in Nat
  BY CountedSets
<1>2. Cardinality(cur) \in Nat /\ Cardinality(cur) >= 1 /\ Cardinality(cur \ {m}) = Cardinality(cur) - 1
  BY <1>1, OneLess
<1>3. Pending' = Cardinality(new) + Cardinality(cur \ {m})
  BY DEF Pending
<1>4. Pending \in Nat /\ Pending >= 1 /\ Pending' = Pending - 1
  BY <1>1, <1>2, <1>3 DEF Pending
<1> QED BY <1>1, <1>4 DEF Shrinks

\* An ACK removes its message; the counter is owed one until it is decremented.
LEMMA AckCounts ==
  ASSUME TypeInv, CountInv, NEW c \in Conn, AckRemove(c), msg[c] \in cur
  PROVE  CountInv'
<1>0. /\ pc \in [Proc -> Label] /\ c \in Proc /\ c \notin Sender /\ pc[c] = "remove"
      /\ pc' = [pc EXCEPT ![c] = "decr"]
      /\ new' = new /\ cur' = cur \ {msg[c]} /\ UNCHANGED <<seeded, count, scan, faults>>
  BY ProcAssumption DEF TypeInv, TypeOK, HandlersOK, AckRemove, Proc
<1>1. Shrinks /\ Pending \in Nat /\ Pending >= 1 /\ Pending' = Pending - 1
  BY <1>0, RemoveCounts
<1>2. /\ Uncounted' = Uncounted /\ Writing' = Writing /\ Owing' = Owing \cup {c} /\ c \notin Owing
  BY <1>0 DEF Uncounted, Writing, Owing, Proc
<1>3. /\ IsFiniteSet(Owing) /\ Cardinality(Owing) \in Nat /\ Cardinality(Uncounted) \in Nat
      /\ Cardinality(Writing) \in Nat /\ Cardinality(Sender) \in Nat /\ MaxPending \in Nat /\ count \in Nat
      /\ Cardinality(new) \in Nat /\ \A p \in Proc : scan[p] \in Nat
  <2>1. Uncounted \in SUBSET Sender /\ Writing \in SUBSET Sender /\ Owing \in SUBSET Conn
    BY DEF Uncounted, Writing, Owing
  <2> QED BY <2>1, CountedSets, BoundAssumption DEF TypeInv, TypeOK, TablesOK, HandlersOK
<1>4. Cardinality(Owing') = Cardinality(Owing) + 1
  BY <1>2, <1>3, OneMore
<1>5. SeedInv'
  <2>1. ~seeded => faults # 0
    BY <1>0 DEF CountInv, SeedInv
  <2>2. ASSUME ~seeded, NEW p \in Proc, pc'[p] = "seed" PROVE Pending' <= scan[p]
    <3>1. Pending <= scan[p]
      BY <1>0, <2>2 DEF CountInv, SeedInv
    <3> QED BY <1>1, <1>3, <3>1
  <2>3. ASSUME ~seeded, NEW p \in Proc, pc'[p] = "scanCur" PROVE Cardinality(new) <= scan[p]
    BY <1>0, <2>3 DEF CountInv, SeedInv
  <2>4. ASSUME ~seeded, NEW s \in Sender PROVE pc'[s] \notin {"write", "rename", "count"}
    BY <1>0, <2>4 DEF CountInv, SeedInv, Proc
  <2> QED BY <1>0, <2>1, <2>2, <2>3, <2>4 DEF SeedInv
<1>6. DebtInv'
  <2>1. seeded /\ faults = 0 => Pending + Cardinality(Owing) <= count + Cardinality(Uncounted)
    BY DEF CountInv, DebtInv
  <2>2. seeded /\ faults = 0 => (Pending - 1) + (Cardinality(Owing) + 1) <= count + Cardinality(Uncounted)
    BY <1>1, <1>3, <2>1
  <2> QED BY <1>0, <1>1, <1>2, <1>4, <2>2 DEF DebtInv
<1>7. RoomInv'
  <2>1. faults = 0 /\ Writing # {} => Pending' + Cardinality(Writing) <= MaxPending + Cardinality(Sender) - 1
    BY <1>1, <1>3 DEF CountInv, RoomInv
  <2>2. faults = 0 => Pending' <= MaxPending + Cardinality(Sender) - 1 \/ new' \cup cur' \subseteq Backlog
    BY <1>1, <1>3 DEF CountInv, RoomInv, Shrinks
  <2> QED BY <1>0, <1>2, <2>1, <2>2 DEF RoomInv
<1> QED BY <1>5, <1>6, <1>7 DEF CountInv

\* The decrement pays what was owed.
LEMMA PaidCounts ==
  ASSUME TypeInv, CountInv, NEW c \in Conn, AckDecrement(c)
  PROVE  CountInv'
<1>0. /\ pc \in [Proc -> Label] /\ c \in Proc /\ c \notin Sender /\ pc[c] = "decr"
      /\ pc' = [pc EXCEPT ![c] = pc'[c]] /\ pc'[c] \in {"live", "idle"}
      /\ UNCHANGED <<new, cur, seeded, scan, faults>>
  BY ProcAssumption DEF TypeInv, TypeOK, HandlersOK, AckDecrement, AckReturn, Proc
<1>a. \A x \in Proc \ {c} : pc'[x] = pc[x]
  BY <1>0
<1>1. seeded => count' = IF count > 0 THEN count - 1 ELSE count
  BY DEF AckDecrement
<1>2. /\ Uncounted' = Uncounted /\ Writing' = Writing /\ Owing' = Owing \ {c} /\ c \in Owing /\ Pending' = Pending
  BY <1>0, <1>a DEF Uncounted, Writing, Owing, Proc, Pending
<1>3. /\ IsFiniteSet(Owing) /\ Cardinality(Owing) \in Nat /\ Cardinality(Uncounted) \in Nat
      /\ Pending \in Nat /\ count \in Nat
  <2>1. Uncounted \in SUBSET Sender /\ Owing \in SUBSET Conn
    BY DEF Uncounted, Owing
  <2> QED BY <2>1, CountedSets DEF TypeInv, TypeOK, TablesOK
<1>4. Cardinality(Owing') = Cardinality(Owing) - 1
  BY <1>2, <1>3, OneLess
<1>5. SeedInv'
  BY <1>0, <1>a, <1>2 DEF CountInv, SeedInv, Proc
<1>6. DebtInv'
  <2>1. seeded /\ faults = 0 => Pending + Cardinality(Owing) <= count + Cardinality(Uncounted)
    BY DEF CountInv, DebtInv
  <2>2. seeded /\ faults = 0 => Pending + (Cardinality(Owing) - 1) <= count' + Cardinality(Uncounted)
    BY <1>1, <1>3, <2>1
  <2> QED BY <1>0, <1>2, <1>4, <2>2 DEF DebtInv
<1>7. RoomInv'
  BY <1>0, <1>2 DEF CountInv, RoomInv
<1> QED BY <1>5, <1>6, <1>7 DEF CountInv

\* A Run that is retired is subtracted under the same lock, from the counter or from a
\* count of the directories.
LEMMA RetireCounts ==
  ASSUME TypeInv, TypeInv', CountInv, NEW m \in Msg, UNCHANGED <<new, pc, scan, faults>>, seeded' = TRUE,
         cur' = cur \ {m},
         count' = (LET base == IF seeded THEN count ELSE Cardinality(new) + Cardinality(cur)
                   IN IF m \in cur /\ base > 0 THEN base - 1 ELSE base)
  PROVE  CountInv'
<1>0. Uncounted' = Uncounted /\ Writing' = Writing /\ Owing' = Owing
  BY DEF Uncounted, Writing, Owing
<1>1. /\ Cardinality(Owing) \in Nat /\ Cardinality(Uncounted) \in Nat /\ Cardinality(Writing) \in Nat
      /\ Pending \in Nat /\ count \in Nat /\ Cardinality(Sender) \in Nat /\ MaxPending \in Nat
  <2>1. Uncounted \in SUBSET Sender /\ Owing \in SUBSET Conn /\ Writing \in SUBSET Sender
    BY DEF Uncounted, Owing, Writing
  <2> QED BY <2>1, CountedSets, BoundAssumption DEF TypeInv, TypeOK, TablesOK
<1>2. /\ Shrinks
      /\ m \in cur => Pending >= 1 /\ Pending' = Pending - 1
      /\ m \notin cur => Pending' = Pending
  <2>1. CASE m \in cur
    BY <2>1, RemoveCounts
  <2>2. CASE m \notin cur
    <3>1. cur' = cur
      BY <2>2
    <3> QED BY <2>2, <3>1, ShrinkSteps DEF Pending
  <2> QED BY <2>1, <2>2
<1>3. Pending' \in Nat
  BY <1>1, <1>2
<1>4. SeedInv'
  BY DEF SeedInv
<1>5. faults = 0 => Pending + Cardinality(Owing) <= (IF seeded THEN count ELSE Pending) + Cardinality(Uncounted)
  <2>1. CASE seeded
    BY <2>1 DEF CountInv, DebtInv
  <2>2. CASE ~seeded
    <3>1. faults = 0 => Owing = {}
      BY <2>2 DEF CountInv, SeedInv, Owing
    <3>2. faults = 0 => Cardinality(Owing) = 0
      BY <3>1, FS_EmptySet
    <3> QED BY <1>1, <2>2, <3>2
  <2> QED BY <2>1, <2>2
<1>6. DebtInv'
  <2> DEFINE base == IF seeded THEN count ELSE Pending
  <2>1. base \in Nat /\ count' = IF m \in cur /\ base > 0 THEN base - 1 ELSE base
    BY <1>1 DEF Pending
  <2>2. faults = 0 => Pending + Cardinality(Owing) <= base + Cardinality(Uncounted)
    BY <1>5
  <2> HIDE DEF base
  <2>3. faults = 0 => Pending' + Cardinality(Owing) <= count' + Cardinality(Uncounted)
    <3>1. CASE m \in cur
      BY <1>1, <1>2, <2>1, <2>2, <3>1
    <3>2. CASE m \notin cur
      BY <1>2, <2>1, <2>2, <3>2
    <3> QED BY <3>1, <3>2
  <2> QED BY <1>0, <2>3 DEF DebtInv
<1>7. RoomInv'
  <2>1. faults = 0 /\ Writing # {} => Pending' + Cardinality(Writing) <= MaxPending + Cardinality(Sender) - 1
    BY <1>1, <1>2, <1>3 DEF CountInv, RoomInv, Shrinks
  <2>2. faults = 0 => Pending' <= MaxPending + Cardinality(Sender) - 1 \/ new' \cup cur' \subseteq Backlog
    BY <1>1, <1>2, <1>3 DEF CountInv, RoomInv, Shrinks
  <2> QED BY <1>0, <2>1, <2>2 DEF RoomInv
<1> QED BY <1>4, <1>6, <1>7 DEF CountInv

\* A scan reads new/ before cur/, and a message only moves from the one to the other.
LEMMA ScanCounts ==
  ASSUME TypeInv, CountInv, NEW p \in Proc, ScanNew(p) \/ ScanCur(p)
  PROVE  CountInv'
<1>0. /\ pc \in [Proc -> Label] /\ scan \in [Proc -> Nat] /\ UNCHANGED <<new, cur, seeded, count, faults>>
      /\ pc[p] \in {"scanNew", "scanCur"} /\ pc'[p] \in {"scanCur", "seed"}
      /\ \A x \in Proc \ {p} : pc'[x] = pc[x] /\ scan'[x] = scan[x]
  BY DEF TypeInv, TypeOK, HandlersOK, ScanNew, ScanCur
<1>1. Uncounted' = Uncounted /\ Writing' = Writing /\ Owing' = Owing /\ Pending' = Pending
  BY <1>0 DEF Uncounted, Writing, Owing, Proc, Pending
<1>2. /\ Cardinality(new) \in Nat /\ Cardinality(cur) \in Nat
  BY CountedSets
<1>3. ~seeded => /\ pc'[p] = "scanCur" => Cardinality(new) <= scan'[p]
                 /\ pc'[p] = "seed" => Pending <= scan'[p]
  <2>1. CASE ScanNew(p)
    <3>1. scan'[p] = Cardinality(new) /\ pc'[p] = "scanCur"
      BY <1>0, <2>1 DEF ScanNew
    <3> QED BY <1>2, <3>1
  <2>2. CASE ScanCur(p)
    <3>1. scan'[p] = scan[p] + Cardinality(cur) /\ pc'[p] = "seed" /\ pc[p] = "scanCur" /\ scan[p] \in Nat
      BY <1>0, <2>2 DEF ScanCur
    <3>2. ~seeded => Cardinality(new) <= scan[p]
      BY <3>1 DEF CountInv, SeedInv
    <3> QED BY <1>2, <3>1, <3>2 DEF Pending
  <2> QED BY <2>1, <2>2
<1>4. SeedInv'
  <2>1. ASSUME ~seeded, NEW x \in Proc
        PROVE  /\ pc'[x] = "scanCur" => Cardinality(new) <= scan'[x]
               /\ pc'[x] = "seed" => Pending <= scan'[x]
    <3>1. CASE x = p
      BY <1>3, <2>1, <3>1
    <3>2. CASE x # p
      BY <1>0, <2>1, <3>2 DEF CountInv, SeedInv
    <3> QED BY <3>1, <3>2
  <2>2. ASSUME ~seeded, NEW s \in Sender PROVE pc'[s] \notin {"write", "rename", "count"}
    BY <1>0, <2>2 DEF CountInv, SeedInv, Proc
  <2>3. ASSUME ~seeded, faults = 0, NEW c \in Conn PROVE pc'[c] \notin {"remove", "decr"}
    BY <1>0, <2>3 DEF CountInv, SeedInv, Proc
  <2> QED BY <1>0, <1>1, <2>1, <2>2, <2>3 DEF SeedInv
<1> QED BY <1>0, <1>1, <1>4 DEF CountInv, DebtInv, RoomInv

\* The same for a step of one handler, which leaves or keeps its class of labels.
LEMMA SteadyStep ==
  ASSUME TypeInv, TypeInv', CountInv, Shrinks, UNCHANGED <<seeded, count, faults, scan>>,
         NEW p \in Proc, NEW l, pc' = [pc EXCEPT ![p] = l],
         l \notin {"remove", "scanCur", "seed", "count", "decr", "write"},
         pc[p] \notin {"count", "decr"}, l = "rename" => pc[p] = "write"
  PROVE  CountInv'
<1>1. pc'[p] = l /\ \A x \in Proc \ {p} : pc'[x] = pc[x]
  BY DEF TypeInv, TypeOK, HandlersOK
<1>2. /\ \A s \in Sender : pc'[s] = "count" <=> pc[s] = "count"
      /\ \A s \in Sender : pc'[s] \in {"write", "rename"} => pc[s] \in {"write", "rename"}
      /\ \A c \in Conn : pc'[c] = "decr" <=> pc[c] = "decr"
      /\ \A x \in Proc : pc'[x] \in {"remove", "scanCur", "seed"} => pc'[x] = pc[x]
  BY <1>1 DEF Proc
<1> QED BY <1>2, SteadyCounts

\* The mailbox stays as it is.
LEMMA SameShrinks == ASSUME TypeInv, UNCHANGED <<new, cur>> PROVE Shrinks
BY ShrinkSteps

\* A broker starts with no counter and nobody in the middle of a delivery.
LEMMA InitCountInv == Init => CountInv
<1> SUFFICES ASSUME Init PROVE CountInv
  OBVIOUS
<1>1. /\ seeded = FALSE /\ new \cup cur \subseteq Backlog /\ \A p \in Proc : pc[p] = "idle"
  BY DEF Init
<1>2. Writing = {}
  BY <1>1 DEF Writing, Proc
<1> QED BY <1>1, <1>2 DEF CountInv, SeedInv, DebtInv, RoomInv, Proc

\* A delivery counts nothing until its message has landed.
LEMMA DeliverCounts ==
  ASSUME TypeInv, TypeInv', CountInv, NEW s \in Sender, Deliver(s)
  PROVE  CountInv'
<1>0. s \in Proc
  BY DEF Proc
<1>1. ASSUME NEW m \in Msg, DeliverBegin(s, m) PROVE CountInv'
  <2>1. /\ UNCHANGED <<new, cur, seeded, count, faults, scan>>
        /\ pc' = [pc EXCEPT ![s] = "lookup"] /\ pc[s] = "idle"
    BY <1>1 DEF DeliverBegin
  <2> QED BY <1>0, <2>1, SameShrinks, SteadyStep
<1>2. CASE DeliverTemp(s)
  <2>1. /\ UNCHANGED <<new, cur, seeded, count, faults, scan>>
        /\ pc' = [pc EXCEPT ![s] = "rename"] /\ pc[s] = "write"
    BY <1>2 DEF DeliverTemp
  <2> QED BY <1>0, <2>1, SameShrinks, SteadyStep
<1>3. CASE DeliverRename(s)
  <2>1. CASE s \in tmp
    BY <1>3, <2>1, LandedCounts
  <2>2. CASE s \notin tmp
    <3>1. /\ UNCHANGED <<new, cur, seeded, count, faults, scan>>
          /\ pc' = [pc EXCEPT ![s] = "idle"] /\ pc[s] = "rename"
      BY <1>3, <2>2 DEF DeliverRename
    <3> QED BY <1>0, <3>1, SameShrinks, SteadyStep
  <2> QED BY <2>1, <2>2
<1>4. CASE DeliverCount(s)
  BY <1>4, AddCounts
<1>5. CASE PushNew(s)
  <2>1. /\ UNCHANGED <<new, cur, seeded, count, faults, scan>> /\ pc[s] = "push"
        /\ pc' = [pc EXCEPT ![s] = "idle"] \/ pc' = [pc EXCEPT ![s] = "list"]
    BY <1>5 DEF PushNew
  <2> QED BY <1>0, <2>1, SameShrinks, SteadyStep
<1>6. CASE DeliverDone(s)
  <2>1. /\ UNCHANGED <<new, cur, seeded, count, faults, scan>>
        /\ pc' = [pc EXCEPT ![s] = "idle"] /\ pc[s] = "send"
    BY <1>6 DEF DeliverDone
  <2> QED BY <1>0, <2>1, SameShrinks, SteadyStep
<1>7. CASE DeliverFail(s)
  <2>1. UNCHANGED <<seeded, new, cur, scan>> /\ faults' = faults + 1
    BY <1>7 DEF DeliverFail
  <2>2. \A p \in Proc : pc'[p] \in {"scanCur", "seed", "write", "rename", "count"} => pc'[p] = pc[p]
    BY <1>7 DEF DeliverFail, TypeInv, TypeOK, HandlersOK
  <2> QED BY <2>1, <2>2, FaultCounts
<1> QED BY <1>1, <1>2, <1>3, <1>4, <1>5, <1>6, <1>7 DEF Deliver

\* A subscription counts nothing; it may quarantine what it cannot read.
LEMMA SubscribeCounts ==
  ASSUME TypeInv, TypeInv', CountInv, NEW c \in Conn, Subscribe(c)
  PROVE  CountInv'
<1>0. c \in Proc
  BY DEF Proc
<1>1. CASE SubscribeInsert(c)
  <2>1. /\ UNCHANGED <<new, cur, seeded, count, faults, scan>>
        /\ pc' = [pc EXCEPT ![c] = "recover"] /\ pc[c] = "idle"
    BY <1>1 DEF SubscribeInsert
  <2> QED BY <1>0, <2>1, SameShrinks, SteadyStep
<1>2. CASE Recover(c)
  <2>1. /\ UNCHANGED <<new, seeded, count, faults, scan>> /\ cur' = cur \ Bad
        /\ pc' = [pc EXCEPT ![c] = "resend"] /\ pc[c] = "recover"
    BY <1>2 DEF Recover
  <2>2. Shrinks
    BY <2>1, ShrinkSteps
  <2> QED BY <1>0, <2>1, <2>2, SteadyStep
<1>3. CASE RecoverDone(c)
  <2>1. /\ UNCHANGED <<new, cur, seeded, count, faults, scan>>
        /\ pc' = [pc EXCEPT ![c] = "list"] /\ pc[c] = "resend"
    BY <1>3 DEF RecoverDone
  <2> QED BY <1>0, <2>1, SameShrinks, SteadyStep
<1>4. CASE SubscribePublish(c)
  <2>1. /\ UNCHANGED <<new, cur, seeded, count, faults, scan>>
        /\ pc' = [pc EXCEPT ![c] = "live"] /\ pc[c] = "send"
    BY <1>4 DEF SubscribePublish
  <2> QED BY <1>0, <2>1, SameShrinks, SteadyStep
<1>5. CASE SubscribeFail(c)
  <2>1. UNCHANGED <<seeded, new, cur, scan>> /\ faults' = faults + 1
    BY <1>5 DEF SubscribeFail
  <2>2. \A p \in Proc : pc'[p] \in {"scanCur", "seed", "write", "rename", "count"} => pc'[p] = pc[p]
    BY <1>5 DEF SubscribeFail, TypeInv, TypeOK, HandlersOK
  <2> QED BY <2>1, <2>2, FaultCounts
<1>6. CASE Close(c)
  <2>1. /\ UNCHANGED <<new, cur, seeded, count, faults, scan>>
        /\ pc' = [pc EXCEPT ![c] = "closed"] /\ pc[c] = "live"
    BY <1>6 DEF Close
  <2> QED BY <1>0, <2>1, SameShrinks, SteadyStep
<1> QED BY <1>1, <1>2, <1>3, <1>4, <1>5, <1>6 DEF Subscribe

\* The consumer's ACK takes its message away first and counts it afterwards.
LEMMA ConsumeCounts ==
  ASSUME TypeInv, TypeInv', CountInv, NEW c \in Conn, Consume(c)
  PROVE  CountInv'
<1>0. c \in Proc
  BY DEF Proc
<1>1. ASSUME NEW m \in Msg, Forward(c, m) PROVE CountInv'
  <2>1. UNCHANGED <<new, cur, seeded, count, faults, scan, pc>>
    BY <1>1 DEF Forward
  <2> QED BY <2>1, SameShrinks, SteadyCounts
<1>2. ASSUME NEW m \in Msg, AckBegin(c, m) PROVE CountInv'
  <2>1. /\ UNCHANGED <<new, cur, seeded, count, faults, scan>>
        /\ pc' = [pc EXCEPT ![c] = "lookup"] /\ pc[c] \in {"live", "idle"}
    BY <1>2 DEF AckBegin
  <2> QED BY <1>0, <2>1, SameShrinks, SteadyStep
<1>3. CASE AckUnseeded(c)
  <2>1. UNCHANGED <<seeded, new, cur, scan>> /\ faults' = faults + 1
    BY <1>3 DEF AckUnseeded
  <2>2. \A p \in Proc : pc'[p] \in {"scanCur", "seed", "write", "rename", "count"} => pc'[p] = pc[p]
    BY <1>3 DEF AckUnseeded, TypeInv, TypeOK, HandlersOK
  <2> QED BY <2>1, <2>2, FaultCounts
<1>4. CASE AckRemove(c)
  <2>1. CASE msg[c] \in cur
    BY <1>4, <2>1, AckCounts
  <2>2. CASE msg[c] \notin cur
    <3>1. /\ UNCHANGED <<new, cur, seeded, count, faults, scan>> /\ pc[c] = "remove"
          /\ pc' = [pc EXCEPT ![c] = "live"] \/ pc' = [pc EXCEPT ![c] = "idle"]
      BY <1>4, <2>2 DEF AckRemove, AckReturn
    <3> QED BY <1>0, <3>1, SameShrinks, SteadyStep
  <2> QED BY <2>1, <2>2
<1>5. CASE AckDecrement(c)
  BY <1>5, PaidCounts
<1> QED BY <1>1, <1>2, <1>3, <1>4, <1>5 DEF Consume

\* Counting, claiming and routing.
LEMMA DrainCounts ==
  ASSUME TypeInv, TypeInv', CountInv, NEW p \in Proc, CountAndDrain(p)
  PROVE  CountInv'
<1>0. pc \in [Proc -> Label] /\ claimed \in [Proc -> SUBSET Msg] /\ Msg \subseteq Nat
  BY MsgAssumption DEF TypeInv, TypeOK, HandlersOK
<1>1. CASE Lookup(p)
  <2>1. UNCHANGED <<new, cur, seeded, count, faults, scan>> /\ pc[p] = "lookup"
    BY <1>1 DEF Lookup
  <2>2. CASE seeded
    <3>1. AfterCount(p, count')
      BY <1>1, <2>1, <2>2 DEF Lookup
    <3>2. seeded' = TRUE
      BY <2>1, <2>2 DEF TypeInv, TypeOK, TablesOK
    <3> QED BY <2>1, <2>2, <3>1, <3>2, Admitted
  <2>3. CASE ~seeded
    <3>1. pc' = [pc EXCEPT ![p] = "scanNew"]
      BY <1>1, <2>3 DEF Lookup
    <3> QED BY <2>1, <3>1, SameShrinks, SteadyStep
  <2> QED BY <2>2, <2>3
<1>2. CASE ScanNew(p) \/ ScanCur(p)
  BY <1>2, ScanCounts
<1>3. CASE Seed(p)
  <2>1. /\ UNCHANGED <<new, cur, faults, scan>> /\ seeded' = TRUE /\ pc[p] = "seed"
        /\ AfterCount(p, count') /\ count' = IF seeded THEN count ELSE scan[p]
    BY <1>3 DEF Seed
  <2>2. ~seeded => Pending <= count'
    BY <2>1 DEF CountInv, SeedInv
  <2>3. seeded => count' = count
    BY <2>1
  <2> QED BY <2>1, <2>2, <2>3, Admitted
<1>4. CASE DrainList(p)
  <2>1. /\ UNCHANGED <<new, cur, seeded, count, faults, scan>>
        /\ pc' = [pc EXCEPT ![p] = "claim"] /\ pc[p] = "list"
    BY <1>4 DEF DrainList
  <2> QED BY <2>1, SameShrinks, SteadyStep
<1>5. CASE DrainClaim(p)
  <2>1. UNCHANGED <<seeded, count, faults, scan, pc>>
    BY <1>5 DEF DrainClaim
  <2>2. PICK m \in Msg :
          new' = new \ {m} /\ \/ m \in new /\ cur' = cur \cup {m}
                              \/ cur' = cur
    BY <1>5 DEF DrainClaim
  <2>3. Shrinks
    <3>1. CASE m \in new /\ cur' = cur \cup {m}
      BY <2>2, <3>1, MoveShrinks
    <3>2. CASE cur' = cur
      BY <2>2, <3>2, ShrinkSteps
    <3> QED BY <2>2, <3>1, <3>2
  <2> QED BY <2>1, <2>3, SteadyCounts
<1>6. CASE DrainClaimed(p)
  <2>1. /\ UNCHANGED <<new, cur, seeded, count, faults, scan>>
        /\ pc' = [pc EXCEPT ![p] = "send"] /\ pc[p] = "claim"
    BY <1>6 DEF DrainClaimed
  <2> QED BY <2>1, SameShrinks, SteadyStep
<1>7. CASE Route(p)
  <2>1. UNCHANGED <<new, pc, faults, scan>>
    BY <1>7 DEF Route
  <2>2. PICK m \in Msg :
          \/ UNCHANGED <<cur, seeded, count>>
          \/ /\ seeded' = TRUE /\ cur' = cur \ {m}
             /\ count' = (LET base == IF seeded THEN count ELSE Cardinality(new) + Cardinality(cur)
                          IN IF m \in cur /\ base > 0 THEN base - 1 ELSE base)
    <3>1. PICK m \in Msg : \/ RouteFenced(p, m) \/ RoutePlain(p, m)
                           \/ UNCHANGED <<cur, seeded, count, pushed, retired>>
      BY <1>7 DEF Route
    <3> QED BY <3>1 DEF RouteFenced, RoutePlain
  <2>3. CASE UNCHANGED <<cur, seeded, count>>
    BY <2>1, <2>3, SameShrinks, SteadyCounts
  <2>4. CASE ~UNCHANGED <<cur, seeded, count>>
    BY <2>1, <2>2, <2>4, RetireCounts
  <2> QED BY <2>3, <2>4
<1> QED BY <1>1, <1>2, <1>3, <1>4, <1>5, <1>6, <1>7 DEF CountAndDrain

\* A broker that starts again counts afresh.
LEMMA CrashCounts == ASSUME CountInv, Crash PROVE CountInv'
<1>1. /\ seeded' = FALSE /\ UNCHANGED <<new, cur, faults>>
      /\ \A p \in Proc : pc'[p] \in {"idle", "closed"}
  BY DEF Crash
<1>2. Writing' = {}
  BY <1>1 DEF Writing, Proc
<1>3. Pending' = Pending
  BY <1>1 DEF Pending
<1> QED BY <1>1, <1>2, <1>3 DEF CountInv, SeedInv, DebtInv, RoomInv, Proc

\* No step of a broker without GC breaks the counter's invariant.
LEMMA NextCountInv ==
  ~GcEnabled /\ TypeInv /\ RefInv /\ CountInv /\ [Next]_vars => CountInv'
<1> SUFFICES ASSUME ~GcEnabled, TypeInv, RefInv, CountInv, [Next]_vars PROVE CountInv'
  OBVIOUS
<1>0. TypeInv'
  BY NextTypeInv
<1>1. ASSUME NEW s \in Sender, Deliver(s) PROVE CountInv'
  BY <1>0, <1>1, DeliverCounts
<1>2. ASSUME NEW c \in Conn, Subscribe(c) PROVE CountInv'
  BY <1>0, <1>2, SubscribeCounts
<1>3. ASSUME NEW c \in Conn, Consume(c) PROVE CountInv'
  BY <1>0, <1>3, ConsumeCounts
<1>4. ASSUME NEW p \in Proc, CountAndDrain(p) PROVE CountInv'
  BY <1>0, <1>4, DrainCounts
<1>5. ~Gc
  BY DEF RefInv, Gc, GcStep, GcSnapshot, GcScan, GcRecheckSub, GcRecheckEmpty, GcRemove, GcForget
<1>6. CASE Crash
  BY <1>6, CrashCounts
<1>7. CASE UNCHANGED vars
  <2>1. UNCHANGED <<new, cur, seeded, count, faults, scan, pc>>
    BY <1>7 DEF vars
  <2> QED BY <1>0, <2>1, SameShrinks, SteadyCounts
<1> QED BY <1>1, <1>2, <1>3, <1>4, <1>5, <1>6, <1>7 DEF Next

\* Without the GC every invariant of the broker holds together.
LEMMA InductiveCount == ~GcEnabled => (Spec => [](IInv /\ RefInv /\ CountInv))
<1> SUFFICES ASSUME ~GcEnabled PROVE Spec => [](IInv /\ RefInv /\ CountInv)
  OBVIOUS
<1>1. RefInv /\ IInv /\ [Next]_vars => RefInv'
  BY NextRefInv DEF IInv
<1>2. CountInv /\ RefInv /\ IInv /\ [Next]_vars => CountInv'
  BY NextCountInv DEF IInv
<1> QED BY InitRefInv, InitCountInv, Inductive, <1>1, <1>2, PTL DEF Spec

\* The pending counter: while no operation failed and the GC does not run, it is never
\* below the mailbox, but for the messages a deliver has renamed and not yet counted.
THEOREM CountCorrect == ~GcEnabled => (Spec => []CountNeverUnder)
<1> SUFFICES ASSUME ~GcEnabled PROVE Spec => []CountNeverUnder
  OBVIOUS
<1>1. IInv /\ CountInv => CountNeverUnder
  <2> SUFFICES ASSUME TypeInv, DebtInv, seeded, faults = 0
               PROVE  Cardinality(new) + Cardinality(cur) <= count + Cardinality(Uncounted)
    BY DEF IInv, CountInv, CountNeverUnder
  <2>1. Uncounted \in SUBSET Sender /\ Owing \in SUBSET Conn
    BY DEF Uncounted, Owing
  <2>2. /\ Cardinality(Uncounted) \in Nat /\ Cardinality(Owing) \in Nat /\ Pending \in Nat /\ count \in Nat
    BY <2>1, CountedSets DEF TypeInv, TypeOK, TablesOK
  <2>3. Pending + Cardinality(Owing) <= count + Cardinality(Uncounted)
    BY DEF DebtInv
  <2>4. Pending <= count + Cardinality(Uncounted)
    BY <2>2, <2>3
  <2> QED BY <2>4 DEF Pending
<1> QED BY InductiveCount, <1>1, PTL

\* The cap of deliver: while no operation failed and the GC does not run, what the mailbox
\* holds exceeds the cap by at most the other deliveries under way.
THEOREM BacklogCorrect == ~GcEnabled => (Spec => []BacklogBound)
<1> SUFFICES ASSUME ~GcEnabled PROVE Spec => []BacklogBound
  OBVIOUS
<1>1. IInv /\ CountInv => BacklogBound
  <2> SUFFICES ASSUME TypeInv, RoomInv PROVE BacklogBound
    BY DEF IInv, CountInv
  <2>1. /\ IsFiniteSet(new) /\ IsFiniteSet(cur) /\ Cardinality(new) \in Nat /\ Cardinality(cur) \in Nat
        /\ Cardinality(Sender) \in Nat /\ MaxPending \in Nat
    BY CountedSets, BoundAssumption
  <2>2. IsFiniteSet(new \cap cur) /\ Cardinality(new \cap cur) \in Nat
    BY <2>1, SubsetCard
  <2>3. Cardinality(new \cup cur) = Cardinality(new) + Cardinality(cur) - Cardinality(new \cap cur)
    BY <2>1, FS_Union
  <2>4. faults = 0 => Pending <= MaxPending + Cardinality(Sender) - 1 \/ new \cup cur \subseteq Backlog
    BY DEF RoomInv
  <2>5. Pending <= MaxPending + Cardinality(Sender) - 1
          => Cardinality(new \cup cur) <= MaxPending + Cardinality(Sender) - 1
    BY <2>1, <2>2, <2>3 DEF Pending
  <2> QED BY <2>4, <2>5 DEF BacklogBound
<1> QED BY InductiveCount, <1>1, PTL
=============================================================================
