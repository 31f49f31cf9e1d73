------------------------------ MODULE BrokerCore ------------------------------
(***************************************************************************)
(* One durable mailbox of the broker (crates/app/bamboo-broker/src/core.rs)*)
(* on its Maildir (crates/infra/bamboo-subagent/src/mailbox.rs), with the  *)
(* connections of server.rs that deliver to it, subscribe to it and        *)
(* acknowledge its messages, the background mailbox GC, and crashes of the *)
(* broker process.                                                         *)
(*                                                                         *)
(* Mailboxes share no state but the two brief map locks, so one mailbox is *)
(* enough.  Every await point of deliver, subscribe, ack and gc is a step  *)
(* boundary: a directory listing, a rename, a map lookup and an update of  *)
(* the in-memory counter are separate steps that other connections may     *)
(* interleave with.  Messages are natural numbers because the reader sorts *)
(* file names by creation time.  The two lanes of a subscriber (control    *)
(* and events) are one set here: no property below depends on the lane a   *)
(* message takes or on its place in it.                                    *)
(***************************************************************************)
EXTENDS Integers, FiniteSets

CONSTANTS
  Msg,          \* message files, ordered by file name
  Fenced,       \* the messages of kind FencedRun
  Backlog,      \* the messages an earlier broker may have left on disk
  Leased,       \* legacy LeasedRun files a previous broker left on disk
  Bad,          \* files that do not parse
  Sender,       \* connections that Deliver to the mailbox
  Conn,         \* connections that Subscribe to it, one subscription each
  None,         \* no subscriber, no sink
  OldGen,       \* the connection generation of an earlier broker process
  Scoped,       \* the listener runs under a PeerPolicy
  GcEnabled,    \* spawn_mailbox_gc is running
  MaxPending,   \* max_pending_per_mailbox
  MaxFaults,    \* bound: filesystem errors
  MaxCrashes    \* bound: broker restarts

Proc == Sender \cup Conn

ASSUME MsgAssumption == Msg \subseteq Nat /\ IsFiniteSet(Msg)
ASSUME KindAssumption == Fenced \subseteq Msg /\ Backlog \subseteq Msg
                         /\ Leased \subseteq Backlog /\ Bad \subseteq Backlog
ASSUME ProcAssumption == Sender \cap Conn = {} /\ OldGen \notin Conn
                         /\ None \notin Proc \cup {OldGen}
\* A broker serves finitely many connections.
ASSUME FiniteAssumption == IsFiniteSet(Proc)
ASSUME ModeAssumption == Scoped \in BOOLEAN /\ GcEnabled \in BOOLEAN
ASSUME BoundAssumption == MaxPending \in Nat /\ MaxFaults \in Nat /\ MaxCrashes \in Nat

VARIABLES
  new, cur, corrupt,  \* the three Maildir directories
  tmp,                \* senders whose hidden temp file is in new/
  dir,                \* the mailbox directory exists
  sub,                \* the subscriber table entry of the mailbox
  observed,           \* its host_observation is published
  seeded, count,      \* the pending_counts entry, and whether there is one
  pc,                 \* where each connection's handler is
  msg,                \* the message it delivers or acknowledges
  scan,               \* partial result of its pending_count scan
  todo,               \* names listed and not yet claimed
  claimed,            \* Delivered values not yet routed
  sink,               \* the push sink it captured
  gcpc,               \* where the GC sweep is
  gen,                \* recipient_connection_generation of a FencedRun
  pushed,             \* history: <<connection, message>> sent to a sink
  got,                \* messages the consumer received
  acked, retired,     \* messages removed by an ACK, by a newer generation
  receipted,          \* messages the sender got a Delivered receipt for
  raced,              \* history: landed between GC's re-check and its remove
  sent,               \* messages some sender has handed to deliver
  faults, crashes

disk  == <<new, cur, corrupt, tmp, dir>>
table == <<sub, observed>>
ctr   == <<seeded, count>>
local == <<msg, scan, todo, claimed, sink>>
hist  == <<gen, pushed, got, acked, retired, receipted, raced>>
bound == <<sent, faults, crashes>>
vars  == <<disk, table, ctr, pc, local, gcpc, hist, bound>>

Goto(p, l) == pc' = [pc EXCEPT ![p] = l]

\* The first name in the sorted listing.
First(m, S) == m \in S /\ \A k \in S : m <= k

Plain == Msg \ (Fenced \cup Leased)

-----------------------------------------------------------------------------
(* A broker process that starts on whatever Maildir its predecessor left. *)

Init ==
  /\ new \in SUBSET Backlog /\ cur \in SUBSET (Backlog \ new)
  /\ Leased \cup Bad \subseteq new \cup cur
  /\ corrupt = {} /\ tmp = {} /\ dir = TRUE
  /\ sub = None /\ observed = FALSE
  /\ seeded = FALSE /\ count = 0
  /\ pc = [p \in Proc |-> "idle"]
  /\ msg = [p \in Proc |-> 0] /\ scan = [p \in Proc |-> 0]
  /\ todo = [p \in Proc |-> {}] /\ claimed = [p \in Proc |-> {}]
  /\ sink = [p \in Proc |-> None]
  /\ gcpc = "idle"
  /\ gen = [m \in Msg |-> OldGen]
  /\ pushed = {} /\ got = {} /\ acked = {} /\ retired = {}
  /\ receipted = new \cup cur /\ raced = {}
  /\ sent = new \cup cur
  /\ faults = 0 /\ crashes = 0

-----------------------------------------------------------------------------
(* pending_count_for: one map lookup, or one scan of new/ then cur/ whose  *)
(* result is inserted only if no other handler seeded the entry meanwhile. *)
(* Deliver compares the value it is given with the cap before its next     *)
(* await, so the comparison belongs to the same step.                      *)

\* Mutant: the cap itself is still accepted.
AfterCountInclusive(p, n) ==
  Goto(p, IF p \in Conn THEN "remove"
          ELSE IF n > MaxPending THEN "idle" ELSE "write")

AfterCount(p, n) ==
  Goto(p, IF p \in Conn THEN "remove"
          ELSE IF n >= MaxPending THEN "idle" ELSE "write")

Lookup(p) ==
  /\ pc[p] = "lookup"
  /\ IF seeded THEN AfterCount(p, count) ELSE Goto(p, "scanNew")
  /\ UNCHANGED <<disk, table, ctr, local, gcpc, hist, bound>>

ScanNew(p) ==
  /\ pc[p] = "scanNew"
  /\ scan' = [scan EXCEPT ![p] = Cardinality(new)]
  /\ Goto(p, "scanCur")
  /\ UNCHANGED <<disk, table, ctr, msg, todo, claimed, sink, gcpc, hist, bound>>

ScanCur(p) ==
  /\ pc[p] = "scanCur"
  /\ scan' = [scan EXCEPT ![p] = @ + Cardinality(cur)]
  /\ Goto(p, "seed")
  /\ UNCHANGED <<disk, table, ctr, msg, todo, claimed, sink, gcpc, hist, bound>>

\* Mutant: insert instead of or_insert.
SeedOverwrite(p) ==
  /\ pc[p] = "seed"
  /\ seeded' = TRUE /\ count' = scan[p]
  /\ AfterCount(p, count')
  /\ UNCHANGED <<disk, table, local, gcpc, hist, bound>>

Seed(p) ==
  /\ pc[p] = "seed"
  /\ seeded' = TRUE
  /\ count' = IF seeded THEN count ELSE scan[p]
  /\ AfterCount(p, count')
  /\ UNCHANGED <<disk, table, local, gcpc, hist, bound>>

-----------------------------------------------------------------------------
(* BrokerCore::deliver *)

\* LeasedRun is refused outright; a FencedRun must name the generation of
\* the connection that is subscribed and published now.  A refusal changes
\* nothing, so only the accepted case is a step.
DeliverBegin(s, m) ==
  /\ pc[s] = "idle"
  /\ m \notin sent \cup Leased \cup Bad
  /\ IF m \in Fenced
     THEN sub # None /\ observed /\ gen' = [gen EXCEPT ![m] = sub]
     ELSE gen' = gen
  /\ sent' = sent \cup {m}
  /\ msg' = [msg EXCEPT ![s] = m]
  /\ Goto(s, "lookup")
  /\ UNCHANGED <<disk, table, ctr, scan, todo, claimed, sink, gcpc, pushed, got,
                 acked, retired, receipted, raced, faults, crashes>>

\* atomic_write: create the directory and the hidden temp file, sync it ...
DeliverTemp(s) ==
  /\ pc[s] = "write"
  /\ tmp' = tmp \cup {s} /\ dir' = TRUE
  /\ Goto(s, "rename")
  /\ UNCHANGED <<new, cur, corrupt, table, ctr, local, gcpc, hist, bound>>

\* ... and rename it into view; the rename fails if the GC removed the temp.
DeliverRename(s) ==
  /\ pc[s] = "rename"
  /\ \/ /\ s \in tmp
        /\ new' = new \cup {msg[s]}
        /\ tmp' = tmp \ {s}
        /\ raced' = IF gcpc = "remove" THEN raced \cup {msg[s]} ELSE raced
        /\ Goto(s, "count")
     \/ /\ s \notin tmp
        /\ Goto(s, "idle")
        /\ UNCHANGED <<new, tmp, raced>>
  /\ UNCHANGED <<cur, corrupt, dir, table, ctr, local, gcpc, gen, pushed, got,
                 acked, retired, receipted, bound>>

DeliverCount(s) ==
  /\ pc[s] = "count"
  /\ seeded' = TRUE
  /\ count' = (IF seeded THEN count ELSE 0) + 1
  /\ Goto(s, "push")
  /\ UNCHANGED <<disk, table, local, gcpc, hist, bound>>

\* push_new captures the current sinks, or leaves the message in new/.
PushNew(s) ==
  /\ pc[s] = "push"
  /\ sink' = [sink EXCEPT ![s] = sub]
  /\ IF sub = None
     THEN Goto(s, "idle") /\ receipted' = receipted \cup {msg[s]}
     ELSE Goto(s, "list") /\ UNCHANGED receipted
  /\ UNCHANGED <<disk, table, ctr, msg, scan, todo, claimed, gcpc, gen, pushed,
                 got, acked, retired, raced, bound>>

\* The Delivered receipt, once every claimed message has been routed.
DeliverDone(s) ==
  /\ s \in Sender /\ pc[s] = "send" /\ claimed[s] = {}
  /\ receipted' = receipted \cup {msg[s]}
  /\ Goto(s, "idle")
  /\ UNCHANGED <<disk, table, ctr, local, gcpc, gen, pushed, got, acked, retired,
                 raced, bound>>

\* The await points at which a filesystem error ends the operation: a scan,
\* the write, a listing, or the removal of a FencedRun being retired.
CanFail(p) ==
  \/ pc[p] \in {"scanNew", "scanCur", "write", "rename", "recover", "list"}
  \/ pc[p] \in {"send", "resend"} /\ claimed[p] \cap Fenced # {}

\* Deliver answers Err.  The temp file is removed; a message that was already
\* renamed stays where it is, and so do the ones claimed and not yet routed.
DeliverFail(s) ==
  /\ s \in Sender /\ CanFail(s) /\ faults < MaxFaults
  /\ faults' = faults + 1
  /\ tmp' = tmp \ {s}
  /\ claimed' = [claimed EXCEPT ![s] = {}]
  /\ Goto(s, "idle")
  /\ UNCHANGED <<new, cur, corrupt, dir, table, ctr, msg, scan, todo, sink, gcpc,
                 hist, sent, crashes>>

-----------------------------------------------------------------------------
(* Mailbox::drain and the routing of what it returns, for push_new and for *)
(* the preload of a subscription.                                          *)

DrainList(p) ==
  /\ pc[p] = "list"
  /\ dir' = TRUE
  /\ todo' = [todo EXCEPT ![p] = new]
  /\ Goto(p, "claim")
  /\ UNCHANGED <<new, cur, corrupt, tmp, table, ctr, msg, scan, claimed, sink,
                 gcpc, hist, bound>>

\* Mutant: a lost rename is tried again instead of skipped.
DrainClaimRetry(p) ==
  /\ pc[p] = "claim"
  /\ \E m \in todo[p] \cap new :
       /\ todo' = [todo EXCEPT ![p] = @ \ {m}]
       /\ new' = new \ {m} /\ cur' = cur \cup {m}
       /\ claimed' = [claimed EXCEPT ![p] = @ \cup {m}]
  /\ UNCHANGED <<corrupt, tmp, dir, table, ctr, pc, msg, scan, sink, gcpc, hist, bound>>

\* Rename new/ -> cur/; a name that is gone was claimed by someone else.
DrainClaim(p) ==
  /\ pc[p] = "claim"
  /\ \E m \in Msg :
       /\ First(m, todo[p])
       /\ todo' = [todo EXCEPT ![p] = @ \ {m}]
       /\ new' = new \ {m}
       /\ \/ /\ m \in new \ Bad
             /\ cur' = cur \cup {m}
             /\ claimed' = [claimed EXCEPT ![p] = @ \cup {m}]
             /\ UNCHANGED corrupt
          \/ /\ m \in new \cap Bad
             /\ corrupt' = corrupt \cup {m}
             /\ UNCHANGED <<cur, claimed>>
          \/ /\ m \notin new
             /\ UNCHANGED <<cur, corrupt, claimed>>
  /\ UNCHANGED <<tmp, dir, table, ctr, pc, msg, scan, sink, gcpc, hist, bound>>

DrainClaimed(p) ==
  /\ pc[p] = "claim" /\ todo[p] = {}
  /\ Goto(p, "send")
  /\ UNCHANGED <<disk, table, ctr, local, gcpc, hist, bound>>

\* The observation a FencedRun is checked against: the published one, or
\* while the subscription preloads, the candidate of that very connection.
Observation(p) ==
  IF observed THEN sub
  ELSE IF p \in Conn /\ Scoped THEN p ELSE None

\* Mutant: the Run goes to the sink captured before the drain.
RouteFencedCaptured(p, m) ==
  /\ sub # None /\ Observation(p) = gen[m]
  /\ pushed' = pushed \cup {<<sink[p], m>>}
  /\ UNCHANGED <<cur, seeded, count, retired>>

\* route_fenced_run: decided and acted on under the subscribers read lock,
\* against the subscriber of now.  A preload that was superseded does
\* nothing; a newer generation retires the Run and its pending count.
RouteFenced(p, m) ==
  LET current == sub # None /\ (p \in Conn => sub = p)
      base    == IF seeded THEN count ELSE Cardinality(new) + Cardinality(cur)
  IN \/ /\ current /\ Observation(p) = gen[m]
        /\ pushed' = pushed \cup {<<sub, m>>}
        /\ UNCHANGED <<cur, seeded, count, retired>>
     \/ /\ current /\ Observation(p) \notin {None, gen[m]}
        /\ seeded' = TRUE
        /\ cur' = cur \ {m}
        /\ count' = IF m \in cur /\ base > 0 THEN base - 1 ELSE base
        /\ retired' = IF m \in cur THEN retired \cup {m} ELSE retired
        /\ UNCHANGED pushed
     \/ /\ ~current \/ Observation(p) = None
        /\ UNCHANGED <<cur, seeded, count, pushed, retired>>

\* An ordinary message goes to the captured sink, whoever owns it by now.
RoutePlain(p, m) ==
  /\ pushed' = pushed \cup {<<sink[p], m>>}
  /\ UNCHANGED <<cur, seeded, count, retired>>

Route(p) ==
  /\ pc[p] \in {"send", "resend"}
  /\ \E m \in Msg :
       /\ First(m, claimed[p])
       /\ claimed' = [claimed EXCEPT ![p] = @ \ {m}]
       /\ \/ m \in Fenced /\ RouteFenced(p, m)
          \/ m \in Plain /\ RoutePlain(p, m)
          \/ m \in Leased /\ UNCHANGED <<cur, seeded, count, pushed, retired>>
  /\ UNCHANGED <<new, corrupt, tmp, dir, table, pc, msg, scan, todo, sink, gcpc,
                 gen, got, acked, receipted, raced, bound>>

-----------------------------------------------------------------------------
(* BrokerCore::subscribe_streams *)

\* Install the subscriber, replacing any older one, observation hidden.
SubscribeInsert(c) ==
  /\ pc[c] = "idle"
  /\ sub' = c /\ observed' = FALSE
  /\ sink' = [sink EXCEPT ![c] = c]
  /\ Goto(c, "recover")
  /\ UNCHANGED <<disk, ctr, msg, scan, todo, claimed, gcpc, hist, bound>>

\* Mutant: what is in cur/ is not pushed again.
RecoverNothing(c) ==
  /\ pc[c] = "recover"
  /\ dir' = TRUE
  /\ Goto(c, "resend")
  /\ UNCHANGED <<new, cur, corrupt, tmp, table, ctr, local, gcpc, hist, bound>>

\* Mailbox::recover lists cur/ and quarantines what does not parse.
Recover(c) ==
  /\ pc[c] = "recover"
  /\ dir' = TRUE
  /\ claimed' = [claimed EXCEPT ![c] = cur \ Bad]
  /\ corrupt' = corrupt \cup (cur \cap Bad)
  /\ cur' = cur \ Bad
  /\ Goto(c, "resend")
  /\ UNCHANGED <<new, tmp, table, ctr, msg, scan, todo, sink, gcpc, hist, bound>>

\* Mutant: the preload recovers and does not drain.
RecoverDoneNoDrain(c) ==
  /\ pc[c] = "resend" /\ claimed[c] = {}
  /\ Goto(c, "send")
  /\ UNCHANGED <<disk, table, ctr, local, gcpc, hist, bound>>

RecoverDone(c) ==
  /\ pc[c] = "resend" /\ claimed[c] = {}
  /\ Goto(c, "list")
  /\ UNCHANGED <<disk, table, ctr, local, gcpc, hist, bound>>

\* Publish the observation if the connection still owns the entry.
SubscribePublish(c) ==
  /\ c \in Conn /\ pc[c] = "send" /\ claimed[c] = {}
  /\ observed' = IF Scoped /\ sub = c THEN TRUE ELSE observed
  /\ Goto(c, "live")
  /\ UNCHANGED <<disk, sub, ctr, local, gcpc, hist, bound>>

\* unsubscribe_if_owner: a replaced connection must not evict its successor.
UnsubscribeIfOwner(c) ==
  /\ sub' = IF sub = c THEN None ELSE sub
  /\ observed' = IF sub = c THEN FALSE ELSE observed

\* An I/O error in the preload undoes the registration.
SubscribeFail(c) ==
  /\ CanFail(c) /\ pc[c] \notin {"scanNew", "scanCur"} /\ faults < MaxFaults
  /\ faults' = faults + 1
  /\ claimed' = [claimed EXCEPT ![c] = {}]
  /\ UnsubscribeIfOwner(c)
  /\ Goto(c, "closed")
  /\ UNCHANGED <<disk, ctr, msg, scan, todo, sink, gcpc, hist, sent, crashes>>

Close(c) ==
  /\ pc[c] = "live"
  /\ UnsubscribeIfOwner(c)
  /\ Goto(c, "closed")
  /\ UNCHANGED <<disk, ctr, local, gcpc, hist, bound>>

-----------------------------------------------------------------------------
(* The consumer behind the connections, and BrokerCore::ack *)

\* The connection loop forwards a pushed item to its client.
Forward(c, m) ==
  /\ pc[c] = "live" /\ <<c, m>> \in pushed /\ m \notin got
  /\ got' = got \cup {m}
  /\ UNCHANGED <<disk, table, ctr, pc, local, gcpc, gen, pushed, acked, retired,
                 receipted, raced, bound>>

\* Mutant: an item is acknowledged when it is pushed, not when it was read.
AckBeginUnread(c, m) ==
  /\ <<c, m>> \in pushed /\ pc[c] = "live"
  /\ msg' = [msg EXCEPT ![c] = m]
  /\ Goto(c, "lookup")
  /\ UNCHANGED <<disk, table, ctr, scan, todo, claimed, sink, gcpc, hist, bound>>

\* A scoped connection must own the subscription when its Ack is admitted;
\* AckWithReceipt is also taken from a connection that never subscribed.
AckBegin(c, m) ==
  /\ m \in got
  /\ \/ pc[c] = "live" /\ (Scoped => sub = c)
     \/ pc[c] = "idle"
  /\ msg' = [msg EXCEPT ![c] = m]
  /\ Goto(c, "lookup")
  /\ UNCHANGED <<disk, table, ctr, scan, todo, claimed, sink, gcpc, hist, bound>>

AckReturn(c) == Goto(c, IF sink[c] = c THEN "live" ELSE "idle")

\* ack ignores an error of the scan and goes on without a seeded counter.
AckUnseeded(c) ==
  /\ c \in Conn /\ pc[c] \in {"scanNew", "scanCur"} /\ faults < MaxFaults
  /\ faults' = faults + 1
  /\ Goto(c, "remove")
  /\ UNCHANGED <<disk, table, ctr, local, gcpc, hist, sent, crashes>>

AckRemove(c) ==
  /\ pc[c] = "remove"
  /\ IF msg[c] \in cur
     THEN /\ cur' = cur \ {msg[c]}
          /\ acked' = acked \cup {msg[c]}
          /\ Goto(c, "decr")
     ELSE AckReturn(c) /\ UNCHANGED <<cur, acked>>
  /\ UNCHANGED <<new, corrupt, tmp, dir, table, ctr, local, gcpc, gen, pushed,
                 got, retired, receipted, raced, bound>>

\* Mutant: the decrement does not saturate.
AckDecrementWrapping(c) ==
  /\ pc[c] = "decr"
  /\ count' = IF seeded THEN count - 1 ELSE count
  /\ AckReturn(c)
  /\ UNCHANGED <<disk, table, seeded, local, gcpc, hist, bound>>

AckDecrement(c) ==
  /\ pc[c] = "decr"
  /\ count' = IF seeded /\ count > 0 THEN count - 1 ELSE count
  /\ AckReturn(c)
  /\ UNCHANGED <<disk, table, seeded, local, gcpc, hist, bound>>

-----------------------------------------------------------------------------
(* BrokerCore::gc_empty_mailboxes, for this mailbox *)

GcStep(from, to, ok) ==
  /\ gcpc = from
  /\ gcpc' = IF ok THEN to ELSE "idle"
  /\ UNCHANGED <<disk, table, ctr, pc, local, hist, bound>>

GcSnapshot     == GcEnabled /\ sub = None /\ GcStep("idle", "scan", TRUE)
GcScan         == GcStep("scan", "recheckSub", dir /\ new \cup cur = {})
GcRecheckSub   == GcStep("recheckSub", "recheckEmpty", sub = None)
\* Mutant: phase 2 trusts the scan of phase 1.
GcNoRecheckEmpty == GcStep("recheckEmpty", "remove", TRUE)
GcRecheckEmpty == GcStep("recheckEmpty", "remove", new \cup cur = {})

\* remove_dir_all takes whatever is there by now; it may also fail half way,
\* because the directory is gone or a file appeared in it as it was emptied.
GcRemove ==
  /\ gcpc = "remove"
  /\ \/ /\ dir /\ dir' = FALSE
        /\ new' = {} /\ cur' = {} /\ corrupt' = {} /\ tmp' = {}
        /\ gcpc' = "forget"
     \/ /\ new' \in SUBSET new /\ cur' \in SUBSET cur /\ tmp' \in SUBSET tmp
        /\ corrupt' \in {corrupt, {}}
        /\ gcpc' = "idle"
        /\ UNCHANGED dir
  /\ UNCHANGED <<table, ctr, pc, local, hist, bound>>

GcForget ==
  /\ gcpc = "forget"
  /\ gcpc' = "idle"
  /\ seeded' = FALSE /\ count' = 0
  /\ UNCHANGED <<disk, table, pc, local, hist, bound>>

-----------------------------------------------------------------------------
(* The broker process dies and starts again on the same directory. *)

Crash ==
  /\ crashes < MaxCrashes
  /\ crashes' = crashes + 1
  /\ sub' = None /\ observed' = FALSE
  /\ seeded' = FALSE /\ count' = 0
  /\ pc' = [p \in Proc |-> IF p \in Conn /\ pc[p] # "idle" THEN "closed" ELSE "idle"]
  /\ todo' = [p \in Proc |-> {}] /\ claimed' = [p \in Proc |-> {}]
  /\ tmp' = {} /\ gcpc' = "idle"
  /\ UNCHANGED <<new, cur, corrupt, dir, msg, scan, sink, hist, sent, faults>>

-----------------------------------------------------------------------------

Deliver(s) ==
  \/ \E m \in Msg : DeliverBegin(s, m)
  \/ DeliverTemp(s) \/ DeliverRename(s) \/ DeliverCount(s)
  \/ PushNew(s) \/ DeliverDone(s) \/ DeliverFail(s)

Subscribe(c) ==
  \/ SubscribeInsert(c) \/ Recover(c) \/ RecoverDone(c)
  \/ SubscribePublish(c) \/ SubscribeFail(c) \/ Close(c)

Consume(c) ==
  \/ \E m \in Msg : Forward(c, m) \/ AckBegin(c, m)
  \/ AckUnseeded(c) \/ AckRemove(c) \/ AckDecrement(c)

CountAndDrain(p) ==
  \/ Lookup(p) \/ ScanNew(p) \/ ScanCur(p) \/ Seed(p)
  \/ DrainList(p) \/ DrainClaim(p) \/ DrainClaimed(p) \/ Route(p)

Gc == GcSnapshot \/ GcScan \/ GcRecheckSub \/ GcRecheckEmpty \/ GcRemove \/ GcForget

Next ==
  \/ \E s \in Sender : Deliver(s)
  \/ \E c \in Conn : Subscribe(c) \/ Consume(c)
  \/ \E p \in Proc : CountAndDrain(p)
  \/ Gc
  \/ Crash

Spec == Init /\ [][Next]_vars

\* A handler that has a step to take takes it; requests, closes, I/O errors,
\* the GC timer and crashes may or may not happen.
Progress(p) ==
  \/ CountAndDrain(p)
  \/ p \in Sender /\ (DeliverTemp(p) \/ DeliverRename(p) \/ DeliverCount(p)
                       \/ PushNew(p) \/ DeliverDone(p))
  \/ p \in Conn /\ (Recover(p) \/ RecoverDone(p) \/ SubscribePublish(p)
                     \/ AckRemove(p) \/ AckDecrement(p))

FairSpec == Spec /\ \A p \in Proc : WF_vars(Progress(p))

-----------------------------------------------------------------------------
(* Properties *)

Label == {"idle", "lookup", "scanNew", "scanCur", "seed", "write", "rename",
          "count", "push", "list", "claim", "send", "recover", "resend", "live",
          "remove", "decr", "closed"}

DiskOK ==
  /\ new \subseteq Msg /\ cur \subseteq Msg /\ corrupt \subseteq Msg
  /\ tmp \subseteq Sender /\ dir \in BOOLEAN

TablesOK ==
  /\ sub \in Conn \cup {None} /\ observed \in BOOLEAN
  /\ seeded \in BOOLEAN /\ count \in Nat
  /\ gcpc \in {"idle", "scan", "recheckSub", "recheckEmpty", "remove", "forget"}
  /\ faults \in Nat /\ crashes \in Nat

HandlersOK ==
  /\ pc \in [Proc -> Label]
  /\ msg \in [Proc -> Nat] /\ scan \in [Proc -> Nat]
  /\ todo \in [Proc -> SUBSET Msg] /\ claimed \in [Proc -> SUBSET Msg]
  /\ sink \in [Proc -> Conn \cup {None}]

HistoryOK ==
  /\ gen \in [Msg -> Conn \cup {OldGen}]
  /\ pushed \subseteq Conn \X Msg /\ got \subseteq Msg
  /\ acked \subseteq Msg /\ retired \subseteq Msg /\ receipted \subseteq Msg
  /\ raced \subseteq Msg /\ sent \subseteq Msg

\* The types of all variables; the counter saturates at zero (ack), and only
\* sinks of real connections are ever pushed to.
TypeOK == DiskOK /\ TablesOK /\ HandlersOK /\ HistoryOK

\* A message whose sender holds a Delivered receipt is never left in new/
\* beside a subscriber: either nobody is subscribed, or the subscriber is
\* still in the preload that will claim it (subscribe_streams registers the
\* sink before it drains, deliver renames before it looks for a sink).
NoLostWakeup ==
  \A m \in new \cap receipted :
    sub # None => pc[sub] \in {"recover", "resend", "list", "claim"}

\* A FencedRun reaches only the connection generation it names, and is
\* retired only once another generation owns the mailbox (route_fenced_run).
NoStaleRun ==
  /\ \A c \in Conn, m \in Fenced : <<c, m>> \in pushed => gen[m] = c
  /\ \A m \in retired : gen[m] # sub

\* A receipted message is on disk, was acknowledged by its consumer or was
\* retired, unless its rename landed between the emptiness check and the
\* remove_dir_all of gc_empty_mailboxes (GC also drops quarantined files).
NoLossOutsideRace ==
  receipted \ (raced \cup Bad) \subseteq new \cup cur \cup acked \cup retired

\* What gc_empty_mailboxes promises: deleting an empty mailbox is lossless.
GcLossless ==
  receipted \ Bad \subseteq new \cup cur \cup acked \cup retired

Uncounted == {s \in Sender : pc[s] = "count"}

\* While no operation failed, the pending counter never runs below the
\* mailbox, but for the messages whose deliver is between rename and +1.
CountNeverUnder ==
  seeded /\ faults = 0 =>
    Cardinality(new) + Cardinality(cur) <= count + Cardinality(Uncounted)

\* The cap of deliver is overshot by at most the other deliveries under way.
BacklogBound ==
  faults = 0 =>
    \/ Cardinality(new \cup cur) <= MaxPending + Cardinality(Sender) - 1
    \/ new \cup cur \subseteq Backlog

\* A mailbox whose GC does not run is the durable mailbox of DurableMailbox.
AtLeastOnce == INSTANCE DurableMailbox WITH
  pending <- new \cup cur, seen <- got, removed <- acked \cup retired \cup corrupt

ImplementsDurableMailbox == AtLeastOnce!Spec

\* Every Deliver is answered: no handler waits for another one.
DeliverAnswered == \A s \in Sender : pc[s] = "lookup" ~> pc[s] = "idle"

\* A message claimed and not acknowledged when a subscription starts is pushed
\* to it, unless it is acknowledged meanwhile or the subscription dies.
Redelivered ==
  \A c \in Conn, m \in Plain :
    pc[c] = "recover" /\ m \in cur ~> <<c, m>> \in pushed \/ m \notin cur \/ pc[c] = "closed"

Quiet == \A p \in Proc : pc[p] \in {"idle", "live", "closed"}

\* What deliver and subscribe promise together: while someone is subscribed
\* and nothing is under way, a claimed message has reached its consumer or
\* waits in the sink of a connection that is still open.
NotStranded ==
  Quiet /\ sub # None =>
    \A m \in (cur \cap receipted \cap Plain) \ got :
      \E c \in Conn : pc[c] = "live" /\ <<c, m>> \in pushed
=============================================================================
