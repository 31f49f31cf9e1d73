-------------------------- MODULE TicketStoreProofs --------------------------
(***************************************************************************)
(* Proofs about TicketStore for any operations and any number of I/O       *)
(* errors, exits and power losses.                                         *)
(***************************************************************************)
EXTENDS TicketStore, SequenceTheorems, TLAPS

Entry == Op \cup {Epoch}

-----------------------------------------------------------------------------
(* Histories. *)

\* Appending to a history adds one commit to its ancestry and one operation.
LEMMA AppendHistory ==
  ASSUME NEW h \in History, NEW e \in Entry
  PROVE  /\ Append(h, e) \in History /\ Append(h, e) # <<>>
         /\ Newest(Append(h, e)) = e
         /\ Applied(Append(h, e)) = Applied(h) \cup ({e} \cap Op)
         /\ Ancestry(Append(h, e)) = Ancestry(h) \cup {Append(h, e)}
<1> DEFINE g == Append(h, e)
<1>1. /\ g \in Seq(Entry) /\ g # <<>> /\ Len(g) = Len(h) + 1 /\ Len(h) \in Nat
      /\ \A i \in 1..Len(h) : g[i] = h[i]
      /\ g[Len(h) + 1] = e
  BY AppendProperties, LenProperties DEF History, Entry
<1>2. \A n \in 0..Len(h) : SubSeq(g, 1, n) = SubSeq(h, 1, n)
  <2> SUFFICES ASSUME NEW n \in 0..Len(h) PROVE SubSeq(g, 1, n) = SubSeq(h, 1, n)
    OBVIOUS
  <2>1. \A i \in 1..n : g[i] \in Entry /\ h[i] \in Entry /\ g[i] = h[i]
    BY <1>1, ElementOfSeq DEF History, Entry
  <2>2. /\ SubSeq(g, 1, n) \in Seq(Entry) /\ SubSeq(h, 1, n) \in Seq(Entry)
        /\ Len(SubSeq(g, 1, n)) = n /\ Len(SubSeq(h, 1, n)) = n
        /\ \A i \in 1..n : SubSeq(g, 1, n)[i] = g[i]
        /\ \A i \in 1..n : SubSeq(h, 1, n)[i] = h[i]
    BY <1>1, <2>1, SubSeqProperties, SMTT(30)
  <2> QED BY <2>1, <2>2, SeqEqual
<1>3. SubSeq(g, 1, Len(h) + 1) = g
  BY <1>1, SubSeqFull
<1> HIDE DEF g
<1>4. Ancestry(g) = Ancestry(h) \cup {g}
  <2>1. 0..Len(g) = (0..Len(h)) \cup {Len(h) + 1}
    BY <1>1
  <2> QED BY <1>2, <1>3, <2>1 DEF Ancestry
<1>5. Applied(g) = Applied(h) \cup ({e} \cap Op)
  <2>1. 1..Len(g) = (1..Len(h)) \cup {Len(h) + 1}
    BY <1>1
  <2> QED BY <1>1, <2>1 DEF Applied
<1>6. Newest(g) = e
  BY <1>1 DEF Newest
<1> QED BY <1>1, <1>4, <1>5, <1>6 DEF g, History, Entry

LEMMA EmptyHistory ==
  /\ <<>> \in History /\ Applied(<<>>) = {} /\ Ancestry(<<>>) = {<<>>}
<1>1. Ancestry(<<>>) = {SubSeq(<<>>, 1, 0)}
  BY DEF Ancestry
<1>2. SubSeq(<<>>, 1, 0) = <<>>
  BY SubSeqEmpty
<1>3. <<>> \in History /\ 1..Len(<<>>) = {}
  BY EmptySeq DEF History
<1>4. Applied(<<>>) = {}
  BY <1>3 DEF Applied
<1> QED BY <1>1, <1>2, <1>3, <1>4

LEMMA OwnAncestor ==
  ASSUME NEW h \in History
  PROVE  h \in Ancestry(h)
<1>1. SubSeq(h, 1, Len(h)) = h /\ Len(h) \in Nat
  BY SubSeqFull, LenProperties DEF History
<1>2. Len(h) \in 0..Len(h)
  BY <1>1
<1> QED BY <1>1, <1>2, Zenon DEF Ancestry

-----------------------------------------------------------------------------
(* The inductive invariant. *)

Busy == {"write", "flush", "swap"}

\* The commit on its way to the disk is the next one after HEAD, and a store that
\* accepts commands has published HEAD.
ParentInv ==
  /\ pc \in Busy =>
       \/ head = None /\ published = None /\ commit = <<>>
       \/ /\ head # None /\ published = head
          /\ \E e \in Entry : e \notin Applied(head) /\ commit = Append(head, e)
  /\ pc = "idle" /\ health = "Writable" => head # None /\ published = head
  /\ pc \in Busy \cup {"root"} => health = "Writable"
  /\ \A h \in heads \ {None} : head # None /\ h \in Ancestry(head)

\* The directories before the one publish_snapshot is at have the commit flushed.
DurableInv ==
  /\ pc \in {"write", "flush"} /\ dir # "objects" => commit \in flushed["objects"]
  /\ pc \in {"write", "flush"} /\ dir = "commits" => commit \in flushed["manifests"]
  /\ pc = "flush" => commit \in entries[dir]
  /\ pc = "swap" => \A d \in Dir : commit \in flushed[d]
  /\ HeadLoads

\* A client may be told of what is published: from an idle store or by the command
\* that is being executed, not while the store is opened.
Answering == \/ pc = "idle" /\ published # None
             \/ pc \in Busy \cup {"root"} /\ commit # <<>> /\ Newest(commit) \in Op

AckInv ==
  /\ Answering => published # None
                  /\ \A h \in heads : h # None /\ Applied(published) \subseteq Applied(h)
  /\ AckedSurvives

IInv == TypeOK /\ ParentInv /\ DurableInv /\ AckInv

LEMMA InitIInv == Init => IInv
<1> SUFFICES ASSUME Init PROVE IInv
  OBVIOUS
<1>1. TypeOK
  BY EmptyHistory DEF Init, TypeOK, HeadType, Dir
<1>2. ParentInv
  BY DEF Init, ParentInv, Busy
<1>3. DurableInv
  BY DEF Init, DurableInv, HeadLoads
<1>4. AckInv
  BY DEF Init, AckInv, Answering, Busy, AckedSurvives
<1> QED BY <1>1, <1>2, <1>3, <1>4 DEF IInv

LEMMA NewestApplied ==
  ASSUME NEW h \in History, h # <<>>
  PROVE  Newest(h) \in Entry /\ (Newest(h) \in Op => Newest(h) \in Applied(h))
<1>1. Len(h) \in 1..Len(h)
  BY EmptySeq DEF History
<1>2. h[Len(h)] \in Entry
  BY <1>1, ElementOfSeq DEF History, Entry
<1> QED BY <1>1, <1>2 DEF Newest, Applied

LEMMA NoneIsNoHistory == None \notin History
BY OpAssumption DEF History

LEMMA NextTypeOK == TypeOK /\ [Next]_vars => TypeOK'
<1> SUFFICES ASSUME TypeOK, [Next]_vars PROVE TypeOK'
  OBVIOUS
<1> USE EmptyHistory, NoneIsNoHistory, BoundAssumption DEF TypeOK, HeadType, disk, Publishing, Entry
<1>1. CASE OpenHead
  BY <1>1, AppendHistory DEF OpenHead, Loadable, Dir
<1>2. CASE OpenDamaged
  BY <1>2 DEF OpenDamaged
<1>3. CASE OpenEmpty
  BY <1>3 DEF OpenEmpty, Dir
<1>4. ASSUME NEW o \in Op, Replay(o) PROVE TypeOK'
  BY <1>4 DEF Replay
<1>5. ASSUME NEW o \in Op, Execute(o) PROVE TypeOK'
  BY <1>5, AppendHistory DEF Execute, Dir
<1>6. CASE WriteObject
  BY <1>6 DEF WriteObject
<1>7. CASE SyncDir
  BY <1>7 DEF SyncDir, NextDir, Dir
<1>8. CASE SwapHead
  BY <1>8 DEF SwapHead
<1>9. CASE SyncRoot
  <2>1. <<Epoch>> \in History
    BY DEF History
  <2> QED BY <1>9, <2>1 DEF SyncRoot, Return, Dir
<1>10. CASE Fail
  BY <1>10 DEF Fail, Abandoned
<1>11. CASE Exit
  BY <1>11 DEF Exit, Dir
<1>12. CASE PowerLoss
  <2>1. entries' \in [Dir -> SUBSET History] /\ flushed' = entries'
    BY <1>12 DEF PowerLoss
  <2>2. head' \in heads /\ heads' = {head'}
    BY <1>12 DEF PowerLoss
  <2> QED BY <1>12, <2>1, <2>2 DEF PowerLoss, Dir
<1>13. CASE UNCHANGED vars
  BY <1>13 DEF vars
<1> QED BY <1>1, <1>2, <1>3, <1>4, <1>5, <1>6, <1>7, <1>8, <1>9, <1>10, <1>11,
       <1>12, <1>13 DEF Next

LEMMA NextParentInv == IInv /\ [Next]_vars => ParentInv'
<1> SUFFICES ASSUME IInv, [Next]_vars PROVE ParentInv'
  OBVIOUS
<1>0. TypeOK /\ ParentInv
  BY DEF IInv
<1> USE <1>0, EmptyHistory, NoneIsNoHistory DEF TypeOK, ParentInv, HeadType, disk, Publishing, Busy
<1>1. CASE OpenHead
  <2>1. Epoch \in Entry /\ Epoch \notin Applied(head)
    BY OpAssumption DEF Entry, Applied
  <2> QED BY <1>1, <2>1 DEF OpenHead, Loadable
<1>2. CASE OpenDamaged
  BY <1>2 DEF OpenDamaged
<1>3. CASE OpenEmpty
  BY <1>3 DEF OpenEmpty
<1>4. ASSUME NEW o \in Op, Replay(o) PROVE ParentInv'
  BY <1>4 DEF Replay
<1>5. ASSUME NEW o \in Op, Execute(o) PROVE ParentInv'
  <2>1. o \in Entry
    BY DEF Entry
  <2> QED BY <1>5, <2>1 DEF Execute
<1>6. CASE WriteObject
  BY <1>6 DEF WriteObject
<1>7. CASE SyncDir
  BY <1>7 DEF SyncDir
<1>8. CASE SwapHead
  <2>1. CASE head = None
    <3>1. commit = <<>> /\ heads' = heads \cup {<<>>} /\ head' = <<>> /\ pc' = "root"
      BY <1>8, <2>1 DEF SwapHead
    <3> QED BY <1>8, <2>1, <3>1 DEF SwapHead
  <2>2. CASE head # None
    <3>1. PICK e \in Entry : commit = Append(head, e)
      BY <1>8, <2>2 DEF SwapHead
    <3>2. Ancestry(commit) = Ancestry(head) \cup {commit} /\ commit # None
      BY <2>2, <3>1, AppendHistory
    <3> QED BY <1>8, <2>2, <3>2 DEF SwapHead
  <2> QED BY <2>1, <2>2
<1>9. CASE SyncRoot
  <2>1. heads' = {head} /\ head' = head /\ head = commit /\ head \in Ancestry(head)
    BY <1>9, OwnAncestor DEF SyncRoot
  <2>2. CASE commit = <<>>
    <3>1. <<Epoch>> = Append(<<>>, Epoch) /\ Epoch \in Entry /\ Epoch \notin Applied(<<>>)
      BY DEF Entry
    <3> QED BY <1>9, <2>1, <2>2, <3>1 DEF SyncRoot, Return
  <2>3. CASE commit # <<>>
    BY <1>9, <2>1, <2>3 DEF SyncRoot, Return
  <2> QED BY <2>2, <2>3
<1>10. CASE Fail
  BY <1>10 DEF Fail, Abandoned
<1>11. CASE Exit
  BY <1>11 DEF Exit
<1>12. CASE PowerLoss
  <2>1. heads' = {head'} /\ head' \in heads /\ pc' = "down"
    BY <1>12 DEF PowerLoss
  <2>2. head' # None => head' \in Ancestry(head')
    BY <2>1, OwnAncestor
  <2> QED BY <2>1, <2>2
<1>13. CASE UNCHANGED vars
  BY <1>13 DEF vars
<1> QED BY <1>1, <1>2, <1>3, <1>4, <1>5, <1>6, <1>7, <1>8, <1>9, <1>10, <1>11,
       <1>12, <1>13 DEF Next

LEMMA NextDurableInv == IInv /\ [Next]_vars => DurableInv'
<1> SUFFICES ASSUME IInv, [Next]_vars PROVE DurableInv'
  OBVIOUS
<1>0. TypeOK /\ ParentInv /\ DurableInv
  BY DEF IInv
<1> USE <1>0 DEF TypeOK, DurableInv, HeadLoads, disk, Publishing, Dir
<1>1. CASE OpenHead
  BY <1>1 DEF OpenHead
<1>2. CASE OpenDamaged
  BY <1>2 DEF OpenDamaged
<1>3. CASE OpenEmpty
  BY <1>3 DEF OpenEmpty
<1>4. ASSUME NEW o \in Op, Replay(o) PROVE DurableInv'
  BY <1>4 DEF Replay
<1>5. ASSUME NEW o \in Op, Execute(o) PROVE DurableInv'
  BY <1>5 DEF Execute
<1>6. CASE WriteObject
  BY <1>6 DEF WriteObject
<1>7. CASE SyncDir
  <2>1. /\ \A d \in Dir : flushed[d] \subseteq flushed'[d]
        /\ commit \in flushed'[dir] /\ heads' = heads /\ commit' = commit
    BY <1>7 DEF SyncDir
  <2> QED BY <1>7, <2>1 DEF SyncDir, NextDir
<1>8. CASE SwapHead
  <2>1. \A d \in Dir : Ancestry(commit) \subseteq flushed[d]
    <3>1. CASE head = None
      BY <1>8, <3>1, EmptyHistory DEF SwapHead, ParentInv, Busy
    <3>2. CASE head # None
      <4>1. PICK e \in Entry : commit = Append(head, e)
        BY <1>8, <3>2 DEF SwapHead, ParentInv, Busy
      <4>2. Ancestry(commit) = Ancestry(head) \cup {commit}
        BY <3>2, <4>1, AppendHistory DEF HeadType
      <4> QED BY <1>8, <3>2, <4>2 DEF SwapHead
    <3> QED BY <3>1, <3>2
  <2> QED BY <1>8, <2>1 DEF SwapHead
<1>9. CASE SyncRoot
  BY <1>9 DEF SyncRoot, Return
<1>10. CASE Fail
  BY <1>10 DEF Fail, Abandoned
<1>11. CASE Exit
  BY <1>11 DEF Exit
<1>12. CASE PowerLoss
  <2>1. \A d \in Dir : flushed[d] \subseteq flushed'[d]
    BY <1>12 DEF PowerLoss
  <2> QED BY <1>12, <2>1 DEF PowerLoss
<1>13. CASE UNCHANGED vars
  BY <1>13 DEF vars
<1> QED BY <1>1, <1>2, <1>3, <1>4, <1>5, <1>6, <1>7, <1>8, <1>9, <1>10, <1>11,
       <1>12, <1>13 DEF Next

LEMMA NextAckInv == IInv /\ [Next]_vars => AckInv'
<1> SUFFICES ASSUME IInv, [Next]_vars PROVE AckInv'
  OBVIOUS
<1>0. TypeOK /\ ParentInv /\ AckInv
  BY DEF IInv
<1> USE <1>0, OpAssumption, NoneIsNoHistory
        DEF TypeOK, AckInv, Answering, AckedSurvives, HeadType, disk, Publishing, Busy
<1>1. CASE OpenHead
  <2>1. Newest(Append(head, Epoch)) = Epoch
    BY <1>1, AppendHistory DEF OpenHead, Loadable, Entry
  <2> QED BY <1>1, <2>1 DEF OpenHead
<1>2. CASE OpenDamaged
  BY <1>2 DEF OpenDamaged
<1>3. CASE OpenEmpty
  BY <1>3 DEF OpenEmpty
<1>4. ASSUME NEW o \in Op, Replay(o) PROVE AckInv'
  BY <1>4 DEF Replay
<1>5. ASSUME NEW o \in Op, Execute(o) PROVE AckInv'
  BY <1>5 DEF Execute
<1>6. CASE WriteObject
  BY <1>6 DEF WriteObject
<1>7. CASE SyncDir
  BY <1>7 DEF SyncDir
<1>8. CASE SwapHead
  <2>1. head \in heads /\ head' = commit /\ heads' = heads \cup {commit} /\ commit # None
        /\ pc' = "root" /\ UNCHANGED <<published, commit, acked>>
    BY <1>8 DEF SwapHead
  <2>2. CASE head = None
    <3>1. commit = <<>> /\ acked = {}
      BY <1>8, <2>1, <2>2 DEF SwapHead, ParentInv
    <3> QED BY <2>1, <3>1
  <2>3. CASE head # None
    <3>1. PICK e \in Entry : commit = Append(head, e)
      BY <1>8, <2>3 DEF SwapHead, ParentInv
    <3>2. published = head
      BY <1>8, <2>3 DEF SwapHead, ParentInv
    <3>3. Applied(head) \subseteq Applied(commit)
      BY <2>3, <3>1, AppendHistory
    <3> QED BY <1>8, <2>1, <3>2, <3>3 DEF SwapHead
  <2> QED BY <2>2, <2>3
<1>9. CASE SyncRoot
  <2>1. heads' = {commit} /\ commit # None /\ commit \in heads /\ published' = commit
    BY <1>9 DEF SyncRoot, Return
  <2>2. acked \subseteq Applied(commit)
    BY <2>1
  <2>3. CASE commit = <<>>
    <3>1. Newest(<<Epoch>>) = Epoch
      BY DEF Newest
    <3> QED BY <1>9, <2>1, <2>2, <2>3, <3>1 DEF SyncRoot, Return
  <2>4. CASE commit # <<>>
    <3>1. acked' \subseteq Applied(commit) /\ pc' = "idle"
      BY <1>9, <2>2, <2>4, NewestApplied DEF SyncRoot, Return
    <3> QED BY <2>1, <3>1
  <2> QED BY <2>3, <2>4
<1>10. CASE Fail
  <2>1. commit # <<>> => Newest(commit) \in Op \cup {Epoch}
    BY NewestApplied DEF Entry
  <2> QED BY <1>10, <2>1 DEF Fail, Abandoned
<1>11. CASE Exit
  BY <1>11 DEF Exit
<1>12. CASE PowerLoss
  BY <1>12 DEF PowerLoss
<1>13. CASE UNCHANGED vars
  BY <1>13 DEF vars
<1> QED BY <1>1, <1>2, <1>3, <1>4, <1>5, <1>6, <1>7, <1>8, <1>9, <1>10, <1>11,
       <1>12, <1>13 DEF Next

LEMMA Inductive == Spec => []IInv
<1>1. IInv /\ [Next]_vars => IInv'
  BY NextTypeOK, NextParentInv, NextDurableInv, NextAckInv DEF IInv
<1> QED BY InitIInv, <1>1, PTL DEF Spec

\* Type correctness of the store.
THEOREM TypeCorrect == Spec => []TypeOK
<1>1. IInv => TypeOK
  BY DEF IInv
<1> QED BY Inductive, <1>1, PTL

\* A power loss at any moment leaves a HEAD that loads in full with its ancestry.
THEOREM HeadCorrect == Spec => []HeadLoads
<1>1. IInv => HeadLoads
  BY DEF IInv, DurableInv
<1> QED BY Inductive, <1>1, PTL

\* An operation whose receipt was returned survives every power loss.
THEOREM ReceiptCorrect == Spec => []AckedSurvives
<1>1. IInv => AckedSurvives
  BY DEF IInv, AckInv
<1> QED BY Inductive, <1>1, PTL

-----------------------------------------------------------------------------
(* The store implements DurableLog. *)

Refines == Scope!Next \/ UNCHANGED <<head, acked>>

LEMMA StepRefines == IInv /\ [Next]_vars => Refines
<1> SUFFICES ASSUME IInv, [Next]_vars PROVE Refines
  OBVIOUS
<1>0. TypeOK /\ ParentInv /\ AckInv
  BY DEF IInv
<1>d. \A h : Scope!Done(h) = Applied(h)
  BY DEF Scope!Done, Applied
<1> USE <1>0, <1>d DEF Refines, disk, Busy
<1>1. CASE OpenHead
  BY <1>1 DEF OpenHead
<1>2. CASE OpenDamaged
  BY <1>2 DEF OpenDamaged
<1>3. CASE OpenEmpty
  BY <1>3 DEF OpenEmpty
<1>4. ASSUME NEW o \in Op, Replay(o) PROVE Refines
  <2>1. head # None /\ o \in Applied(head)
    BY <1>4 DEF Replay, TypeOK, AckInv, Answering
  <2>2. Scope!Acknowledge(o)
    BY <1>4, <2>1 DEF Replay, Scope!Acknowledge
  <2> QED BY <2>2 DEF Scope!Next
<1>5. ASSUME NEW o \in Op, Execute(o) PROVE Refines
  BY <1>5 DEF Execute
<1>6. CASE WriteObject
  BY <1>6 DEF WriteObject
<1>7. CASE SyncDir
  BY <1>7 DEF SyncDir
<1>8. CASE SwapHead
  <2>1. CASE head = None
    <3>1. Scope!Create
      BY <1>8, <2>1 DEF SwapHead, ParentInv, Scope!Create
    <3> QED BY <3>1 DEF Scope!Next
  <2>2. CASE head # None
    <3>1. PICK e \in Entry : e \notin Applied(head) /\ commit = Append(head, e)
      BY <1>8, <2>2 DEF SwapHead, ParentInv
    <3>2. Scope!Extend(e)
      BY <1>8, <2>2, <3>1 DEF SwapHead, Scope!Extend
    <3> QED BY <3>2 DEF Scope!Next, Entry
  <2> QED BY <2>1, <2>2
<1>9. CASE SyncRoot
  <2>1. head = commit /\ head' = head /\ commit \in History /\ commit # None
    BY <1>9, NoneIsNoHistory DEF SyncRoot, TypeOK
  <2>2. CASE commit # <<>> /\ Newest(commit) \in Op
    <3>1. Newest(commit) \in Applied(head) /\ acked' = acked \cup {Newest(commit)}
      BY <1>9, <2>1, <2>2, NewestApplied DEF SyncRoot, Return
    <3>2. Scope!Acknowledge(Newest(commit))
      BY <2>1, <3>1 DEF Scope!Acknowledge
    <3> QED BY <2>2, <3>2 DEF Scope!Next
  <2>3. CASE ~(commit # <<>> /\ Newest(commit) \in Op)
    <3>1. acked' = acked
      BY <1>9, <2>3 DEF SyncRoot, Return
    <3> QED BY <2>1, <3>1
  <2> QED BY <2>2, <2>3
<1>10. CASE Fail
  BY <1>10 DEF Fail
<1>11. CASE Exit
  BY <1>11 DEF Exit
<1>12. CASE PowerLoss
  <2>1. head' \in heads /\ acked' = acked
    BY <1>12 DEF PowerLoss
  <2>2. CASE head = None
    <3>1. head' = None
      BY <2>1, <2>2 DEF ParentInv
    <3> QED BY <2>1, <2>2, <3>1
  <2>3. CASE head # None /\ head' = None
    <3>1. acked = {}
      BY <2>1, <2>3 DEF AckInv, AckedSurvives
    <3> QED BY <2>1, <2>3, <3>1 DEF Scope!Next, Scope!TakeBack
  <2>4. CASE head # None /\ head' # None
    <3>1. PICK n \in 0..Len(head) : head' = SubSeq(head, 1, n)
      BY <2>1, <2>4 DEF ParentInv, Ancestry
    <3>2. acked \subseteq Applied(head')
      BY <2>1 DEF AckInv, AckedSurvives
    <3>3. acked \subseteq Scope!Done(SubSeq(head, 1, n))
      BY <3>1, <3>2
    <3>4. Scope!TakeBack
      BY <2>1, <2>4, <3>1, <3>3 DEF Scope!TakeBack
    <3> QED BY <3>4 DEF Scope!Next
  <2> QED BY <2>2, <2>3, <2>4
<1>13. CASE UNCHANGED vars
  BY <1>13 DEF vars
<1> HIDE DEF Refines
<1> QED BY <1>1, <1>2, <1>3, <1>4, <1>5, <1>6, <1>7, <1>8, <1>9, <1>10, <1>11,
       <1>12, <1>13 DEF Next

\* Refinement: every behaviour of the store, under any errors, exits and power losses,
\* is one of the durable log of DurableLog.
THEOREM RefinementCorrect == Spec => ImplementsDurableLog
<1>1. Init => Scope!Init
  BY DEF Init, Scope!Init
<1>2. IInv /\ [Next]_vars => [Scope!Next]_<<head, acked>>
  BY StepRefines DEF Refines
<1> QED BY <1>1, <1>2, Inductive, PTL DEF Spec, ImplementsDurableLog, Scope!Spec
=============================================================================
