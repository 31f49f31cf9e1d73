------------------------------ MODULE TicketStore ------------------------------
(***************************************************************************)
(* How a ticket snapshot reaches the disk: FileStore of                    *)
(* crates/infra/bamboo-tickets/src/store.rs with execute and from_store of *)
(* service.rs, under I/O errors, process crashes and power losses.         *)
(*                                                                         *)
(* A commit names its parent and the content of its snapshot by hash, so a *)
(* commit is its history: the sequence of operations that led to it.  An   *)
(* identical retry has the same history and the same file names.  All the  *)
(* objects of one snapshot are one entry of the directory "objects".       *)
(*                                                                         *)
(* A renamed entry is visible at once and survives a power loss only when  *)
(* its directory was flushed; a power loss keeps any part of the rest.     *)
(* The bytes of a file are flushed before it is renamed (write_synced).    *)
(***************************************************************************)
EXTENDS Integers, Sequences

CONSTANTS
  Op,         \* operation ids of the clients' commands
  None,
  MaxErrors,  \* bound: I/O errors
  MaxLosses,  \* bound: power losses
  MaxCrashes  \* bound: process exits

\* The snapshot that from_store publishes: a new authority_epoch.
Epoch == "epoch"

ASSUME OpAssumption == Epoch \notin Op /\ None \notin Seq(Op \cup {Epoch})
ASSUME BoundAssumption == MaxErrors \in Nat /\ MaxLosses \in Nat
                          /\ MaxCrashes \in Nat

VARIABLES
  entries,    \* names visible in each directory
  flushed,    \* those that survive a power loss
  made,       \* the directories exist
  head,       \* the visible HEAD
  heads,      \* the HEADs that a power loss now may leave
  pc,         \* "down", "idle" or the step of publish_snapshot
  dir,        \* the directory it is at
  commit,     \* the commit being published
  published, health,
  acked,      \* operations whose receipt a client has
  synced,     \* history: the last commit that publish returned
  errors, losses, crashes

disk == <<entries, flushed, made, head, heads>>
vars == <<disk, pc, dir, commit, published, health, acked, synced, errors, losses, crashes>>

Dir == {"objects", "manifests", "commits"}
History == Seq(Op \cup {Epoch})
NextDir == [objects |-> "manifests", manifests |-> "commits", commits |-> "objects"]

Init ==
  /\ entries = [d \in Dir |-> {}] /\ flushed = [d \in Dir |-> {}] /\ made = FALSE
  /\ head = None /\ heads = {None}
  /\ pc = "down" /\ dir = "objects" /\ commit = <<>>
  /\ published = None /\ health = "Writable"
  /\ acked = {} /\ synced = None
  /\ errors = 0 /\ losses = 0 /\ crashes = 0

Ancestry(h) == {SubSeq(h, 1, n) : n \in 0..Len(h)}
Newest(h) == h[Len(h)]
Applied(h) == {h[i] : i \in 1..Len(h)} \cap Op

-----------------------------------------------------------------------------
(* open_with_policy and from_store *)

Publishing(c) == pc' = "write" /\ dir' = "objects" /\ commit' = c

\* load_head reads the commit, its manifest and objects, and those of every ancestor.
Loadable == head # None /\ \A d \in Dir : Ancestry(head) \subseteq entries[d]

OpenHead ==
  /\ pc = "down" /\ Loadable
  /\ published' = head /\ health' = "Writable"
  /\ Publishing(Append(head, Epoch))
  /\ UNCHANGED <<disk, acked, synced, errors, losses, crashes>>

\* HEAD does not load, or it is missing beside objects or commits.
OpenDamaged ==
  /\ pc = "down" /\ made /\ ~Loadable
  /\ pc' = "idle" /\ health' = "ReadOnly" /\ published' = None
  /\ UNCHANGED <<disk, dir, commit, acked, synced, errors, losses, crashes>>

\* The directories are created and the root is flushed; the empty snapshot follows.
OpenEmpty ==
  /\ pc = "down" /\ head = None /\ ~made
  /\ made' = TRUE
  /\ published' = None /\ health' = "Writable"
  /\ Publishing(<<>>)
  /\ UNCHANGED <<entries, flushed, head, heads, acked, synced, errors, losses, crashes>>

-----------------------------------------------------------------------------
(* execute *)

\* A receipt of the published snapshot is returned whatever the health is.
Replay(o) ==
  /\ pc = "idle" /\ published # None /\ o \in Applied(published)
  /\ acked' = acked \cup {o}
  /\ UNCHANGED <<disk, pc, dir, commit, published, health, synced, errors, losses, crashes>>

Execute(o) ==
  /\ pc = "idle" /\ published # None /\ o \notin Applied(published)
  /\ health = "Writable"
  /\ Publishing(Append(published, o))
  /\ UNCHANGED <<disk, published, health, acked, synced, errors, losses, crashes>>

-----------------------------------------------------------------------------
(* publish_snapshot *)

\* Mutant: a name left by an earlier attempt is an error.
WriteObjectOnce ==
  /\ pc = "write" /\ commit \notin entries[dir]
  /\ entries' = [entries EXCEPT ![dir] = @ \cup {commit}]
  /\ pc' = "flush"
  /\ UNCHANGED <<flushed, made, head, heads, dir, commit, published, health, acked, synced,
                 errors, losses, crashes>>

\* Mutant: the directory is flushed only after a rename.
WriteObjectExists ==
  /\ pc = "write"
  /\ entries' = [entries EXCEPT ![dir] = @ \cup {commit}]
  /\ IF commit \notin entries[dir] THEN pc' = "flush" /\ dir' = dir
     ELSE pc' = (IF dir = "commits" THEN "swap" ELSE "write") /\ dir' = NextDir[dir]
  /\ UNCHANGED <<flushed, made, head, heads, commit, published, health, acked, synced,
                 errors, losses, crashes>>

\* write_object: an entry that exists already is verified and kept.
WriteObject ==
  /\ pc = "write"
  /\ entries' = [entries EXCEPT ![dir] = @ \cup {commit}]
  /\ pc' = "flush"
  /\ UNCHANGED <<flushed, made, head, heads, dir, commit, published, health, acked, synced,
                 errors, losses, crashes>>

SyncDir ==
  /\ pc = "flush"
  /\ flushed' = [flushed EXCEPT ![dir] = entries[dir]]
  /\ pc' = (IF dir = "commits" THEN "swap" ELSE "write") /\ dir' = NextDir[dir]
  /\ UNCHANGED <<entries, made, head, heads, commit, published, health, acked, synced, errors,
                 losses, crashes>>

SwapHead ==
  /\ pc = "swap"
  /\ head' = commit /\ heads' = heads \cup {commit}
  /\ pc' = "root"
  /\ UNCHANGED <<entries, flushed, made, dir, commit, published, health, acked, synced,
                 errors, losses, crashes>>

\* publish returned: execute returns the receipt; after the empty snapshot comes
\* the first epoch.
Return ==
  /\ published' = commit /\ synced' = commit
  /\ acked' = acked \cup ({Newest(commit)} \cap Op)
  /\ pc' = "idle" /\ UNCHANGED <<dir, commit>>

\* Mutant: the root directory is not flushed before the receipt is returned.
SyncRootSkipped ==
  /\ pc = "root"
  /\ \/ commit # <<>> /\ Return
     \/ /\ commit = <<>> /\ published' = commit /\ synced' = commit /\ acked' = acked
        /\ Publishing(<<Epoch>>)
  /\ UNCHANGED <<entries, flushed, made, head, heads, health, errors, losses, crashes>>

SyncRoot ==
  /\ pc = "root"
  /\ heads' = {head}
  /\ \/ commit # <<>> /\ Return
     \/ /\ commit = <<>> /\ published' = commit /\ synced' = commit /\ acked' = acked
        /\ Publishing(<<Epoch>>)
  /\ UNCHANGED <<entries, flushed, made, head, health, errors, losses, crashes>>

\* Where a failed publish leaves the service: an open that fails has made none.
Abandoned == pc' = IF commit = <<>> \/ Newest(commit) = Epoch THEN "down" ELSE "idle"

\* Mutant: a failure after the rename leaves the store writable.
FailWritable ==
  /\ pc \in {"write", "flush", "swap", "root"} /\ errors < MaxErrors
  /\ errors' = errors + 1
  /\ Abandoned
  /\ UNCHANGED <<disk, dir, commit, published, health, acked, synced, losses, crashes>>

\* An I/O error: after the rename of HEAD nobody knows what is on the disk.
Fail ==
  /\ pc \in {"write", "flush", "swap", "root"} /\ errors < MaxErrors
  /\ errors' = errors + 1
  /\ health' = IF pc = "root" THEN "ReadOnly" ELSE health
  /\ Abandoned
  /\ UNCHANGED <<disk, dir, commit, published, acked, synced, losses, crashes>>

-----------------------------------------------------------------------------
(* The process and the machine. *)

\* The writer exits, orderly or not, and its lock is released.
Exit ==
  /\ pc # "down" /\ crashes < MaxCrashes
  /\ crashes' = crashes + 1
  /\ pc' = "down" /\ dir' = "objects" /\ commit' = <<>>
  /\ published' = None /\ health' = "Writable"
  /\ UNCHANGED <<disk, acked, synced, errors, losses>>

PowerLoss ==
  /\ losses < MaxLosses
  /\ losses' = losses + 1
  /\ \E lost \in [Dir -> SUBSET UNION {entries[d] \ flushed[d] : d \in Dir}] :
       entries' = [d \in Dir |-> entries[d] \ (lost[d] \ flushed[d])]
  /\ flushed' = entries'
  /\ head' \in heads /\ heads' = {head'}
  /\ pc' = "down" /\ dir' = "objects" /\ commit' = <<>>
  /\ published' = None /\ health' = "Writable"
  /\ UNCHANGED <<made, acked, synced, errors, crashes>>

Open == OpenHead \/ OpenDamaged \/ OpenEmpty
Publish == WriteObject \/ SyncDir \/ SwapHead \/ SyncRoot

Next ==
  \/ OpenHead \/ OpenDamaged \/ OpenEmpty
  \/ \E o \in Op : Replay(o) \/ Execute(o)
  \/ WriteObject \/ SyncDir \/ SwapHead \/ SyncRoot
  \/ Fail \/ Exit \/ PowerLoss

Spec == Init /\ [][Next]_vars

\* The host opens the scope again after an exit, and a publication goes on: each
\* is a synchronous call.
FairSpec == Spec /\ WF_vars(Open) /\ WF_vars(Publish)

-----------------------------------------------------------------------------
(* Properties. *)

HeadType == History \cup {None}

\* Every variable has its type, and a publication that replaced HEAD is the visible
\* one (Swap to SyncRoot).
TypeOK ==
  /\ entries \in [Dir -> SUBSET History] /\ flushed \in [Dir -> SUBSET History]
  /\ \A d \in Dir : flushed[d] \subseteq entries[d]
  /\ made \in BOOLEAN
  /\ head \in HeadType /\ heads \subseteq HeadType /\ head \in heads
  /\ pc \in {"down", "idle", "write", "flush", "swap", "root"} /\ dir \in Dir
  /\ commit \in History /\ published \in HeadType /\ health \in {"Writable", "ReadOnly"}
  /\ acked \subseteq Op /\ synced \in HeadType
  /\ errors \in Nat /\ losses \in Nat /\ crashes \in Nat
  /\ pc = "root" => head = commit

\* Whatever HEAD a power loss leaves at this moment, all that load_head reads for
\* it and for its ancestors survives the same power loss (write_object and its
\* flush, before the rename of HEAD).
HeadLoads ==
  \A h \in heads \ {None} : \A d \in Dir : Ancestry(h) \subseteq flushed[d]

\* An operation whose receipt a client holds is in every HEAD a power loss may
\* leave, and in the one that is visible (execute, Replay after a lost answer).
AckedSurvives ==
  \A o \in acked : \A h \in heads : h # None /\ o \in Applied(h)

Scope == INSTANCE DurableLog WITH log <- head

\* The visible HEAD is the log of DurableLog: it is only ever replaced by the next
\* commit after it, so what a failed publication may have made visible is never
\* overwritten (Health::ReadOnly); no operation enters it twice, whatever crashed and
\* was tried again; and only a power loss takes back what nobody has a receipt for.
ImplementsDurableLog == Scope!Spec

\* A scope that was published once can be opened for writing again after any exit
\* or power loss (from_store).
OpensAgain == pc = "down" /\ synced # None ~> pc = "idle" /\ health = "Writable"
=============================================================================
