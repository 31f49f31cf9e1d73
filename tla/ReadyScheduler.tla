---------------------------- MODULE ReadyScheduler ----------------------------
(***************************************************************************)
(* The Ready Work scheduler: crates/engine/bamboo-orchestration,           *)
(* src/lib.rs, with the admission points of its host in bamboo-server and  *)
(* the capacity check of bamboo-tickets/src/claiming.rs.                   *)
(*                                                                         *)
(* install, revoke and reconcile are async calls that any number of tasks  *)
(* make; one step is the code between two awaits, or between two points    *)
(* where a thread can see another one's cancellation.  A call is dropped   *)
(* at an await when its caller goes away.  A fence handed to the host is   *)
(* the expiry and the token of the installed policy, and it is only used   *)
(* by the call that holds the state lock, so it is the policy itself here. *)
(* The durable retry record that a pass reserves is the subject of         *)
(* ReadyRetry.                                                             *)
(***************************************************************************)
EXTENDS Integers, FiniteSets

CONSTANTS
  Task,      \* the calls that may be in progress at a time
  Work,      \* the works that the policy grants
  Capacity,  \* policy.capacity
  None,
  MaxGen,    \* bound: policy generations, one more than the revocations
  MaxSeq     \* bound: commits of the ticket scope

Gen == 1..MaxGen

ASSUME ReadyAssumption == /\ Capacity \in Nat \ {0} /\ MaxGen \in Nat \ {0}
                          /\ MaxSeq \in Nat /\ None \notin Task \cup Work
                          /\ None \notin [gen : Gen, expired : BOOLEAN] /\ IsFiniteSet(Work)

VARIABLES
  current, cancelled,  \* revocation.current and the generations whose token is cancelled
  retired,             \* revocation.retired: weak references
  active,              \* the holder of each generation's active lock
  holder, policy,      \* state: who holds its lock, and the installed policy
  pc, gen, wait,       \* a call: where it is, its generation, what revoke still waits for
  obs, claim,          \* a pass: the sequence it observed, the work it selected;
                       \*   a revoke: the generation that it retired
  seq, work, queued,   \* the ticket scope: sequence, works; the works with a queued child
  drained              \* history: the last generation a completed revoke has retired

callVars   == <<pc, gen, wait, obs, claim>>
policyVars == <<current, cancelled, retired>>
lockVars   == <<active, holder, policy>>
scopeVars  == <<seq, work, queued>>
vars == <<callVars, policyVars, lockVars, scopeVars, drained>>

WorkState == {"Ready", "DispatchPending", "Running", "Cancelling", "Done"}

\* Where a call is.  A pass that uses the policy is inside reconcile_installed; it
\* holds the state lock, and its generation's active lock, like the others listed.
InstallPc == {"i_active", "i_check", "i_state", "i_old", "i_validate"}
Using == {"c_patrol", "c_claim", "c_dispatch", "c_commit", "c_ensure", "c_queue",
          "c_observed"}
PassPc == {"c_active", "c_check", "c_state", "c_installed"} \cup Using
Holding == {"i_old", "i_validate", "c_installed"} \cup Using
Guarding == {"i_check", "i_state", "c_check", "c_state"} \cup Holding
HostAwait == Using \ {"c_commit", "c_queue"}

Init ==
  /\ current = 1 /\ cancelled = {} /\ retired = {}
  /\ active = [g \in Gen |-> None] /\ holder = None /\ policy = None
  /\ pc = [t \in Task |-> "idle"] /\ gen = [t \in Task |-> 0]
  /\ wait = [t \in Task |-> {}]
  /\ obs = [t \in Task |-> 0] /\ claim = [t \in Task |-> None]
  /\ seq = 0 /\ work = [w \in Work |-> "Ready"] /\ queued = {}
  /\ drained = 0

-----------------------------------------------------------------------------
(* Helpers. *)

Goto(t, l) == pc' = [pc EXCEPT ![t] = l]
Cancelled(t) == gen[t] \in cancelled

\* ReadyAdmissionFence::check for the installed policy.
FenceCheck == policy.gen \notin cancelled /\ ~policy.expired

\* A call ends or is dropped: its guards are released in turn, and here at once.
Leave(t) ==
  /\ pc' = [pc EXCEPT ![t] = "idle"] /\ gen' = [gen EXCEPT ![t] = 0]
  /\ wait' = [wait EXCEPT ![t] = {}]
  /\ obs' = [obs EXCEPT ![t] = 0] /\ claim' = [claim EXCEPT ![t] = None]
  /\ active' = [g \in Gen |-> IF active[g] = t THEN None ELSE active[g]]
  /\ holder' = IF holder = t THEN None ELSE holder

\* A strong reference: the control block, a call in progress or a waiting revoke.
Alive(g) == \/ g = current
            \/ \E t \in Task : gen[t] = g \/ g \in wait[t]

Occupied == {w \in Work : work[w] \in {"DispatchPending", "Running", "Cancelling"}}

-----------------------------------------------------------------------------
(* install *)

InstallStart(t) ==
  /\ pc[t] = "idle" /\ Goto(t, "i_active") /\ gen' = [gen EXCEPT ![t] = current]
  /\ UNCHANGED <<wait, obs, claim, policyVars, lockVars, scopeVars, drained>>

\* The select of a lock against the token: a lock future that completes can
\* win the race against a cancellation on another thread.
TakeActive(t, from, to) ==
  /\ pc[t] = from /\ active[gen[t]] = None
  /\ active' = [active EXCEPT ![gen[t]] = t] /\ Goto(t, to)
  /\ UNCHANGED <<gen, wait, obs, claim, policyVars, holder, policy, scopeVars, drained>>

TakeState(t, from, to) ==
  /\ pc[t] = from /\ holder = None /\ holder' = t /\ Goto(t, to)
  /\ UNCHANGED <<gen, wait, obs, claim, policyVars, active, policy, scopeVars, drained>>

\* Either arm that sees the cancelled token, or the explicit check after a lock.
RefuseCancelled(t, at) ==
  /\ pc[t] \in at /\ Cancelled(t) /\ Leave(t)
  /\ UNCHANGED <<policyVars, policy, scopeVars, drained>>

NotCancelled(t, from, to) ==
  /\ pc[t] = from /\ ~Cancelled(t) /\ Goto(t, to)
  /\ UNCHANGED <<gen, wait, obs, claim, policyVars, lockVars, scopeVars, drained>>

\* Mutant: the previous policy is not looked at.
InstallOldAny(t) ==
  /\ pc[t] = "i_old" /\ ~Cancelled(t) /\ policy' = None /\ Goto(t, "i_validate")
  /\ UNCHANGED <<gen, wait, obs, claim, active, holder, policyVars, scopeVars, drained>>

\* After the state lock: the token again, then the previous policy.
InstallOld(t) ==
  /\ pc[t] = "i_old" /\ ~Cancelled(t)
  /\ \/ /\ policy # None /\ policy.gen \notin cancelled /\ Leave(t)
        /\ UNCHANGED policy
     \/ /\ policy # None => policy.gen \in cancelled
        /\ policy' = None /\ Goto(t, "i_validate")
        /\ UNCHANGED <<gen, wait, obs, claim, active, holder>>
  /\ UNCHANGED <<policyVars, scopeVars, drained>>

\* The host has validated; nothing looks at the token again before the store.
InstallSet(t) ==
  /\ pc[t] = "i_validate"
  /\ policy' = [gen |-> gen[t], expired |-> FALSE] /\ Leave(t)
  /\ UNCHANGED <<policyVars, scopeVars, drained>>

Install(t) ==
  \/ InstallStart(t)
  \/ TakeActive(t, "i_active", "i_check")
  \/ NotCancelled(t, "i_check", "i_state")
  \/ TakeState(t, "i_state", "i_old")
  \/ InstallOld(t)
  \/ InstallSet(t)
  \/ RefuseCancelled(t, InstallPc)

-----------------------------------------------------------------------------
(* revoke *)

\* Mutant: only the generation that this call retires is waited for.
RevokeStartPrevious(t) ==
  /\ pc[t] = "idle" /\ current < MaxGen
  /\ current' = current + 1 /\ cancelled' = cancelled \cup {current}
  /\ retired' = {g \in retired : Alive(g)} \cup {current}
  /\ wait' = [wait EXCEPT ![t] = {current}] /\ Goto(t, "r_drain")
  /\ obs' = [obs EXCEPT ![t] = current]
  /\ UNCHANGED <<gen, claim, lockVars, scopeVars, drained>>

RevokeStart(t) ==
  /\ pc[t] = "idle" /\ current < MaxGen
  /\ current' = current + 1 /\ cancelled' = cancelled \cup {current}
  /\ retired' = {g \in retired : Alive(g)} \cup {current}
  /\ wait' = [wait EXCEPT ![t] = retired'] /\ Goto(t, "r_drain")
  /\ obs' = [obs EXCEPT ![t] = current]
  /\ UNCHANGED <<gen, claim, lockVars, scopeVars, drained>>

\* The next retired generation's active lock, taken and dropped.
RevokeDrain(t) ==
  LET g == CHOOSE x \in wait[t] : \A y \in wait[t] : x <= y IN
  /\ pc[t] = "r_drain" /\ wait[t] # {} /\ active[g] = None
  /\ wait' = [wait EXCEPT ![t] = @ \ {g}]
  /\ UNCHANGED <<pc, gen, obs, claim, policyVars, lockVars, scopeVars, drained>>

RevokeReturn(t) ==
  /\ pc[t] = "r_drain" /\ wait[t] = {} /\ Leave(t)
  /\ drained' = IF obs[t] > drained THEN obs[t] ELSE drained
  /\ UNCHANGED <<policyVars, policy, scopeVars>>

Revoke(t) == RevokeStart(t) \/ RevokeDrain(t) \/ RevokeReturn(t)

-----------------------------------------------------------------------------
(* reconcile: one pass *)

PassStart(t) ==
  /\ pc[t] = "idle" /\ Goto(t, "c_active") /\ gen' = [gen EXCEPT ![t] = current]
  /\ UNCHANGED <<wait, obs, claim, policyVars, lockVars, scopeVars, drained>>

\* Mutant: a pass of a retired generation clears what it finds installed.
RefusePassClears(t) ==
  /\ pc[t] \in {"c_active", "c_check", "c_state", "c_installed"} /\ Cancelled(t)
  /\ Leave(t) /\ policy' = IF pc[t] = "c_installed" THEN None ELSE policy
  /\ UNCHANGED <<policyVars, scopeVars, drained>>

RefusePass(t) == RefuseCancelled(t, {"c_active", "c_check", "c_state", "c_installed"})

PassInstalled(t) ==
  /\ pc[t] = "c_installed" /\ ~Cancelled(t)
  /\ \/ policy = None /\ Leave(t) /\ UNCHANGED policy
     \/ policy # None /\ ~FenceCheck /\ policy' = None /\ Leave(t)
     \/ /\ policy # None /\ FenceCheck /\ Goto(t, "c_patrol")
        /\ UNCHANGED <<gen, wait, obs, claim, lockVars>>
  /\ UNCHANGED <<policyVars, scopeVars, drained>>

\* After the patrol: the fence, then a fresh snapshot.  An attempt that it shows
\* as DispatchPending is ensured; which works the retry metadata, the project
\* context and the host's preflight let through is the host's choice.
PassSnapshot(t) ==
  /\ pc[t] = "c_patrol"
  /\ \/ ~FenceCheck /\ Leave(t)
     \/ /\ FenceCheck /\ obs' = [obs EXCEPT ![t] = seq]
        /\ \/ \E w \in Work : /\ work[w] = "DispatchPending"
                              /\ claim' = [claim EXCEPT ![t] = w] /\ Goto(t, "c_ensure")
           \/ Goto(t, "c_claim") /\ UNCHANGED claim
        /\ UNCHANGED <<gen, wait, active, holder>>
  /\ UNCHANGED <<policyVars, policy, scopeVars, drained>>

\* prepare_ready_claim: the works it may select, none on a conflict or without
\* a free slot.
PrepareReadyClaim(t) ==
  IF seq = obs[t] /\ Cardinality(Occupied) < Capacity
    THEN {w \in Work : work[w] = "Ready"} ELSE {}

PassClaim(t) ==
  /\ pc[t] = "c_claim"
  /\ \/ Leave(t) /\ UNCHANGED policy
     \/ /\ PrepareReadyClaim(t) # {} /\ policy.expired
        /\ policy' = None /\ Leave(t)
     \/ \E w \in PrepareReadyClaim(t) :
          /\ ~policy.expired /\ claim' = [claim EXCEPT ![t] = w] /\ Goto(t, "c_dispatch")
          /\ UNCHANGED <<gen, wait, obs, lockVars>>
  /\ UNCHANGED <<policyVars, scopeVars, drained>>

\* dispatch_fenced, after its last await: the fence, then the commit.
PassDispatch(t) ==
  /\ pc[t] = "c_dispatch"
  /\ \/ ~FenceCheck /\ Leave(t)
     \/ /\ FenceCheck /\ Goto(t, "c_commit")
        /\ UNCHANGED <<gen, wait, obs, claim, active, holder>>
  /\ UNCHANGED <<policyVars, policy, scopeVars, drained>>

\* Mutant: the Start carries a refreshed sequence instead of the observed one.
ConflictNever(t) == FALSE

Conflict(t) == seq # obs[t]

PassCommit(t) ==
  /\ pc[t] = "c_commit"
  /\ \/ Conflict(t) /\ Leave(t) /\ UNCHANGED scopeVars
     \/ /\ ~Conflict(t) /\ seq' = seq + 1
        /\ work' = [work EXCEPT ![claim[t]] = "DispatchPending"]
        /\ Goto(t, "c_ensure")
        /\ UNCHANGED <<queued, gen, wait, obs, claim, active, holder>>
  /\ UNCHANGED <<policyVars, policy, drained>>

\* ensure_ticket_dispatch: the admission check of the child queue, which also
\* requires the dispatch permission of the attempt.
PassEnsure(t) ==
  LET permitted == FenceCheck /\ work[claim[t]] \in {"DispatchPending", "Running"} IN
  /\ pc[t] = "c_ensure"
  /\ \/ ~permitted /\ Leave(t)
     \/ /\ permitted /\ Goto(t, "c_queue")
        /\ UNCHANGED <<gen, wait, obs, claim, active, holder>>
  /\ UNCHANGED <<policyVars, policy, scopeVars, drained>>

PassQueue(t) ==
  /\ pc[t] = "c_queue" /\ queued' = queued \cup {claim[t]} /\ Goto(t, "c_observed")
  /\ UNCHANGED <<gen, wait, obs, claim, policyVars, lockVars, seq, work, drained>>

PassObserved(t) ==
  /\ pc[t] = "c_observed" /\ Leave(t)
  /\ UNCHANGED <<policyVars, policy, scopeVars, drained>>

\* Mutant: the pass does not watch the token while the host works.
PassRevokedNever(t) == FALSE

\* The select around reconcile_installed: the revoked token drops the pass at
\* its await, and Disabled clears the policy.
PassRevoked(t) ==
  /\ pc[t] \in HostAwait /\ policy.gen \in cancelled
  /\ policy' = None /\ Leave(t)
  /\ UNCHANGED <<policyVars, scopeVars, drained>>

Reconcile(t) ==
  \/ PassStart(t)
  \/ TakeActive(t, "c_active", "c_check")
  \/ NotCancelled(t, "c_check", "c_state")
  \/ TakeState(t, "c_state", "c_installed")
  \/ RefusePass(t)
  \/ PassInstalled(t)
  \/ PassSnapshot(t)
  \/ PassClaim(t)
  \/ PassDispatch(t)
  \/ PassCommit(t)
  \/ PassEnsure(t)
  \/ PassQueue(t)
  \/ PassObserved(t)
  \/ PassRevoked(t)

\* A caller goes away (the worker's shutdown, a dropped request), or the host
\* answers with an error: the call ends at an await and leaves the policy.
Drop(t) ==
  /\ pc[t] \in HostAwait \cup {"i_active", "i_state", "i_validate", "r_drain",
                               "c_active", "c_state"}
  /\ Leave(t)
  /\ UNCHANGED <<policyVars, policy, scopeVars, drained>>

-----------------------------------------------------------------------------
(* Time, and the other writers of the ticket scope. *)

Expire ==
  /\ policy # None /\ ~policy.expired /\ policy' = [policy EXCEPT !.expired = TRUE]
  /\ UNCHANGED <<callVars, policyVars, active, holder, scopeVars, drained>>

Commit(w, from, to) ==
  /\ seq < MaxSeq /\ work[w] \in from
  /\ seq' = seq + 1 /\ work' = [work EXCEPT ![w] = to]
  /\ UNCHANGED <<callVars, policyVars, lockVars, queued, drained>>

Others ==
  \E w \in Work :
    \/ Commit(w, {"Ready"}, "DispatchPending")              \* a Start of the user
    \/ w \in queued /\ Commit(w, {"DispatchPending"}, "Running")  \* the child binds its run
    \/ Commit(w, {"DispatchPending", "Running"}, "Cancelling")
    \/ Commit(w, {"Running", "Cancelling"}, "Done")
    \/ Commit(w, {work[w]}, work[w])           \* anything else, patrol accounting included

Next ==
  \/ \E t \in Task : Install(t) \/ Revoke(t) \/ Reconcile(t) \/ Drop(t)
  \/ Expire
  \/ Others

Spec == Init /\ [][Next]_vars

\* What a task does by itself once it is polled: no answer of the host, no
\* passing of time, nobody's command is assumed.
OwnStep(t) ==
  \/ TakeActive(t, "i_active", "i_check") \/ TakeActive(t, "c_active", "c_check")
  \/ NotCancelled(t, "i_check", "i_state") \/ NotCancelled(t, "c_check", "c_state")
  \/ TakeState(t, "i_state", "i_old") \/ TakeState(t, "c_state", "c_installed")
  \/ RefuseCancelled(t, InstallPc) \/ RefusePass(t)
  \/ InstallOld(t) \/ PassInstalled(t)
  \/ PassCommit(t) \/ PassQueue(t) \/ PassRevoked(t)
  \/ RevokeDrain(t) \/ RevokeReturn(t)

FairSpec == Spec /\ \A t \in Task : WF_vars(OwnStep(t))

-----------------------------------------------------------------------------
(* Properties. *)

\* The types, and the two locks: a call is past a lock exactly while it holds it.
TypeOK ==
  /\ current \in Gen /\ cancelled \subseteq Gen /\ retired \subseteq Gen
  /\ active \in [Gen -> Task \cup {None}] /\ holder \in Task \cup {None}
  /\ policy \in [gen : Gen, expired : BOOLEAN] \cup {None}
  /\ pc \in [Task -> {"idle", "r_drain"} \cup InstallPc \cup PassPc]
  /\ gen \in [Task -> Gen \cup {0}] /\ wait \in [Task -> SUBSET Gen]
  /\ obs \in [Task -> Nat] /\ claim \in [Task -> Work \cup {None}]
  /\ seq \in Nat /\ work \in [Work -> WorkState] /\ queued \subseteq Work
  /\ drained \in Gen \cup {0}
  /\ \A t \in Task : /\ pc[t] \in Holding <=> holder = t
                     /\ \A g \in Gen : active[g] = t <=> pc[t] \in Guarding /\ gen[t] = g
                     /\ pc[t] \in Using => policy # None
                     /\ pc[t] \in Using \ {"c_patrol", "c_claim"} => claim[t] \in Work

\* The barrier of revoke: once a revoke has returned, no pass that was under a
\* policy of a generation it retired still commits a Start or queues a child, even
\* when an earlier revoke was dropped half-way.
NoLateAdmission ==
  \A t \in Task : pc[t] \in {"c_commit", "c_queue"} => policy # None /\ policy.gen > drained

\* An explicitly installed policy stays until it is revoked or expires: a pass or
\* an install left over from a retired generation neither clears nor replaces it.
PolicyKept ==
  [][policy # None /\ policy.gen \notin cancelled /\ ~policy.expired
       => policy' # None /\ policy'.gen = policy.gen]_vars

\* The scheduler never starts work beyond the capacity of its policy, whoever
\* commits between its selection and its Start, and never a work that is not Ready.
CapacityKept ==
  [][\A t \in Task : pc[t] = "c_commit" /\ pc'[t] = "c_ensure"
       => Cardinality(Occupied) < Capacity /\ work[claim[t]] = "Ready"]_vars

\* A revoke always returns, although the host may never answer the pass or the
\* install that it interrupts, nor the install that follows it.
RevokeReturns == \A t \in Task : pc[t] = "r_drain" ~> pc[t] = "idle"

\* The work whose child a pass is queueing.
Serving == IF holder # None /\ pc[holder] \in {"c_ensure", "c_queue"} THEN claim[holder] ELSE None

Mandate == INSTANCE ReadyMandate WITH
  mandate <- policy, revoked <- current - 1, settled <- drained, board <- work,
  serving <- Serving

\* The generations, the two locks and the fences together make a mandate: it is granted,
\* used and withdrawn as one, whoever else commits and whoever is dropped, and revoke is
\* its barrier (install, reconcile, revoke).
ImplementsReadyMandate == Mandate!Spec
=============================================================================
