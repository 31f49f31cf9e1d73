--------------------------- MODULE SessionActivation ---------------------------
(***************************************************************************)
(* The activation router of one session: crates/engine/bamboo-engine,      *)
(* src/session_activation.rs, with the spawner that it calls               *)
(* (session_app/child_completion_coordinator.rs), the runner slot and the  *)
(* executions of runtime/execution/agent_spawn.rs, which own the session   *)
(* one after the other.                                                    *)
(*                                                                         *)
(* Messages are committed to the durable inbox before their producer asks  *)
(* the router to wake somebody; an execution admits what is pending at its *)
(* safe points.  One step is the code under one lock, or between two       *)
(* awaits.  Messages are immediate, in the order of their generations:     *)
(* nothing is staged, so every generation of a coordinator is 0.  The      *)
(* token of a reservation is the attempt itself, since nobody reserves     *)
(* while activation_reserved is set.                                       *)
(***************************************************************************)
EXTENDS Integers, FiniteSets

CONSTANTS
  None,
  MaxMsg,       \* bound: messages, each with its producer
  MaxRun,       \* bound: executions
  MaxEntries,   \* bound: executions that the router did not launch
  MaxDrops,     \* bound: futures that are dropped at an await
  MaxErrors,    \* bound: errors of the inbox or of the spawner
  MaxWakes      \* bound: passes of the wake reconciler

Msg == 1..MaxMsg
Run == 1..MaxRun

\* Where an attempt to wake somebody is.
AttPc == {"inspect", "slot", "bind", "publish", "adopt", "rollback", "dropped"}

ASSUME ActivationAssumption ==
  /\ MaxMsg \in Nat /\ MaxRun \in Nat /\ MaxEntries \in Nat /\ MaxDrops \in Nat /\ MaxErrors \in Nat
  /\ MaxWakes \in Nat /\ None \notin Nat
  /\ None \notin [run : Run, registered : BOOLEAN, finalizing : BOOLEAN]
  /\ None \notin [gen : Msg, completed : BOOLEAN]
  /\ None \notin [gen : Msg, by : Msg \cup {None}, recover : BOOLEAN, wake : BOOLEAN,
                  pc : AttPc, run : Run \cup {None}]

VARIABLES
  gen, admitted,     \* inbox: the last generation, and the last one admitted
  latest, dispatched, owner, att, \* the router's state of the session
  recovery,          \* last_recovery_attempt
  rescue,            \* recoveries between their two critical sections
  slot,              \* the runner that holds the session
  runs, rpc, snap,   \* executions: how many, where each is, what its inspect read
  prod,              \* producers
  drops, errors, wakes, entries,
  launched           \* history: launches of each generation, the reconciler's aside

inboxVars  == <<gen, admitted>>
routerVars == <<latest, dispatched, owner, att, recovery, rescue>>
runVars    == <<slot, runs, rpc, snap>>
bounds     == <<drops, errors, wakes, entries>>
vars == <<inboxVars, routerVars, runVars, prod, bounds, launched>>

Init ==
  /\ gen = 0 /\ admitted = 0
  /\ latest = 0 /\ dispatched = 0 /\ owner = None /\ att = None
  /\ recovery = None /\ rescue = 0
  /\ slot = None /\ runs = 0
  /\ rpc = [r \in Run |-> "none"] /\ snap = [r \in Run |-> 0]
  /\ prod = [m \in Msg |-> "none"]
  /\ drops = 0 /\ errors = 0 /\ wakes = 0 /\ entries = 0 /\ launched = [m \in Msg |-> 0]

-----------------------------------------------------------------------------
(* Helpers. *)

Most(a, b) == IF a < b THEN b ELSE a

\* activation_pending: something that may start an execution is not yet admitted.
Pending == admitted < gen

\* A snapshot of the inbox is the pending generation, or 0.
Inspected == IF Pending THEN gen ELSE 0

Goto(r, l) == rpc' = [rpc EXCEPT ![r] = l]
Drop  == drops < MaxDrops /\ drops' = drops + 1 /\ UNCHANGED <<errors, wakes, entries>>
Error == errors < MaxErrors /\ errors' = errors + 1 /\ UNCHANGED <<drops, wakes, entries>>

OwnedBy(r) == owner # None /\ owner.run = r
Owner(r, registered) == [run |-> r, registered |-> registered, finalizing |-> FALSE]
FreeSlot(r) == slot' = IF slot = r THEN None ELSE slot

\* Mutant: the epoch is not advanced.
WokenNever(p) == p

\* activation_epoch: whoever waits for the reservation looks again.
Woken(p) == [x \in DOMAIN p |-> CASE p[x] = "wait" -> "request" [] p[x] = "m_wait" -> "m_register"
                                  [] OTHER -> p[x]]

\* The reservation ends, and its caller, if it is a producer, gets its answer.
Release(answer) ==
  /\ att' = None
  /\ prod' = Woken(IF att.by = None THEN prod ELSE [prod EXCEPT ![att.by] = answer])

Attempt(g, by, recover, wake) ==
  [gen |-> g, by |-> by, recover |-> recover, wake |-> wake, pc |-> "inspect", run |-> None]

\* owner_completion_epoch: what was recovered before may be retried.
Completed ==
  recovery' = IF owner = None \/ recovery = None THEN recovery
              ELSE [recovery EXCEPT !.completed = TRUE]

-----------------------------------------------------------------------------
(* Producers: a durable delivery, then request_activation. *)

Commit ==
  /\ gen < MaxMsg /\ gen' = gen + 1 /\ prod' = [prod EXCEPT ![gen + 1] = "request"]
  /\ UNCHANGED <<admitted, routerVars, runVars, bounds, launched>>

\* The owner is told, or will look when it finalizes; an older message had its launch;
\* a reservation in progress is waited for.
Request(m) ==
  /\ prod[m] = "request" /\ latest' = Most(latest, m)
  /\ \/ /\ owner # None \/ m <= dispatched
        /\ prod' = [prod EXCEPT ![m] = "answered"] /\ UNCHANGED att
     \/ /\ owner = None /\ m > dispatched /\ att # None
        /\ prod' = [prod EXCEPT ![m] = "wait"] /\ UNCHANGED att
     \/ /\ owner = None /\ m > dispatched /\ att = None
        /\ prod' = [prod EXCEPT ![m] = "attempt"] /\ att' = Attempt(m, m, FALSE, FALSE)
  /\ UNCHANGED <<inboxVars, dispatched, owner, recovery, rescue, runVars, bounds, launched>>

\* A producer goes away before it is answered.
ProducerDrop(m) ==
  /\ prod[m] \in {"request", "wait"} /\ Drop /\ prod' = [prod EXCEPT ![m] = "dropped"]
  /\ UNCHANGED <<inboxVars, routerVars, runVars, launched>>

-----------------------------------------------------------------------------
(* dispatch_reserved_with_recovery, with the spawner's reserve_activation. *)

Trying(l) == att # None /\ att.pc = l
At(l) == att' = [att EXCEPT !.pc = l]

Inspect ==
  /\ Trying("inspect")
  /\ \/ Pending /\ At("slot") /\ UNCHANGED <<prod, rpc, recovery, bounds>>
     \/ /\ ~Pending /\ Release("answered") /\ rpc' = Woken(rpc) /\ UNCHANGED bounds
        /\ recovery' = IF att.wake THEN [gen |-> att.gen, completed |-> TRUE] ELSE recovery
     \/ /\ Error /\ Release("failed") /\ rpc' = Woken(rpc) /\ UNCHANGED recovery
  /\ UNCHANGED <<inboxVars, latest, dispatched, owner, rescue, slot, runs, snap, launched>>

\* reserve_runner_core
ReserveSlot ==
  /\ Trying("slot")
  /\ \/ /\ slot # None /\ att' = [att EXCEPT !.pc = "adopt", !.run = slot]
        /\ UNCHANGED <<slot, runs, rpc>>
     \/ /\ slot = None /\ runs < MaxRun /\ runs' = runs + 1 /\ slot' = runs'
        /\ att' = [att EXCEPT !.pc = "bind", !.run = runs'] /\ Goto(runs', "reserved")
  /\ UNCHANGED <<inboxVars, latest, dispatched, owner, recovery, rescue, snap, prod,
                 bounds, launched>>

\* bind_root_actor: the launch is ready, or the slot is freed and the error returned.
Bind ==
  /\ Trying("bind")
  /\ \/ At("publish") /\ UNCHANGED <<prod, rpc, slot, bounds>>
     \/ /\ Error /\ Release("failed") /\ FreeSlot(att.run)
        /\ rpc' = Woken([rpc EXCEPT ![att.run] = "gone"])
  /\ UNCHANGED <<inboxVars, latest, dispatched, owner, recovery, rescue, runs, snap,
                 launched>>

\* Mutant: the launch counts for nothing.
DispatchedKept(g) == dispatched

\* last_dispatched_generation
Dispatched(g) == Most(dispatched, g)

\* The exact owner is published, then its task is made runnable.
Publish ==
  /\ Trying("publish") /\ Release("answered")
  /\ owner' = Owner(att.run, FALSE) /\ dispatched' = Dispatched(att.gen)
  /\ rpc' = Woken([rpc EXCEPT ![att.run] = "launched"])
  /\ recovery' = IF att.wake THEN [gen |-> att.gen, completed |-> FALSE] ELSE recovery
  /\ launched' = IF att.wake THEN launched ELSE [launched EXCEPT ![att.gen] = @ + 1]
  /\ UNCHANGED <<inboxVars, latest, rescue, slot, runs, snap, bounds>>

\* AlreadyRunning: whoever holds the slot becomes the owner, and nothing was launched.
Adopt ==
  /\ Trying("adopt") /\ Release("answered")
  /\ owner' = Owner(att.run, FALSE) /\ rpc' = Woken(rpc)
  /\ recovery' = IF att.wake THEN [gen |-> att.gen, completed |-> FALSE] ELSE recovery
  /\ UNCHANGED <<inboxVars, latest, dispatched, rescue, slot, runs, snap, bounds, launched>>

\* Mutant: the token does not wait for the rollback of a launch.
AfterDropAtOnce(pc) == "dropped"

\* rollback_completion
AfterDrop(pc) == IF pc = "publish" THEN "rollback" ELSE "dropped"

\* ActivationReservationLease::drop: the future is dropped at an await.  A launch that
\* was returned is rolled back before the token; a slot that the spawner still holds,
\* while it binds its Root, is freed by a task of its own that nobody waits for.
AttemptDrop ==
  /\ att # None /\ att.pc \in {"inspect", "slot", "bind", "publish", "adopt"} /\ Drop
  /\ At(AfterDrop(att.pc))
  /\ rpc' = IF att.pc = "bind" THEN [rpc EXCEPT ![att.run] = "unbound"] ELSE rpc
  /\ prod' = IF att.by = None THEN prod ELSE [prod EXCEPT ![att.by] = "dropped"]
  /\ UNCHANGED <<inboxVars, latest, dispatched, owner, recovery, rescue, slot, runs, snap,
                 launched>>

Rollback ==
  /\ Trying("rollback") /\ At("dropped") /\ FreeSlot(att.run) /\ Goto(att.run, "gone")
  /\ UNCHANGED <<inboxVars, latest, dispatched, owner, recovery, rescue, runs, snap, prod,
                 bounds, launched>>

\* cleanup_execution_reservation of an activation that was not published.
RemoveRunner(r) ==
  /\ rpc[r] = "unbound" /\ FreeSlot(r) /\ Goto(r, "freed")
  /\ UNCHANGED <<inboxVars, routerVars, runs, snap, prod, bounds, launched>>

\* recover_cancelled_reservation: the token, then one more attempt for an owner that
\* left; nobody waits for its outcome.
Recover ==
  /\ Trying("dropped") /\ att' = None /\ prod' = Woken(prod) /\ rpc' = Woken(rpc)
  /\ rescue' = rescue + (IF att.recover THEN 1 ELSE 0)
  /\ UNCHANGED <<inboxVars, latest, dispatched, owner, recovery, slot, runs, snap, bounds,
                 launched>>

Rescue ==
  /\ rescue > 0 /\ rescue' = rescue - 1
  /\ att' = IF owner = None /\ att = None /\ latest > dispatched
            THEN Attempt(latest, None, FALSE, FALSE) ELSE att
  /\ UNCHANGED <<inboxVars, latest, dispatched, owner, recovery, runVars, prod, bounds, launched>>

-----------------------------------------------------------------------------
(* Executions. *)

\* reserve_session_execution: an entry that finds the slot free registers first.
Execute ==
  /\ slot = None /\ runs < MaxRun /\ entries < MaxEntries
  /\ runs' = runs + 1 /\ entries' = entries + 1 /\ Goto(runs', "m_register")
  /\ UNCHANGED <<inboxVars, routerVars, slot, snap, prod, drops, errors, wakes, launched>>

\* Mutant: a reservation in progress is ignored.
ReservationSeenNever == FALSE

\* The reservation will publish the next owner, or roll back.
ReservationSeen == att # None

\* register_run of an entry that was not launched by the router.
RegisterEntry(r) ==
  /\ rpc[r] = "m_register"
  /\ \/ owner # None /\ Goto(r, "gone") /\ UNCHANGED owner
     \/ owner = None /\ ReservationSeen /\ Goto(r, "m_wait") /\ UNCHANGED owner
     \/ owner = None /\ ~ReservationSeen /\ Goto(r, "m_slot") /\ owner' = Owner(r, TRUE)
  /\ UNCHANGED <<inboxVars, latest, dispatched, att, recovery, rescue, slot, runs, snap, prod,
                 bounds, launched>>

\* reserve_runner_for_registration, or the registration is abandoned.
EntrySlot(r) ==
  /\ rpc[r] = "m_slot"
  /\ \/ slot = None /\ slot' = r /\ Goto(r, "start")
     \/ slot # None /\ UNCHANGED slot /\ Goto(r, "c_slot")
  /\ UNCHANGED <<inboxVars, routerVars, runs, snap, prod, bounds, launched>>

\* register_run of a task that was launched: it takes over the placeholder.
Register(r) ==
  /\ rpc[r] = "launched"
  /\ \/ /\ owner = Owner(r, FALSE) /\ owner' = Owner(r, TRUE) /\ Goto(r, "start")
        /\ UNCHANGED slot
     \/ owner # Owner(r, FALSE) /\ UNCHANGED owner /\ Goto(r, "gone") /\ FreeSlot(r)
  /\ UNCHANGED <<inboxVars, latest, dispatched, att, recovery, rescue, runs, snap, prod,
                 bounds, launched>>

\* A safe point: everything pending is admitted to the transcript.
Drain(r) ==
  /\ rpc[r] = "start" \/ (rpc[r] = "running" /\ Pending)
  /\ admitted' = gen /\ Goto(r, "running")
  /\ UNCHANGED <<gen, routerVars, slot, runs, snap, prod, bounds, launched>>

\* Mutant: the owner is not marked.
BeginFinalizationUnmarked(r) ==
  /\ rpc[r] = "running" /\ Goto(r, "final")
  /\ UNCHANGED <<inboxVars, routerVars, slot, runs, snap, prod, bounds, launched>>

\* Deliveries from here on are kept for a successor.
BeginFinalization(r) ==
  /\ rpc[r] = "running" /\ Goto(r, "final")
  /\ owner' = IF OwnedBy(r) THEN [owner EXCEPT !.finalizing = TRUE]
              ELSE IF owner = None THEN [Owner(r, FALSE) EXCEPT !.finalizing = TRUE] ELSE owner
  /\ UNCHANGED <<inboxVars, latest, dispatched, att, recovery, rescue, slot, runs, snap, prod,
                 bounds, launched>>

FinalizeRunner(r) ==
  /\ rpc[r] = "final" /\ FreeSlot(r) /\ Goto(r, "finish")
  /\ UNCHANGED <<inboxVars, routerVars, runs, snap, prod, bounds, launched>>

\* finish_finalization reads the inbox before it takes the lock; after an error the
\* registration is dropped.
FinishInspect(r) ==
  /\ rpc[r] = "finish"
  /\ \/ Goto(r, "release") /\ snap' = [snap EXCEPT ![r] = Inspected] /\ UNCHANGED bounds
     \/ Error /\ Goto(r, "c_slot") /\ UNCHANGED snap
  /\ UNCHANGED <<inboxVars, routerVars, slot, runs, prod, launched>>

\* A target without live routing state is forgotten.
Forget(caughtUp) ==
  /\ caughtUp /\ owner' = None /\ att = None
  /\ \A m \in Msg : prod[m] # "wait"
  /\ \A r \in Run : rpc[r] # "m_wait"

\* The owner leaves; what arrived while it finalized gets one successor.
Leave(r, wanted, caughtUp) ==
  LET seen == Most(latest, snap[r]) IN
  /\ owner' = None /\ Goto(r, "gone")
  /\ \/ /\ wanted /\ seen > dispatched /\ att = None
        /\ latest' = seen /\ att' = Attempt(seen, None, TRUE, FALSE)
        /\ UNCHANGED dispatched /\ Completed
     \/ /\ ~(wanted /\ seen > dispatched /\ att = None) /\ UNCHANGED att
        /\ \/ /\ Forget(caughtUp) /\ latest' = 0 /\ dispatched' = 0 /\ recovery' = None
           \/ /\ ~Forget(caughtUp) /\ latest' = seen /\ UNCHANGED dispatched /\ Completed

\* Mutant: only what the inspection saw counts.
NewsInspected(r) == snap[r] > 0

\* Something is pending, or arrived since.
News(r) == snap[r] > 0 \/ latest > admitted

FinishRelease(r) ==
  /\ rpc[r] = "release"
  /\ \/ /\ owner = None \/ OwnedBy(r)
        /\ Leave(r, News(r), ~News(r))
     \/ /\ owner # None /\ ~OwnedBy(r) /\ Goto(r, "gone")
        /\ UNCHANGED <<latest, dispatched, owner, att, recovery>>
  /\ UNCHANGED <<inboxVars, rescue, slot, runs, snap, prod, bounds, launched>>

\* SessionRunRegistration::drop, at any await of an execution that holds one.
RunDrop(r) ==
  /\ rpc[r] \in {"m_slot", "start", "running", "final", "finish", "release"}
  /\ Drop /\ Goto(r, "c_slot")
  /\ UNCHANGED <<inboxVars, routerVars, slot, runs, snap, prod, launched>>

\* abort_cleanup, then cleanup_abandoned_registration.
CleanSlot(r) ==
  /\ rpc[r] = "c_slot" /\ FreeSlot(r) /\ Goto(r, "c_mark")
  /\ UNCHANGED <<inboxVars, routerVars, runs, snap, prod, bounds, launched>>

\* A lease whose owner is another one by now does nothing.
CleanMark(r) ==
  /\ rpc[r] = "c_mark"
  /\ \/ ~OwnedBy(r) /\ Goto(r, "gone") /\ UNCHANGED owner
     \/ /\ OwnedBy(r) /\ Goto(r, "c_inspect")
        /\ owner' = [owner EXCEPT !.registered = FALSE, !.finalizing = TRUE]
  /\ UNCHANGED <<inboxVars, latest, dispatched, att, recovery, rescue, slot, runs, snap, prod,
                 bounds, launched>>

CleanInspect(r) ==
  /\ rpc[r] = "c_inspect" /\ Goto(r, "c_release")
  /\ \/ snap' = [snap EXCEPT ![r] = Inspected] /\ UNCHANGED bounds
     \/ Error /\ snap' = [snap EXCEPT ![r] = 0]
  /\ UNCHANGED <<inboxVars, routerVars, slot, runs, prod, launched>>

CleanRelease(r) ==
  /\ rpc[r] = "c_release"
  /\ \/ /\ OwnedBy(r) /\ owner.finalizing /\ ~owner.registered
        /\ Leave(r, TRUE, Most(latest, snap[r]) = 0)
     \/ /\ ~(OwnedBy(r) /\ owner.finalizing /\ ~owner.registered) /\ Goto(r, "gone")
        /\ UNCHANGED <<latest, dispatched, owner, att, recovery>>
  /\ UNCHANGED <<inboxVars, rescue, slot, runs, snap, prod, bounds, launched>>

-----------------------------------------------------------------------------
(* reconcile_wake: the first message pending, unless its last attempt still runs. *)

\* A pass that finds a reservation waits for it and looks again.
Wake ==
  LET blocked == recovery # None /\ recovery.gen = admitted + 1 /\ ~recovery.completed IN
  /\ wakes < MaxWakes /\ Pending /\ latest' = Most(latest, admitted + 1)
  /\ \/ /\ owner # None \/ blocked
        /\ wakes' = wakes + 1 /\ UNCHANGED att
     \/ owner = None /\ ~blocked /\ att # None /\ UNCHANGED <<wakes, att>>
     \/ /\ owner = None /\ ~blocked /\ att = None /\ wakes' = wakes + 1
        /\ att' = Attempt(admitted + 1, None, FALSE, TRUE)
  /\ UNCHANGED <<inboxVars, dispatched, owner, recovery, rescue, runVars, prod, drops, errors,
                 entries, launched>>

-----------------------------------------------------------------------------
(* Specification. *)

AttemptStep == Inspect \/ ReserveSlot \/ Bind \/ Publish \/ Adopt \/ Rollback \/ Recover

RunStep(r) == \/ RegisterEntry(r) \/ EntrySlot(r) \/ Register(r) \/ Drain(r)
              \/ BeginFinalization(r) \/ FinalizeRunner(r) \/ FinishInspect(r)
              \/ FinishRelease(r) \/ CleanSlot(r) \/ CleanMark(r) \/ CleanInspect(r)
              \/ CleanRelease(r)

Next == \/ Commit \/ \E m \in Msg : Request(m) \/ ProducerDrop(m)
        \/ AttemptStep \/ AttemptDrop \/ Rescue \/ Execute \/ Wake
        \/ \E r \in Run : RunStep(r) \/ RunDrop(r) \/ RemoveRunner(r)

Spec == Init /\ [][Next]_vars

\* Tasks run until they wait for something, and an execution ends.  No message, no
\* entry and no pass of the reconciler is relied on.
FairSpec == /\ Spec /\ WF_vars(AttemptStep) /\ WF_vars(Rescue)
            /\ \A m \in Msg : WF_vars(Request(m))
            /\ \A r \in Run : WF_vars(RunStep(r)) /\ WF_vars(RemoveRunner(r))

-----------------------------------------------------------------------------
(* Properties. *)

RunPc == {"none", "reserved", "launched", "m_register", "m_wait", "m_slot", "start", "running",
          "final", "finish", "release", "c_slot", "c_mark", "c_inspect", "c_release", "gone", "unbound", "freed"}
Executing(r) == rpc[r] \in {"start", "running"}

\* The variables have their types, and somebody waits for a reservation only while
\* there is one: whoever waits for an edge that will not come is stuck.
TypeOK ==
  /\ gen \in 0..MaxMsg /\ admitted \in 0..gen /\ latest \in 0..gen /\ dispatched \in 0..gen
  /\ owner = None \/ owner \in [run : 1..runs, registered : BOOLEAN, finalizing : BOOLEAN]
  /\ att = None \/ /\ att.gen \in 1..gen /\ att.by \in Msg \cup {None}
                   /\ att.pc \in AttPc
                   /\ att.run \in Run \cup {None}
  /\ recovery = None \/ recovery \in [gen : 1..gen, completed : BOOLEAN]
  /\ rescue \in Nat /\ slot \in (1..runs) \cup {None}
  /\ runs \in 0..MaxRun /\ rpc \in [Run -> RunPc] /\ snap \in [Run -> 0..gen]
  /\ prod \in [Msg -> {"none", "request", "wait", "attempt", "answered", "failed", "dropped"}]
  /\ (\E m \in Msg : prod[m] = "wait") \/ (\E r \in Run : rpc[r] = "m_wait") => att # None

\* Whoever executes the session is its registered owner and has its runner: two
\* executions never run at once (session_activation.rs:1428).
OneRun == \A r \in Run : Executing(r) => owner = Owner(r, TRUE) /\ slot = r

\* An owner has an execution that will finish it: when a launch is dropped after the
\* spawner returned it, its slot is free before a newer activation can find it.
OwnerLives == owner # None => rpc[owner.run] \notin {"none", "reserved", "gone"}

\* "preventing a newer activation from adopting the still-present unlaunched slot"
\* (session_activation.rs:86), of a launch that the spawner had not returned yet.
UnlaunchedNotAdopted == owner # None => rpc[owner.run] \notin {"unbound", "freed"}

\* A stale lease never clears a newer owner (session_activation.rs:543): an owner leaves
\* by the last step of its own finalization or cleanup.
OwnerKept ==
  [][owner # None /\ (owner' = None \/ owner'.run # owner.run)
       => rpc[owner.run] \in {"release", "c_release"}]_vars

\* Nothing is in progress that would still look at the inbox.
Quiet == /\ owner = None /\ att = None /\ rescue = 0
         /\ \A m \in Msg : prod[m] \notin {"request", "wait", "attempt"}

\* A message whose producer was told that somebody takes care of it is not left behind
\* when the last owner leaves: it is admitted, or an execution was launched for it or for
\* a later one.  One dropped future does not change that (session_activation.rs:1806).
NoStranded ==
  Quiet /\ errors = 0 /\ drops <= 1
    => \A m \in Msg : prod[m] = "answered" => m <= admitted \/ m <= dispatched

\* A backlog that no execution admits does not start executions again and again: the
\* router launches one for its generation (session_activation.rs:251), the reconciler
\* and what was admitted aside.
LaunchedOnce == \A m \in Msg : m > admitted => launched[m] <= 1

\* A producer, or an entry, that waits for a reservation is woken and gets an answer.
WaitEnds ==
  /\ \A m \in Msg : prod[m] = "wait" ~> prod[m] \in {"answered", "failed", "dropped"}
  /\ \A r \in Run : rpc[r] = "m_wait" ~> rpc[r] = "gone"

\* How far the owner is with the session.
TurnPhase == IF owner = None THEN "free" ELSE IF owner.finalizing THEN "closing"
             ELSE IF owner.registered THEN "open" ELSE "starting"

Turns == INSTANCE SessionTurns WITH
  sent <- gen, heard <- admitted, turn <- IF owner = None THEN None ELSE owner.run,
  phase <- TurnPhase, past <- {r \in Run : rpc[r] = "gone"}

\* The inbox is admitted by one execution after the other: each is the owner at most
\* once, it admits only between its registration and its finalization, and the session
\* is free again only when it is through with it (register_run, begin_finalization,
\* finish_finalization, cleanup_abandoned_registration).
ImplementsSessionTurns == Turns!Spec
=============================================================================
