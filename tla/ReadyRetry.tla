------------------------------ MODULE ReadyRetry ------------------------------
(***************************************************************************)
(* The durable retry record of one work: crates/engine/bamboo-             *)
(* orchestration, src/ready_recovery.rs, its file store in bamboo-server   *)
(* (ticket_application/ready_retry_store.rs) and the part of               *)
(* reconcile_installed that reserves, enters the host and settles.         *)
(*                                                                         *)
(* A pass holds the scheduler's state lock, so there is one at a time.  It *)
(* is dropped at an await (a revoked policy, a caller that goes away), but *)
(* a compare_exchange runs on the blocking pool and is not: the write of a *)
(* dropped pass lands later.  A revision is never compared except for      *)
(* equality with the stored one, and every write advances it, so a writer  *)
(* keeps "fresh": nothing was written since the record it started from.    *)
(* Times are seconds of the wall clock, which may be set back.             *)
(***************************************************************************)
EXTENDS Integers

CONSTANTS
  None, Broken, Intent, User,
  Limit,      \* READY_RETRY_LIMIT
  Window,     \* what remains of the policy's lifetime at the first check
  LongDelay,  \* the delay after Observed and after a Resource failure
  MaxNow,     \* bound: the clock
  MaxEpoch,   \* bound: writer restarts
  MaxSeq,     \* bound: commits of other clients of the scope
  MaxFaults,  \* bound: passes dropped at an await and I/O errors
  MaxBack     \* bound: times that the clock is set back

Op == (1..MaxEpoch) \X Nat    \* an operation id: epoch and sequence

ASSUME RetryAssumption ==
  /\ {None, Broken, Intent, User} \cap Op = {} /\ None # Broken
  /\ None \notin {Intent, User} /\ Intent # User
  /\ Limit \in Nat \ {0} /\ Window \in Nat \ {0} /\ LongDelay \in Nat \ {0}
  /\ MaxNow \in Nat /\ MaxEpoch \in Nat \ {0} /\ MaxSeq \in Nat
  /\ MaxFaults \in Nat /\ MaxBack \in Nat

VARIABLES
  rec, stable,      \* the record that load returns, and the last one synced
  late,             \* the write of a dropped pass, still on the blocking pool
  pc, permit,       \* the pass, and its record with the changes not yet saved
  fresh, lateFresh, \* nothing was written since the pass, or the late write, loaded
  snap, t0,         \* the snapshot and the clock sample that the pass works with
  now, backs,       \* the wall clock; how often it was set back
  epoch, seq,       \* of the ticket scope
  start, state,     \* the Start of the work: its operation, and its attempt's state
  queued,           \* the child of the attempt was queued
  faults,
  entries, issued   \* history: entries into the host, Starts issued and not refused

recVars   == <<rec, stable, late, lateFresh>>
passVars  == <<pc, permit, fresh, snap, t0>>
clockVars == <<now, backs>>
scopeVars == <<epoch, seq, start, state, queued>>
history   == <<entries, issued>>
vars == <<recVars, passVars, clockVars, scopeVars, faults, history>>

Phase == {"Ready", "Reserved", "Deferred", "Quarantined"}
Kind  == {"Transient", "Resource", "Fatal"}  \* Fatal: the three that quarantine at once
AttemptState == {"none", "DispatchPending", "Running", "OutcomeUnknown", "Done"}

\* A request is an operation id, the dispatch key of the attempt, or None.
Record == [epoch : 1..MaxEpoch, expires : Nat, seen : Nat, next : Nat,
           attempts : 0..Limit, phase : Phase, request : Op \cup {Intent, None}]

\* Waiting for a compare_exchange, by what the pass saves.
Saving == {"create", "quarantine", "epoch", "floor", "reserve", "settle"}

Init ==
  /\ rec = None /\ stable = None /\ late = None /\ lateFresh = FALSE
  /\ pc = "idle" /\ permit = None /\ fresh = FALSE /\ snap = None /\ t0 = 0
  /\ now = 0 /\ backs = 0
  /\ epoch = 1 /\ seq = 0 /\ start = None /\ state = "none" /\ queued = FALSE
  /\ faults = 0 /\ entries = 0 /\ issued = {}

-----------------------------------------------------------------------------
(* Helpers. *)

Least(a, b) == IF a < b THEN a ELSE b
Most(a, b)  == IF a < b THEN b ELSE a

NextCheck(r, delay) == Least(r.seen + delay, r.expires)
Backoff(attempts) == IF attempts = 0 THEN 1 ELSE 2 ^ (attempts - 1)

\* A power of two is a number, and a record is not one of the other values.
ASSUME RecordAssumption == /\ \A n \in 0..Limit : Backoff(n) \in Nat
                           /\ {None, Broken} \cap Record = {}

\* Mutant: a record never expires.
ExpiredNever(r, t) == FALSE

Expired(r, t) == t >= r.expires

\* check_time and RetryDeadline::check.
TimeOK(r, t) == r.seen <= t /\ ~Expired(r, t)

\* canonical_intent: does the scope hold the attempt that the record asked for?
CanonicalIntent(r, starting) ==
  \/ r.request = Intent /\ starting # None
  \/ r.request \notin {Intent, None} /\ starting = r.request

\* A pass ends: the permit is dropped.
End == /\ pc' = "idle" /\ permit' = None /\ fresh' = FALSE /\ snap' = None /\ t0' = 0

\* The pass hands its changed record to compare_exchange and awaits it.
Save(r, at) == pc' = at /\ permit' = r /\ t0' = 0 /\ UNCHANGED <<fresh, snap>>

-----------------------------------------------------------------------------
(* compare_exchange on the blocking pool *)

\* Mutant: the last writer wins.
MatchesAny(current) == TRUE

\* The stored revision is the expected one.
Matches(current) == current

\* validate_ready_retry_transition.
ValidTransition(old, new) ==
  /\ old.expires = new.expires /\ old.attempts <= new.attempts /\ old.seen <= new.seen
  /\ old.epoch <= new.epoch
  /\ old.phase = "Quarantined" => new.phase = "Quarantined"

Accepts(r, current) ==
  Matches(current) /\ (rec \notin {None, Broken} => ValidTransition(rec, r))

\* exchange_blocking: the record becomes visible, synced or not.
Publish(r, current, synced) ==
  /\ Accepts(r, current)
  /\ rec' = r /\ stable' = IF synced THEN r ELSE stable

\* Where a pass goes on after its write.
AfterSave == [create |-> "check", epoch |-> "limits", floor |-> "permit",
              reserve |-> "reserved"]

Exchanged ==
  /\ pc \in Saving /\ Publish(permit, fresh, TRUE) /\ lateFresh' = FALSE
  /\ \/ pc \in {"quarantine", "settle"} /\ End
     \/ /\ pc \notin {"quarantine", "settle"} /\ pc' = AfterSave[pc] /\ fresh' = TRUE
        /\ UNCHANGED <<permit, snap, t0>>
  /\ UNCHANGED <<late, clockVars, scopeVars, faults, history>>

\* The pass gets an error: a stale revision, an I/O error before the rename, one
\* after it, or one half-way through a creation, which breaks the key for good.
ExchangeFails ==
  /\ pc \in Saving
  /\ \/ ~Accepts(permit, fresh) /\ UNCHANGED <<rec, stable, lateFresh, faults>>
     \/ /\ faults < MaxFaults /\ faults' = faults + 1
        /\ \/ UNCHANGED <<rec, stable, lateFresh>>
           \/ Publish(permit, fresh, FALSE) /\ lateFresh' = FALSE
           \/ /\ pc = "create" /\ Accepts(permit, fresh)
              /\ rec' = Broken /\ stable' = Broken /\ lateFresh' = FALSE
  /\ End /\ UNCHANGED <<late, clockVars, scopeVars, history>>

\* The write of a dropped pass lands, or fails unseen.
LateExchange ==
  /\ late # None /\ late' = None /\ lateFresh' = FALSE
  /\ \/ \E synced \in BOOLEAN : Publish(late, lateFresh, synced) /\ fresh' = FALSE
     \/ UNCHANGED <<rec, stable, fresh>>
  /\ UNCHANGED <<pc, permit, snap, t0, clockVars, scopeVars, faults, history>>

-----------------------------------------------------------------------------
(* ReadyRecovery::check *)

\* The pass reads the scope.  Only a work that was never started, or whose attempt
\* is pending, is looked at further.
Begin ==
  /\ pc = "idle" /\ state \in {"none", "DispatchPending"}
  /\ rec = None => now + Window <= MaxNow
  /\ pc' = "load" /\ t0' = now /\ snap' = [seq |-> seq, start |-> start, state |-> state]
  /\ UNCHANGED <<permit, fresh, recVars, clockVars, scopeVars, faults, history>>

\* The first record takes its times from the sample before the load.
Load ==
  /\ pc = "load"
  /\ \/ rec = Broken /\ End
     \/ /\ rec = None /\ fresh' = TRUE /\ pc' = "create"
        /\ permit' = [epoch |-> epoch, expires |-> t0 + Window, seen |-> t0, next |-> t0,
                      attempts |-> 0, phase |-> "Ready", request |-> None]
        /\ t0' = 0 /\ UNCHANGED snap
     \/ /\ rec \notin {None, Broken} /\ fresh' = TRUE /\ pc' = "check" /\ permit' = rec
        /\ t0' = 0 /\ UNCHANGED snap
  /\ UNCHANGED <<recVars, clockVars, scopeVars, faults, history>>

Quarantine == Save([permit EXCEPT !.phase = "Quarantined"], "quarantine")

\* A fresh sample against the record's floor and deadline, then the epoch: a new
\* writer may go on only with a work that was never asked to start.
Check ==
  /\ pc = "check"
  /\ \/ permit.phase = "Quarantined" /\ End
     \/ permit.phase # "Quarantined" /\ ~TimeOK(permit, now) /\ Quarantine
     \/ /\ permit.phase # "Quarantined" /\ TimeOK(permit, now)
        /\ \/ /\ permit.epoch = epoch /\ pc' = "limits" /\ t0' = now
              /\ UNCHANGED <<permit, fresh, snap>>
           \/ /\ permit.epoch # epoch
              /\ permit.request # None \/ snap.start # None
              /\ Quarantine
           \/ /\ permit.epoch # epoch /\ permit.request = None /\ snap.start = None
              /\ permit' = [permit EXCEPT !.epoch = epoch] /\ pc' = "epoch" /\ t0' = now
              /\ UNCHANGED <<fresh, snap>>
  /\ UNCHANGED <<recVars, clockVars, scopeVars, faults, history>>

\* Mutant: an interrupted Start without a receipt is taken as never made.
InterruptedTrusted(r, s) ==
  r.request # None /\ s.start # None /\ ~(s.state = "DispatchPending" /\ CanonicalIntent(r, s.start))

\* A request was reserved before and the snapshot does not show it as pending.
Interrupted(r, s) ==
  r.request # None /\ ~(s.state = "DispatchPending" /\ CanonicalIntent(r, s.start))

\* The attempts, the next check and the reserved request, with the sample of Check;
\* then the clock floor is saved before the host's preflight.
CheckLimits ==
  LET exhausted == permit.attempts >= Limit
      deferred  == t0 < permit.next IN
  /\ pc = "limits"
  /\ \/ exhausted /\ Quarantine
     \/ ~exhausted /\ deferred /\ End
     \/ ~exhausted /\ ~deferred /\ Interrupted(permit, snap) /\ Quarantine
     \/ /\ ~exhausted /\ ~deferred /\ ~Interrupted(permit, snap)
        /\ Save([permit EXCEPT !.seen = t0], "floor")
  /\ UNCHANGED <<recVars, clockVars, scopeVars, faults, history>>

-----------------------------------------------------------------------------
(* reserve, the host, and the settlement *)

\* failure
FailureRecord(r, reported) ==
  LET reserved == r.phase = "Reserved"
      kind == IF reserved /\ reported = "Transient" /\ ~CanonicalIntent(r, start)
                THEN "Fatal" ELSE reported
      attempts == IF ~reserved /\ kind = "Transient" THEN Least(r.attempts + 1, Limit)
                                                    ELSE r.attempts
      seen == [r EXCEPT !.seen = Most(r.seen, now)] IN
  [seen EXCEPT !.attempts = attempts,
               !.phase = IF kind = "Fatal" \/ attempts >= Limit THEN "Quarantined"
                                                               ELSE "Deferred",
               !.next = NextCheck(seen, IF kind = "Resource" THEN LongDelay
                                                           ELSE Backoff(attempts))]

Fails(at) == \E k \in Kind : pc \in at /\ Save(FailureRecord(permit, k), "settle")

\* Mutant: the attempt is charged when it is settled, not when it is reserved.
ReserveRecordUncharged(r, request) ==
  LET seen == [r EXCEPT !.seen = now, !.request = request, !.phase = "Reserved"] IN
  [seen EXCEPT !.next = NextCheck(seen, Backoff(r.attempts + 1))]

ReserveRecord(r, request) ==
  LET seen == [r EXCEPT !.seen = now, !.request = request, !.phase = "Reserved",
                        !.attempts = r.attempts + 1] IN
  [seen EXCEPT !.next = NextCheck(seen, Backoff(seen.attempts))]

\* The preflight failed, or the work was not selected: a conflict, no free slot or
\* an older candidate leaves the record; or the attempt is reserved.
Reserve ==
  /\ pc = "permit"
  /\ \/ Fails({"permit"})
     \/ snap.state = "none" /\ End
     \/ ~TimeOK(permit, now) /\ End
     \/ /\ TimeOK(permit, now) /\ permit.attempts < Limit
        /\ \/ snap.state = "DispatchPending"
              /\ Save(ReserveRecord(permit, Intent), "reserve")
           \/ /\ snap.state = "none" /\ snap.seq = seq
              /\ Save(ReserveRecord(permit, <<epoch, seq>>), "reserve")
  /\ UNCHANGED <<recVars, clockVars, scopeVars, faults, history>>

\* check_admission_time again, then the call of the host.
Enter ==
  /\ pc = "reserved"
  /\ \/ ~TimeOK(permit, now) /\ End /\ UNCHANGED history
     \/ /\ TimeOK(permit, now) /\ entries' = entries + 1
        /\ \/ permit.request = Intent /\ pc' = "ensure" /\ UNCHANGED issued
           \/ permit.request # Intent /\ pc' = "dispatch"
              /\ issued' = issued \cup {permit.request}
        /\ UNCHANGED <<permit, fresh, snap, t0>>
  /\ UNCHANGED <<recVars, clockVars, scopeVars, faults>>

\* conflict: the definite refusal of the scope takes the request back.
ConflictRecord(r) ==
  LET seen == [r EXCEPT !.seen = Most(r.seen, now), !.request = None,
                        !.phase = "Deferred"] IN
  [seen EXCEPT !.next = NextCheck(seen, Backoff(r.attempts))]

Dispatch ==
  /\ pc = "dispatch"
  /\ \/ /\ Fails({"dispatch"}) /\ UNCHANGED <<scopeVars, issued>>
     \/ /\ seq # snap.seq /\ Save(ConflictRecord(permit), "settle")
        /\ issued' = issued \ {permit.request} /\ UNCHANGED scopeVars
     \/ /\ seq = snap.seq /\ TimeOK(permit, now)
        /\ start' = permit.request /\ state' = "DispatchPending" /\ seq' = seq + 1
        /\ pc' = "ensure"
        /\ UNCHANGED <<permit, fresh, snap, t0, epoch, queued, issued>>
  /\ UNCHANGED <<recVars, clockVars, faults, entries>>

Ensure ==
  /\ pc = "ensure"
  /\ \/ Fails({"ensure"}) /\ UNCHANGED queued
     \/ /\ TimeOK(permit, now) /\ state \in {"DispatchPending", "Running"}
        /\ queued' = TRUE /\ pc' = "observed" /\ UNCHANGED <<permit, fresh, snap, t0>>
  /\ UNCHANGED <<recVars, clockVars, epoch, seq, start, state, faults, history>>

\* observed
ObservedRecord(r) ==
  LET seen == [r EXCEPT !.seen = Most(r.seen, now), !.request = Intent,
                        !.phase = "Deferred"] IN
  [seen EXCEPT !.next = NextCheck(seen, LongDelay)]

Observed ==
  /\ pc = "observed"
  /\ \/ ~CanonicalIntent(permit, start) /\ End
     \/ CanonicalIntent(permit, start) /\ Save(ObservedRecord(permit), "settle")
  /\ UNCHANGED <<recVars, clockVars, scopeVars, faults, history>>

\* The pass is dropped at an await; a write it was waiting for is not.
Drop ==
  /\ pc \in Saving \cup {"load", "permit", "dispatch", "ensure", "observed"}
  /\ faults < MaxFaults /\ faults' = faults + 1
  /\ \/ pc \in Saving /\ late = None /\ late' = permit /\ lateFresh' = fresh
     \/ pc \notin Saving /\ UNCHANGED <<late, lateFresh>>
  /\ End /\ UNCHANGED <<rec, stable, clockVars, scopeVars, history>>

Pass == \/ Begin \/ Load \/ Check \/ CheckLimits \/ Reserve \/ Enter \/ Dispatch
        \/ Ensure \/ Observed

-----------------------------------------------------------------------------
(* The clock, the other clients of the scope, and the process. *)

Tick ==
  /\ now < MaxNow /\ now' = now + 1
  /\ UNCHANGED <<recVars, passVars, backs, scopeVars, faults, history>>

SetBack ==
  /\ backs < MaxBack /\ backs' = backs + 1 /\ now' \in 0..now - 1
  /\ UNCHANGED <<recVars, passVars, scopeVars, faults, history>>

\* A Start by the user, the run of a queued child, a cancellation, anything else.
Others ==
  /\ seq < MaxSeq /\ seq' = seq + 1
  /\ \/ state = "none" /\ start' = User /\ state' = "DispatchPending"
     \/ /\ state = "DispatchPending" /\ queued /\ state' = "Running"
        /\ UNCHANGED start
     \/ state \notin {"Done", "OutcomeUnknown"} /\ state' = "Done" /\ UNCHANGED start
     \/ UNCHANGED <<start, state>>
  /\ UNCHANGED <<recVars, passVars, clockVars, epoch, queued, faults, history>>

\* The process dies and the next one opens the scope as its writer: what was not
\* synced may be gone, and an attempt in flight has an unknown outcome.
Restart ==
  /\ epoch < MaxEpoch /\ epoch' = epoch + 1
  /\ \E r \in {rec, stable} \cup (IF pc = "create" THEN {Broken} ELSE {}) :
       rec' = r /\ stable' = r
  /\ late' = None /\ lateFresh' = FALSE /\ End
  /\ state' = IF state \in {"DispatchPending", "Running"} THEN "OutcomeUnknown" ELSE state
  /\ queued' = FALSE
  /\ UNCHANGED <<clockVars, seq, start, faults, history>>

Next == \/ Pass \/ Exchanged \/ ExchangeFails \/ LateExchange \/ Drop
        \/ Tick \/ SetBack \/ Others \/ Restart

Spec == Init /\ [][Next]_vars

\* The worker makes passes, the blocking pool runs what it is given, time passes.
FairSpec == Spec /\ WF_vars(Pass) /\ WF_vars(Exchanged \/ ExchangeFails)
                 /\ WF_vars(LateExchange) /\ WF_vars(Tick)

-----------------------------------------------------------------------------
(* Properties. *)

\* The types; the store never holds more than Limit attempts.
TypeOK ==
  /\ rec \in Record \cup {None, Broken} /\ stable \in Record \cup {None, Broken}
  /\ late \in Record \cup {None} /\ lateFresh \in BOOLEAN
  /\ pc \in Saving \cup {"idle", "load", "check", "limits", "permit", "reserved",
                         "dispatch", "ensure", "observed"}
  /\ permit \in Record \cup {None} /\ fresh \in BOOLEAN
  /\ snap \in [seq : Nat, start : Op \cup {User, None}, state : AttemptState] \cup {None}
  /\ t0 \in Nat /\ now \in Nat /\ backs \in Nat
  /\ epoch \in 1..MaxEpoch /\ seq \in Nat /\ start \in Op \cup {User, None}
  /\ state \in AttemptState /\ queued \in BOOLEAN
  /\ faults \in Nat /\ entries \in Nat /\ issued \subseteq Op

Attempts(r) == IF r \in {None, Broken} THEN 0 ELSE r.attempts

\* Every entry into the host was charged before it, on disk and synced: across
\* crashes, dropped passes, re-installed policies and late writes the host is
\* entered at most Limit times for the work.
ChargedBeforeEntry ==
  entries > 0 => /\ rec \notin {None, Broken} /\ stable \notin {None, Broken}
                 /\ entries <= rec.attempts /\ entries <= stable.attempts

\* While a pass is in the host the stored record is the one it reserved: no write
\* of a dropped pass replaces it.
PermitCurrent ==
  pc \in {"reserved", "dispatch", "ensure", "observed"} => rec = permit /\ stable = permit

\* A Start whose outcome may be unknown is never followed by a second one: only the
\* scope's definite conflict makes the work eligible again.
OneOpenStart == \A a, b \in issued : a = b

\* A work with a synced record does not stay admissible for ever: it runs, is finished or
\* unknown, or its record ends quarantined, whatever the host keeps answering.
Settles ==
  (stable # None) ~> \/ rec = Broken \/ state \notin {"none", "DispatchPending"}
                     \/ rec \notin {None, Broken} /\ rec.phase = "Quarantined"

=============================================================================
