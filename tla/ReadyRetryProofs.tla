--------------------------- MODULE ReadyRetryProofs ---------------------------
(***************************************************************************)
(* Proofs about ReadyRetry: for any limit, window, delays and bounds, the  *)
(* host is entered at most as often as the synced record was charged, no   *)
(* write of a dropped pass replaces the record of a pass in the host, and  *)
(* no second Start is issued after one whose outcome may be unknown.       *)
(***************************************************************************)
EXTENDS ReadyRetry, TLAPS

-----------------------------------------------------------------------------
(* The inductive invariant. *)

Host == {"permit", "reserved", "dispatch", "ensure", "observed"}

\* A pass past its load has a record; one that got its write accepted works
\* with the stored record, and no write of a dropped pass can be accepted any more.
HostInv ==
  /\ pc \notin {"idle", "load"} => permit \in Record
  /\ pc \in {"idle", "load"} => ~fresh
  /\ lateFresh => late \in Record
  /\ pc \in Host => rec = permit /\ stable = permit /\ ~lateFresh

\* The next entry is charged before it is made; a creation has nothing to lose.
ChargeInv ==
  /\ ChargedBeforeEntry
  /\ pc = "create" => entries = 0
  /\ pc \in {"reserve", "reserved"} => entries < permit.attempts

\* A record that accounts for every Start that may have been issued.
Accounts(r) == \A q \in issued : r \in Record /\ r.request \in {q, Intent}

\* Every record that is stored, or that may still be, accounts for the Starts, and a pass
\* asks for a new Start only when its record has none.
OpenInv ==
  /\ OneOpenStart /\ Accounts(rec) /\ Accounts(stable) /\ (lateFresh => Accounts(late))
  /\ fresh /\ pc \in {"check", "limits"} \cup Saving => Accounts(permit)
  /\ pc = "create" => issued = {}
  /\ pc \in {"floor", "permit"} /\ snap.state = "none" => permit.request = None
  /\ pc \in {"reserve", "reserved", "dispatch"} => permit.request # None
  /\ pc = "dispatch" => permit.request # Intent

IInv == TypeOK /\ HostInv /\ ChargeInv /\ OpenInv

-----------------------------------------------------------------------------
(* The records that the pass saves. *)

LEMMA RecordFacts ==
  ASSUME NEW r \in Record
  PROVE  /\ r.attempts \in 0..Limit /\ r.request \in Op \cup {Intent, None} /\ r.seen \in Nat
         /\ r.expires \in Nat /\ r.next \in Nat /\ r.epoch \in 1..MaxEpoch /\ r.phase \in Phase
         /\ r \notin {None, Broken}
<1>1. r \notin {None, Broken}
  BY RecordAssumption
<1> QED BY <1>1 DEF Record

LEMMA NextCheckType ==
  ASSUME NEW r \in Record, NEW d \in Nat PROVE NextCheck(r, d) \in Nat
BY DEF NextCheck, Least, Record

LEMMA BackoffType == ASSUME NEW n \in 0..Limit PROVE Backoff(n) \in Nat
BY RecordAssumption

LEMMA FailureType ==
  ASSUME TypeOK, NEW r \in Record, NEW k \in Kind
  PROVE  FailureRecord(r, k) \in Record /\ FailureRecord(r, k).request = r.request
<1> DEFINE kind == IF r.phase = "Reserved" /\ k = "Transient" /\ ~CanonicalIntent(r, start)
                     THEN "Fatal" ELSE k
           attempts == IF r.phase # "Reserved" /\ kind = "Transient" THEN Least(r.attempts + 1, Limit)
                                                                 ELSE r.attempts
           seen == [r EXCEPT !.seen = Most(r.seen, now)]
           delay == IF kind = "Resource" THEN LongDelay ELSE Backoff(attempts)
           phase == IF kind = "Fatal" \/ attempts >= Limit THEN "Quarantined" ELSE "Deferred"
<1>1. r.attempts \in 0..Limit /\ r.seen \in Nat /\ now \in Nat /\ Limit \in Nat /\ LongDelay \in Nat
  BY RecordFacts, RetryAssumption DEF TypeOK
<1>2. attempts \in 0..Limit
  BY <1>1 DEF Least
<1>3. seen \in Record /\ seen.request = r.request
  BY <1>1 DEF Record, Most
<1>4. delay \in Nat
  BY <1>1, <1>2, BackoffType
<1>5. NextCheck(seen, delay) \in Nat
  BY <1>3, <1>4, NextCheckType
<1>6. phase \in Phase
  BY DEF Phase
<1>7. FailureRecord(r, k) = [seen EXCEPT !.attempts = attempts, !.phase = phase,
                                         !.next = NextCheck(seen, delay)]
  BY DEF FailureRecord
<1> HIDE DEF attempts, seen, phase, delay, kind
<1> QED BY <1>2, <1>3, <1>5, <1>6, <1>7 DEF Record

LEMMA ReserveType ==
  ASSUME TypeOK, NEW r \in Record, r.attempts < Limit, NEW q \in Op \cup {Intent}
  PROVE  LET s == ReserveRecord(r, q) IN
           s \in Record /\ s.request = q /\ s.attempts = r.attempts + 1
<1> DEFINE seen == [r EXCEPT !.seen = now, !.request = q, !.phase = "Reserved",
                             !.attempts = r.attempts + 1]
<1>1. r.attempts \in 0..Limit /\ now \in Nat /\ Limit \in Nat
  BY RecordFacts, RetryAssumption DEF TypeOK
<1>2. seen \in Record /\ seen.request = q /\ seen.attempts = r.attempts + 1
  <2>1. r.attempts + 1 \in 0..Limit /\ q \in Op \cup {Intent, None} /\ "Reserved" \in Phase
    BY <1>1 DEF Phase
  <2> QED BY <1>1, <2>1 DEF Record
<1>3. NextCheck(seen, Backoff(seen.attempts)) \in Nat
  BY <1>2, BackoffType, NextCheckType, RecordFacts
<1>4. ReserveRecord(r, q) = [seen EXCEPT !.next = NextCheck(seen, Backoff(seen.attempts))]
  BY DEF ReserveRecord
<1> HIDE DEF seen
<1> QED BY <1>2, <1>3, <1>4 DEF Record

LEMMA ConflictType ==
  ASSUME TypeOK, NEW r \in Record PROVE ConflictRecord(r) \in Record
<1> DEFINE seen == [r EXCEPT !.seen = Most(r.seen, now), !.request = None, !.phase = "Deferred"]
<1>1. r.attempts \in 0..Limit /\ r.seen \in Nat /\ now \in Nat
  BY RecordFacts DEF TypeOK
<1>2. seen \in Record
  BY <1>1 DEF Record, Phase, Most
<1>3. NextCheck(seen, Backoff(r.attempts)) \in Nat
  BY <1>1, <1>2, BackoffType, NextCheckType
<1>4. ConflictRecord(r) = [seen EXCEPT !.next = NextCheck(seen, Backoff(r.attempts))]
  BY DEF ConflictRecord
<1> HIDE DEF seen
<1> QED BY <1>2, <1>3, <1>4 DEF Record

LEMMA ObservedType ==
  ASSUME TypeOK, NEW r \in Record
  PROVE  ObservedRecord(r) \in Record /\ ObservedRecord(r).request = Intent
<1> DEFINE seen == [r EXCEPT !.seen = Most(r.seen, now), !.request = Intent, !.phase = "Deferred"]
<1>1. r.seen \in Nat /\ now \in Nat
  BY RecordFacts DEF TypeOK
<1>2. seen \in Record /\ seen.request = Intent
  BY <1>1 DEF Record, Phase, Most
<1>3. NextCheck(seen, LongDelay) \in Nat
  BY <1>2, NextCheckType, RetryAssumption
<1>4. ObservedRecord(r) = [seen EXCEPT !.next = NextCheck(seen, LongDelay)]
  BY DEF ObservedRecord
<1> HIDE DEF seen
<1> QED BY <1>2, <1>3, <1>4 DEF Record

LEMMA ChangeType ==
  ASSUME TypeOK, NEW r \in Record
  PROVE  /\ [r EXCEPT !.phase = "Quarantined"] \in Record
         /\ [r EXCEPT !.phase = "Quarantined"].request = r.request
         /\ [r EXCEPT !.epoch = epoch] \in Record /\ [r EXCEPT !.epoch = epoch].request = r.request
         /\ [r EXCEPT !.seen = t0] \in Record /\ [r EXCEPT !.seen = t0].request = r.request
<1>1. epoch \in 1..MaxEpoch /\ t0 \in Nat
  BY DEF TypeOK
<1> QED BY <1>1 DEF Record, Phase

-----------------------------------------------------------------------------
(* Every step keeps the types. *)

Loaded(l) == l \notin {"idle", "load"}

\* What every step of a pass leaves alone, and what it makes of its own variables.
PassType ==
  /\ pc' \in Saving \cup {"idle", "load", "check", "limits", "permit", "reserved",
                          "dispatch", "ensure", "observed"}
  /\ permit' \in Record \cup {None} /\ fresh' \in BOOLEAN
  /\ snap' \in [seq : Nat, start : Op \cup {User, None}, state : AttemptState] \cup {None}
  /\ t0' \in Nat
  /\ Loaded(pc') => permit' \in Record
  /\ ~Loaded(pc') => ~fresh'

LEMMA EndType == ASSUME TypeOK, End PROVE PassType
BY DEF TypeOK, End, PassType, Loaded

LEMMA SaveType ==
  ASSUME TypeOK, HostInv, pc \notin {"idle", "load"}, NEW r \in Record, NEW at \in Saving, Save(r, at)
  PROVE  PassType
BY DEF TypeOK, Save, PassType, Loaded, Saving

LEMMA StayType ==
  ASSUME TypeOK, HostInv, pc \notin {"idle", "load"}, UNCHANGED <<permit, fresh, snap, t0>>,
         pc' \in {"check", "limits", "permit", "reserved", "dispatch", "ensure", "observed"}
  PROVE  PassType
BY DEF TypeOK, HostInv, PassType, Loaded

LEMMA FailsType ==
  ASSUME TypeOK, HostInv, NEW at, Fails(at), "idle" \notin at, "load" \notin at PROVE PassType
<1>1. PICK k \in Kind : pc \in at /\ Save(FailureRecord(permit, k), "settle")
  BY DEF Fails
<1>2. pc \notin {"idle", "load"} /\ permit \in Record
  BY <1>1 DEF HostInv
<1>3. FailureRecord(permit, k) \in Record
  BY <1>2, FailureType
<1> QED BY <1>1, <1>2, <1>3, SaveType DEF Saving

LEMMA QuarantineType ==
  ASSUME TypeOK, HostInv, pc \notin {"idle", "load"}, Quarantine PROVE PassType
<1>1. [permit EXCEPT !.phase = "Quarantined"] \in Record
  BY ChangeType DEF HostInv
<1> QED BY <1>1, SaveType DEF Quarantine, Saving

LEMMA PassTypes == ASSUME TypeOK, HostInv, Pass PROVE PassType
<1>1. CASE Begin
  <2>1. /\ pc' = "load" /\ t0' = now /\ snap' = [seq |-> seq, start |-> start, state |-> state]
        /\ permit' = permit /\ fresh' = fresh /\ ~fresh
    BY <1>1 DEF Begin, HostInv
  <2> QED BY <2>1 DEF TypeOK, PassType, Loaded
<1>2. CASE Load
  <2>1. CASE rec = None /\ fresh' = TRUE /\ pc' = "create"
    <3>1. permit' \in Record
      <4>1. /\ epoch \in 1..MaxEpoch /\ t0 \in Nat /\ t0 + Window \in Nat /\ 0 \in 0..Limit
            /\ "Ready" \in Phase
        BY RetryAssumption DEF TypeOK, Phase
      <4>2. permit' = [epoch |-> epoch, expires |-> t0 + Window, seen |-> t0, next |-> t0,
                       attempts |-> 0, phase |-> "Ready", request |-> None]
        BY <1>2, <2>1 DEF Load, End
      <4> QED BY <4>1, <4>2 DEF Record
    <3> QED BY <1>2, <2>1, <3>1, RetryAssumption DEF Load, TypeOK, PassType, Loaded, Saving
  <2>2. CASE rec \notin {None, Broken} /\ fresh' = TRUE /\ pc' = "check" /\ permit' = rec
    BY <1>2, <2>2, RetryAssumption DEF Load, TypeOK, PassType, Loaded
  <2> QED BY <1>2, <2>1, <2>2, EndType DEF Load
<1>3. CASE Check
  <2>1. pc = "check" /\ permit \in Record
    BY <1>3 DEF Check, HostInv
  <2>2. CASE pc' = "limits" /\ t0' = now /\ UNCHANGED <<permit, fresh, snap>>
    BY <2>1, <2>2 DEF TypeOK, PassType, Loaded
  <2>3. CASE /\ permit' = [permit EXCEPT !.epoch = epoch] /\ pc' = "epoch" /\ t0' = now
             /\ UNCHANGED <<fresh, snap>>
    <3>1. permit' \in Record
      BY <2>1, <2>3, ChangeType
    <3> QED BY <2>1, <2>3, <3>1 DEF TypeOK, PassType, Loaded, Saving
  <2> QED BY <1>3, <2>1, <2>2, <2>3, EndType, QuarantineType DEF Check
<1>4. CASE CheckLimits
  <2>1. pc = "limits" /\ [permit EXCEPT !.seen = t0] \in Record
    BY <1>4, ChangeType DEF CheckLimits, HostInv
  <2> QED BY <1>4, <2>1, EndType, QuarantineType, SaveType DEF CheckLimits, Saving
<1>5. CASE Reserve
  <2>1. pc = "permit" /\ permit \in Record
    BY <1>5 DEF Reserve, HostInv
  <2>2. ASSUME NEW q \in Op \cup {Intent}, permit.attempts < Limit,
               Save(ReserveRecord(permit, q), "reserve")
        PROVE  PassType
    BY <2>1, <2>2, ReserveType, SaveType DEF Saving
  <2>3. <<epoch, seq>> \in Op
    BY DEF TypeOK, Op
  <2> QED BY <1>5, <2>1, <2>2, <2>3, EndType, FailsType DEF Reserve
<1>6. CASE Enter
  BY <1>6, EndType, StayType DEF Enter
<1>7. CASE Dispatch
  <2>1. pc = "dispatch" /\ permit \in Record
    BY <1>7 DEF Dispatch, HostInv
  <2>2. ConflictRecord(permit) \in Record
    BY <2>1, ConflictType
  <2> QED BY <1>7, <2>1, <2>2, FailsType, SaveType, StayType DEF Dispatch, Saving
<1>8. CASE Ensure
  BY <1>8, FailsType, StayType DEF Ensure
<1>9. CASE Observed
  <2>1. pc = "observed" /\ permit \in Record
    BY <1>9 DEF Observed, HostInv
  <2>2. ObservedRecord(permit) \in Record
    BY <2>1, ObservedType
  <2> QED BY <1>9, <2>1, <2>2, EndType, SaveType DEF Observed, Saving
<1> QED BY <1>1, <1>2, <1>3, <1>4, <1>5, <1>6, <1>7, <1>8, <1>9 DEF Pass

LEMMA ExchangedType == ASSUME TypeOK, HostInv, Exchanged PROVE PassType
<1>1. pc \in Saving /\ Loaded(pc) /\ permit \in Record
  BY DEF Exchanged, HostInv, Saving, Loaded
<1>2. CASE End
  BY <1>2, EndType
<1>3. CASE /\ pc \notin {"quarantine", "settle"} /\ pc' = AfterSave[pc] /\ fresh' = TRUE
           /\ UNCHANGED <<permit, snap, t0>>
  <2>1. pc' \in {"check", "limits", "permit", "reserved"}
    BY <1>1, <1>3 DEF AfterSave, Saving
  <2> QED BY <1>1, <1>3, <2>1 DEF TypeOK, PassType, Loaded
<1> QED BY <1>2, <1>3 DEF Exchanged

\* A step of the pass changes the rest of the state at most like this.
LEMMA PassFrame ==
  ASSUME TypeOK, OpenInv, HostInv, Pass
  PROVE  /\ UNCHANGED <<recVars, clockVars, faults, epoch>>
         /\ seq' \in Nat /\ start' \in Op \cup {User, None} /\ state' \in AttemptState
         /\ queued' \in BOOLEAN /\ entries' \in Nat /\ issued' \subseteq Op
<1>0. /\ seq \in Nat /\ start \in Op \cup {User, None} /\ state \in AttemptState
      /\ queued \in BOOLEAN /\ entries \in Nat /\ issued \subseteq Op
  BY DEF TypeOK
<1>1. CASE Begin \/ Load \/ Check \/ CheckLimits \/ Reserve \/ Observed
  BY <1>0, <1>1 DEF Begin, Load, Check, CheckLimits, Reserve, Observed, scopeVars, history
<1>2. CASE Enter
  <2>1. pc = "reserved" /\ permit.request \in Op \cup {Intent}
    BY <1>2, RecordFacts DEF Enter, HostInv, OpenInv
  <2> QED BY <1>0, <1>2, <2>1 DEF Enter, scopeVars, history
<1>3. CASE Dispatch
  <2>1. permit.request \in Op /\ "DispatchPending" \in AttemptState
    BY <1>3, RecordFacts DEF Dispatch, HostInv, OpenInv, AttemptState
  <2> QED BY <1>0, <1>3, <2>1 DEF Dispatch, scopeVars
<1>4. CASE Ensure
  BY <1>0, <1>4 DEF Ensure, history
<1> QED BY <1>1, <1>2, <1>3, <1>4 DEF Pass

LEMMA StepType ==
  ASSUME TypeOK, HostInv, OpenInv, [Next]_vars PROVE TypeOK' /\ (Loaded(pc') => permit' \in Record)
                                                  /\ (~Loaded(pc') => ~fresh')
                                                  /\ (lateFresh' => late' \in Record)
<1> USE DEF recVars, passVars, clockVars, scopeVars, history
<1>1. CASE Pass
  BY <1>1, PassTypes, PassFrame DEF TypeOK, PassType, HostInv
<1>2. CASE Exchanged
  <2>1. permit \in Record
    BY <1>2 DEF Exchanged, HostInv, Saving
  <2> QED BY <1>2, <2>1, ExchangedType DEF Exchanged, Publish, TypeOK, PassType
<1>3. CASE ExchangeFails
  <2>1. permit \in Record
    BY <1>3 DEF ExchangeFails, HostInv, Saving
  <2>2. /\ rec' \in Record \cup {None, Broken} /\ stable' \in Record \cup {None, Broken}
        /\ lateFresh' \in BOOLEAN /\ faults' \in Nat /\ late' = late /\ (lateFresh' = FALSE \/ lateFresh' = lateFresh)
    <3>1. /\ rec \in Record \cup {None, Broken} /\ stable \in Record \cup {None, Broken}
          /\ lateFresh \in BOOLEAN /\ faults \in Nat
      BY DEF TypeOK
    <3>2. /\ (rec' = rec \/ rec' = permit \/ rec' = Broken) /\ (stable' = stable \/ stable' = Broken)
          /\ late' = late /\ (faults' = faults \/ faults' = faults + 1)
      BY <1>3 DEF ExchangeFails, Publish
    <3>3. lateFresh' = lateFresh \/ lateFresh' = FALSE
      BY <1>3 DEF ExchangeFails
    <3>4. faults' \in Nat
      BY <3>1, <3>2
    <3>5. lateFresh' \in BOOLEAN
      BY <3>1, <3>3
    <3> QED BY <2>1, <3>1, <3>2, <3>3, <3>4, <3>5
  <2> QED BY <1>3, <2>2, EndType DEF ExchangeFails, TypeOK, PassType, HostInv
<1>4. CASE LateExchange
  <2>1. /\ rec \in Record \cup {None, Broken} /\ stable \in Record \cup {None, Broken}
        /\ late \in Record \cup {None} /\ fresh \in BOOLEAN
    BY DEF TypeOK
  <2>2. /\ rec' \in Record \cup {None, Broken} /\ stable' \in Record \cup {None, Broken}
        /\ late' = None /\ lateFresh' = FALSE /\ fresh' \in BOOLEAN /\ (fresh' = FALSE \/ fresh' = fresh)
    <3>1. /\ rec' = rec \/ rec' = late
          /\ stable' = stable \/ stable' = late
          /\ late' = None /\ lateFresh' = FALSE /\ late # None
      BY <1>4 DEF LateExchange, Publish
    <3>2. fresh' = FALSE \/ fresh' = fresh
      BY <1>4 DEF LateExchange
    <3> QED BY <2>1, <3>1, <3>2
  <2> QED BY <1>4, <2>2 DEF LateExchange, TypeOK, HostInv, Loaded
<1>5. CASE Drop
  <2>1. /\ late' \in Record \cup {None} /\ lateFresh' \in BOOLEAN /\ faults' \in Nat
        /\ (lateFresh' => late' \in Record)
    BY <1>5 DEF Drop, TypeOK, HostInv, Saving
  <2> QED BY <1>5, <2>1, EndType DEF Drop, TypeOK, PassType
<1>6. CASE Tick
  BY <1>6 DEF Tick, TypeOK, HostInv, Loaded
<1>7. CASE SetBack
  BY <1>7 DEF SetBack, TypeOK, HostInv, Loaded
<1>8. CASE Others
  BY <1>8 DEF Others, TypeOK, HostInv, Loaded, AttemptState
<1>9. CASE Restart
  <2>1. /\ rec' \in Record \cup {None, Broken} /\ stable' = rec' /\ late' = None /\ ~lateFresh'
        /\ lateFresh' \in BOOLEAN /\ epoch' \in 1..MaxEpoch /\ state' \in AttemptState
        /\ queued' \in BOOLEAN
    <3>1. /\ rec \in Record \cup {None, Broken} /\ stable \in Record \cup {None, Broken}
          /\ epoch \in 1..MaxEpoch /\ MaxEpoch \in Nat /\ state \in AttemptState
      BY RetryAssumption DEF TypeOK
    <3>2. rec' \in {rec, stable, Broken} /\ stable' = rec'
      BY <1>9 DEF Restart
    <3>3. epoch' \in 1..MaxEpoch /\ state' \in AttemptState
      BY <1>9, <3>1 DEF Restart, AttemptState
    <3> QED BY <1>9, <3>1, <3>2, <3>3 DEF Restart
  <2> QED BY <1>9, <2>1, EndType DEF Restart, TypeOK, PassType
<1>10. CASE UNCHANGED vars
  BY <1>10 DEF vars, TypeOK, HostInv, Loaded
<1> QED BY <1>1, <1>2, <1>3, <1>4, <1>5, <1>6, <1>7, <1>8, <1>9, <1>10 DEF Next

-----------------------------------------------------------------------------
(* Every step keeps the rest of the invariant. *)

\* In the host the stored record stays the one that the pass reserved.
LEMMA StepHost ==
  ASSUME TypeOK, HostInv, OpenInv, [Next]_vars PROVE HostInv'
<1> SUFFICES pc' \in Host => rec' = permit' /\ stable' = permit' /\ ~lateFresh'
  BY StepType DEF HostInv, Loaded
<1> USE DEF HostInv, Host, recVars, passVars
<1>1. CASE Begin \/ Load \/ Check \/ CheckLimits
  BY <1>1 DEF Begin, Load, Check, CheckLimits, End, Quarantine, Save
<1>2. CASE Reserve \/ Enter \/ Dispatch \/ Ensure \/ Observed
  BY <1>2 DEF Reserve, Enter, Dispatch, Ensure, Observed, Fails, End, Save
<1>3. CASE Exchanged
  BY <1>3 DEF Exchanged, Publish, End
<1>4. CASE ExchangeFails \/ Drop \/ Restart
  BY <1>4 DEF ExchangeFails, Drop, Restart, End
<1>5. CASE LateExchange
  BY <1>5 DEF LateExchange, Publish, Accepts, Matches
<1>6. CASE Tick \/ SetBack \/ Others \/ UNCHANGED vars
  BY <1>6 DEF Tick, SetBack, Others, vars
<1> QED BY <1>1, <1>2, <1>3, <1>4, <1>5, <1>6 DEF Next, Pass

\* A record that is accepted charges at least what was charged before it.
LEMMA PublishCharge ==
  ASSUME TypeOK, ChargedBeforeEntry, NEW r \in Record, NEW current, NEW synced,
         Publish(r, current, synced), entries' = entries
  PROVE  ChargedBeforeEntry' /\ entries <= r.attempts
<1>1. r.attempts \in Nat /\ r \notin {None, Broken} /\ entries \in Nat
  BY RecordFacts DEF TypeOK
<1>2. CASE entries = 0
  BY <1>1, <1>2 DEF ChargedBeforeEntry
<1>3. CASE entries > 0
  <2>1. rec \in Record /\ stable \in Record /\ entries <= rec.attempts /\ entries <= stable.attempts
    BY <1>3 DEF ChargedBeforeEntry, TypeOK
  <2>2. rec.attempts <= r.attempts /\ rec.attempts \in Nat
    BY <2>1, RecordFacts DEF Publish, Accepts, ValidTransition
  <2>3. rec' = r /\ (stable' = r \/ stable' = stable)
    BY DEF Publish
  <2>4. stable \notin {None, Broken}
    BY <2>1, RecordFacts
  <2>5. entries <= r.attempts
    BY <1>1, <2>1, <2>2
  <2> QED BY <1>1, <2>1, <2>3, <2>4, <2>5 DEF ChargedBeforeEntry
<1> QED BY <1>1, <1>2, <1>3

LEMMA StepCharge ==
  ASSUME TypeOK, HostInv, ChargeInv, [Next]_vars PROVE ChargeInv'
<1> USE DEF ChargeInv
<1>0. entries \in Nat
  BY DEF TypeOK
<1>1. ASSUME UNCHANGED <<rec, stable, entries>>, pc' \notin {"create", "reserve", "reserved"}
      PROVE  ChargeInv'
  BY <1>1 DEF ChargedBeforeEntry
<1>2. CASE Begin \/ Check \/ CheckLimits \/ Dispatch \/ Ensure \/ Observed
  BY <1>1, <1>2 DEF Begin, Check, CheckLimits, Dispatch, Ensure, Observed, Fails, End, Quarantine,
                    Save, recVars, history
<1>3. CASE Load
  <2>1. pc' = "create" => entries = 0
    BY <1>0, <1>3 DEF Load, End, ChargedBeforeEntry
  <2>2. UNCHANGED <<rec, stable, entries>> /\ pc' \notin {"reserve", "reserved"}
    BY <1>3 DEF Load, End, recVars, history
  <2> QED BY <2>1, <2>2 DEF ChargedBeforeEntry
<1>4. CASE Reserve
  <2>1. pc = "permit" /\ permit \in Record /\ rec = permit /\ UNCHANGED <<rec, stable, entries>>
    BY <1>4 DEF Reserve, HostInv, Host, recVars, history
  <2>2. permit.attempts \in Nat /\ entries <= permit.attempts
    BY <1>0, <2>1, RecordFacts DEF ChargedBeforeEntry
  <2>3. <<epoch, seq>> \in Op
    BY DEF TypeOK, Op
  <2>4. ASSUME NEW q \in Op \cup {Intent}, permit.attempts < Limit, permit' = ReserveRecord(permit, q)
        PROVE  entries < permit'.attempts
    BY <1>0, <2>1, <2>2, <2>4, ReserveType
  <2>5. pc' = "reserve" => entries' < permit'.attempts
    BY <1>4, <2>1, <2>3, <2>4 DEF Reserve, Fails, End, Save
  <2>6. pc' \notin {"create", "reserved"}
    BY <1>4 DEF Reserve, Fails, End, Save
  <2> QED BY <2>1, <2>5, <2>6 DEF ChargedBeforeEntry
<1>5. CASE Enter
  <2>1. /\ pc = "reserved" /\ permit \in Record /\ rec = permit /\ stable = permit
        /\ UNCHANGED <<rec, stable>> /\ entries < permit.attempts
    BY <1>5 DEF Enter, HostInv, Host, recVars
  <2>2. permit.attempts \in Nat /\ permit \notin {None, Broken}
    BY <2>1, RecordFacts
  <2>3. pc' \notin {"create", "reserve", "reserved"} /\ (entries' = entries \/ entries' = entries + 1)
    BY <1>5 DEF Enter, End, history
  <2> QED BY <1>0, <2>1, <2>2, <2>3 DEF ChargedBeforeEntry
<1>6. CASE Exchanged
  <2>1. permit \in Record /\ pc \in Saving /\ Publish(permit, fresh, TRUE) /\ entries' = entries
    BY <1>6 DEF Exchanged, HostInv, Saving, history
  <2>2. ChargedBeforeEntry'
    BY <2>1, PublishCharge
  <2>3. pc' \notin {"create", "reserve"} /\ (pc' = "reserved" => pc = "reserve" /\ permit' = permit)
    BY <1>6, <2>1 DEF Exchanged, AfterSave, Saving, End
  <2> QED BY <2>1, <2>2, <2>3
<1>7. CASE ExchangeFails
  <2>1. permit \in Record /\ entries' = entries /\ pc' = "idle"
    BY <1>7 DEF ExchangeFails, HostInv, Saving, history, End
  <2>2. CASE UNCHANGED <<rec, stable>>
    BY <2>1, <2>2 DEF ChargedBeforeEntry
  <2>3. CASE Publish(permit, fresh, FALSE)
    BY <2>1, <2>3, PublishCharge
  <2>4. CASE pc = "create"
    BY <1>0, <2>1, <2>4 DEF ChargedBeforeEntry
  <2> QED BY <1>7, <2>2, <2>3, <2>4 DEF ExchangeFails
<1>8. CASE LateExchange
  <2>1. UNCHANGED <<pc, permit, entries>>
    BY <1>8 DEF LateExchange, history
  <2>2. ASSUME NEW synced \in BOOLEAN, Publish(late, lateFresh, synced) PROVE ChargedBeforeEntry'
    <3>1. late \in Record
      BY <2>2 DEF Publish, Accepts, Matches, HostInv
    <3> QED BY <2>1, <2>2, <3>1, PublishCharge
  <2>3. CASE UNCHANGED <<rec, stable>>
    BY <2>1, <2>3 DEF ChargedBeforeEntry
  <2> QED BY <1>8, <2>1, <2>2, <2>3 DEF LateExchange
<1>9. CASE Drop
  BY <1>1, <1>9 DEF Drop, End, history
<1>10. CASE Restart
  <2>1. entries' = entries /\ pc' = "idle" /\ stable' = rec'
    BY <1>10 DEF Restart, End, history
  <2>2. rec' \in {rec, stable} \/ (rec' = Broken /\ pc = "create")
    BY <1>10 DEF Restart
  <2> QED BY <1>0, <2>1, <2>2 DEF ChargedBeforeEntry
<1>11. CASE Tick \/ SetBack \/ Others \/ UNCHANGED vars
  <2>1. UNCHANGED <<rec, stable, entries, pc, permit>>
    BY <1>11 DEF Tick, SetBack, Others, vars, recVars, passVars, history
  <2> QED BY <2>1 DEF ChargedBeforeEntry
<1> QED BY <1>2, <1>3, <1>4, <1>5, <1>6, <1>7, <1>8, <1>9, <1>10, <1>11 DEF Next, Pass

LEMMA StepOpen ==
  ASSUME TypeOK, HostInv, ChargeInv, OpenInv, [Next]_vars PROVE OpenInv'
<1> USE DEF OpenInv
<1>0. None \notin Op /\ Intent \notin Op /\ None # Intent /\ issued \subseteq Op
  BY RetryAssumption DEF TypeOK
\* The steps that issue nothing and store nothing.
<1>1. ASSUME UNCHANGED <<rec, stable, late, issued>>, lateFresh' = lateFresh,
             fresh' /\ pc' \in {"check", "limits"} \cup Saving => Accounts(permit')
      PROVE  /\ OneOpenStart' /\ Accounts(rec)' /\ Accounts(stable)' /\ (lateFresh' => Accounts(late)')
             /\ (fresh' /\ pc' \in {"check", "limits"} \cup Saving => Accounts(permit)')
  BY <1>1 DEF Accounts, OneOpenStart
<1>2. CASE Begin
  BY <1>1, <1>2 DEF Begin, recVars, history, Saving
<1>3. CASE Load
  <2>1. pc' = "create" => issued = {}
    BY <1>3, RecordFacts DEF Load, End, Accounts
  <2>2. fresh' /\ pc' \in {"check", "limits"} \cup Saving => Accounts(permit')
    BY <1>3, <2>1 DEF Load, End, Accounts, Saving
  <2> QED BY <1>1, <1>3, <2>1, <2>2 DEF Load, End, recVars, history
<1>4. CASE Check
  <2>1. pc = "check" /\ permit \in Record /\ (fresh => Accounts(permit))
    BY <1>4 DEF Check, HostInv
  <2>2. [permit EXCEPT !.phase = "Quarantined"] \in Record
        /\ [permit EXCEPT !.phase = "Quarantined"].request = permit.request
        /\ [permit EXCEPT !.epoch = epoch] \in Record /\ [permit EXCEPT !.epoch = epoch].request = permit.request
    BY <2>1, ChangeType
  <2>3. /\ pc' = "idle" \/ fresh' = fresh
        /\ \/ pc' = "idle" \/ permit' = permit \/ permit' = [permit EXCEPT !.phase = "Quarantined"]
           \/ permit' = [permit EXCEPT !.epoch = epoch]
        /\ pc' \in {"idle", "limits", "epoch", "quarantine"}
    BY <1>4 DEF Check, End, Quarantine, Save
  <2>4. fresh' /\ pc' \in {"check", "limits"} \cup Saving => Accounts(permit')
    BY <2>1, <2>2, <2>3 DEF Accounts, Saving
  <2> QED BY <1>1, <1>4, <2>3, <2>4 DEF Check, recVars, history
<1>5. CASE CheckLimits
  <2>1. pc = "limits" /\ permit \in Record /\ (fresh => Accounts(permit))
    BY <1>5 DEF CheckLimits, HostInv
  <2>2. [permit EXCEPT !.phase = "Quarantined"] \in Record
        /\ [permit EXCEPT !.phase = "Quarantined"].request = permit.request
        /\ [permit EXCEPT !.seen = t0] \in Record /\ [permit EXCEPT !.seen = t0].request = permit.request
    BY <2>1, ChangeType
  <2>3. \/ pc' = "idle"
        \/ /\ fresh' = fresh /\ pc' = "quarantine" /\ permit' = [permit EXCEPT !.phase = "Quarantined"]
        \/ /\ fresh' = fresh /\ pc' = "floor" /\ permit' = [permit EXCEPT !.seen = t0]
           /\ snap' = snap /\ ~Interrupted(permit, snap)
    BY <1>5 DEF CheckLimits, End, Quarantine, Save
  <2>4. fresh' /\ pc' \in {"check", "limits"} \cup Saving => Accounts(permit')
    BY <2>1, <2>2, <2>3 DEF Accounts, Saving
  <2>5. pc' \in {"floor", "permit"} /\ snap'.state = "none" => permit'.request = None
    BY <2>2, <2>3 DEF Interrupted
  <2> QED BY <1>1, <1>5, <2>3, <2>4, <2>5 DEF CheckLimits, recVars, history
<1>6. ASSUME NEW at, Fails(at), pc \in Host, UNCHANGED <<rec, stable, late, lateFresh, issued>>
      PROVE  OpenInv'
  <2>1. PICK k \in Kind : Save(FailureRecord(permit, k), "settle")
    BY <1>6 DEF Fails
  <2>2. permit \in Record /\ Accounts(permit)
    BY <1>6 DEF HostInv, Host
  <2>3. FailureRecord(permit, k) \in Record /\ FailureRecord(permit, k).request = permit.request
    BY <2>2, FailureType
  <2>4. pc' = "settle" /\ Accounts(permit')
    BY <2>1, <2>2, <2>3 DEF Save, Accounts
  <2> QED BY <1>1, <1>6, <2>4
<1>7. CASE Reserve
  <2>1. /\ pc = "permit" /\ pc \in Host /\ permit \in Record /\ Accounts(permit)
        /\ UNCHANGED <<rec, stable, late, lateFresh, issued>>
    BY <1>7 DEF Reserve, HostInv, Host, recVars, history
  <2>2. <<epoch, seq>> \in Op
    BY DEF TypeOK, Op
  <2>3. ASSUME permit.attempts < Limit, Save(ReserveRecord(permit, Intent), "reserve")
        PROVE  OpenInv'
    <3>1. permit' \in Record /\ permit'.request = Intent /\ pc' = "reserve"
      BY <2>1, <2>3, ReserveType DEF Save
    <3>2. Accounts(permit')
      BY <3>1 DEF Accounts
    <3> QED BY <1>0, <1>1, <2>1, <3>1, <3>2
  <2>4. ASSUME permit.attempts < Limit, snap.state = "none",
               Save(ReserveRecord(permit, <<epoch, seq>>), "reserve")
        PROVE  OpenInv'
    <3>1. permit' \in Record /\ permit'.request = <<epoch, seq>> /\ pc' = "reserve"
      BY <2>1, <2>2, <2>4, ReserveType DEF Save
    <3>2. issued = {}
      BY <1>0, <2>1, <2>4 DEF Accounts
    <3>3. Accounts(permit')
      BY <3>2 DEF Accounts
    <3>4. permit'.request # None
      BY <1>0, <2>2, <3>1
    <3> QED BY <1>1, <2>1, <3>1, <3>3, <3>4
  <2>5. ASSUME End PROVE OpenInv'
    BY <1>1, <2>1, <2>5 DEF End
  <2> QED BY <1>6, <1>7, <2>1, <2>3, <2>4, <2>5 DEF Reserve
<1>8. CASE Enter
  <2>1. /\ pc = "reserved" /\ permit \in Record /\ rec = permit /\ stable = permit /\ ~lateFresh
        /\ UNCHANGED <<rec, stable, late, lateFresh>> /\ Accounts(permit)
    BY <1>8 DEF Enter, HostInv, Host, recVars
  <2>2. CASE End /\ UNCHANGED history
    BY <1>1, <2>1, <2>2 DEF End, history
  <2>3. CASE permit.request = Intent /\ pc' = "ensure" /\ UNCHANGED issued
    BY <1>1, <2>1, <2>3 DEF Saving
  <2>4. CASE /\ permit.request # Intent /\ pc' = "dispatch" /\ permit' = permit
             /\ issued' = issued \cup {permit.request}
    <3>1. issued' = {permit.request}
      BY <2>1, <2>4 DEF Accounts
    <3>2. OneOpenStart' /\ Accounts(rec)' /\ Accounts(stable)'
      BY <2>1, <3>1 DEF OneOpenStart, Accounts
    <3>3. ~lateFresh' /\ pc' \notin {"check", "limits", "create"} \cup Saving
      BY <2>1, <2>4 DEF Saving
    <3> QED BY <2>1, <2>4, <3>2, <3>3
  <2> QED BY <1>8, <2>2, <2>3, <2>4 DEF Enter
<1>9. CASE Dispatch
  <2>1. /\ pc = "dispatch" /\ pc \in Host /\ permit \in Record /\ rec = permit /\ stable = permit
        /\ UNCHANGED <<rec, stable, late, lateFresh>> /\ Accounts(permit) /\ ~lateFresh
        /\ permit.request # Intent
    BY <1>9 DEF Dispatch, HostInv, Host, recVars
  <2>2. CASE /\ Save(ConflictRecord(permit), "settle") /\ issued' = issued \ {permit.request}
    <3>1. issued' = {}
      BY <2>1, <2>2 DEF Accounts
    <3>2. pc' = "settle"
      BY <2>2 DEF Save
    <3> QED BY <3>1, <3>2 DEF Accounts, OneOpenStart
  <2>3. CASE pc' = "ensure" /\ UNCHANGED issued
    BY <1>1, <2>1, <2>3 DEF Saving
  <2> QED BY <1>6, <1>9, <2>1, <2>2, <2>3 DEF Dispatch
<1>10. CASE Ensure
  <2>1. pc = "ensure" /\ pc \in Host /\ UNCHANGED <<rec, stable, late, lateFresh, issued>>
    BY <1>10 DEF Ensure, Host, recVars, history
  <2>2. CASE pc' = "observed"
    BY <1>1, <2>1, <2>2 DEF Saving
  <2> QED BY <1>6, <1>10, <2>1, <2>2 DEF Ensure
<1>11. CASE Observed
  <2>1. pc = "observed" /\ permit \in Record /\ UNCHANGED <<rec, stable, late, lateFresh, issued>>
    BY <1>11 DEF Observed, HostInv, recVars, history
  <2>2. CASE End
    BY <1>1, <2>1, <2>2 DEF End
  <2>3. CASE Save(ObservedRecord(permit), "settle")
    <3>1. permit' \in Record /\ permit'.request = Intent /\ pc' = "settle"
      BY <2>1, <2>3, ObservedType DEF Save
    <3>2. Accounts(permit')
      BY <3>1 DEF Accounts
    <3> QED BY <1>1, <2>1, <3>1, <3>2
  <2> QED BY <1>11, <2>2, <2>3 DEF Observed
<1>12. CASE Exchanged
  <2>1. /\ rec' = permit /\ stable' = permit /\ ~lateFresh' /\ issued' = issued /\ late' = late
        /\ Accounts(permit) /\ pc \in Saving
    BY <1>12 DEF Exchanged, Publish, Accepts, Matches, history
  <2>2. Accounts(rec)' /\ Accounts(stable)' /\ OneOpenStart'
    BY <2>1 DEF Accounts, OneOpenStart
  <2>3. CASE End
    BY <2>1, <2>2, <2>3 DEF End, Saving
  <2>4. CASE /\ pc \notin {"quarantine", "settle"} /\ pc' = AfterSave[pc] /\ UNCHANGED <<permit, snap>>
    <3>1. /\ pc = "create" => pc' = "check"
          /\ pc = "epoch" => pc' = "limits"
          /\ pc = "floor" => pc' = "permit"
          /\ pc = "reserve" => pc' = "reserved"
          /\ pc \in {"create", "epoch", "floor", "reserve"}
      BY <2>1, <2>4 DEF AfterSave, Saving
    <3>2. Accounts(permit)'
      BY <2>1, <2>4 DEF Accounts
    <3> QED BY <2>1, <2>2, <2>4, <3>1, <3>2
  <2> QED BY <1>12, <2>3, <2>4 DEF Exchanged
<1>13. CASE ExchangeFails
  <2>1. pc' = "idle" /\ issued' = issued /\ late' = late /\ pc \in Saving /\ permit \in Record
    BY <1>13 DEF ExchangeFails, End, history, HostInv, Saving
  <2>2. CASE UNCHANGED <<rec, stable, lateFresh>>
    BY <1>1, <2>1, <2>2 DEF Saving
  <2>3. CASE Publish(permit, fresh, FALSE) /\ lateFresh' = FALSE
    <3>1. Accounts(permit) /\ rec' = permit /\ stable' = stable
      BY <2>1, <2>3 DEF Publish, Accepts, Matches
    <3> QED BY <2>1, <2>3, <3>1 DEF Accounts, OneOpenStart, Saving
  <2>4. CASE pc = "create" /\ lateFresh' = FALSE
    BY <2>1, <2>4 DEF Accounts, OneOpenStart, Saving
  <2> QED BY <1>13, <2>2, <2>3, <2>4 DEF ExchangeFails
<1>14. CASE LateExchange
  <2>1. UNCHANGED <<pc, permit, snap, issued>> /\ lateFresh' = FALSE /\ (fresh' = FALSE \/ fresh' = fresh)
    BY <1>14 DEF LateExchange, history
  <2>2. Accounts(rec)' /\ Accounts(stable)'
    <3>1. CASE UNCHANGED <<rec, stable>>
      BY <2>1, <3>1 DEF Accounts
    <3>2. ASSUME NEW synced \in BOOLEAN, Publish(late, lateFresh, synced)
          PROVE  Accounts(rec)' /\ Accounts(stable)'
      <4>1. Accounts(late) /\ rec' = late /\ (stable' = late \/ stable' = stable)
        BY <3>2 DEF Publish, Accepts, Matches
      <4> QED BY <2>1, <4>1 DEF Accounts
    <3> QED BY <1>14, <3>1, <3>2 DEF LateExchange
  <2>3. (fresh /\ pc \in {"check", "limits"} \cup Saving => Accounts(permit))'
    BY <2>1 DEF Accounts
  <2>4. OneOpenStart'
    BY <2>1 DEF OneOpenStart
  <2> QED BY <2>1, <2>2, <2>3, <2>4
<1>15. CASE Drop
  <2>1. pc' = "idle" /\ UNCHANGED <<rec, stable, issued>>
    BY <1>15 DEF Drop, End, history
  <2>2. lateFresh' => Accounts(late)'
    <3>1. CASE pc \in Saving /\ late' = permit /\ lateFresh' = fresh
      BY <2>1, <3>1 DEF Accounts
    <3>2. CASE UNCHANGED <<late, lateFresh>>
      BY <2>1, <3>2 DEF Accounts
    <3> QED BY <1>15, <3>1, <3>2 DEF Drop
  <2> QED BY <2>1, <2>2 DEF Accounts, OneOpenStart, Saving
<1>16. CASE Restart
  <2>1. pc' = "idle" /\ issued' = issued /\ ~lateFresh' /\ stable' = rec'
    BY <1>16 DEF Restart, End, history
  <2>2. rec' \in {rec, stable} \/ (rec' = Broken /\ pc = "create")
    BY <1>16 DEF Restart
  <2>3. Accounts(rec)' /\ Accounts(stable)'
    BY <2>1, <2>2 DEF Accounts
  <2> QED BY <2>1, <2>3 DEF OneOpenStart, Saving
<1>17. CASE Tick \/ SetBack \/ Others \/ UNCHANGED vars
  <2>1. UNCHANGED <<recVars, passVars, issued>>
    BY <1>17 DEF Tick, SetBack, Others, vars, history
  <2> QED BY <2>1 DEF Accounts, OneOpenStart, recVars, passVars
<1> QED BY <1>2, <1>3, <1>4, <1>5, <1>7, <1>8, <1>9, <1>10, <1>11, <1>12, <1>13, <1>14, <1>15,
           <1>16, <1>17 DEF Next, Pass

-----------------------------------------------------------------------------
(* The theorems. *)

LEMMA InitInv == ASSUME Init PROVE IInv
<1> USE RetryAssumption DEF Init
<1>1. TypeOK
  <2>1. 1 \in 1..MaxEpoch /\ 0 \in Nat /\ "none" \in AttemptState
    BY DEF AttemptState
  <2> QED BY <2>1 DEF TypeOK
<1>2. HostInv /\ ChargeInv /\ OpenInv
  BY DEF HostInv, ChargeInv, OpenInv, ChargedBeforeEntry, Accounts, OneOpenStart, Host, Saving
<1> QED BY <1>1, <1>2 DEF IInv

\* The invariant holds always, with any drops, crashes, late writes and clock changes.
THEOREM InvCorrect == Spec => []IInv
<1>1. Init => IInv
  BY InitInv
<1>2. IInv /\ [Next]_vars => IInv'
  BY StepType, StepHost, StepCharge, StepOpen DEF IInv
<1> QED BY <1>1, <1>2, PTL DEF Spec

\* The types hold, so no stored record has more attempts than the limit.
THEOREM TypeCorrect == Spec => []TypeOK
<1>1. IInv => TypeOK
  BY DEF IInv
<1> QED BY <1>1, InvCorrect, PTL

\* Every entry into the host was charged before it in the synced record.
THEOREM ChargeCorrect == Spec => []ChargedBeforeEntry
<1>1. IInv => ChargedBeforeEntry
  BY DEF IInv, ChargeInv
<1> QED BY <1>1, InvCorrect, PTL

\* While a pass is in the host, no write of a dropped pass replaces its record.
THEOREM PermitCorrect == Spec => []PermitCurrent
<1>1. IInv => PermitCurrent
  BY DEF IInv, HostInv, Host, PermitCurrent
<1> QED BY <1>1, InvCorrect, PTL

\* No second Start follows one whose outcome may be unknown.
THEOREM OpenStartCorrect == Spec => []OneOpenStart
<1>1. IInv => OneOpenStart
  BY DEF IInv, OpenInv
<1> QED BY <1>1, InvCorrect, PTL

=============================================================================
