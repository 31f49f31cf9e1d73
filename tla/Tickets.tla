-------------------------------- MODULE Tickets --------------------------------
(***************************************************************************)
(* The work lifecycle of one ticket scope: crates/infra/bamboo-tickets,    *)
(* src/service.rs, with the file effects of src/workspace_files.rs and     *)
(* their reconciliation (src/file_reconciliation.rs).                      *)
(*                                                                         *)
(* Every command runs under the store mutex against the published snapshot *)
(* and is refused when its expected sequence is stale, so a command is one *)
(* step.  What interleaves are the commands of the supervisor, the user,   *)
(* the host runtime and the workers of older and newer generations of the  *)
(* same work.  How a snapshot reaches the disk is the subject of           *)
(* TicketStore.                                                            *)
(*                                                                         *)
(* The attempt of generation g of work w (an Assignment) is <<w, g>>; a    *)
(* work's active_assignment, current_submission and accepted_submission    *)
(* are generations, 0 when there is none.  An attempt makes at most one    *)
(* submission that is not stale; a stale one is only recorded and no       *)
(* command reads it, so it is no step here.                                *)
(***************************************************************************)
EXTENDS Integers, FiniteSets

CONSTANTS
  Work, Goal,   \* tickets of kind Work and Goal
  Parent,       \* the goal that contains a ticket, or None
  MayDepend,    \* bound: the prerequisites a work may be given
  Area,         \* workspace claims; two workspaces are equal or disjoint
  Session,      \* runtime sessions a run may be admitted in
  Kinds,        \* the kinds of requests asked: "question", "approval"
  None,
  ReportUnknown, \* the runtime issues OutcomeUnknown (only the service's tests do)
  MaxGen,       \* bound: attempts of one work
  MaxRev,       \* bound: contract revisions of one work
  MaxEpoch      \* bound: writer restarts

Ticket  == Work \cup Goal
Gen     == 1..MaxGen
Attempt == Work \X Gen
Request == Kinds \X Work \X (0..MaxGen)

ASSUME TicketAssumption == Work \cap Goal = {} /\ None \notin Goal \cup Area \cup Session
                           /\ Parent \in [Ticket -> Goal \cup {None}]
                           /\ MayDepend \in [Work -> SUBSET Work]
ASSUME KindAssumption == Kinds \subseteq {"question", "approval"}
                         /\ ReportUnknown \in BOOLEAN
ASSUME BoundAssumption == MaxGen \in Nat /\ MaxRev \in Nat /\ MaxEpoch \in Nat

VARIABLES
  state, paused, resume,       \* state, paused flag and blocked.resume_state
  rev, gen, active,            \* contract_revision, generation, active_assignment
  current, accepted, dep,      \* current and accepted submission, depends_on
  astate, arev, aepoch,        \* an attempt: state, contract revision, epoch,
  stopped, area, runtime,      \*   process_stopped, workspace, session of its receipt,
  inputs, awaiting, effect,    \*   dependency inputs, awaiting_request, effects
  submission,                  \* effects copied into its submission, or None
  request,                     \* questions and approvals
  epoch                        \* authority_epoch

workVars    == <<state, paused, resume, rev, gen, active, current, accepted, dep>>
attemptVars == <<astate, arev, aepoch, stopped, area, runtime, inputs, awaiting, effect,
                 submission>>
vars == <<workVars, attemptVars, request, epoch>>

WorkState == {"Draft", "Ready", "Active", "Submitted", "Accepted", "Blocked", "Cancelled"}
AssignmentState == {"DispatchPending", "Admitted", "Running", "Submitted", "Blocked",
                    "Failed", "Cancelling", "Cancelled", "OutcomeUnknown"}
RequestStatus == {"Open", "Answered", "Approved", "Denied", "Superseded", "Expired",
                  "Consumed"}
EffectState == {"Planned", "Started", "Succeeded", "FailedBeforeEffect", "OutcomeUnknown"}
EffectKind  == {"action", "file"}

NoEffects == [k \in EffectKind |-> "none"]
NoRequest == [status |-> "none", rev |-> 0, bound |-> FALSE]

Init ==
  /\ state = [t \in Ticket |-> "absent"]
  /\ paused = [w \in Work |-> FALSE] /\ resume = [t \in Ticket |-> None]
  /\ rev = [w \in Work |-> 1] /\ gen = [w \in Work |-> 0]
  /\ active = [w \in Work |-> 0]
  /\ current = [w \in Work |-> 0] /\ accepted = [w \in Work |-> 0]
  /\ dep = [w \in Work |-> {}]
  /\ astate = [a \in Attempt |-> "none"]
  /\ arev = [a \in Attempt |-> 0] /\ aepoch = [a \in Attempt |-> 0]
  /\ stopped = [a \in Attempt |-> FALSE] /\ area = [a \in Attempt |-> None]
  /\ runtime = [a \in Attempt |-> None] /\ inputs = [a \in Attempt |-> {}]
  /\ awaiting = [a \in Attempt |-> FALSE] /\ effect = [a \in Attempt |-> NoEffects]
  /\ submission = [a \in Attempt |-> NoEffects]
  /\ request = [r \in Request |-> NoRequest]
  /\ epoch = 1

-----------------------------------------------------------------------------
(* Helpers of service.rs. *)

Unresolved(e) == \E k \in EffectKind : e[k] \in {"Started", "OutcomeUnknown"}

\* Mutant: a submitted attempt no longer counts as an owner.
HoldsResourcesNotSubmitted(a) ==
  /\ ~stopped[a] \/ Unresolved(effect[a])
  /\ astate[a] \in {"DispatchPending", "Blocked", "Admitted", "Running", "Cancelling",
                    "OutcomeUnknown"}

HoldsResources(a) ==
  /\ ~stopped[a] \/ Unresolved(effect[a])
  /\ astate[a] \in {"DispatchPending", "Blocked", "Admitted", "Running", "Cancelling",
                    "OutcomeUnknown", "Submitted"}

CurrentAttempt(a) ==
  LET w == a[1] IN
  /\ aepoch[a] = epoch /\ arev[a] = rev[w] /\ a[2] = gen[w]
  /\ active[w] = a[2] /\ state[w] = "Active"
  /\ astate[a] \in {"Admitted", "Running"}

ActivePermit(a) == CurrentAttempt(a) /\ ~stopped[a]

\* A DependencyInput also carries the prerequisite's contract revision, which
\* is the one its accepted submission was made for.
DependenciesMet(w) == \A p \in dep[w] : state[p] = "Accepted" /\ accepted[p] # 0
Dependencies(w) == {<<p, accepted[p]>> : p \in dep[w]}

\* Mutant: only works with an active attempt count as consumers.
ConsumersActive(p) == {w \in Work : active[w] # 0
                         /\ \E n \in Gen : <<p, n>> \in inputs[<<w, active[w]>>]}

Consumers(p) == {w \in Work : \E g \in Gen, n \in Gen : <<p, n>> \in inputs[<<w, g>>]}

\* Works reached from t through the inputs of any attempt, old ones included:
\* the least set that has t's consumers and is closed under Consumers.
Affected(t) ==
  {w \in Work : \A S \in SUBSET Work :
     (Consumers(t) \subseteq S /\ \A x \in S : Consumers(x) \subseteq S) => w \in S}

\* Mutant: only the nearest goal is reviewed.
ContainersNearest(t) == {Parent[t]} \cap Goal

\* The goals that contain t, directly or not.
Containers(t) ==
  {g \in Goal : \A S \in SUBSET Goal :
     ({Parent[t]} \cap Goal \subseteq S
        /\ \A x \in S : {Parent[x]} \cap Goal \subseteq S) => g \in S}

InvalidateRequests(W) ==
  request' = [r \in Request |->
                IF r[2] \in W /\ request[r].status \in {"Open", "Approved"}
                THEN [request[r] EXCEPT !.status = "Superseded"] ELSE request[r]]

\* Ticket t goes to state s, with blocked.resume_state b; then its requests, its
\* dependents and the accepted goals that contain it are invalidated.
Revoke(t, s, b) ==
  LET own == [state EXCEPT ![t] = s]
      revoked == {w \in Affected(t) : own[w] # "Cancelled"}
      reviewed == {g \in Containers(t) : own[g] = "Accepted"}
  IN /\ state' = [x \in Ticket |->
                    IF x \in revoked \cup reviewed THEN "Blocked" ELSE own[x]]
     /\ resume' = [x \in Ticket |->
                     CASE x \in revoked  -> own[x]
                       [] x \in reviewed -> "Submitted"
                       [] x = t /\ x \notin revoked \cup reviewed -> b
                       [] OTHER -> resume[x]]
     /\ accepted' = [w \in Work |-> IF w = t \/ w \in revoked THEN 0 ELSE accepted[w]]
     /\ InvalidateRequests({t} \cup Affected(t))

\* The attempt to stop when a command fences work w: its active one.
ActiveOf(W) == {<<w, active[w]>> : w \in {x \in W \cap Work : active[x] # 0}}

Cancelling(A) ==
  astate' = [a \in Attempt |-> IF a \in A /\ astate[a] # "OutcomeUnknown"
                               THEN "Cancelling" ELSE astate[a]]

\* validate_snapshot: execute publishes no snapshot that fails it.
ValidSnapshot ==
  /\ \A w \in Work : paused[w] => state[w] = "Blocked" /\ resume[w] # None
  /\ \A t \in Ticket : state[t] # "absent" /\ Parent[t] # None
                         => state[Parent[t]] # "absent"
  /\ \A w \in Work : \A p \in dep[w] : state[p] # "absent"
  /\ \A S \in SUBSET Work : S # {} => \E w \in S : dep[w] \cap S = {}

-----------------------------------------------------------------------------
(* Supervisor and user commands. *)

Create(t) ==
  /\ state[t] = "absent"
  /\ state' = [state EXCEPT ![t] = "Draft"]
  /\ IF t \in Work THEN \E D \in SUBSET MayDepend[t] : dep' = [dep EXCEPT ![t] = D]
                   ELSE dep' = dep
  /\ UNCHANGED <<paused, resume, rev, gen, active, current, accepted, attemptVars, request,
                 epoch>>
  /\ ValidSnapshot'

\* A legacy task becomes blocked work that needs a review.
Import(w) ==
  /\ state[w] = "absent" /\ Parent[w] = None
  /\ state' = [state EXCEPT ![w] = "Blocked"]
  /\ resume' = [resume EXCEPT ![w] = "Submitted"]
  /\ UNCHANGED <<paused, rev, gen, active, current, accepted, dep, attemptVars, request,
                 epoch>>

Ready(t) ==
  /\ state[t] = "Draft" \/ (t \in Work /\ paused[t] /\ active[t] = 0)
  /\ state' = [state EXCEPT ![t] = "Ready"]
  /\ paused' = [w \in Work |-> IF w = t THEN FALSE ELSE paused[w]]
  /\ resume' = [resume EXCEPT ![t] = None]
  /\ UNCHANGED <<rev, gen, active, current, accepted, dep, attemptVars, request, epoch>>

UpdateContract(t) ==
  LET running == t \in Work /\ active[t] # 0
      waits == t \in Work /\ (active[t] # 0 \/ paused[t])
  IN /\ state[t] # "absent"
     /\ t \in Work => rev[t] < MaxRev
     /\ Revoke(t, IF waits THEN "Blocked" ELSE "Ready", IF waits THEN "Ready" ELSE None)
     /\ rev' = [w \in Work |-> IF w = t THEN rev[w] + 1 ELSE rev[w]]
     /\ current' = [w \in Work |-> IF w = t THEN 0 ELSE current[w]]
     /\ Cancelling(ActiveOf({t}) \cup {a \in ActiveOf(Affected(t)) : ~stopped[a]})
     /\ UNCHANGED <<paused, gen, active, dep, arev, aepoch, stopped, area, runtime, inputs,
                    awaiting, effect, submission, epoch>>

SetDependencies(w) ==
  /\ active[w] = 0 /\ state[w] \in {"Draft", "Ready"} /\ rev[w] < MaxRev
  /\ \E D \in SUBSET MayDepend[w] : dep' = [dep EXCEPT ![w] = D]
  /\ rev' = [rev EXCEPT ![w] = @ + 1]
  /\ InvalidateRequests({w})
  /\ UNCHANGED <<state, paused, resume, gen, active, current, accepted, attemptVars, epoch>>
  /\ ValidSnapshot'

Start(w, x) ==
  LET g == gen[w] + 1  a == <<w, g>> IN
  /\ state[w] = "Ready" /\ active[w] = 0 /\ gen[w] < MaxGen
  /\ x # None => \A b \in Attempt : HoldsResources(b) => area[b] # x
  /\ DependenciesMet(w)
  /\ astate' = [astate EXCEPT ![a] = "DispatchPending"]
  /\ arev' = [arev EXCEPT ![a] = rev[w]]
  /\ aepoch' = [aepoch EXCEPT ![a] = epoch]
  /\ area' = [area EXCEPT ![a] = x]
  /\ inputs' = [inputs EXCEPT ![a] = Dependencies(w)]
  /\ gen' = [gen EXCEPT ![w] = g]
  /\ active' = [active EXCEPT ![w] = g]
  /\ state' = [state EXCEPT ![w] = "Active"]
  /\ current' = [current EXCEPT ![w] = 0]
  /\ UNCHANGED <<paused, resume, rev, accepted, dep, stopped, runtime, awaiting, effect,
                 submission, request, epoch>>

\* The request of kind k, asked by the worker of the active attempt under its
\* permit or by the supervisor; it is bound to the attempt active now.
Ask(k, w) ==
  LET r == <<k, w, gen[w]>> IN
  /\ state[w] \notin {"absent", "Cancelled"}
  /\ request[r].status = "none"
  /\ request' = [request EXCEPT ![r] =
                   [status |-> "Open", rev |-> rev[w], bound |-> active[w] # 0]]
  /\ UNCHANGED <<workVars, attemptVars, epoch>>

\* validate_request
Answerable(r) ==
  /\ request[r].status = "Open"
  /\ r[3] = gen[r[2]] /\ request[r].rev = rev[r[2]]
  /\ state[r[2]] # "Cancelled"

Unanswered(w, req) == \E r \in Request : r[2] = w /\ req[r].status = "Open"

\* Mutant: an answer never releases the work, only the stop of the run does.
AnswerSaved(r) ==
  /\ r[1] = "question" /\ Answerable(r)
  /\ request' = [request EXCEPT ![r].status = "Answered"]
  /\ UNCHANGED <<workVars, attemptVars, epoch>>

Answer(r) ==
  LET w == r[2]
      released ==
        /\ \E g \in Gen : LET a == <<w, g>> IN
             awaiting[a] /\ stopped[a] /\ g = gen[w] /\ arev[a] = rev[w]
        /\ ~Unanswered(w, request')
        /\ state[w] = "Blocked" /\ ~paused[w] /\ active[w] = 0
  IN /\ r[1] = "question" /\ Answerable(r)
     /\ request' = [request EXCEPT ![r].status = "Answered"]
     /\ state' = [state EXCEPT ![w] = IF released THEN "Ready" ELSE @]
     /\ resume' = [resume EXCEPT ![w] = IF released THEN None ELSE @]
     /\ UNCHANGED <<paused, rev, gen, active, current, accepted, dep, attemptVars, epoch>>

DecideApproval(r) ==
  /\ r[1] = "approval" /\ Answerable(r)
  /\ \E s \in {"Approved", "Denied"} : request' = [request EXCEPT ![r].status = s]
  /\ UNCHANGED <<workVars, attemptVars, epoch>>

\* Mutant: the stop of the process is not awaited.
AcceptUnstopped(w) ==
  LET a == <<w, current[w]>> IN
  /\ state[w] = "Submitted" /\ current[w] # 0 /\ current[w] = gen[w]
  /\ arev[a] = rev[w]
  /\ DependenciesMet(w) /\ Dependencies(w) = inputs[a]
  /\ ~Unresolved(submission[a])
  /\ state' = [state EXCEPT ![w] = "Accepted"]
  /\ accepted' = [accepted EXCEPT ![w] = current[w]]
  /\ UNCHANGED <<paused, resume, rev, gen, active, current, dep, attemptVars, request,
                 epoch>>

Accept(w) ==
  LET a == <<w, current[w]>> IN
  /\ state[w] = "Submitted" /\ current[w] # 0 /\ current[w] = gen[w]
  /\ arev[a] = rev[w]
  /\ DependenciesMet(w) /\ Dependencies(w) = inputs[a]
  /\ ~Unresolved(submission[a])
  /\ stopped[a]
  /\ state' = [state EXCEPT ![w] = "Accepted"]
  /\ accepted' = [accepted EXCEPT ![w] = current[w]]
  /\ UNCHANGED <<paused, resume, rev, gen, active, current, dep, attemptVars, request,
                 epoch>>

AcceptGoal(g) ==
  /\ state[g] \notin {"absent", "Cancelled"}
  /\ \A t \in Ticket : Parent[t] = g /\ state[t] # "absent" => state[t] = "Accepted"
  /\ state' = [state EXCEPT ![g] = "Accepted"]
  /\ UNCHANGED <<paused, resume, rev, gen, active, current, accepted, dep, attemptVars,
                 request, epoch>>

Reject(w) ==
  /\ state[w] = "Submitted" /\ current[w] # 0
  /\ state' = [state EXCEPT ![w] = "Ready"]
  /\ current' = [current EXCEPT ![w] = 0]
  /\ UNCHANGED <<paused, resume, rev, gen, active, accepted, dep, attemptVars, request,
                 epoch>>

Cancel(t) ==
  /\ state[t] # "absent"
  /\ Revoke(t, "Cancelled", None)
  /\ paused' = [w \in Work |-> IF w = t THEN FALSE ELSE paused[w]]
  /\ Cancelling(ActiveOf({t}) \cup {a \in ActiveOf(Affected(t)) : ~stopped[a]})
  /\ UNCHANGED <<rev, gen, active, current, dep, arev, aepoch, stopped, area, runtime,
                 inputs, awaiting, effect, submission, epoch>>

Pause(w) ==
  /\ state[w] \in {"Draft", "Ready", "Active", "Blocked"}
  /\ Cancelling({a \in ActiveOf({w}) : ~stopped[a]})
  /\ paused' = [paused EXCEPT ![w] = TRUE]
  /\ state' = [state EXCEPT ![w] = "Blocked"]
  /\ resume' = [resume EXCEPT ![w] = "Ready"]
  /\ InvalidateRequests({w})
  /\ UNCHANGED <<rev, gen, active, current, accepted, dep, arev, aepoch, stopped, area,
                 runtime, inputs, awaiting, effect, submission, epoch>>

Reopen(t) ==
  /\ state[t] # "absent"
  /\ \A a \in ActiveOf({t}) : stopped[a] /\ ~HoldsResources(a)
  /\ Revoke(t, "Ready", None)
  /\ active' = [w \in Work |-> IF w = t THEN 0 ELSE active[w]]
  /\ paused' = [w \in Work |-> IF w = t THEN FALSE ELSE paused[w]]
  /\ current' = [w \in Work |-> IF w = t THEN 0 ELSE current[w]]
  /\ Cancelling({a \in ActiveOf(Affected(t) \ {t}) : ~stopped[a]})
  /\ UNCHANGED <<rev, gen, dep, arev, aepoch, stopped, area, runtime, inputs, awaiting,
                 effect, submission, epoch>>

-----------------------------------------------------------------------------
(* Host runtime and worker commands. *)

Admitted(a, s) ==
  /\ runtime[a] = None /\ astate[a] = "DispatchPending"
  /\ state[a[1]] # "Cancelled"
  /\ \A b \in Attempt \ {a} : HoldsResources(b)
       => (area[a] # None => area[b] # area[a]) /\ runtime[b] # s
  /\ runtime' = [runtime EXCEPT ![a] = s]
  /\ astate' = [astate EXCEPT ![a] = "Admitted"]
  /\ UNCHANGED <<workVars, arev, aepoch, stopped, area, inputs, awaiting, effect, submission,
                 request, epoch>>

Running(a) ==
  /\ astate[a] = "Admitted" /\ ActivePermit(a)
  /\ astate' = [astate EXCEPT ![a] = "Running"]
  /\ UNCHANGED <<workVars, arev, aepoch, stopped, area, runtime, inputs, awaiting, effect,
                 submission, request, epoch>>

YieldForInput(a) ==
  LET w == a[1]  r == <<"question", w, a[2]>> IN
  /\ "question" \in Kinds
  /\ ActivePermit(a) /\ Answerable(r) /\ request[r].bound
  /\ awaiting' = [awaiting EXCEPT ![a] = TRUE]
  /\ astate' = [astate EXCEPT ![a] = "Blocked"]
  /\ state' = [state EXCEPT ![w] = "Blocked"]
  /\ resume' = [resume EXCEPT ![w] = "Ready"]
  /\ UNCHANGED <<paused, rev, gen, active, current, accepted, dep, arev, aepoch, stopped,
                 area, runtime, inputs, effect, submission, request, epoch>>

ConsumeApproval(a) ==
  LET r == <<"approval", a[1], a[2]>> IN
  /\ "approval" \in Kinds
  /\ ActivePermit(a)
  /\ request[r].bound /\ request[r].rev = arev[a]
  /\ request[r].status = "Approved" /\ effect[a]["action"] = "none"
  /\ request' = [request EXCEPT ![r].status = "Consumed"]
  /\ effect' = [effect EXCEPT ![a]["action"] = "Planned"]
  /\ UNCHANGED <<workVars, astate, arev, aepoch, stopped, area, runtime, inputs, awaiting,
                 submission, epoch>>

\* valid_effect_transition
EffectStep == {<<"Planned", "Started">>, <<"Planned", "FailedBeforeEffect">>,
               <<"Started", "Succeeded">>, <<"Started", "OutcomeUnknown">>}

RecordEffect(a, s) ==
  /\ ActivePermit(a)
  /\ <<effect[a]["action"], s>> \in EffectStep
  /\ effect' = [effect EXCEPT ![a]["action"] = s]
  /\ UNCHANGED <<workVars, astate, arev, aepoch, stopped, area, runtime, inputs, awaiting,
                 submission, request, epoch>>

\* The intent is published as Started, the file is written, Succeeded is published;
\* a failed write or a crash between the two publications leaves Started.
WriteFile(a) ==
  /\ ActivePermit(a) /\ area[a] # None
  /\ effect[a]["file"] = "none" /\ ~Unresolved(effect[a])
  /\ \E s \in {"Started", "Succeeded"} : effect' = [effect EXCEPT ![a]["file"] = s]
  /\ UNCHANGED <<workVars, astate, arev, aepoch, stopped, area, runtime, inputs, awaiting,
                 submission, request, epoch>>

Submit(a) ==
  LET w == a[1] IN
  /\ runtime[a] # None
  /\ CurrentAttempt(a) /\ DependenciesMet(w) /\ Dependencies(w) = inputs[a]
  /\ state' = [state EXCEPT ![w] = "Submitted"]
  /\ current' = [current EXCEPT ![w] = a[2]]
  /\ active' = [active EXCEPT ![w] = 0]
  /\ astate' = [astate EXCEPT ![a] = "Submitted"]
  /\ submission' = [submission EXCEPT ![a] = effect[a]]
  /\ InvalidateRequests({w})
  /\ UNCHANGED <<paused, resume, rev, gen, accepted, dep, arev, aepoch, stopped, area,
                 runtime, inputs, awaiting, effect, epoch>>

ConfirmStopped(a) ==
  LET w == a[1]
      own == active[w] = a[2]
      resumes == own /\ state[w] = "Blocked" /\ ~paused[w] /\ resume[w] = "Ready"
  IN /\ ~Unresolved(effect[a])
     /\ astate[a] \in {"Cancelling", "OutcomeUnknown", "Failed", "Submitted"}
     /\ stopped' = [stopped EXCEPT ![a] = TRUE]
     /\ astate' = [astate EXCEPT ![a] = IF @ = "Submitted" THEN @ ELSE "Cancelled"]
     /\ active' = [active EXCEPT ![w] = IF own THEN 0 ELSE @]
     /\ state' = [state EXCEPT ![w] = IF resumes THEN "Ready" ELSE @]
     /\ resume' = [resume EXCEPT ![w] = IF resumes THEN None ELSE @]
     /\ UNCHANGED <<paused, rev, gen, current, accepted, dep, arev, aepoch, area, runtime,
                    inputs, awaiting, effect, submission, request, epoch>>

\* The attempt's own record, whatever generation the work is in by now.
StoppedState(a, completed) ==
  CASE Unresolved(effect[a]) -> "OutcomeUnknown"
    [] ~Unresolved(effect[a]) /\ state[a[1]] = "Cancelled" -> "Cancelled"
    [] ~Unresolved(effect[a]) /\ state[a[1]] # "Cancelled" /\ awaiting[a] -> "Blocked"
    [] OTHER -> IF ~completed /\ astate[a] # "Submitted" THEN "Failed" ELSE astate[a]

\* Mutant: the stop does not release work whose question is already answered.
RuntimeStoppedHolds(a, completed) ==
  LET w == a[1] IN
  /\ runtime[a] # None
  /\ stopped' = [stopped EXCEPT ![a] = TRUE]
  /\ astate' = [astate EXCEPT ![a] = StoppedState(a, completed)]
  /\ active' = [active EXCEPT ![w] = IF @ = a[2] THEN 0 ELSE @]
  /\ UNCHANGED <<state, resume, paused, rev, gen, current, accepted, dep, arev, aepoch, area,
                 runtime, inputs, awaiting, effect, submission, request, epoch>>

RuntimeStopped(a, completed) ==
  LET w == a[1]
      unknown == Unresolved(effect[a])
      cancelled == state[w] = "Cancelled"
      answered == /\ active[w] = a[2] /\ awaiting[a] /\ ~unknown /\ ~cancelled
                  /\ a[2] = gen[w] /\ arev[a] = rev[w]
      resumes == answered /\ ~Unanswered(w, request) /\ ~paused[w]
      freed == active[w] = a[2] /\ ~answered /\ (cancelled \/ paused[w]) /\ ~unknown
      blocks == active[w] = a[2] /\ ~answered /\ ~freed /\ (unknown \/ ~completed)
  IN /\ runtime[a] # None
     /\ stopped' = [stopped EXCEPT ![a] = TRUE]
     /\ astate' = [astate EXCEPT ![a] = StoppedState(a, completed)]
     /\ active' = [active EXCEPT ![w] = IF answered \/ freed THEN 0 ELSE @]
     /\ state' = [state EXCEPT ![w] = IF resumes THEN "Ready"
                                      ELSE IF blocks /\ ~cancelled THEN "Blocked" ELSE @]
     /\ resume' = [resume EXCEPT ![w] = IF resumes THEN None
                                        ELSE IF blocks THEN "Ready" ELSE @]
     /\ UNCHANGED <<paused, rev, gen, current, accepted, dep, arev, aepoch, area, runtime,
                    inputs, awaiting, effect, submission, request, epoch>>

ReconcileCompleted(a) ==
  LET w == a[1] IN
  /\ stopped[a] /\ runtime[a] # None /\ ~Unresolved(effect[a])
  /\ a[2] = gen[w] /\ arev[a] = rev[w] /\ active[w] = a[2]
  /\ state[w] # "Cancelled"
  /\ DependenciesMet(w) /\ Dependencies(w) = inputs[a]
  /\ astate[a] \in {"OutcomeUnknown", "Running"}
  /\ aepoch' = [aepoch EXCEPT ![a] = epoch]
  /\ astate' = [astate EXCEPT ![a] = "Running"]
  /\ state' = [state EXCEPT ![w] = "Active"]
  /\ resume' = [resume EXCEPT ![w] = None]
  /\ UNCHANGED <<paused, rev, gen, active, current, accepted, dep, arev, stopped, area,
                 runtime, inputs, awaiting, effect, submission, request, epoch>>
  /\ ValidSnapshot'

OutcomeUnknown(a) ==
  LET w == a[1] IN
  /\ ReportUnknown /\ astate[a] # "none"
  /\ astate' = [astate EXCEPT ![a] = "OutcomeUnknown"]
  /\ state' = [state EXCEPT ![w] = IF @ = "Cancelled" THEN @ ELSE "Blocked"]
  /\ resume' = [resume EXCEPT ![w] = IF state[w] = "Cancelled" THEN @ ELSE state[w]]
  /\ UNCHANGED <<paused, rev, gen, active, current, accepted, dep, arev, aepoch, stopped,
                 area, runtime, inputs, awaiting, effect, submission, request, epoch>>

\* reconcile_file_effect: the user confirms that the file has the intended bytes.
ReconcileFile(a) ==
  LET w == a[1]
      released == ~Unresolved(effect'[a])
      own == released /\ active[w] = a[2]
      paused2 == own /\ state[w] # "Cancelled"
  IN /\ stopped[a] /\ astate[a] = "OutcomeUnknown"
     /\ effect[a]["file"] \in {"Started", "OutcomeUnknown"}
     /\ effect' = [effect EXCEPT ![a]["file"] = "Succeeded"]
     /\ astate' = [astate EXCEPT ![a] =
                     IF ~released THEN @ ELSE IF state[w] = "Cancelled" THEN "Cancelled"
                     ELSE "Failed"]
     /\ active' = [active EXCEPT ![w] = IF own THEN 0 ELSE @]
     /\ state' = [state EXCEPT ![w] = IF paused2 THEN "Blocked" ELSE @]
     /\ paused' = [paused EXCEPT ![w] = paused2 \/ @]
     /\ resume' = [resume EXCEPT ![w] = IF paused2 THEN "Ready" ELSE @]
     /\ UNCHANGED <<rev, gen, current, accepted, dep, arev, aepoch, stopped, area, runtime,
                    inputs, awaiting, submission, request, epoch>>

\* from_store: a new writer opens the scope.
Restart ==
  LET lost == {a \in Attempt :
                 \/ astate[a] \in {"DispatchPending", "Admitted", "Running", "Cancelling"}
                 \/ astate[a] = "Blocked" /\ ~stopped[a]}
      blocks == {w \in Work : state[w] = "Active" /\ <<w, active[w]>> \in lost}
  IN /\ epoch < MaxEpoch
     /\ epoch' = epoch + 1
     /\ astate' = [a \in Attempt |-> IF a \in lost THEN "OutcomeUnknown" ELSE astate[a]]
     /\ state' = [t \in Ticket |-> IF t \in blocks THEN "Blocked" ELSE state[t]]
     /\ resume' = [t \in Ticket |-> IF t \in blocks THEN "Ready" ELSE resume[t]]
     /\ request' = [r \in Request |->
                      IF r[1] = "approval" /\ request[r].status \in {"Open", "Approved"}
                      THEN [request[r] EXCEPT !.status = "Expired"] ELSE request[r]]
     /\ UNCHANGED <<paused, rev, gen, active, current, accepted, dep, arev, aepoch, stopped,
                    area, runtime, inputs, awaiting, effect, submission>>

Next ==
  \/ \E t \in Ticket : \/ Create(t) \/ Ready(t) \/ UpdateContract(t) \/ Cancel(t)
                       \/ Reopen(t)
  \/ \E w \in Work : \/ Import(w) \/ SetDependencies(w) \/ Accept(w) \/ Reject(w)
                     \/ Pause(w)
  \/ \E w \in Work, x \in Area \cup {None} : Start(w, x)
  \/ \E w \in Work, k \in Kinds : Ask(k, w)
  \/ \E g \in Goal : AcceptGoal(g)
  \/ \E r \in Request : Answer(r) \/ DecideApproval(r)
  \/ \E a \in Attempt :
       \/ \E s \in Session : Admitted(a, s)
       \/ Running(a) \/ YieldForInput(a) \/ ConsumeApproval(a)
       \/ \E s \in EffectState : RecordEffect(a, s)
       \/ WriteFile(a) \/ Submit(a) \/ ConfirmStopped(a)
       \/ \E c \in BOOLEAN : RuntimeStopped(a, c)
       \/ ReconcileCompleted(a) \/ OutcomeUnknown(a) \/ ReconcileFile(a)
  \/ Restart

Spec == Init /\ [][Next]_vars

\* The host reaps every process it started and publishes its stop, and the user
\* answers a question that stays open: both are weakly fair.
FairSpec ==
  /\ Spec
  /\ \A a \in Attempt : WF_vars(~stopped[a] /\ \E c \in BOOLEAN : RuntimeStopped(a, c))
  /\ \A r \in Request : WF_vars(Answer(r))

-----------------------------------------------------------------------------
(* Properties. *)

WorksOK ==
  /\ state \in [Ticket -> WorkState \cup {"absent"}]
  /\ paused \in [Work -> BOOLEAN] /\ resume \in [Ticket -> WorkState \cup {None}]
  /\ rev \in [Work -> Nat] /\ gen \in [Work -> 0..MaxGen]
  /\ active \in [Work -> 0..MaxGen] /\ current \in [Work -> 0..MaxGen]
  /\ accepted \in [Work -> 0..MaxGen] /\ dep \in [Work -> SUBSET Work]

AttemptsOK ==
  /\ astate \in [Attempt -> AssignmentState \cup {"none"}]
  /\ arev \in [Attempt -> Nat] /\ aepoch \in [Attempt -> Nat]
  /\ stopped \in [Attempt -> BOOLEAN] /\ area \in [Attempt -> Area \cup {None}]
  /\ runtime \in [Attempt -> Session \cup {None}]
  /\ inputs \in [Attempt -> SUBSET Attempt] /\ awaiting \in [Attempt -> BOOLEAN]
  /\ effect \in [Attempt -> [EffectKind -> EffectState \cup {"none"}]]
  /\ submission \in [Attempt -> [EffectKind -> EffectState \cup {"none"}]]

RequestsOK ==
  /\ request \in [Request -> [status : RequestStatus \cup {"none"}, rev : Nat,
                              bound : BOOLEAN]]
  /\ epoch \in Nat

\* Every variable has its type; in particular an attempt's inputs are attempts and
\* only a ticket that exists is to be resumed (Revoke, OutcomeUnknown).
TypeOK == WorksOK /\ AttemptsOK /\ RequestsOK

\* Not known to be stopped, or with an effect in doubt.
Unsettled(a) == ~stopped[a] \/ Unresolved(effect[a])

\* Two attempts neither of which is known to be stopped with every effect settled
\* never own the same workspace or session, whatever happened to their works since
\* (rejected, cancelled, reopened, restarted): the exclusion of Start and Admitted.
Exclusive ==
  \A a, b \in Attempt :
    /\ a # b
    /\ astate[a] # "none" /\ Unsettled(a)
    /\ astate[b] # "none" /\ Unsettled(b)
    => /\ area[a] # None => area[a] # area[b]
       /\ runtime[a] # None => runtime[a] # runtime[b]

\* Accepted work rests on the submission of its latest attempt, made for the
\* contract as it is now, whose process is confirmed stopped and left no effect
\* in doubt (Accept and everything that may follow it).
AcceptedSound ==
  \A w \in Work : state[w] = "Accepted" =>
    /\ gen[w] # 0 /\ accepted[w] = gen[w]
    /\ arev[<<w, gen[w]>>] = rev[w] /\ ~Unsettled(<<w, gen[w]>>)

\* Work that runs, awaits review or is accepted uses exactly the submissions that
\* are accepted for its prerequisites: revoking one reaches every work built on
\* it, through any chain of works (invalidate_dependents).
InputsCurrent ==
  \A w \in Work : state[w] \in {"Active", "Submitted", "Accepted"} /\ gen[w] # 0 =>
    \A i \in inputs[<<w, gen[w]>>] : accepted[i[1]] = i[2]

\* Work that yielded for an answer, whose run is stopped and that nobody paused or
\* sent to review, is not left blocked once nothing is open for it: the stop and
\* the answer come in either order and the later one releases it.
Released(w) ==
  LET a == <<w, gen[w]>> IN
  gen[w] # 0 /\ awaiting[a] /\ stopped[a] /\ arev[a] = rev[w] /\ active[w] = 0
    /\ state[w] = "Blocked" /\ ~paused[w] /\ resume[w] = "Ready"
    => Unanswered(w, request)

YieldReleased == \A w \in Work : Released(w)

\* Work that yielded for an answer is waiting for the answer and for the stop.
Yielded(w) ==
  LET a == <<w, gen[w]>> IN
  gen[w] # 0 /\ awaiting[a] /\ arev[a] = rev[w] /\ ~paused[w]
    /\ state[w] = "Blocked" /\ resume[w] = "Ready"

\* No question of an earlier generation is open: validate_request refuses an answer
\* to it, and Answer and RuntimeStopped still count it as unanswered.
Reachable(w) == \A r \in Request : r[2] = w /\ r[3] # gen[w] => request[r].status # "Open"

\* Yielded work does not wait for ever: it becomes ready again unless it is paused,
\* sent to review or given another contract (YieldForInput, Answer, RuntimeStopped).
OwnYieldResumes == \A w \in Work : Yielded(w) /\ Reachable(w) ~> ~Yielded(w)

\* When a child of an accepted goal loses its acceptance the goal is no longer
\* accepted: "child acceptance changed; Goal needs independent review".
GoalReviewed ==
  [][\A g \in Goal, t \in Ticket :
       Parent[t] = g /\ state[t] = "Accepted" /\ state'[t] # "Accepted"
         => state'[g] # "Accepted"]_vars

\* The same for the goals inside a goal: whatever revokes a ticket deep below sends
\* every accepted goal above it back to review (invalidate_parent_goals).
NestedGoalReviewed ==
  [][\A g, c \in Goal :
       Parent[c] = g /\ state[c] = "Accepted" /\ state'[c] # "Accepted"
         => state'[g] # "Accepted"]_vars

=============================================================================
