---------------------------- MODULE TicketsProofs ----------------------------
(***************************************************************************)
(* Proofs about Tickets for any works, goals, prerequisites, workspaces    *)
(* and sessions, any number of generations, revisions and restarts.        *)
(***************************************************************************)
EXTENDS Tickets, TLAPS

-----------------------------------------------------------------------------
(* The operators the commands are built from. *)

LEMMA PairIsAttempt ==
  /\ \A w \in Work, g \in Gen : <<w, g>> \in Attempt
  /\ \A a \in Attempt : a[1] \in Work /\ a[2] \in Gen /\ a = <<a[1], a[2]>>
BY DEF Attempt

\* Affected reaches every consumer of what it reaches.
LEMMA AffectedClosed ==
  ASSUME NEW t \in Ticket
  PROVE  /\ Affected(t) \subseteq Work
         /\ Consumers(t) \subseteq Affected(t)
         /\ \A x \in Affected(t) : Consumers(x) \subseteq Affected(t)
<1>1. \A x : Consumers(x) \subseteq Work
  BY DEF Consumers
<1> QED BY <1>1 DEF Affected

\* Affected is the least such set.
LEMMA AffectedLeast ==
  ASSUME NEW t \in Ticket, NEW S \in SUBSET Work, \A x \in Ticket : Consumers(x) \subseteq S
  PROVE  Affected(t) \subseteq S
BY DEF Affected, Ticket

\* Containers has the parent of t and of every goal it has.
LEMMA ContainersClosed ==
  ASSUME NEW t \in Ticket
  PROVE  /\ Containers(t) \subseteq Goal
         /\ {Parent[t]} \cap Goal \subseteq Containers(t)
         /\ \A c \in Containers(t) : {Parent[c]} \cap Goal \subseteq Containers(t)
BY DEF Containers

-----------------------------------------------------------------------------
(* The inductive invariant. *)

\* An attempt exists exactly up to its work's generation, and until then it has no
\* workspace, session or inputs.
ExistInv ==
  /\ \A w \in Work, g \in Gen : astate[<<w, g>>] # "none" <=> g <= gen[w]
  /\ \A a \in Attempt : astate[a] = "none"
                          => area[a] = None /\ runtime[a] = None /\ inputs[a] = {}

\* The active and the submitted attempt of a work are its latest, and never both.
WorkInv ==
  \A w \in Work :
    /\ gen[w] # 0 => state[w] # "absent"
    /\ active[w] \in {0, gen[w]} /\ current[w] \in {0, gen[w]}
    /\ active[w] = 0 \/ current[w] = 0
    /\ state[w] \in {"absent", "Draft", "Ready", "Submitted", "Accepted"} => active[w] = 0
    /\ paused[w] => state[w] = "Blocked"

LatestInv == ExistInv /\ WorkInv

LEMMA ActiveExists ==
  ASSUME TypeOK, LatestInv, NEW W
  PROVE  \A a \in ActiveOf(W) : a \in Attempt /\ astate[a] # "none"
BY PairIsAttempt DEF ActiveOf, TypeOK, WorksOK, LatestInv, ExistInv, WorkInv, Gen

LEMMA AffectedExists ==
  ASSUME NEW t \in Ticket, TypeOK, LatestInv
  PROVE  \A w \in Affected(t) : state[w] # "absent"
<1> DEFINE S == {w \in Work : state[w] # "absent"}
<1>1. \A x \in Ticket : Consumers(x) \subseteq S
  <2> SUFFICES ASSUME NEW x \in Ticket, NEW w \in Work, NEW g \in Gen, NEW n \in Gen,
                      <<x, n>> \in inputs[<<w, g>>]
               PROVE  state[w] # "absent"
    BY DEF Consumers
  <2>1. astate[<<w, g>>] # "none"
    BY PairIsAttempt DEF LatestInv, ExistInv
  <2> QED BY <2>1, BoundAssumption DEF LatestInv, ExistInv, WorkInv, Gen, TypeOK, WorksOK
<1> QED BY <1>1, AffectedLeast

\* What Revoke does, ticket by ticket.
LEMMA RevokeEffect ==
  ASSUME NEW t \in Ticket, NEW s \in WorkState, NEW b \in WorkState \cup {None},
         TypeOK, LatestInv, Revoke(t, s, b)
  PROVE  /\ state' \in [Ticket -> WorkState \cup {"absent"}]
         /\ resume' \in [Ticket -> WorkState \cup {None}]
         /\ accepted' \in [Work -> 0..MaxGen]
         /\ request' \in [Request -> [status : RequestStatus \cup {"none"}, rev : Nat,
                                      bound : BOOLEAN]]
         /\ \A w \in Work \ {t} : state'[w] \in {state[w], "Blocked"}
         /\ t \in Work => state'[t] \in {s, "Blocked"} /\ accepted'[t] = 0
         /\ \A w \in Affected(t) : state'[w] \in {"Blocked", "Cancelled"}
         /\ \A w \in Work \ (Affected(t) \cup {t}) : accepted'[w] = accepted[w]
         /\ \A w \in Work \ {t} : state'[w] # state[w] => accepted'[w] = 0
         /\ \A w \in Work : accepted'[w] \in {0, accepted[w]}
<1> USE TicketAssumption
<1> DEFINE own == [state EXCEPT ![t] = s]
           revoked == {w \in Affected(t) : own[w] # "Cancelled"}
           reviewed == {g \in Containers(t) : own[g] = "Accepted"}
<1>1. /\ state' = [x \in Ticket |-> IF x \in revoked \cup reviewed THEN "Blocked" ELSE own[x]]
      /\ resume' = [x \in Ticket |->
                     CASE x \in revoked  -> own[x]
                       [] x \in reviewed -> "Submitted"
                       [] x = t /\ x \notin revoked \cup reviewed -> b
                       [] OTHER -> resume[x]]
      /\ accepted' = [w \in Work |-> IF w = t \/ w \in revoked THEN 0 ELSE accepted[w]]
      /\ InvalidateRequests({t} \cup Affected(t))
  BY DEF Revoke
<1>2. own \in [Ticket -> WorkState \cup {"absent"}] /\ \A x \in Ticket : x # t => own[x] = state[x]
  BY DEF TypeOK, WorksOK
<1>3. own[t] = s /\ s # "absent"
  BY DEF TypeOK, WorksOK, WorkState
<1>4. revoked \subseteq Work /\ reviewed \subseteq Goal
  BY AffectedClosed, ContainersClosed
<1>5. \A w \in revoked : own[w] \in WorkState
  BY <1>2, <1>3, <1>4, AffectedExists DEF Ticket
<1>6. state' \in [Ticket -> WorkState \cup {"absent"}]
  BY <1>1, <1>2 DEF WorkState
<1>7. resume' \in [Ticket -> WorkState \cup {None}]
  <2> SUFFICES ASSUME NEW x \in Ticket PROVE resume'[x] \in WorkState \cup {None}
    BY <1>1
  <2> HIDE DEF own, revoked, reviewed
  <2>1. CASE x \in revoked
    BY <2>1, <1>1, <1>4, <1>5
  <2>2. CASE x \notin revoked /\ x \in reviewed
    BY <2>2, <1>1 DEF WorkState
  <2>3. CASE x \notin revoked /\ x \notin reviewed
    BY <2>3, <1>1 DEF TypeOK, WorksOK
  <2> QED BY <2>1, <2>2, <2>3
<1>8. accepted' \in [Work -> 0..MaxGen]
  BY <1>1, BoundAssumption DEF TypeOK, WorksOK
<1>9. request' \in [Request -> [status : RequestStatus \cup {"none"}, rev : Nat,
                                bound : BOOLEAN]]
  BY <1>1 DEF InvalidateRequests, TypeOK, RequestsOK, RequestStatus
<1>10. \A w \in Work \ {t} : state'[w] \in {state[w], "Blocked"}
  BY <1>1, <1>2 DEF Ticket
<1>11. t \in Work => state'[t] \in {s, "Blocked"} /\ accepted'[t] = 0
  BY <1>1, <1>3
<1>12. \A w \in Affected(t) : state'[w] \in {"Blocked", "Cancelled"}
  BY <1>1, AffectedClosed DEF Ticket
<1>13. \A w \in Work \ (Affected(t) \cup {t}) : accepted'[w] = accepted[w]
  BY <1>1
<1>14. \A w \in Work \ {t} : state'[w] # state[w] => accepted'[w] = 0
  BY <1>1, <1>2, <1>4 DEF Ticket
<1>15. \A w \in Work : accepted'[w] \in {0, accepted[w]}
  BY <1>1
<1> HIDE DEF own, revoked, reviewed
<1> QED BY <1>6, <1>7, <1>8, <1>9, <1>10, <1>11, <1>12, <1>13, <1>14, <1>15

LEMMA RequestsInvalidated ==
  ASSUME NEW W, TypeOK, InvalidateRequests(W)
  PROVE  request' \in [Request -> [status : RequestStatus \cup {"none"}, rev : Nat,
                                   bound : BOOLEAN]]
BY DEF InvalidateRequests, TypeOK, RequestsOK, RequestStatus

LEMMA CancellingTyped ==
  ASSUME NEW A, TypeOK, Cancelling(A)
  PROVE  astate' \in [Attempt -> AssignmentState \cup {"none"}]
BY DEF Cancelling, TypeOK, AttemptsOK, AssignmentState

\* Cancelling attempts that exist creates none.
LEMMA CancellingExisting ==
  ASSUME NEW A, \A a \in A : a \in Attempt => astate[a] # "none", ExistInv, Cancelling(A),
         UNCHANGED <<gen, area, runtime, inputs>>
  PROVE  ExistInv'
BY PairIsAttempt DEF Cancelling, ExistInv

-----------------------------------------------------------------------------
(* Types. *)

LEMMA InitTypeOK == Init => TypeOK
<1> SUFFICES ASSUME Init PROVE TypeOK
  OBVIOUS
<1> USE BoundAssumption DEF Init
<1>1. WorksOK
  BY DEF WorksOK
<1>2. AttemptsOK
  BY DEF AttemptsOK, NoEffects
<1>3. RequestsOK
  BY DEF RequestsOK, NoRequest
<1> QED BY <1>1, <1>2, <1>3 DEF TypeOK

LEMMA NextTypeOK == TypeOK /\ LatestInv /\ [Next]_vars => TypeOK'
<1> SUFFICES ASSUME TypeOK, LatestInv, [Next]_vars PROVE TypeOK'
  OBVIOUS
<1> USE TicketAssumption, BoundAssumption
        DEF TypeOK, WorksOK, AttemptsOK, RequestsOK, Ticket, WorkState, AssignmentState,
            RequestStatus, EffectState, workVars, attemptVars
<1>1. ASSUME NEW t \in Ticket, Create(t) PROVE TypeOK'
  <2>1. dep' \in [Work -> SUBSET Work]
    <3>1. CASE t \in Work
      <4>1. PICK D \in SUBSET MayDepend[t] : dep' = [dep EXCEPT ![t] = D]
        BY <1>1, <3>1 DEF Create
      <4> QED BY <3>1, <4>1
    <3>2. CASE t \notin Work
      BY <1>1, <3>2 DEF Create
    <3> QED BY <3>1, <3>2
  <2>7. WorksOK'
    BY <1>1, PairIsAttempt, <2>1 DEF Create
  <2>8. AttemptsOK'
    BY <1>1, PairIsAttempt, <2>1 DEF Create
  <2>9. RequestsOK'
    BY <1>1, PairIsAttempt, <2>1 DEF Create
  <2> QED BY <2>7, <2>8, <2>9
<1>2. ASSUME NEW t \in Ticket, Ready(t) PROVE TypeOK'
  BY <1>2 DEF Ready
<1>3. ASSUME NEW t \in Ticket, UpdateContract(t) PROVE TypeOK'
  <2> DEFINE s == IF t \in Work /\ (active[t] # 0 \/ paused[t]) THEN "Blocked" ELSE "Ready"
             b == IF t \in Work /\ (active[t] # 0 \/ paused[t]) THEN "Ready" ELSE None
  <2>1. Revoke(t, s, b) /\ Cancelling(ActiveOf({t}) \cup {a \in ActiveOf(Affected(t)) : ~stopped[a]})
    BY <1>3 DEF UpdateContract
  <2>2. s \in WorkState /\ b \in WorkState \cup {None}
    OBVIOUS
  <2> HIDE DEF s, b
  <2>3. /\ state' \in [Ticket -> WorkState \cup {"absent"}]
        /\ resume' \in [Ticket -> WorkState \cup {None}]
        /\ accepted' \in [Work -> 0..MaxGen]
        /\ request' \in [Request -> [status : RequestStatus \cup {"none"}, rev : Nat,
                                     bound : BOOLEAN]]
    BY <2>1, <2>2, RevokeEffect
  <2>4. astate' \in [Attempt -> AssignmentState \cup {"none"}]
    BY <2>1, CancellingTyped
  <2>7. WorksOK'
    BY <1>3, <2>3, <2>4 DEF UpdateContract
  <2>8. AttemptsOK'
    BY <1>3, <2>3, <2>4 DEF UpdateContract
  <2>9. RequestsOK'
    BY <1>3, <2>3, <2>4 DEF UpdateContract
  <2> QED BY <2>7, <2>8, <2>9
<1>4. ASSUME NEW t \in Ticket, Cancel(t) PROVE TypeOK'
  <2> DEFINE s == "Cancelled"
             b == None
  <2>1. Revoke(t, s, b) /\ Cancelling(ActiveOf({t}) \cup {a \in ActiveOf(Affected(t)) : ~stopped[a]})
    BY <1>4 DEF Cancel
  <2>2. s \in WorkState /\ b \in WorkState \cup {None}
    OBVIOUS
  <2> HIDE DEF s, b
  <2>3. /\ state' \in [Ticket -> WorkState \cup {"absent"}]
        /\ resume' \in [Ticket -> WorkState \cup {None}]
        /\ accepted' \in [Work -> 0..MaxGen]
        /\ request' \in [Request -> [status : RequestStatus \cup {"none"}, rev : Nat,
                                     bound : BOOLEAN]]
    BY <2>1, <2>2, RevokeEffect
  <2>4. astate' \in [Attempt -> AssignmentState \cup {"none"}]
    BY <2>1, CancellingTyped
  <2>7. WorksOK'
    BY <1>4, <2>3, <2>4 DEF Cancel
  <2>8. AttemptsOK'
    BY <1>4, <2>3, <2>4 DEF Cancel
  <2>9. RequestsOK'
    BY <1>4, <2>3, <2>4 DEF Cancel
  <2> QED BY <2>7, <2>8, <2>9
<1>5. ASSUME NEW t \in Ticket, Reopen(t) PROVE TypeOK'
  <2> DEFINE s == "Ready"
             b == None
  <2>1. Revoke(t, s, b) /\ Cancelling({a \in ActiveOf(Affected(t) \ {t}) : ~stopped[a]})
    BY <1>5 DEF Reopen
  <2>2. s \in WorkState /\ b \in WorkState \cup {None}
    OBVIOUS
  <2> HIDE DEF s, b
  <2>3. /\ state' \in [Ticket -> WorkState \cup {"absent"}]
        /\ resume' \in [Ticket -> WorkState \cup {None}]
        /\ accepted' \in [Work -> 0..MaxGen]
        /\ request' \in [Request -> [status : RequestStatus \cup {"none"}, rev : Nat,
                                     bound : BOOLEAN]]
    BY <2>1, <2>2, RevokeEffect
  <2>4. astate' \in [Attempt -> AssignmentState \cup {"none"}]
    BY <2>1, CancellingTyped
  <2>5. active' \in [Work -> 0..MaxGen] /\ current' \in [Work -> 0..MaxGen]
    BY <1>5 DEF Reopen
  <2>6. paused' \in [Work -> BOOLEAN] /\ UNCHANGED <<rev, gen, dep>>
    BY <1>5 DEF Reopen
  <2>7. WorksOK'
    BY <2>3, <2>5, <2>6
  <2>8. AttemptsOK'
    BY <1>5, <2>3, <2>4 DEF Reopen
  <2>9. RequestsOK'
    BY <1>5, <2>3, <2>4 DEF Reopen
  <2> QED BY <2>7, <2>8, <2>9
<1>6. ASSUME NEW w \in Work, Import(w) PROVE TypeOK'
  BY <1>6 DEF Import
<1>7. ASSUME NEW w \in Work, SetDependencies(w) PROVE TypeOK'
  <2>1. InvalidateRequests({w})
    BY <1>7 DEF SetDependencies
  <2>2. request' \in [Request -> [status : RequestStatus \cup {"none"}, rev : Nat,
                                 bound : BOOLEAN]]
    BY <2>1, RequestsInvalidated
  <2>7. WorksOK'
    BY <1>7, PairIsAttempt, <2>2 DEF SetDependencies
  <2>8. AttemptsOK'
    BY <1>7, PairIsAttempt, <2>2 DEF SetDependencies
  <2>9. RequestsOK'
    BY <1>7, PairIsAttempt, <2>2 DEF SetDependencies
  <2> QED BY <2>7, <2>8, <2>9
<1>8. ASSUME NEW w \in Work, Accept(w) PROVE TypeOK'
  BY <1>8 DEF Accept
<1>9. ASSUME NEW w \in Work, Reject(w) PROVE TypeOK'
  BY <1>9 DEF Reject
<1>10. ASSUME NEW w \in Work, Pause(w) PROVE TypeOK'
  <2>1. InvalidateRequests({w})
    BY <1>10 DEF Pause
  <2>2. request' \in [Request -> [status : RequestStatus \cup {"none"}, rev : Nat,
                                 bound : BOOLEAN]]
    BY <2>1, RequestsInvalidated
  <2>3. astate' \in [Attempt -> AssignmentState \cup {"none"}]
    BY <1>10, CancellingTyped DEF Pause
  <2>7. WorksOK'
    BY <1>10, PairIsAttempt, <2>2, <2>3 DEF Pause
  <2>8. AttemptsOK'
    BY <1>10, PairIsAttempt, <2>2, <2>3 DEF Pause
  <2>9. RequestsOK'
    BY <1>10, PairIsAttempt, <2>2, <2>3 DEF Pause
  <2> QED BY <2>7, <2>8, <2>9
<1>11. ASSUME NEW w \in Work, NEW x \in Area \cup {None}, Start(w, x) PROVE TypeOK'
  <2>1. Dependencies(w) \subseteq Attempt
    BY <1>11, PairIsAttempt DEF Start, Dependencies, DependenciesMet, Gen
  <2>2. <<w, gen[w] + 1>> \in Attempt
    BY <1>11, PairIsAttempt DEF Start, Gen
  <2>7. WorksOK'
    BY <1>11, PairIsAttempt, <2>1, <2>2 DEF Start
  <2>8. AttemptsOK'
    BY <1>11, PairIsAttempt, <2>1, <2>2 DEF Start
  <2>9. RequestsOK'
    BY <1>11, PairIsAttempt, <2>1, <2>2 DEF Start
  <2> QED BY <2>7, <2>8, <2>9
<1>12. ASSUME NEW w \in Work, NEW k \in Kinds, Ask(k, w) PROVE TypeOK'
  BY <1>12 DEF Ask
<1>13. ASSUME NEW g \in Goal, AcceptGoal(g) PROVE TypeOK'
  BY <1>13 DEF AcceptGoal
<1>14. ASSUME NEW r \in Request, Answer(r) PROVE TypeOK'
  BY <1>14 DEF Answer
<1>15. ASSUME NEW r \in Request, DecideApproval(r) PROVE TypeOK'
  <2>1. PICK s \in {"Approved", "Denied"} : request' = [request EXCEPT ![r].status = s]
    BY <1>15 DEF DecideApproval
  <2>2. request' \in [Request -> [status : RequestStatus \cup {"none"}, rev : Nat,
                                 bound : BOOLEAN]]
    BY <2>1
  <2>7. WorksOK'
    BY <1>15, PairIsAttempt, <2>2 DEF DecideApproval
  <2>8. AttemptsOK'
    BY <1>15, PairIsAttempt, <2>2 DEF DecideApproval
  <2>9. RequestsOK'
    BY <1>15, PairIsAttempt, <2>2 DEF DecideApproval
  <2> QED BY <2>7, <2>8, <2>9
<1>16. ASSUME NEW a \in Attempt, NEW s \in Session, Admitted(a, s) PROVE TypeOK'
  BY <1>16 DEF Admitted
<1>17. ASSUME NEW a \in Attempt, Running(a) PROVE TypeOK'
  BY <1>17 DEF Running
<1>18. ASSUME NEW a \in Attempt, YieldForInput(a) PROVE TypeOK'
  BY <1>18 DEF YieldForInput
<1>19. ASSUME NEW a \in Attempt, ConsumeApproval(a) PROVE TypeOK'
  <2>1. <<"approval", a[1], a[2]>> \in Request
    BY <1>19, PairIsAttempt DEF ConsumeApproval, Request, Gen
  <2>2. request' \in [Request -> [status : RequestStatus \cup {"none"}, rev : Nat,
                                 bound : BOOLEAN]]
    BY <1>19, <2>1 DEF ConsumeApproval
  <2>7. WorksOK'
    BY <1>19, PairIsAttempt, <2>2 DEF ConsumeApproval
  <2>8. AttemptsOK'
    BY <1>19, PairIsAttempt, <2>2 DEF ConsumeApproval
  <2>9. RequestsOK'
    BY <1>19, PairIsAttempt, <2>2 DEF ConsumeApproval
  <2> QED BY <2>7, <2>8, <2>9
<1>20. ASSUME NEW a \in Attempt, NEW s \in EffectState, RecordEffect(a, s) PROVE TypeOK'
  BY <1>20 DEF RecordEffect
<1>21. ASSUME NEW a \in Attempt, WriteFile(a) PROVE TypeOK'
  <2>1. PICK s \in {"Started", "Succeeded"} : effect' = [effect EXCEPT ![a]["file"] = s]
    BY <1>21 DEF WriteFile
  <2>2. effect' \in [Attempt -> [EffectKind -> EffectState \cup {"none"}]]
    BY <2>1
  <2>7. WorksOK'
    BY <1>21, PairIsAttempt, <2>2 DEF WriteFile
  <2>8. AttemptsOK'
    BY <1>21, PairIsAttempt, <2>2 DEF WriteFile
  <2>9. RequestsOK'
    BY <1>21, PairIsAttempt, <2>2 DEF WriteFile
  <2> QED BY <2>7, <2>8, <2>9
<1>22. ASSUME NEW a \in Attempt, Submit(a) PROVE TypeOK'
  <2>1. InvalidateRequests({a[1]})
    BY <1>22 DEF Submit
  <2>2. request' \in [Request -> [status : RequestStatus \cup {"none"}, rev : Nat,
                                 bound : BOOLEAN]]
    BY <2>1, RequestsInvalidated
  <2>3. a[1] \in Work /\ a[2] \in 0..MaxGen
    BY PairIsAttempt DEF Gen
  <2>7. WorksOK'
    BY <1>22, <2>3 DEF Submit
  <2>8. AttemptsOK'
    BY <1>22, PairIsAttempt, <2>2 DEF Submit
  <2>9. RequestsOK'
    BY <1>22, PairIsAttempt, <2>2 DEF Submit
  <2> QED BY <2>7, <2>8, <2>9
<1>23. ASSUME NEW a \in Attempt, ConfirmStopped(a) PROVE TypeOK'
  <2>7. WorksOK'
    BY <1>23, PairIsAttempt DEF ConfirmStopped
  <2>8. AttemptsOK'
    BY <1>23, PairIsAttempt DEF ConfirmStopped
  <2>9. RequestsOK'
    BY <1>23, PairIsAttempt DEF ConfirmStopped
  <2> QED BY <2>7, <2>8, <2>9
<1>24. ASSUME NEW a \in Attempt, NEW c \in BOOLEAN, RuntimeStopped(a, c) PROVE TypeOK'
  <2>1. StoppedState(a, c) \in AssignmentState \cup {"none"}
    BY DEF StoppedState
  <2>7. WorksOK'
    BY <1>24, PairIsAttempt, <2>1 DEF RuntimeStopped
  <2>8. AttemptsOK'
    BY <1>24, PairIsAttempt, <2>1 DEF RuntimeStopped
  <2>9. RequestsOK'
    BY <1>24, PairIsAttempt, <2>1 DEF RuntimeStopped
  <2> QED BY <2>7, <2>8, <2>9
<1>25. ASSUME NEW a \in Attempt, ReconcileCompleted(a) PROVE TypeOK'
  BY <1>25 DEF ReconcileCompleted
<1>26. ASSUME NEW a \in Attempt, OutcomeUnknown(a) PROVE TypeOK'
  <2>1. state[a[1]] # "absent"
    BY <1>26, PairIsAttempt DEF OutcomeUnknown, LatestInv, ExistInv, WorkInv, Gen
  <2>7. WorksOK'
    BY <1>26, PairIsAttempt, <2>1 DEF OutcomeUnknown
  <2>8. AttemptsOK'
    BY <1>26, PairIsAttempt, <2>1 DEF OutcomeUnknown
  <2>9. RequestsOK'
    BY <1>26, PairIsAttempt, <2>1 DEF OutcomeUnknown
  <2> QED BY <2>7, <2>8, <2>9
<1>27. ASSUME NEW a \in Attempt, ReconcileFile(a) PROVE TypeOK'
  <2>7. WorksOK'
    BY <1>27, PairIsAttempt DEF ReconcileFile
  <2>8. AttemptsOK'
    BY <1>27, PairIsAttempt DEF ReconcileFile
  <2>9. RequestsOK'
    BY <1>27, PairIsAttempt DEF ReconcileFile
  <2> QED BY <2>7, <2>8, <2>9
<1>28. CASE Restart
  <2>1. request' \in [Request -> [status : RequestStatus \cup {"none"}, rev : Nat,
                                 bound : BOOLEAN]]
    BY <1>28 DEF Restart
  <2>7. WorksOK'
    BY <1>28, PairIsAttempt, <2>1 DEF Restart
  <2>8. AttemptsOK'
    BY <1>28, PairIsAttempt, <2>1 DEF Restart
  <2>9. RequestsOK'
    BY <1>28, <2>1 DEF Restart
  <2> QED BY <2>7, <2>8, <2>9
<1>29. CASE UNCHANGED vars
  BY <1>29 DEF vars, workVars, attemptVars
<1> HIDE DEF TypeOK, Ticket, workVars, attemptVars
<1> QED BY <1>1, <1>2, <1>3, <1>4, <1>5, <1>6, <1>7, <1>8, <1>9, <1>10, <1>11,
       <1>12, <1>13, <1>14, <1>15, <1>16, <1>17, <1>18, <1>19, <1>20, <1>21, <1>22, <1>23,
       <1>24, <1>25, <1>26, <1>27, <1>28, <1>29 DEF Next

-----------------------------------------------------------------------------
(* Attempts and generations. *)

LEMMA InitLatestInv == Init => LatestInv
BY PairIsAttempt, BoundAssumption DEF Init, LatestInv, ExistInv, WorkInv, Ticket, Gen

LEMMA NextLatestInv == TypeOK /\ LatestInv /\ [Next]_vars => LatestInv'
<1> SUFFICES ASSUME TypeOK, LatestInv, [Next]_vars PROVE LatestInv'
  OBVIOUS
<1>0. WorksOK /\ AttemptsOK /\ ExistInv /\ WorkInv
  BY DEF TypeOK, LatestInv
<1> USE <1>0, TicketAssumption, BoundAssumption
        DEF LatestInv, WorksOK, AttemptsOK, Ticket, Gen, WorkState, workVars, attemptVars
<1>1. ASSUME NEW t \in Ticket, Create(t) PROVE LatestInv'
  BY <1>1, PairIsAttempt DEF Create, ExistInv, WorkInv
<1>2. ASSUME NEW t \in Ticket, Ready(t) PROVE LatestInv'
  BY <1>2, PairIsAttempt DEF Ready, ExistInv, WorkInv
<1>3. ASSUME NEW t \in Ticket, UpdateContract(t) PROVE LatestInv'
  <2> DEFINE s == IF t \in Work /\ (active[t] # 0 \/ paused[t]) THEN "Blocked" ELSE "Ready"
             b == IF t \in Work /\ (active[t] # 0 \/ paused[t]) THEN "Ready" ELSE None
             A == ActiveOf({t}) \cup {a \in ActiveOf(Affected(t)) : ~stopped[a]}
  <2>1. /\ Revoke(t, s, b) /\ Cancelling(A)
        /\ UNCHANGED <<gen, area, runtime, inputs>>
    BY <1>3 DEF UpdateContract
  <2>2. s \in WorkState \ {"absent"} /\ b \in WorkState \cup {None}
    OBVIOUS
  <2>3. \A a \in A : a \in Attempt => astate[a] # "none"
    BY ActiveExists
  <2> HIDE DEF b, A
  <2>4. /\ \A w \in Work \ {t} : state'[w] \in {state[w], "Blocked"}
        /\ t \in Work => state'[t] \in {s, "Blocked"}
    BY <2>1, <2>2, RevokeEffect
  <2>8. ExistInv'
    BY <2>1, <2>3, CancellingExisting
  <2>9. WorkInv'
    BY <1>3, <2>4 DEF UpdateContract, WorkInv
  <2> QED BY <2>8, <2>9
<1>4. ASSUME NEW t \in Ticket, Cancel(t) PROVE LatestInv'
  <2> DEFINE s == "Cancelled"
             b == None
             A == ActiveOf({t}) \cup {a \in ActiveOf(Affected(t)) : ~stopped[a]}
  <2>1. /\ Revoke(t, s, b) /\ Cancelling(A)
        /\ UNCHANGED <<gen, area, runtime, inputs>>
    BY <1>4 DEF Cancel
  <2>2. s \in WorkState \ {"absent"} /\ b \in WorkState \cup {None}
    OBVIOUS
  <2>3. \A a \in A : a \in Attempt => astate[a] # "none"
    BY ActiveExists
  <2> HIDE DEF b, A
  <2>4. /\ \A w \in Work \ {t} : state'[w] \in {state[w], "Blocked"}
        /\ t \in Work => state'[t] \in {s, "Blocked"}
    BY <2>1, <2>2, RevokeEffect
  <2>8. ExistInv'
    BY <2>1, <2>3, CancellingExisting
  <2>9. WorkInv'
    BY <1>4, <2>4 DEF Cancel, WorkInv
  <2> QED BY <2>8, <2>9
<1>5. ASSUME NEW t \in Ticket, Reopen(t) PROVE LatestInv'
  <2> DEFINE s == "Ready"
             b == None
             A == {a \in ActiveOf(Affected(t) \ {t}) : ~stopped[a]}
  <2>1. /\ Revoke(t, s, b) /\ Cancelling(A)
        /\ UNCHANGED <<gen, area, runtime, inputs>>
    BY <1>5 DEF Reopen
  <2>2. s \in WorkState \ {"absent"} /\ b \in WorkState \cup {None}
    OBVIOUS
  <2>3. \A a \in A : a \in Attempt => astate[a] # "none"
    BY ActiveExists
  <2> HIDE DEF b, A
  <2>4. /\ \A w \in Work \ {t} : state'[w] \in {state[w], "Blocked"}
        /\ t \in Work => state'[t] \in {s, "Blocked"}
    BY <2>1, <2>2, RevokeEffect
  <2>8. ExistInv'
    BY <2>1, <2>3, CancellingExisting
  <2>9. WorkInv'
    BY <1>5, <2>4 DEF Reopen, WorkInv
  <2> QED BY <2>8, <2>9
<1>6. ASSUME NEW w \in Work, Import(w) PROVE LatestInv'
  BY <1>6, PairIsAttempt DEF Import, ExistInv, WorkInv
<1>7. ASSUME NEW w \in Work, SetDependencies(w) PROVE LatestInv'
  BY <1>7, PairIsAttempt DEF SetDependencies, ExistInv, WorkInv
<1>8. ASSUME NEW w \in Work, Accept(w) PROVE LatestInv'
  BY <1>8, PairIsAttempt DEF Accept, ExistInv, WorkInv
<1>9. ASSUME NEW w \in Work, Reject(w) PROVE LatestInv'
  BY <1>9, PairIsAttempt DEF Reject, ExistInv, WorkInv
<1>10. ASSUME NEW w \in Work, Pause(w) PROVE LatestInv'
  <2>1. Cancelling({a \in ActiveOf({w}) : ~stopped[a]}) /\ UNCHANGED <<gen, area, runtime, inputs>>
    BY <1>10 DEF Pause
  <2>2. \A a \in {a \in ActiveOf({w}) : ~stopped[a]} : a \in Attempt => astate[a] # "none"
    BY ActiveExists
  <2>8. ExistInv'
    BY <2>1, <2>2, CancellingExisting
  <2>9. WorkInv'
    BY <1>10 DEF Pause, WorkInv
  <2> QED BY <2>8, <2>9
<1>11. ASSUME NEW w \in Work, NEW x \in Area \cup {None}, Start(w, x) PROVE LatestInv'
  <2>1. gen[w] + 1 \in Gen /\ gen[w] \in Nat
    BY <1>11 DEF Start
  <2>2. <<w, gen[w] + 1>> \in Attempt
    BY <2>1, PairIsAttempt
  <2>3. astate[<<w, gen[w] + 1>>] = "none"
    BY <2>1 DEF ExistInv
  <2>4. ASSUME NEW v \in Work, NEW g \in Gen
        PROVE  astate'[<<v, g>>] # "none" <=> g <= gen'[v]
    <3>1. <<v, g>> \in Attempt /\ gen[v] \in Nat
      BY PairIsAttempt
    <3>2. CASE v = w /\ g = gen[w] + 1
      BY <1>11, <2>1, <2>2, <3>2 DEF Start
    <3>3. CASE ~(v = w /\ g = gen[w] + 1)
      <4>1. astate'[<<v, g>>] = astate[<<v, g>>]
        BY <1>11, <3>1, <3>3 DEF Start
      <4>2. gen'[v] = IF v = w THEN gen[w] + 1 ELSE gen[v]
        BY <1>11 DEF Start
      <4>3. astate[<<v, g>>] # "none" <=> g <= gen[v]
        BY DEF ExistInv
      <4>4. g <= gen[v] <=> g <= gen'[v]
        <5>1. g \in Nat
          OBVIOUS
        <5> HIDE <1>0
        <5> QED BY <2>1, <3>1, <3>3, <4>2, <5>1
      <4> QED BY <4>1, <4>3, <4>4
    <3> QED BY <3>2, <3>3
  <2>5. ASSUME NEW a \in Attempt, astate'[a] = "none"
        PROVE  area'[a] = None /\ runtime'[a] = None /\ inputs'[a] = {}
    <3>1. a # <<w, gen[w] + 1>>
      BY <1>11, <2>2, <2>5 DEF Start
    <3> QED BY <1>11, <2>5, <3>1 DEF Start, ExistInv
  <2>8. ExistInv'
    BY <2>4, <2>5 DEF ExistInv
  <2>9. WorkInv'
    BY <1>11, <2>1 DEF Start, WorkInv
  <2> QED BY <2>8, <2>9
<1>12. ASSUME NEW w \in Work, NEW k \in Kinds, Ask(k, w) PROVE LatestInv'
  BY <1>12, PairIsAttempt DEF Ask, ExistInv, WorkInv
<1>13. ASSUME NEW g \in Goal, AcceptGoal(g) PROVE LatestInv'
  BY <1>13, PairIsAttempt DEF AcceptGoal, ExistInv, WorkInv
<1>14. ASSUME NEW r \in Request, Answer(r) PROVE LatestInv'
  BY <1>14, PairIsAttempt DEF Answer, ExistInv, WorkInv
<1>15. ASSUME NEW r \in Request, DecideApproval(r) PROVE LatestInv'
  BY <1>15, PairIsAttempt DEF DecideApproval, ExistInv, WorkInv
<1>16. ASSUME NEW a \in Attempt, NEW s \in Session, Admitted(a, s) PROVE LatestInv'
  BY <1>16, PairIsAttempt DEF Admitted, ExistInv, WorkInv
<1>17. ASSUME NEW a \in Attempt, Running(a) PROVE LatestInv'
  BY <1>17, PairIsAttempt DEF Running, ExistInv, WorkInv
<1>18. ASSUME NEW a \in Attempt, YieldForInput(a) PROVE LatestInv'
  <2>1. /\ a[1] \in Work /\ a[2] \in Gen /\ active[a[1]] = a[2] /\ gen[a[1]] = a[2]
        /\ state[a[1]] = "Active" /\ astate[a] # "none"
    BY <1>18, PairIsAttempt DEF YieldForInput, ActivePermit, CurrentAttempt
  <2>8. ExistInv'
    BY <1>18, <2>1 DEF YieldForInput, ExistInv
  <2>9. WorkInv'
    BY <1>18, <2>1 DEF YieldForInput, WorkInv
  <2> QED BY <2>8, <2>9
<1>19. ASSUME NEW a \in Attempt, ConsumeApproval(a) PROVE LatestInv'
  BY <1>19, PairIsAttempt DEF ConsumeApproval, ExistInv, WorkInv
<1>20. ASSUME NEW a \in Attempt, NEW s \in EffectState, RecordEffect(a, s) PROVE LatestInv'
  BY <1>20, PairIsAttempt DEF RecordEffect, ExistInv, WorkInv
<1>21. ASSUME NEW a \in Attempt, WriteFile(a) PROVE LatestInv'
  BY <1>21, PairIsAttempt DEF WriteFile, ExistInv, WorkInv
<1>22. ASSUME NEW a \in Attempt, Submit(a) PROVE LatestInv'
  <2>1. /\ a[1] \in Work /\ a[2] \in Gen /\ active[a[1]] = a[2] /\ gen[a[1]] = a[2]
        /\ state[a[1]] = "Active" /\ astate[a] # "none"
    BY <1>22, PairIsAttempt DEF Submit, ActivePermit, CurrentAttempt
  <2>8. ExistInv'
    BY <1>22, <2>1 DEF Submit, ExistInv
  <2>9. WorkInv'
    BY <1>22, <2>1 DEF Submit, WorkInv
  <2> QED BY <2>8, <2>9
<1>23. ASSUME NEW a \in Attempt, ConfirmStopped(a) PROVE LatestInv'
  BY <1>23, PairIsAttempt DEF ConfirmStopped, ExistInv, WorkInv
<1>24. ASSUME NEW a \in Attempt, NEW c \in BOOLEAN, RuntimeStopped(a, c) PROVE LatestInv'
  <2>1. /\ a[1] \in Work /\ a[2] \in Gen /\ astate[a] # "none"
    BY <1>24, PairIsAttempt DEF RuntimeStopped, ExistInv
  <2>2. StoppedState(a, c) # "none"
    BY <2>1 DEF StoppedState
  <2>3. state[a[1]] # "absent"
    BY <2>1, PairIsAttempt DEF ExistInv, WorkInv
  <2>8. ExistInv'
    BY <1>24, <2>1, <2>2 DEF RuntimeStopped, ExistInv
  <2>9. WorkInv'
    BY <1>24, <2>1, <2>3 DEF RuntimeStopped, WorkInv
  <2> QED BY <2>8, <2>9
<1>25. ASSUME NEW a \in Attempt, ReconcileCompleted(a) PROVE LatestInv'
  <2>1. /\ a[1] \in Work /\ a[2] \in Gen /\ active[a[1]] = a[2] /\ gen[a[1]] = a[2]
    BY <1>25, PairIsAttempt DEF ReconcileCompleted
  <2>2. \A w \in Work : paused'[w] => state'[w] = "Blocked"
    BY <1>25 DEF ReconcileCompleted, ValidSnapshot
  <2>8. ExistInv'
    BY <1>25, <2>1 DEF ReconcileCompleted, ExistInv
  <2>9. WorkInv'
    BY <1>25, <2>1, <2>2 DEF ReconcileCompleted, WorkInv
  <2> QED BY <2>8, <2>9
<1>26. ASSUME NEW a \in Attempt, OutcomeUnknown(a) PROVE LatestInv'
  BY <1>26, PairIsAttempt DEF OutcomeUnknown, ExistInv, WorkInv
<1>27. ASSUME NEW a \in Attempt, ReconcileFile(a) PROVE LatestInv'
  BY <1>27, PairIsAttempt DEF ReconcileFile, ExistInv, WorkInv
<1>28. CASE Restart
  BY <1>28, PairIsAttempt DEF Restart, ExistInv, WorkInv
<1>29. CASE UNCHANGED vars
  BY <1>29 DEF vars, workVars, attemptVars, ExistInv, WorkInv
<1> HIDE DEF LatestInv, Ticket, workVars, attemptVars
<1> QED BY <1>1, <1>2, <1>3, <1>4, <1>5, <1>6, <1>7, <1>8, <1>9, <1>10, <1>11,
       <1>12, <1>13, <1>14, <1>15, <1>16, <1>17, <1>18, <1>19, <1>20, <1>21, <1>22, <1>23,
       <1>24, <1>25, <1>26, <1>27, <1>28, <1>29 DEF Next

-----------------------------------------------------------------------------
(* Workspaces and sessions. *)

\* A failed or cancelled attempt is stopped with its effects settled.
SettledInv ==
  \A a \in Attempt : astate[a] \in {"Failed", "Cancelled"} => ~Unsettled(a)

LEMMA InitSettledInv == Init => SettledInv
BY DEF Init, SettledInv

LEMMA NextSettledInv == TypeOK /\ SettledInv /\ [Next]_vars => SettledInv'
<1> SUFFICES ASSUME TypeOK, SettledInv, [Next]_vars PROVE SettledInv'
  OBVIOUS
<1>0. AttemptsOK
  BY DEF TypeOK
<1> USE <1>0 DEF SettledInv, Unsettled, AttemptsOK, workVars, attemptVars
<1>1. ASSUME NEW t \in Ticket, Create(t) PROVE SettledInv'
  BY <1>1 DEF Create
<1>2. ASSUME NEW t \in Ticket, Ready(t) PROVE SettledInv'
  BY <1>2 DEF Ready
<1>3. ASSUME NEW t \in Ticket, UpdateContract(t) PROVE SettledInv'
  <2>1. \A b \in Attempt : astate'[b] \in {astate[b], "Cancelling"}
    BY <1>3 DEF UpdateContract, Cancelling
  <2> QED BY <1>3, <2>1 DEF UpdateContract
<1>4. ASSUME NEW t \in Ticket, Cancel(t) PROVE SettledInv'
  <2>1. \A b \in Attempt : astate'[b] \in {astate[b], "Cancelling"}
    BY <1>4 DEF Cancel, Cancelling
  <2> QED BY <1>4, <2>1 DEF Cancel
<1>5. ASSUME NEW t \in Ticket, Reopen(t) PROVE SettledInv'
  <2>1. \A b \in Attempt : astate'[b] \in {astate[b], "Cancelling"}
    BY <1>5 DEF Reopen, Cancelling
  <2> QED BY <1>5, <2>1 DEF Reopen
<1>6. ASSUME NEW w \in Work, Import(w) PROVE SettledInv'
  BY <1>6 DEF Import
<1>7. ASSUME NEW w \in Work, SetDependencies(w) PROVE SettledInv'
  BY <1>7 DEF SetDependencies
<1>8. ASSUME NEW w \in Work, Accept(w) PROVE SettledInv'
  BY <1>8 DEF Accept
<1>9. ASSUME NEW w \in Work, Reject(w) PROVE SettledInv'
  BY <1>9 DEF Reject
<1>10. ASSUME NEW w \in Work, Pause(w) PROVE SettledInv'
  <2>1. \A b \in Attempt : astate'[b] \in {astate[b], "Cancelling"}
    BY <1>10 DEF Pause, Cancelling
  <2> QED BY <1>10, <2>1 DEF Pause
<1>11. ASSUME NEW w \in Work, NEW x \in Area \cup {None}, Start(w, x) PROVE SettledInv'
  <2>1. \A b \in Attempt : astate'[b] \in {astate[b], "DispatchPending"}
    BY <1>11 DEF Start
  <2> QED BY <1>11, <2>1 DEF Start
<1>12. ASSUME NEW w \in Work, NEW k \in Kinds, Ask(k, w) PROVE SettledInv'
  BY <1>12 DEF Ask
<1>13. ASSUME NEW g \in Goal, AcceptGoal(g) PROVE SettledInv'
  BY <1>13 DEF AcceptGoal
<1>14. ASSUME NEW r \in Request, Answer(r) PROVE SettledInv'
  BY <1>14 DEF Answer
<1>15. ASSUME NEW r \in Request, DecideApproval(r) PROVE SettledInv'
  BY <1>15 DEF DecideApproval
<1>16. ASSUME NEW a \in Attempt, NEW s \in Session, Admitted(a, s) PROVE SettledInv'
  BY <1>16 DEF Admitted
<1>17. ASSUME NEW a \in Attempt, Running(a) PROVE SettledInv'
  BY <1>17 DEF Running
<1>18. ASSUME NEW a \in Attempt, YieldForInput(a) PROVE SettledInv'
  BY <1>18 DEF YieldForInput
<1>19. ASSUME NEW a \in Attempt, ConsumeApproval(a) PROVE SettledInv'
  <2>1. astate[a] \in {"Admitted", "Running"} /\ ~stopped[a]
    BY <1>19 DEF ConsumeApproval, ActivePermit, CurrentAttempt
  <2>2. \A b \in Attempt \ {a} : effect'[b] = effect[b]
    BY <1>19 DEF ConsumeApproval
  <2> QED BY <1>19, <2>1, <2>2 DEF ConsumeApproval
<1>20. ASSUME NEW a \in Attempt, NEW s \in EffectState, RecordEffect(a, s) PROVE SettledInv'
  <2>1. astate[a] \in {"Admitted", "Running"} /\ ~stopped[a]
    BY <1>20 DEF RecordEffect, ActivePermit, CurrentAttempt
  <2>2. \A b \in Attempt \ {a} : effect'[b] = effect[b]
    BY <1>20 DEF RecordEffect
  <2> QED BY <1>20, <2>1, <2>2 DEF RecordEffect
<1>21. ASSUME NEW a \in Attempt, WriteFile(a) PROVE SettledInv'
  <2>1. astate[a] \in {"Admitted", "Running"} /\ ~stopped[a]
    BY <1>21 DEF WriteFile, ActivePermit, CurrentAttempt
  <2>2. \A b \in Attempt \ {a} : effect'[b] = effect[b]
    BY <1>21 DEF WriteFile
  <2> QED BY <1>21, <2>1, <2>2 DEF WriteFile
<1>22. ASSUME NEW a \in Attempt, Submit(a) PROVE SettledInv'
  BY <1>22 DEF Submit
<1>23. ASSUME NEW a \in Attempt, ConfirmStopped(a) PROVE SettledInv'
  <2>1. \A b \in Attempt \ {a} : UNCHANGED <<astate[b], effect[b], stopped[b]>>
    BY <1>23 DEF ConfirmStopped
  <2>2. stopped'[a] /\ ~Unresolved(effect'[a])
    BY <1>23 DEF ConfirmStopped
  <2> QED BY <2>1, <2>2
<1>24. ASSUME NEW a \in Attempt, NEW c \in BOOLEAN, RuntimeStopped(a, c) PROVE SettledInv'
  <2>1. \A b \in Attempt \ {a} : UNCHANGED <<astate[b], effect[b], stopped[b]>>
    BY <1>24 DEF RuntimeStopped
  <2>2. stopped'[a] /\ effect'[a] = effect[a] /\ astate'[a] = StoppedState(a, c)
    BY <1>24 DEF RuntimeStopped
  <2>3. Unresolved(effect[a]) => StoppedState(a, c) = "OutcomeUnknown"
    BY DEF StoppedState
  <2> QED BY <2>1, <2>2, <2>3
<1>25. ASSUME NEW a \in Attempt, ReconcileCompleted(a) PROVE SettledInv'
  BY <1>25 DEF ReconcileCompleted
<1>26. ASSUME NEW a \in Attempt, OutcomeUnknown(a) PROVE SettledInv'
  BY <1>26 DEF OutcomeUnknown
<1>27. ASSUME NEW a \in Attempt, ReconcileFile(a) PROVE SettledInv'
  <2>1. \A b \in Attempt \ {a} : UNCHANGED <<astate[b], effect[b], stopped[b]>>
    BY <1>27 DEF ReconcileFile
  <2>2. stopped'[a] /\ (Unresolved(effect'[a]) => astate'[a] = "OutcomeUnknown")
    BY <1>27 DEF ReconcileFile
  <2> QED BY <2>1, <2>2
<1>28. CASE Restart
  BY <1>28 DEF Restart
<1>29. CASE UNCHANGED vars
  BY <1>29 DEF vars, workVars, attemptVars
<1> HIDE DEF SettledInv, workVars, attemptVars
<1> QED BY <1>1, <1>2, <1>3, <1>4, <1>5, <1>6, <1>7, <1>8, <1>9, <1>10, <1>11,
       <1>12, <1>13, <1>14, <1>15, <1>16, <1>17, <1>18, <1>19, <1>20, <1>21, <1>22, <1>23,
       <1>24, <1>25, <1>26, <1>27, <1>28, <1>29 DEF Next

\* A settled attempt stays settled: effects start only under an active permit.
LEMMA NextSettled == TypeOK /\ [Next]_vars => \A a \in Attempt : Unsettled(a)' => Unsettled(a)
<1> DEFINE Kept == \A b \in Attempt : Unsettled(b)' => Unsettled(b)
<1> SUFFICES ASSUME TypeOK, [Next]_vars PROVE Kept
  OBVIOUS
<1>0. AttemptsOK
  BY DEF TypeOK
<1> USE <1>0 DEF AttemptsOK, Unsettled, workVars, attemptVars
<1>1. ASSUME NEW t \in Ticket, Create(t) PROVE Kept
  BY <1>1 DEF Create
<1>2. ASSUME NEW t \in Ticket, Ready(t) PROVE Kept
  BY <1>2 DEF Ready
<1>3. ASSUME NEW t \in Ticket, UpdateContract(t) PROVE Kept
  BY <1>3 DEF UpdateContract
<1>4. ASSUME NEW t \in Ticket, Cancel(t) PROVE Kept
  BY <1>4 DEF Cancel
<1>5. ASSUME NEW t \in Ticket, Reopen(t) PROVE Kept
  BY <1>5 DEF Reopen
<1>6. ASSUME NEW w \in Work, Import(w) PROVE Kept
  BY <1>6 DEF Import
<1>7. ASSUME NEW w \in Work, SetDependencies(w) PROVE Kept
  BY <1>7 DEF SetDependencies
<1>8. ASSUME NEW w \in Work, Accept(w) PROVE Kept
  BY <1>8 DEF Accept
<1>9. ASSUME NEW w \in Work, Reject(w) PROVE Kept
  BY <1>9 DEF Reject
<1>10. ASSUME NEW w \in Work, Pause(w) PROVE Kept
  BY <1>10 DEF Pause
<1>11. ASSUME NEW w \in Work, NEW x \in Area \cup {None}, Start(w, x) PROVE Kept
  BY <1>11 DEF Start
<1>12. ASSUME NEW w \in Work, NEW k \in Kinds, Ask(k, w) PROVE Kept
  BY <1>12 DEF Ask
<1>13. ASSUME NEW g \in Goal, AcceptGoal(g) PROVE Kept
  BY <1>13 DEF AcceptGoal
<1>14. ASSUME NEW r \in Request, Answer(r) PROVE Kept
  BY <1>14 DEF Answer
<1>15. ASSUME NEW r \in Request, DecideApproval(r) PROVE Kept
  BY <1>15 DEF DecideApproval
<1>16. ASSUME NEW a \in Attempt, NEW s \in Session, Admitted(a, s) PROVE Kept
  BY <1>16 DEF Admitted
<1>17. ASSUME NEW a \in Attempt, Running(a) PROVE Kept
  BY <1>17 DEF Running
<1>18. ASSUME NEW a \in Attempt, YieldForInput(a) PROVE Kept
  BY <1>18 DEF YieldForInput
<1>19. ASSUME NEW a \in Attempt, ConsumeApproval(a) PROVE Kept
  <2>1. astate[a] \in {"Admitted", "Running"} /\ ~stopped[a]
    BY <1>19 DEF ConsumeApproval, ActivePermit, CurrentAttempt
  <2>2. \A b \in Attempt \ {a} : effect'[b] = effect[b]
    BY <1>19 DEF ConsumeApproval
  <2> QED BY <1>19, <2>1, <2>2 DEF ConsumeApproval
<1>20. ASSUME NEW a \in Attempt, NEW s \in EffectState, RecordEffect(a, s) PROVE Kept
  <2>1. astate[a] \in {"Admitted", "Running"} /\ ~stopped[a]
    BY <1>20 DEF RecordEffect, ActivePermit, CurrentAttempt
  <2>2. \A b \in Attempt \ {a} : effect'[b] = effect[b]
    BY <1>20 DEF RecordEffect
  <2> QED BY <1>20, <2>1, <2>2 DEF RecordEffect
<1>21. ASSUME NEW a \in Attempt, WriteFile(a) PROVE Kept
  <2>1. astate[a] \in {"Admitted", "Running"} /\ ~stopped[a]
    BY <1>21 DEF WriteFile, ActivePermit, CurrentAttempt
  <2>2. \A b \in Attempt \ {a} : effect'[b] = effect[b]
    BY <1>21 DEF WriteFile
  <2> QED BY <1>21, <2>1, <2>2 DEF WriteFile
<1>22. ASSUME NEW a \in Attempt, Submit(a) PROVE Kept
  BY <1>22 DEF Submit
<1>23. ASSUME NEW a \in Attempt, ConfirmStopped(a) PROVE Kept
  BY <1>23 DEF ConfirmStopped
<1>24. ASSUME NEW a \in Attempt, NEW c \in BOOLEAN, RuntimeStopped(a, c) PROVE Kept
  BY <1>24 DEF RuntimeStopped
<1>25. ASSUME NEW a \in Attempt, ReconcileCompleted(a) PROVE Kept
  BY <1>25 DEF ReconcileCompleted
<1>26. ASSUME NEW a \in Attempt, OutcomeUnknown(a) PROVE Kept
  BY <1>26 DEF OutcomeUnknown
<1>27. ASSUME NEW a \in Attempt, ReconcileFile(a) PROVE Kept
  <2>1. \A b \in Attempt \ {a} : effect'[b] = effect[b]
    BY <1>27 DEF ReconcileFile
  <2>2. Unresolved(effect[a])
    BY <1>27 DEF ReconcileFile, Unresolved, EffectKind
  <2> QED BY <1>27, <2>1, <2>2 DEF ReconcileFile
<1>28. CASE Restart
  BY <1>28 DEF Restart
<1>29. CASE UNCHANGED vars
  BY <1>29 DEF vars, workVars, attemptVars
<1> HIDE DEF Kept, workVars, attemptVars
<1> QED BY <1>1, <1>2, <1>3, <1>4, <1>5, <1>6, <1>7, <1>8, <1>9, <1>10, <1>11,
       <1>12, <1>13, <1>14, <1>15, <1>16, <1>17, <1>18, <1>19, <1>20, <1>21, <1>22, <1>23,
       <1>24, <1>25, <1>26, <1>27, <1>28, <1>29 DEF Next

LEMMA QuietExclusive ==
  ASSUME LatestInv, LatestInv', TypeOK, Exclusive, UNCHANGED <<gen, area, runtime>>,
         \A a \in Attempt : Unsettled(a)' => Unsettled(a)
  PROVE  Exclusive'
<1>1. \A a \in Attempt : astate'[a] # "none" => astate[a] # "none"
  <2> SUFFICES ASSUME NEW w \in Work, NEW g \in Gen, astate'[<<w, g>>] # "none"
               PROVE  astate[<<w, g>>] # "none"
    BY PairIsAttempt
  <2> QED BY DEF LatestInv, ExistInv
<1> QED BY <1>1 DEF Exclusive

LEMMA HoldsIfUnsettled ==
  ASSUME AttemptsOK, SettledInv, NEW a \in Attempt, astate[a] # "none", Unsettled(a)
  PROVE  HoldsResources(a)
BY DEF AttemptsOK, SettledInv, HoldsResources, Unsettled, AssignmentState

LEMMA NextExclusive ==
  TypeOK /\ LatestInv /\ LatestInv' /\ SettledInv /\ Exclusive /\ [Next]_vars => Exclusive'
<1> SUFFICES ASSUME TypeOK, LatestInv, LatestInv', SettledInv, Exclusive, [Next]_vars
             PROVE  Exclusive'
  OBVIOUS
<1>0. /\ AttemptsOK /\ ExistInv
      /\ \A a \in Attempt : Unsettled(a)' => Unsettled(a)
  BY NextSettled DEF TypeOK, LatestInv
<1> USE <1>0 DEF AttemptsOK, workVars, attemptVars
<1>1. ASSUME NEW t \in Ticket, Create(t) PROVE Exclusive'
  BY <1>1, QuietExclusive DEF Create
<1>2. ASSUME NEW t \in Ticket, Ready(t) PROVE Exclusive'
  BY <1>2, QuietExclusive DEF Ready
<1>3. ASSUME NEW t \in Ticket, UpdateContract(t) PROVE Exclusive'
  BY <1>3, QuietExclusive DEF UpdateContract
<1>4. ASSUME NEW t \in Ticket, Cancel(t) PROVE Exclusive'
  BY <1>4, QuietExclusive DEF Cancel
<1>5. ASSUME NEW t \in Ticket, Reopen(t) PROVE Exclusive'
  BY <1>5, QuietExclusive DEF Reopen
<1>6. ASSUME NEW w \in Work, Import(w) PROVE Exclusive'
  BY <1>6, QuietExclusive DEF Import
<1>7. ASSUME NEW w \in Work, SetDependencies(w) PROVE Exclusive'
  BY <1>7, QuietExclusive DEF SetDependencies
<1>8. ASSUME NEW w \in Work, Accept(w) PROVE Exclusive'
  BY <1>8, QuietExclusive DEF Accept
<1>9. ASSUME NEW w \in Work, Reject(w) PROVE Exclusive'
  BY <1>9, QuietExclusive DEF Reject
<1>10. ASSUME NEW w \in Work, Pause(w) PROVE Exclusive'
  BY <1>10, QuietExclusive DEF Pause
<1>11. ASSUME NEW w \in Work, NEW x \in Area \cup {None}, Start(w, x) PROVE Exclusive'
  <2> DEFINE n == <<w, gen[w] + 1>>
  <2>1. gen[w] + 1 \in Gen /\ ~(gen[w] + 1 <= gen[w])
    BY <1>11, BoundAssumption DEF Start, Gen, TypeOK, WorksOK
  <2>2. n \in Attempt
    BY <2>1, PairIsAttempt
  <2>3. astate[n] = "none" /\ runtime[n] = None
    BY <2>1, <2>2 DEF ExistInv
  <2> HIDE DEF n
  <2>4. /\ area' = [area EXCEPT ![n] = x] /\ runtime' = runtime
        /\ astate' = [astate EXCEPT ![n] = "DispatchPending"]
        /\ x # None => \A b \in Attempt : HoldsResources(b) => area[b] # x
    BY <1>11 DEF Start, n
  <2>5. \A b \in Attempt \ {n} : astate'[b] = astate[b] /\ area'[b] = area[b]
    BY <2>4
  <2>6. area'[n] = x /\ runtime'[n] = None
    BY <2>2, <2>3, <2>4
  <2>7. \A b \in Attempt : astate[b] # "none" /\ Unsettled(b) => x = None \/ area[b] # x
    BY <2>4, HoldsIfUnsettled
  <2> QED BY <2>2, <2>4, <2>5, <2>6, <2>7 DEF Exclusive
<1>12. ASSUME NEW w \in Work, NEW k \in Kinds, Ask(k, w) PROVE Exclusive'
  BY <1>12, QuietExclusive DEF Ask
<1>13. ASSUME NEW g \in Goal, AcceptGoal(g) PROVE Exclusive'
  BY <1>13, QuietExclusive DEF AcceptGoal
<1>14. ASSUME NEW r \in Request, Answer(r) PROVE Exclusive'
  BY <1>14, QuietExclusive DEF Answer
<1>15. ASSUME NEW r \in Request, DecideApproval(r) PROVE Exclusive'
  BY <1>15, QuietExclusive DEF DecideApproval
<1>16. ASSUME NEW a \in Attempt, NEW s \in Session, Admitted(a, s) PROVE Exclusive'
  <2>1. /\ runtime' = [runtime EXCEPT ![a] = s] /\ area' = area
        /\ astate' = [astate EXCEPT ![a] = "Admitted"] /\ astate[a] # "none"
        /\ \A b \in Attempt \ {a} : HoldsResources(b)
             => (area[a] # None => area[b] # area[a]) /\ runtime[b] # s
    BY <1>16 DEF Admitted
  <2>2. \A b \in Attempt : astate'[b] # "none" <=> astate[b] # "none"
    BY <2>1
  <2>3. \A b \in Attempt \ {a} : runtime'[b] = runtime[b]
    BY <2>1
  <2>4. \A b \in Attempt \ {a} : astate[b] # "none" /\ Unsettled(b) => runtime[b] # s
    BY <2>1, HoldsIfUnsettled
  <2> QED BY <2>1, <2>2, <2>3, <2>4 DEF Exclusive
<1>17. ASSUME NEW a \in Attempt, Running(a) PROVE Exclusive'
  BY <1>17, QuietExclusive DEF Running
<1>18. ASSUME NEW a \in Attempt, YieldForInput(a) PROVE Exclusive'
  BY <1>18, QuietExclusive DEF YieldForInput
<1>19. ASSUME NEW a \in Attempt, ConsumeApproval(a) PROVE Exclusive'
  BY <1>19, QuietExclusive DEF ConsumeApproval
<1>20. ASSUME NEW a \in Attempt, NEW s \in EffectState, RecordEffect(a, s) PROVE Exclusive'
  BY <1>20, QuietExclusive DEF RecordEffect
<1>21. ASSUME NEW a \in Attempt, WriteFile(a) PROVE Exclusive'
  BY <1>21, QuietExclusive DEF WriteFile
<1>22. ASSUME NEW a \in Attempt, Submit(a) PROVE Exclusive'
  BY <1>22, QuietExclusive DEF Submit
<1>23. ASSUME NEW a \in Attempt, ConfirmStopped(a) PROVE Exclusive'
  BY <1>23, QuietExclusive DEF ConfirmStopped
<1>24. ASSUME NEW a \in Attempt, NEW c \in BOOLEAN, RuntimeStopped(a, c) PROVE Exclusive'
  BY <1>24, QuietExclusive DEF RuntimeStopped
<1>25. ASSUME NEW a \in Attempt, ReconcileCompleted(a) PROVE Exclusive'
  BY <1>25, QuietExclusive DEF ReconcileCompleted
<1>26. ASSUME NEW a \in Attempt, OutcomeUnknown(a) PROVE Exclusive'
  BY <1>26, QuietExclusive DEF OutcomeUnknown
<1>27. ASSUME NEW a \in Attempt, ReconcileFile(a) PROVE Exclusive'
  BY <1>27, QuietExclusive DEF ReconcileFile
<1>28. CASE Restart
  BY <1>28, QuietExclusive DEF Restart
<1>29. CASE UNCHANGED vars
  BY <1>29 DEF vars, Exclusive
<1> HIDE DEF workVars, attemptVars
<1> QED BY <1>1, <1>2, <1>3, <1>4, <1>5, <1>6, <1>7, <1>8, <1>9, <1>10, <1>11,
       <1>12, <1>13, <1>14, <1>15, <1>16, <1>17, <1>18, <1>19, <1>20, <1>21, <1>22, <1>23,
       <1>24, <1>25, <1>26, <1>27, <1>28, <1>29 DEF Next

-----------------------------------------------------------------------------
(* Acceptance. *)

\* A submission that is still current hides no effect in doubt.
SubmittedInv ==
  \A w \in Work : current[w] # 0
    => (Unresolved(effect[<<w, current[w]>>]) => Unresolved(submission[<<w, current[w]>>]))

LEMMA InitSubmittedInv == Init => SubmittedInv
BY DEF Init, SubmittedInv

LEMMA NextSubmittedInv == TypeOK /\ LatestInv /\ SubmittedInv /\ [Next]_vars => SubmittedInv'
<1> SUFFICES ASSUME TypeOK, LatestInv, SubmittedInv, [Next]_vars PROVE SubmittedInv'
  OBVIOUS
<1>0. /\ \A w \in Work : current[w] \in Nat /\ (current[w] # 0 => <<w, current[w]>> \in Attempt)
      /\ WorksOK /\ AttemptsOK /\ WorkInv
  BY PairIsAttempt, BoundAssumption DEF TypeOK, WorksOK, LatestInv, Gen
<1> USE <1>0 DEF SubmittedInv, WorksOK, AttemptsOK, workVars, attemptVars
<1>1. ASSUME NEW t \in Ticket, Create(t) PROVE SubmittedInv'
  BY <1>1 DEF Create
<1>2. ASSUME NEW t \in Ticket, Ready(t) PROVE SubmittedInv'
  BY <1>2 DEF Ready
<1>3. ASSUME NEW t \in Ticket, UpdateContract(t) PROVE SubmittedInv'
  BY <1>3 DEF UpdateContract
<1>4. ASSUME NEW t \in Ticket, Cancel(t) PROVE SubmittedInv'
  BY <1>4 DEF Cancel
<1>5. ASSUME NEW t \in Ticket, Reopen(t) PROVE SubmittedInv'
  BY <1>5 DEF Reopen
<1>6. ASSUME NEW w \in Work, Import(w) PROVE SubmittedInv'
  BY <1>6 DEF Import
<1>7. ASSUME NEW w \in Work, SetDependencies(w) PROVE SubmittedInv'
  BY <1>7 DEF SetDependencies
<1>8. ASSUME NEW w \in Work, Accept(w) PROVE SubmittedInv'
  BY <1>8 DEF Accept
<1>9. ASSUME NEW w \in Work, Reject(w) PROVE SubmittedInv'
  BY <1>9 DEF Reject
<1>10. ASSUME NEW w \in Work, Pause(w) PROVE SubmittedInv'
  BY <1>10 DEF Pause
<1>11. ASSUME NEW w \in Work, NEW x \in Area \cup {None}, Start(w, x) PROVE SubmittedInv'
  <2>1. \A v \in Work : current'[v] \in {0, current[v]}
    BY <1>11 DEF Start
  <2> QED BY <1>11, <2>1 DEF Start
<1>12. ASSUME NEW w \in Work, NEW k \in Kinds, Ask(k, w) PROVE SubmittedInv'
  BY <1>12 DEF Ask
<1>13. ASSUME NEW g \in Goal, AcceptGoal(g) PROVE SubmittedInv'
  BY <1>13 DEF AcceptGoal
<1>14. ASSUME NEW r \in Request, Answer(r) PROVE SubmittedInv'
  BY <1>14 DEF Answer
<1>15. ASSUME NEW r \in Request, DecideApproval(r) PROVE SubmittedInv'
  BY <1>15 DEF DecideApproval
<1>16. ASSUME NEW a \in Attempt, NEW s \in Session, Admitted(a, s) PROVE SubmittedInv'
  BY <1>16 DEF Admitted
<1>17. ASSUME NEW a \in Attempt, Running(a) PROVE SubmittedInv'
  BY <1>17 DEF Running
<1>18. ASSUME NEW a \in Attempt, YieldForInput(a) PROVE SubmittedInv'
  BY <1>18 DEF YieldForInput
<1>19. ASSUME NEW a \in Attempt, ConsumeApproval(a) PROVE SubmittedInv'
  <2>1. a[1] \in Work /\ a = <<a[1], a[2]>> /\ active[a[1]] = a[2] /\ a[2] # 0
    BY <1>19, PairIsAttempt DEF ConsumeApproval, ActivePermit, CurrentAttempt, Gen
  <2>2. \A b \in Attempt \ {a} : effect'[b] = effect[b]
    BY <1>19 DEF ConsumeApproval
  <2>3. \A w \in Work : current[w] # 0 => <<w, current[w]>> # a
    BY <2>1 DEF WorkInv
  <2> QED BY <1>19, <2>2, <2>3 DEF ConsumeApproval
<1>20. ASSUME NEW a \in Attempt, NEW s \in EffectState, RecordEffect(a, s) PROVE SubmittedInv'
  <2>1. a[1] \in Work /\ a = <<a[1], a[2]>> /\ active[a[1]] = a[2] /\ a[2] # 0
    BY <1>20, PairIsAttempt DEF RecordEffect, ActivePermit, CurrentAttempt, Gen
  <2>2. \A b \in Attempt \ {a} : effect'[b] = effect[b]
    BY <1>20 DEF RecordEffect
  <2>3. \A w \in Work : current[w] # 0 => <<w, current[w]>> # a
    BY <2>1 DEF WorkInv
  <2> QED BY <1>20, <2>2, <2>3 DEF RecordEffect
<1>21. ASSUME NEW a \in Attempt, WriteFile(a) PROVE SubmittedInv'
  <2>1. a[1] \in Work /\ a = <<a[1], a[2]>> /\ active[a[1]] = a[2] /\ a[2] # 0
    BY <1>21, PairIsAttempt DEF WriteFile, ActivePermit, CurrentAttempt, Gen
  <2>2. \A b \in Attempt \ {a} : effect'[b] = effect[b]
    BY <1>21 DEF WriteFile
  <2>3. \A w \in Work : current[w] # 0 => <<w, current[w]>> # a
    BY <2>1 DEF WorkInv
  <2> QED BY <1>21, <2>2, <2>3 DEF WriteFile
<1>22. ASSUME NEW a \in Attempt, Submit(a) PROVE SubmittedInv'
  <2>1. a[1] \in Work /\ a = <<a[1], a[2]>>
    BY PairIsAttempt
  <2>2. \A v \in Work \ {a[1]} : current'[v] = current[v] /\ <<v, current[v]>> # a
    BY <1>22, <2>1 DEF Submit
  <2>3. \A b \in Attempt \ {a} : submission'[b] = submission[b]
    BY <1>22 DEF Submit
  <2>4. current'[a[1]] = a[2] /\ effect' = effect /\ submission'[a] = effect[a]
    BY <1>22, <2>1 DEF Submit
  <2> QED BY <2>1, <2>2, <2>3, <2>4
<1>23. ASSUME NEW a \in Attempt, ConfirmStopped(a) PROVE SubmittedInv'
  BY <1>23 DEF ConfirmStopped
<1>24. ASSUME NEW a \in Attempt, NEW c \in BOOLEAN, RuntimeStopped(a, c) PROVE SubmittedInv'
  BY <1>24 DEF RuntimeStopped
<1>25. ASSUME NEW a \in Attempt, ReconcileCompleted(a) PROVE SubmittedInv'
  BY <1>25 DEF ReconcileCompleted
<1>26. ASSUME NEW a \in Attempt, OutcomeUnknown(a) PROVE SubmittedInv'
  BY <1>26 DEF OutcomeUnknown
<1>27. ASSUME NEW a \in Attempt, ReconcileFile(a) PROVE SubmittedInv'
  <2>1. \A b \in Attempt \ {a} : effect'[b] = effect[b]
    BY <1>27 DEF ReconcileFile
  <2>2. Unresolved(effect[a])
    BY <1>27 DEF ReconcileFile, Unresolved, EffectKind
  <2> QED BY <1>27, <2>1, <2>2 DEF ReconcileFile
<1>28. CASE Restart
  BY <1>28 DEF Restart
<1>29. CASE UNCHANGED vars
  BY <1>29 DEF vars, workVars, attemptVars
<1> HIDE DEF SubmittedInv, workVars, attemptVars
<1> QED BY <1>1, <1>2, <1>3, <1>4, <1>5, <1>6, <1>7, <1>8, <1>9, <1>10, <1>11,
       <1>12, <1>13, <1>14, <1>15, <1>16, <1>17, <1>18, <1>19, <1>20, <1>21, <1>22, <1>23,
       <1>24, <1>25, <1>26, <1>27, <1>28, <1>29 DEF Next

LEMMA NextAcceptedSound ==
  TypeOK /\ LatestInv /\ SubmittedInv /\ AcceptedSound /\ [Next]_vars => AcceptedSound'
<1> SUFFICES ASSUME TypeOK, LatestInv, SubmittedInv, AcceptedSound, [Next]_vars
             PROVE  AcceptedSound'
  OBVIOUS
<1>0. /\ \A w \in Work : gen[w] # 0 => <<w, gen[w]>> \in Attempt
      /\ \A a \in Attempt : Unsettled(a)' => Unsettled(a)
      /\ WorksOK /\ AttemptsOK
  BY PairIsAttempt, BoundAssumption, NextSettled DEF TypeOK, WorksOK, Gen
<1> USE <1>0, TicketAssumption
        DEF AcceptedSound, WorksOK, AttemptsOK, Ticket, workVars, attemptVars
<1>1. ASSUME NEW t \in Ticket, Create(t) PROVE AcceptedSound'
  BY <1>1 DEF Create
<1>2. ASSUME NEW t \in Ticket, Ready(t) PROVE AcceptedSound'
  BY <1>2 DEF Ready
<1>3. ASSUME NEW t \in Ticket, UpdateContract(t) PROVE AcceptedSound'
  <2> DEFINE s == IF t \in Work /\ (active[t] # 0 \/ paused[t]) THEN "Blocked" ELSE "Ready"
             b == IF t \in Work /\ (active[t] # 0 \/ paused[t]) THEN "Ready" ELSE None
  <2>1. Revoke(t, s, b) /\ s \in WorkState /\ b \in WorkState \cup {None}
        /\ s \notin {"Active", "Submitted", "Accepted"}
    BY <1>3 DEF UpdateContract, WorkState
  <2> HIDE DEF s, b
  <2>2. \A w \in Work : state'[w] = "Accepted"
          => /\ w # t /\ state[w] = "Accepted" /\ accepted'[w] = accepted[w]
    BY <2>1, RevokeEffect
  <2> QED BY <1>3, <2>2 DEF UpdateContract
<1>4. ASSUME NEW t \in Ticket, Cancel(t) PROVE AcceptedSound'
  <2> DEFINE s == "Cancelled"
             b == None
  <2>1. Revoke(t, s, b) /\ s \in WorkState /\ b \in WorkState \cup {None}
        /\ s \notin {"Active", "Submitted", "Accepted"}
    BY <1>4 DEF Cancel, WorkState
  <2> HIDE DEF s, b
  <2>2. \A w \in Work : state'[w] = "Accepted"
          => /\ w # t /\ state[w] = "Accepted" /\ accepted'[w] = accepted[w]
    BY <2>1, RevokeEffect
  <2> QED BY <1>4, <2>2 DEF Cancel
<1>5. ASSUME NEW t \in Ticket, Reopen(t) PROVE AcceptedSound'
  <2> DEFINE s == "Ready"
             b == None
  <2>1. Revoke(t, s, b) /\ s \in WorkState /\ b \in WorkState \cup {None}
        /\ s \notin {"Active", "Submitted", "Accepted"}
    BY <1>5 DEF Reopen, WorkState
  <2> HIDE DEF s, b
  <2>2. \A w \in Work : state'[w] = "Accepted"
          => /\ w # t /\ state[w] = "Accepted" /\ accepted'[w] = accepted[w]
    BY <2>1, RevokeEffect
  <2> QED BY <1>5, <2>2 DEF Reopen
<1>6. ASSUME NEW w \in Work, Import(w) PROVE AcceptedSound'
  BY <1>6 DEF Import
<1>7. ASSUME NEW w \in Work, SetDependencies(w) PROVE AcceptedSound'
  BY <1>7 DEF SetDependencies
<1>8. ASSUME NEW w \in Work, Accept(w) PROVE AcceptedSound'
  <2>1. /\ state[w] = "Submitted" /\ current[w] # 0 /\ current[w] = gen[w]
        /\ arev[<<w, gen[w]>>] = rev[w] /\ stopped[<<w, gen[w]>>]
        /\ ~Unresolved(submission[<<w, gen[w]>>])
        /\ UNCHANGED <<gen, rev, arev, stopped, effect>>
    BY <1>8 DEF Accept
  <2>2. ~Unsettled(<<w, gen[w]>>)'
    BY <2>1 DEF SubmittedInv, Unsettled
  <2> QED BY <1>8, <2>1, <2>2 DEF Accept
<1>9. ASSUME NEW w \in Work, Reject(w) PROVE AcceptedSound'
  BY <1>9 DEF Reject
<1>10. ASSUME NEW w \in Work, Pause(w) PROVE AcceptedSound'
  BY <1>10 DEF Pause
<1>11. ASSUME NEW w \in Work, NEW x \in Area \cup {None}, Start(w, x) PROVE AcceptedSound'
  BY <1>11 DEF Start
<1>12. ASSUME NEW w \in Work, NEW k \in Kinds, Ask(k, w) PROVE AcceptedSound'
  BY <1>12 DEF Ask
<1>13. ASSUME NEW g \in Goal, AcceptGoal(g) PROVE AcceptedSound'
  BY <1>13 DEF AcceptGoal
<1>14. ASSUME NEW r \in Request, Answer(r) PROVE AcceptedSound'
  BY <1>14 DEF Answer
<1>15. ASSUME NEW r \in Request, DecideApproval(r) PROVE AcceptedSound'
  BY <1>15 DEF DecideApproval
<1>16. ASSUME NEW a \in Attempt, NEW s \in Session, Admitted(a, s) PROVE AcceptedSound'
  BY <1>16 DEF Admitted
<1>17. ASSUME NEW a \in Attempt, Running(a) PROVE AcceptedSound'
  BY <1>17 DEF Running
<1>18. ASSUME NEW a \in Attempt, YieldForInput(a) PROVE AcceptedSound'
  BY <1>18 DEF YieldForInput
<1>19. ASSUME NEW a \in Attempt, ConsumeApproval(a) PROVE AcceptedSound'
  BY <1>19 DEF ConsumeApproval
<1>20. ASSUME NEW a \in Attempt, NEW s \in EffectState, RecordEffect(a, s) PROVE AcceptedSound'
  BY <1>20 DEF RecordEffect
<1>21. ASSUME NEW a \in Attempt, WriteFile(a) PROVE AcceptedSound'
  BY <1>21 DEF WriteFile
<1>22. ASSUME NEW a \in Attempt, Submit(a) PROVE AcceptedSound'
  BY <1>22 DEF Submit
<1>23. ASSUME NEW a \in Attempt, ConfirmStopped(a) PROVE AcceptedSound'
  BY <1>23 DEF ConfirmStopped
<1>24. ASSUME NEW a \in Attempt, NEW c \in BOOLEAN, RuntimeStopped(a, c) PROVE AcceptedSound'
  BY <1>24 DEF RuntimeStopped
<1>25. ASSUME NEW a \in Attempt, ReconcileCompleted(a) PROVE AcceptedSound'
  BY <1>25 DEF ReconcileCompleted
<1>26. ASSUME NEW a \in Attempt, OutcomeUnknown(a) PROVE AcceptedSound'
  BY <1>26 DEF OutcomeUnknown
<1>27. ASSUME NEW a \in Attempt, ReconcileFile(a) PROVE AcceptedSound'
  BY <1>27 DEF ReconcileFile
<1>28. CASE Restart
  BY <1>28 DEF Restart
<1>29. CASE UNCHANGED vars
  BY <1>29 DEF vars, workVars, attemptVars
<1> HIDE DEF AcceptedSound, Ticket, workVars, attemptVars
<1> QED BY <1>1, <1>2, <1>3, <1>4, <1>5, <1>6, <1>7, <1>8, <1>9, <1>10, <1>11,
       <1>12, <1>13, <1>14, <1>15, <1>16, <1>17, <1>18, <1>19, <1>20, <1>21, <1>22, <1>23,
       <1>24, <1>25, <1>26, <1>27, <1>28, <1>29 DEF Next

-----------------------------------------------------------------------------
(* Inputs. *)

\* While nobody reports OutcomeUnknown, only accepted work has an accepted submission.
AcceptedInv == \A w \in Work : accepted[w] # 0 => state[w] = "Accepted"

InputInv == AcceptedInv /\ InputsCurrent

LEMMA InitInputInv == Init => InputInv
BY DEF Init, InputInv, AcceptedInv, InputsCurrent

\* A work that consumes n as it is accepted keeps it unless Revoke reaches the work.
LEMMA RevokeInputs ==
  ASSUME TypeOK, LatestInv, InputInv, NEW t \in Ticket, NEW s \in WorkState,
         NEW b \in WorkState \cup {None}, s \notin {"Active", "Submitted", "Accepted"},
         Revoke(t, s, b), UNCHANGED <<gen, inputs>>
  PROVE  InputInv'
<1>1. /\ \A w \in Work \ {t} : state'[w] \in {state[w], "Blocked"}
      /\ t \in Work => state'[t] \in {s, "Blocked"} /\ accepted'[t] = 0
      /\ \A w \in Affected(t) : state'[w] \in {"Blocked", "Cancelled"}
      /\ \A w \in Work \ (Affected(t) \cup {t}) : accepted'[w] = accepted[w]
      /\ \A w \in Work \ {t} : state'[w] # state[w] => accepted'[w] = 0
      /\ \A w \in Work : accepted'[w] \in {0, accepted[w]}
  BY RevokeEffect
<1>2. AcceptedInv'
  BY <1>1 DEF InputInv, AcceptedInv
<1>3. ASSUME NEW w \in Work, state'[w] \in {"Active", "Submitted", "Accepted"}, gen[w] # 0,
             NEW i \in inputs[<<w, gen[w]>>]
      PROVE  accepted'[i[1]] = i[2]
  <2>1. w \notin Affected(t) /\ w # t /\ state[w] = state'[w]
    BY <1>1, <1>3
  <2>2. gen[w] \in Gen /\ <<w, gen[w]>> \in Attempt
    BY <1>3, PairIsAttempt, BoundAssumption DEF TypeOK, WorksOK, Gen
  <2>3. i \in Attempt
    BY <2>2 DEF TypeOK, AttemptsOK
  <2>4. i[1] \in Work /\ i[2] \in Gen /\ i = <<i[1], i[2]>>
    BY <2>3, PairIsAttempt
  <2>5. w \in Consumers(i[1])
    BY <2>2, <2>4 DEF Consumers
  <2>6. i[1] \notin Affected(t) \cup {t}
    BY <2>1, <2>5, AffectedClosed
  <2>7. accepted[i[1]] = i[2]
    BY <1>3, <2>1 DEF InputInv, InputsCurrent
  <2> QED BY <1>1, <2>4, <2>6, <2>7
<1>4. InputsCurrent'
  BY <1>3 DEF InputsCurrent
<1> QED BY <1>2, <1>4 DEF InputInv

\* What a work consumes when its dependencies are met is what is accepted now.
LEMMA DependenciesCurrent ==
  ASSUME NEW w \in Work
  PROVE  \A i \in Dependencies(w) : accepted[i[1]] = i[2]
BY DEF Dependencies

LEMMA NextInputInv ==
  ~ReportUnknown /\ TypeOK /\ LatestInv /\ InputInv /\ [Next]_vars => InputInv'
<1> SUFFICES ASSUME ~ReportUnknown, TypeOK, LatestInv, InputInv, [Next]_vars PROVE InputInv'
  OBVIOUS
<1>0. WorksOK /\ AttemptsOK /\ WorkInv
      /\ \A a \in Attempt : a[1] \in Work /\ a[2] \in Nat \ {0} /\ a = <<a[1], a[2]>>
  BY PairIsAttempt DEF TypeOK, LatestInv, Gen
<1> USE <1>0, TicketAssumption
        DEF InputInv, AcceptedInv, InputsCurrent, WorksOK, AttemptsOK, Ticket,
            workVars, attemptVars
<1>1. ASSUME NEW t \in Ticket, Create(t) PROVE InputInv'
  BY <1>1 DEF Create
<1>2. ASSUME NEW t \in Ticket, Ready(t) PROVE InputInv'
  BY <1>2 DEF Ready, WorkInv
<1>3. ASSUME NEW t \in Ticket, UpdateContract(t) PROVE InputInv'
  <2> DEFINE s == IF t \in Work /\ (active[t] # 0 \/ paused[t]) THEN "Blocked" ELSE "Ready"
             b == IF t \in Work /\ (active[t] # 0 \/ paused[t]) THEN "Ready" ELSE None
  <2>1. Revoke(t, s, b) /\ s \in WorkState /\ b \in WorkState \cup {None}
        /\ s \notin {"Active", "Submitted", "Accepted"}
    BY <1>3 DEF UpdateContract, WorkState
  <2> HIDE DEF s, b
  <2> QED BY <1>3, <2>1, RevokeInputs DEF UpdateContract
<1>4. ASSUME NEW t \in Ticket, Cancel(t) PROVE InputInv'
  <2> DEFINE s == "Cancelled"
             b == None
  <2>1. Revoke(t, s, b) /\ s \in WorkState /\ b \in WorkState \cup {None}
        /\ s \notin {"Active", "Submitted", "Accepted"}
    BY <1>4 DEF Cancel, WorkState
  <2> HIDE DEF s, b
  <2> QED BY <1>4, <2>1, RevokeInputs DEF Cancel
<1>5. ASSUME NEW t \in Ticket, Reopen(t) PROVE InputInv'
  <2> DEFINE s == "Ready"
             b == None
  <2>1. Revoke(t, s, b) /\ s \in WorkState /\ b \in WorkState \cup {None}
        /\ s \notin {"Active", "Submitted", "Accepted"}
    BY <1>5 DEF Reopen, WorkState
  <2> HIDE DEF s, b
  <2> QED BY <1>5, <2>1, RevokeInputs DEF Reopen
<1>6. ASSUME NEW w \in Work, Import(w) PROVE InputInv'
  BY <1>6 DEF Import
<1>7. ASSUME NEW w \in Work, SetDependencies(w) PROVE InputInv'
  BY <1>7 DEF SetDependencies
<1>8. ASSUME NEW w \in Work, Accept(w) PROVE InputInv'
  <2>1. /\ accepted[w] = 0 /\ current[w] = gen[w] /\ Dependencies(w) = inputs[<<w, gen[w]>>]
        /\ state[w] = "Submitted" /\ UNCHANGED <<gen, inputs>>
        /\ \A v \in Work \ {w} : accepted'[v] = accepted[v] /\ state'[v] = state[v]
        /\ state'[w] = "Accepted"
    BY <1>8 DEF Accept
  <2>2. ASSUME NEW v \in Work, state[v] \in {"Active", "Submitted", "Accepted"}, gen[v] # 0,
               NEW i \in inputs[<<v, gen[v]>>]
        PROVE  accepted'[i[1]] = i[2]
    <3>1. <<v, gen[v]>> \in Attempt
      BY <2>2, PairIsAttempt, BoundAssumption DEF Gen
    <3>2. i[1] \in Work /\ i[2] # 0
      BY <3>1
    <3>3. accepted[i[1]] = i[2]
      BY <2>2
    <3> QED BY <2>1, <3>2, <3>3
  <2>3. AcceptedInv'
    BY <2>1
  <2>4. InputsCurrent'
    BY <2>1, <2>2
  <2> QED BY <2>3, <2>4
<1>9. ASSUME NEW w \in Work, Reject(w) PROVE InputInv'
  BY <1>9 DEF Reject
<1>10. ASSUME NEW w \in Work, Pause(w) PROVE InputInv'
  BY <1>10 DEF Pause
<1>11. ASSUME NEW w \in Work, NEW x \in Area \cup {None}, Start(w, x) PROVE InputInv'
  <2>1. gen[w] + 1 \in Gen /\ gen[w] + 1 # 0 /\ <<w, gen[w] + 1>> \in Attempt
    BY <1>11, PairIsAttempt, BoundAssumption DEF Start, Gen
  <2>2. inputs'[<<w, gen'[w]>>] = Dependencies(w) /\ UNCHANGED accepted
    BY <1>11, <2>1 DEF Start
  <2>3. \A v \in Work \ {w} : /\ gen'[v] = gen[v] /\ state'[v] = state[v]
                              /\ inputs'[<<v, gen[v]>>] = inputs[<<v, gen[v]>>]
    BY <1>11, <2>1 DEF Start
  <2>4. \A i \in inputs'[<<w, gen'[w]>>] : accepted'[i[1]] = i[2]
    BY <2>2, DependenciesCurrent
  <2>5. accepted[w] = 0
    BY <1>11 DEF Start
  <2>6. AcceptedInv'
    BY <2>2, <2>3, <2>5
  <2>7. InputsCurrent'
    <3> SUFFICES ASSUME NEW v \in Work, gen'[v] # 0,
                        state'[v] \in {"Active", "Submitted", "Accepted"},
                        NEW i \in inputs'[<<v, gen'[v]>>]
                 PROVE  accepted'[i[1]] = i[2]
      OBVIOUS
    <3>1. CASE v = w
      BY <2>4, <3>1
    <3>2. CASE v # w
      <4>1. /\ gen[v] # 0 /\ state[v] \in {"Active", "Submitted", "Accepted"}
            /\ i \in inputs[<<v, gen[v]>>]
        BY <2>3, <3>2
      <4>2. accepted[i[1]] = i[2]
        BY <4>1
      <4> QED BY <2>2, <4>2
    <3> QED BY <3>1, <3>2
  <2> QED BY <2>6, <2>7
<1>12. ASSUME NEW w \in Work, NEW k \in Kinds, Ask(k, w) PROVE InputInv'
  BY <1>12 DEF Ask
<1>13. ASSUME NEW g \in Goal, AcceptGoal(g) PROVE InputInv'
  BY <1>13 DEF AcceptGoal
<1>14. ASSUME NEW r \in Request, Answer(r) PROVE InputInv'
  BY <1>14 DEF Answer
<1>15. ASSUME NEW r \in Request, DecideApproval(r) PROVE InputInv'
  BY <1>15 DEF DecideApproval
<1>16. ASSUME NEW a \in Attempt, NEW s \in Session, Admitted(a, s) PROVE InputInv'
  BY <1>16 DEF Admitted
<1>17. ASSUME NEW a \in Attempt, Running(a) PROVE InputInv'
  BY <1>17 DEF Running
<1>18. ASSUME NEW a \in Attempt, YieldForInput(a) PROVE InputInv'
  BY <1>18 DEF YieldForInput, ActivePermit, CurrentAttempt
<1>19. ASSUME NEW a \in Attempt, ConsumeApproval(a) PROVE InputInv'
  BY <1>19 DEF ConsumeApproval
<1>20. ASSUME NEW a \in Attempt, NEW s \in EffectState, RecordEffect(a, s) PROVE InputInv'
  BY <1>20 DEF RecordEffect
<1>21. ASSUME NEW a \in Attempt, WriteFile(a) PROVE InputInv'
  BY <1>21 DEF WriteFile
<1>22. ASSUME NEW a \in Attempt, Submit(a) PROVE InputInv'
  <2>1. /\ a[2] = gen[a[1]] /\ state[a[1]] = "Active"
        /\ UNCHANGED <<gen, inputs, accepted>>
        /\ \A v \in Work \ {a[1]} : state'[v] = state[v]
        /\ state'[a[1]] = "Submitted"
    BY <1>22 DEF Submit, CurrentAttempt
  <2> QED BY <2>1
<1>23. ASSUME NEW a \in Attempt, ConfirmStopped(a) PROVE InputInv'
  BY <1>23 DEF ConfirmStopped, WorkInv
<1>24. ASSUME NEW a \in Attempt, NEW c \in BOOLEAN, RuntimeStopped(a, c) PROVE InputInv'
  BY <1>24 DEF RuntimeStopped, WorkInv
<1>25. ASSUME NEW a \in Attempt, ReconcileCompleted(a) PROVE InputInv'
  <2>1. /\ a[2] = gen[a[1]] /\ active[a[1]] = a[2] /\ Dependencies(a[1]) = inputs[a]
        /\ UNCHANGED <<gen, inputs, accepted>>
        /\ \A v \in Work \ {a[1]} : state'[v] = state[v]
    BY <1>25 DEF ReconcileCompleted
  <2>2. accepted[a[1]] = 0
    BY <2>1 DEF WorkInv
  <2>3. a[1] \in Work /\ <<a[1], gen[a[1]]>> = a
    BY <2>1
  <2>4. \A i \in inputs[<<a[1], gen[a[1]]>>] : accepted[i[1]] = i[2]
    <3>1. \A i \in Dependencies(a[1]) : accepted[i[1]] = i[2]
      BY <2>3, DependenciesCurrent
    <3> HIDE <1>0 DEF InputInv
    <3> QED BY <2>1, <2>3, <3>1
  <2> QED BY <2>1, <2>2, <2>4
<1>26. ASSUME NEW a \in Attempt, OutcomeUnknown(a) PROVE InputInv'
  BY <1>26 DEF OutcomeUnknown
<1>27. ASSUME NEW a \in Attempt, ReconcileFile(a) PROVE InputInv'
  BY <1>27 DEF ReconcileFile, WorkInv
<1>28. CASE Restart
  BY <1>28 DEF Restart
<1>29. CASE UNCHANGED vars
  BY <1>29 DEF vars, workVars, attemptVars
<1> HIDE DEF InputInv, Ticket, workVars, attemptVars
<1> QED BY <1>1, <1>2, <1>3, <1>4, <1>5, <1>6, <1>7, <1>8, <1>9, <1>10, <1>11,
       <1>12, <1>13, <1>14, <1>15, <1>16, <1>17, <1>18, <1>19, <1>20, <1>21, <1>22, <1>23,
       <1>24, <1>25, <1>26, <1>27, <1>28, <1>29 DEF Next

-----------------------------------------------------------------------------
(* Goals. *)

GoalStep ==
  \A g, c \in Goal : Parent[c] = g /\ state[c] = "Accepted" /\ state'[c] # "Accepted"
                       => state'[g] # "Accepted"

\* The accepted goals above a revoked ticket are sent to review with it.
LEMMA RevokeReviews ==
  ASSUME TypeOK, NEW t \in Ticket, NEW s, NEW b, s # "Accepted", Revoke(t, s, b)
  PROVE  GoalStep
<1> USE TicketAssumption DEF Ticket
<1> DEFINE own == [state EXCEPT ![t] = s]
           revoked == {w \in Affected(t) : own[w] # "Cancelled"}
           reviewed == {g \in Containers(t) : own[g] = "Accepted"}
<1>1. state' = [x \in Ticket |-> IF x \in revoked \cup reviewed THEN "Blocked" ELSE own[x]]
  BY DEF Revoke
<1>2. revoked \subseteq Work
  BY AffectedClosed
<1>3. \A g \in Goal : g \in Containers(t) => state'[g] # "Accepted"
  BY <1>1
<1>4. \A c \in Goal : c # t /\ state[c] = "Accepted" /\ state'[c] # "Accepted"
                        => c \in Containers(t)
  BY <1>1, <1>2 DEF TypeOK, WorksOK
<1>5. \A c \in Goal : (c = t \/ c \in Containers(t)) /\ Parent[c] \in Goal
                        => Parent[c] \in Containers(t)
  BY ContainersClosed
<1> HIDE DEF own, revoked, reviewed
<1> QED BY <1>3, <1>4, <1>5 DEF GoalStep

LEMMA NextGoalStep == TypeOK /\ [Next]_vars => GoalStep
<1> SUFFICES ASSUME TypeOK, [Next]_vars PROVE GoalStep
  OBVIOUS
<1>0. WorksOK
  BY DEF TypeOK
<1> USE <1>0, TicketAssumption DEF GoalStep, WorksOK, Ticket, workVars, attemptVars
<1>1. ASSUME NEW t \in Ticket, Create(t) PROVE GoalStep
  BY <1>1 DEF Create
<1>2. ASSUME NEW t \in Ticket, Ready(t) PROVE GoalStep
  BY <1>2 DEF Ready
<1>3. ASSUME NEW t \in Ticket, UpdateContract(t) PROVE GoalStep
  <2> DEFINE s == IF t \in Work /\ (active[t] # 0 \/ paused[t]) THEN "Blocked" ELSE "Ready"
             b == IF t \in Work /\ (active[t] # 0 \/ paused[t]) THEN "Ready" ELSE None
  <2>1. Revoke(t, s, b) /\ s # "Accepted"
    BY <1>3 DEF UpdateContract
  <2> HIDE DEF s, b
  <2> QED BY <2>1, RevokeReviews
<1>4. ASSUME NEW t \in Ticket, Cancel(t) PROVE GoalStep
  <2> DEFINE s == "Cancelled"
             b == None
  <2>1. Revoke(t, s, b) /\ s # "Accepted"
    BY <1>4 DEF Cancel
  <2> HIDE DEF s, b
  <2> QED BY <2>1, RevokeReviews
<1>5. ASSUME NEW t \in Ticket, Reopen(t) PROVE GoalStep
  <2> DEFINE s == "Ready"
             b == None
  <2>1. Revoke(t, s, b) /\ s # "Accepted"
    BY <1>5 DEF Reopen
  <2> HIDE DEF s, b
  <2> QED BY <2>1, RevokeReviews
<1>6. ASSUME NEW w \in Work, Import(w) PROVE GoalStep
  BY <1>6 DEF Import
<1>7. ASSUME NEW w \in Work, SetDependencies(w) PROVE GoalStep
  BY <1>7 DEF SetDependencies
<1>8. ASSUME NEW w \in Work, Accept(w) PROVE GoalStep
  BY <1>8 DEF Accept
<1>9. ASSUME NEW w \in Work, Reject(w) PROVE GoalStep
  BY <1>9 DEF Reject
<1>10. ASSUME NEW w \in Work, Pause(w) PROVE GoalStep
  BY <1>10 DEF Pause
<1>11. ASSUME NEW w \in Work, NEW x \in Area \cup {None}, Start(w, x) PROVE GoalStep
  BY <1>11 DEF Start
<1>12. ASSUME NEW w \in Work, NEW k \in Kinds, Ask(k, w) PROVE GoalStep
  BY <1>12 DEF Ask
<1>13. ASSUME NEW g \in Goal, AcceptGoal(g) PROVE GoalStep
  BY <1>13 DEF AcceptGoal
<1>14. ASSUME NEW r \in Request, Answer(r) PROVE GoalStep
  BY <1>14 DEF Answer
<1>15. ASSUME NEW r \in Request, DecideApproval(r) PROVE GoalStep
  BY <1>15 DEF DecideApproval
<1>16. ASSUME NEW a \in Attempt, NEW s \in Session, Admitted(a, s) PROVE GoalStep
  BY <1>16 DEF Admitted
<1>17. ASSUME NEW a \in Attempt, Running(a) PROVE GoalStep
  BY <1>17 DEF Running
<1>18. ASSUME NEW a \in Attempt, YieldForInput(a) PROVE GoalStep
  BY <1>18, PairIsAttempt DEF YieldForInput
<1>19. ASSUME NEW a \in Attempt, ConsumeApproval(a) PROVE GoalStep
  BY <1>19 DEF ConsumeApproval
<1>20. ASSUME NEW a \in Attempt, NEW s \in EffectState, RecordEffect(a, s) PROVE GoalStep
  BY <1>20 DEF RecordEffect
<1>21. ASSUME NEW a \in Attempt, WriteFile(a) PROVE GoalStep
  BY <1>21 DEF WriteFile
<1>22. ASSUME NEW a \in Attempt, Submit(a) PROVE GoalStep
  BY <1>22, PairIsAttempt DEF Submit
<1>23. ASSUME NEW a \in Attempt, ConfirmStopped(a) PROVE GoalStep
  BY <1>23, PairIsAttempt DEF ConfirmStopped
<1>24. ASSUME NEW a \in Attempt, NEW c \in BOOLEAN, RuntimeStopped(a, c) PROVE GoalStep
  BY <1>24, PairIsAttempt DEF RuntimeStopped
<1>25. ASSUME NEW a \in Attempt, ReconcileCompleted(a) PROVE GoalStep
  BY <1>25, PairIsAttempt DEF ReconcileCompleted
<1>26. ASSUME NEW a \in Attempt, OutcomeUnknown(a) PROVE GoalStep
  BY <1>26, PairIsAttempt DEF OutcomeUnknown
<1>27. ASSUME NEW a \in Attempt, ReconcileFile(a) PROVE GoalStep
  BY <1>27, PairIsAttempt DEF ReconcileFile
<1>28. CASE Restart
  BY <1>28 DEF Restart
<1>29. CASE UNCHANGED vars
  BY <1>29 DEF vars, workVars, attemptVars
<1> HIDE DEF GoalStep, Ticket, workVars, attemptVars
<1> QED BY <1>1, <1>2, <1>3, <1>4, <1>5, <1>6, <1>7, <1>8, <1>9, <1>10, <1>11,
       <1>12, <1>13, <1>14, <1>15, <1>16, <1>17, <1>18, <1>19, <1>20, <1>21, <1>22, <1>23,
       <1>24, <1>25, <1>26, <1>27, <1>28, <1>29 DEF Next

-----------------------------------------------------------------------------

IInv == /\ TypeOK /\ LatestInv /\ SettledInv /\ Exclusive
        /\ SubmittedInv /\ AcceptedSound

LEMMA Inductive == Spec => []IInv
<1>1. Init => IInv
  <2>1. Init => Exclusive /\ AcceptedSound
    BY DEF Init, Exclusive, AcceptedSound, Ticket
  <2> QED BY <2>1, InitTypeOK, InitLatestInv, InitSettledInv, InitSubmittedInv DEF IInv
<1>2. IInv /\ [Next]_vars => IInv'
  BY NextTypeOK, NextLatestInv, NextSettledInv, NextExclusive, NextSubmittedInv,
     NextAcceptedSound DEF IInv
<1> QED BY <1>1, <1>2, PTL DEF Spec

\* Type correctness of the ticket scope, in any sequence of commands.
THEOREM TypeCorrect == Spec => []TypeOK
<1>1. IInv => TypeOK
  BY DEF IInv
<1> QED BY Inductive, <1>1, PTL

\* Mutual exclusion: no workspace or session is ever owned by two attempts that may
\* both still run or have an effect in doubt, across rejects, cancels and restarts.
THEOREM ExclusiveCorrect == Spec => []Exclusive
<1>1. IInv => Exclusive
  BY DEF IInv
<1> QED BY Inductive, <1>1, PTL

\* Acceptance rests on the latest attempt at the current contract, stopped and with
\* no effect in doubt.
THEOREM AcceptanceCorrect == Spec => []AcceptedSound
<1>1. IInv => AcceptedSound
  BY DEF IInv
<1> QED BY Inductive, <1>1, PTL

\* Revocation reaches every work built on what is revoked, for any dependency
\* graph, as long as no OutcomeUnknown is reported (the host reports none).
THEOREM InputsCorrect == ~ReportUnknown => (Spec => []InputsCurrent)
<1> SUFFICES ASSUME ~ReportUnknown PROVE Spec => []InputsCurrent
  OBVIOUS
<1>1. IInv /\ InputInv /\ [Next]_vars => InputInv'
  BY NextInputInv DEF IInv
<1>2. InputInv => InputsCurrent
  BY DEF InputInv
<1> QED BY InitInputInv, Inductive, <1>1, <1>2, PTL DEF Spec

\* A goal is never left accepted above a goal that loses its acceptance, for any
\* nesting of goals.
THEOREM GoalsCorrect == Spec => NestedGoalReviewed
<1>1. IInv /\ [Next]_vars => GoalStep
  BY NextGoalStep DEF IInv
<1>2. IInv /\ [Next]_vars =>
        [\A g, c \in Goal :
           Parent[c] = g /\ state[c] = "Accepted" /\ state'[c] # "Accepted"
             => state'[g] # "Accepted"]_vars
  BY <1>1 DEF GoalStep
<1> QED BY Inductive, <1>2, PTL DEF Spec, NestedGoalReviewed

-----------------------------------------------------------------------------
(* Work that yielded is released. *)

\* Work that was never built on another's submission.
Alone(w) == dep[w] = {} /\ \A g \in Gen : inputs[<<w, g>>] = {}

\* The latest attempt of w yielded, is no longer active and left w blocked.
Held(w) ==
  LET a == <<w, gen[w]>> IN
  /\ gen[w] # 0 /\ awaiting[a] /\ arev[a] = rev[w] /\ active[w] = 0
  /\ state[w] = "Blocked" /\ ~paused[w] /\ resume[w] = "Ready"

\* Released without the run's stop as a premise: the attempt is only let go by its
\* stop, so whoever comes later finds it stopped.
Waiting(w) == Held(w) => stopped[<<w, gen[w]>>] /\ Unanswered(w, request)

YieldInv == \A w \in Work : MayDepend[w] = {} => Alone(w) /\ Waiting(w)

\* Nothing that is revoked reaches work built on nothing.
LEMMA AloneUnaffected ==
  ASSUME NEW t \in Ticket, NEW w \in Work, Alone(w)
  PROVE  w \notin Affected(t)
<1>1. \A x \in Ticket : Consumers(x) \subseteq Work \ {w}
  BY DEF Consumers, Alone
<1>2. Affected(t) \subseteq Work \ {w}
  BY <1>1, AffectedLeast
<1> QED BY <1>2

\* Revoke leaves the other works it does not reach as they are.
LEMMA RevokeSpares ==
  ASSUME NEW t \in Ticket, NEW s, NEW b, NEW w \in Work, w # t, w \notin Affected(t),
         TypeOK, Revoke(t, s, b)
  PROVE  /\ state'[w] = state[w] /\ resume'[w] = resume[w]
         /\ Unanswered(w, request) => Unanswered(w, request')
<1> DEFINE own == [state EXCEPT ![t] = s]
           revoked == {x \in Affected(t) : own[x] # "Cancelled"}
           reviewed == {g \in Containers(t) : own[g] = "Accepted"}
<1>1. /\ state' = [x \in Ticket |-> IF x \in revoked \cup reviewed THEN "Blocked" ELSE own[x]]
      /\ resume' = [x \in Ticket |->
                     CASE x \in revoked  -> own[x]
                       [] x \in reviewed -> "Submitted"
                       [] x = t /\ x \notin revoked \cup reviewed -> b
                       [] OTHER -> resume[x]]
      /\ InvalidateRequests({t} \cup Affected(t))
  BY DEF Revoke
<1>2. w \in Ticket /\ own[w] = state[w]
  BY DEF TypeOK, WorksOK, Ticket
<1>3. w \notin revoked /\ w \notin reviewed
  BY ContainersClosed, TicketAssumption
<1> HIDE DEF own, revoked, reviewed
<1>4. state'[w] = state[w]
  BY <1>1, <1>2, <1>3
<1>5. resume'[w] = resume[w]
  BY <1>1, <1>2, <1>3
<1>6. \A r \in Request : r[2] = w => request'[r] = request[r]
  BY <1>1 DEF InvalidateRequests
<1> QED BY <1>4, <1>5, <1>6 DEF Unanswered

\* Nobody has yielded yet.
LEMMA InitYieldInv == Init => YieldInv
BY PairIsAttempt DEF Init, YieldInv, Alone, Waiting, Held

\* Dependencies and inputs stay empty.
LEMMA NextAlone ==
  ASSUME TypeOK, NEW w \in Work, MayDepend[w] = {}, Alone(w), [Next]_vars
  PROVE  Alone(w)'
<1>0. dep \in [Work -> SUBSET Work] /\ inputs \in [Attempt -> SUBSET Attempt]
  BY DEF TypeOK, WorksOK, AttemptsOK
<1> USE <1>0 DEF Alone, workVars, attemptVars
<1>1. ASSUME NEW t \in Ticket, Create(t) PROVE Alone(w)'
  <2>1. dep'[w] = {} /\ UNCHANGED inputs
    <3>1. CASE t \in Work
      <4>1. PICK D \in SUBSET MayDepend[t] : dep' = [dep EXCEPT ![t] = D]
        BY <1>1, <3>1 DEF Create
      <4> QED BY <1>1, <4>1 DEF Create
    <3>2. CASE t \notin Work
      BY <1>1, <3>2 DEF Create
    <3> QED BY <3>1, <3>2
  <2> QED BY <2>1
<1>2. ASSUME NEW v \in Work, SetDependencies(v) PROVE Alone(w)'
  <2>1. PICK D \in SUBSET MayDepend[v] : dep' = [dep EXCEPT ![v] = D]
    BY <1>2 DEF SetDependencies
  <2>2. UNCHANGED inputs
    BY <1>2 DEF SetDependencies
  <2> QED BY <2>1, <2>2
<1>3. ASSUME NEW v \in Work, NEW x \in Area \cup {None}, Start(v, x) PROVE Alone(w)'
  <2>1. inputs' = [inputs EXCEPT ![<<v, gen[v] + 1>>] = Dependencies(v)] /\ UNCHANGED dep
    BY <1>3 DEF Start
  <2>2. Dependencies(w) = {}
    BY DEF Dependencies
  <2>3. \A g \in Gen : inputs'[<<w, g>>] = {}
    BY <2>1, <2>2, PairIsAttempt
  <2> QED BY <2>1, <2>3
<1>4. CASE UNCHANGED <<dep, inputs>>
  BY <1>4
<1>5. ASSUME NEW t \in Ticket, Ready(t) \/ UpdateContract(t) \/ Cancel(t) \/ Reopen(t)
      PROVE  UNCHANGED <<dep, inputs>>
  BY <1>5 DEF Ready, UpdateContract, Cancel, Reopen
<1>6. ASSUME NEW v \in Work, Import(v) \/ Accept(v) \/ Reject(v) \/ Pause(v)
      PROVE  UNCHANGED <<dep, inputs>>
  BY <1>6 DEF Import, Accept, Reject, Pause
<1>7. ASSUME NEW v \in Work, NEW k \in Kinds, Ask(k, v) PROVE UNCHANGED <<dep, inputs>>
  BY <1>7 DEF Ask
<1>8. ASSUME NEW g \in Goal, AcceptGoal(g) PROVE UNCHANGED <<dep, inputs>>
  BY <1>8 DEF AcceptGoal
<1>9. ASSUME NEW r \in Request, Answer(r) \/ DecideApproval(r) PROVE UNCHANGED <<dep, inputs>>
  BY <1>9 DEF Answer, DecideApproval
<1>10. ASSUME NEW a \in Attempt,
              \/ \E s \in Session : Admitted(a, s)
              \/ Running(a) \/ YieldForInput(a) \/ ConsumeApproval(a)
              \/ \E s \in EffectState : RecordEffect(a, s)
              \/ WriteFile(a) \/ Submit(a)
       PROVE  UNCHANGED <<dep, inputs>>
  BY <1>10 DEF Admitted, Running, YieldForInput, ConsumeApproval, RecordEffect, WriteFile, Submit
<1>11. ASSUME NEW a \in Attempt,
              \/ ConfirmStopped(a) \/ \E c \in BOOLEAN : RuntimeStopped(a, c)
              \/ ReconcileCompleted(a) \/ OutcomeUnknown(a) \/ ReconcileFile(a)
       PROVE  UNCHANGED <<dep, inputs>>
  BY <1>11 DEF ConfirmStopped, RuntimeStopped, ReconcileCompleted, OutcomeUnknown, ReconcileFile
<1>12. CASE Restart \/ UNCHANGED vars
  BY <1>12 DEF Restart, vars
<1> QED BY <1>1, <1>2, <1>3, <1>4, <1>5, <1>6, <1>7, <1>8, <1>9, <1>10, <1>11, <1>12 DEF Next

\* A step that leaves the work, its latest attempt and its open requests alone.
LEMMA WaitingKept ==
  ASSUME NEW w, Waiting(w), UNCHANGED <<gen, awaiting, arev, rev, active, paused>>,
         state'[w] = state[w], resume'[w] = resume[w],
         \A a : stopped[a] => stopped'[a],
         Unanswered(w, request) => Unanswered(w, request')
  PROVE  Waiting(w)'
BY DEF Waiting, Held

\* Whatever happens, work built on nothing is let go by its stop or by the last answer.
LEMMA NextWaiting ==
  ASSUME TypeOK, LatestInv, ~ReportUnknown, "approval" \notin Kinds,
         NEW w \in Work, Alone(w), Waiting(w), [Next]_vars
  PROVE  Waiting(w)'
<1>0. WorksOK /\ AttemptsOK /\ RequestsOK /\ WorkInv /\ w \in Ticket
  BY DEF TypeOK, LatestInv, Ticket
<1>a. \A r \in Request : r[1] = "question"
  BY KindAssumption DEF Request
<1> USE <1>0, TicketAssumption DEF WorksOK, workVars, attemptVars
<1>1. ASSUME NEW t \in Ticket, Create(t) PROVE Waiting(w)'
  <2>1. CASE t = w
    BY <1>1, <2>1 DEF Create, Waiting, Held
  <2>2. CASE t # w
    BY <1>1, <2>2, WaitingKept DEF Create
  <2> QED BY <2>1, <2>2
<1>2. ASSUME NEW t \in Ticket, Ready(t) PROVE Waiting(w)'
  <2>1. CASE t = w
    BY <1>2, <2>1 DEF Ready, Waiting, Held
  <2>2. CASE t # w
    BY <1>2, <2>2 DEF Ready, Waiting, Held
  <2> QED BY <2>1, <2>2
<1>3. ASSUME NEW t \in Ticket, NEW s, NEW b, Revoke(t, s, b), UNCHANGED <<gen, stopped, awaiting, arev>>,
             w # t, active'[w] = active[w], paused'[w] = paused[w], rev'[w] = rev[w]
      PROVE  Waiting(w)'
  <2>1. /\ state'[w] = state[w] /\ resume'[w] = resume[w]
        /\ Unanswered(w, request) => Unanswered(w, request')
    BY <1>3, AloneUnaffected, RevokeSpares
  <2> QED BY <1>3, <2>1 DEF Waiting, Held
<1>b. ASSUME NEW s, NEW b, Revoke(w, s, b) PROVE state'[w] = s
  <2>1. w \notin Affected(w) /\ w \notin Containers(w)
    BY AloneUnaffected, ContainersClosed
  <2> QED BY <1>b, <2>1 DEF Revoke
<1>4. ASSUME NEW t \in Ticket, UpdateContract(t) PROVE Waiting(w)'
  <2> DEFINE waits == t \in Work /\ (active[t] # 0 \/ paused[t])
  <2>1. /\ Revoke(t, IF waits THEN "Blocked" ELSE "Ready", IF waits THEN "Ready" ELSE None)
        /\ UNCHANGED <<gen, stopped, awaiting, arev, active, paused>>
        /\ rev' = [v \in Work |-> IF v = t THEN rev[v] + 1 ELSE rev[v]]
    BY <1>4 DEF UpdateContract
  <2>2. CASE t = w
    <3>1. state'[w] = IF active[w] # 0 \/ paused[w] THEN "Blocked" ELSE "Ready"
      BY <1>b, <2>1, <2>2
    <3> QED BY <2>1, <3>1 DEF Waiting, Held
  <2>3. CASE t # w
    <3> HIDE DEF waits
    <3> QED BY <1>3, <2>1, <2>3
  <2> QED BY <2>2, <2>3
<1>5. ASSUME NEW t \in Ticket, Cancel(t) PROVE Waiting(w)'
  <2>1. /\ Revoke(t, "Cancelled", None)
        /\ UNCHANGED <<gen, stopped, awaiting, arev, active, rev>>
        /\ paused' = [v \in Work |-> IF v = t THEN FALSE ELSE paused[v]]
    BY <1>5 DEF Cancel
  <2>2. CASE t = w
    BY <1>b, <2>1, <2>2 DEF Waiting, Held
  <2>3. CASE t # w
    BY <1>3, <2>1, <2>3
  <2> QED BY <2>2, <2>3
<1>6. ASSUME NEW t \in Ticket, Reopen(t) PROVE Waiting(w)'
  <2>1. /\ Revoke(t, "Ready", None)
        /\ UNCHANGED <<gen, stopped, awaiting, arev, rev>>
        /\ paused' = [v \in Work |-> IF v = t THEN FALSE ELSE paused[v]]
        /\ active' = [v \in Work |-> IF v = t THEN 0 ELSE active[v]]
    BY <1>6 DEF Reopen
  <2>2. CASE t = w
    BY <1>b, <2>1, <2>2 DEF Waiting, Held
  <2>3. CASE t # w
    BY <1>3, <2>1, <2>3
  <2> QED BY <2>2, <2>3
<1>7. ASSUME NEW v \in Work, Import(v) PROVE Waiting(w)'
  BY <1>7 DEF Import, Waiting, Held, WorkInv
<1>8. ASSUME NEW v \in Work, SetDependencies(v) PROVE Waiting(w)'
  <2>1. CASE v = w
    BY <1>8, <2>1 DEF SetDependencies, Waiting, Held
  <2>2. CASE v # w
    <3>1. \A r \in Request : r[2] = w => request'[r] = request[r]
      BY <1>8, <2>2 DEF SetDependencies, InvalidateRequests
    <3>2. Unanswered(w, request) => Unanswered(w, request')
      BY <3>1 DEF Unanswered
    <3> QED BY <1>8, <2>2, <3>2 DEF SetDependencies, Waiting, Held
  <2> QED BY <2>1, <2>2
<1>9. ASSUME NEW v \in Work, Accept(v) PROVE Waiting(w)'
  BY <1>9 DEF Accept, Waiting, Held
<1>10. ASSUME NEW v \in Work, Reject(v) PROVE Waiting(w)'
  BY <1>10 DEF Reject, Waiting, Held
<1>11. ASSUME NEW v \in Work, Pause(v) PROVE Waiting(w)'
  <2>1. CASE v = w
    BY <1>11, <2>1 DEF Pause, Waiting, Held
  <2>2. CASE v # w
    <3>1. \A r \in Request : r[2] = w => request'[r] = request[r]
      BY <1>11, <2>2 DEF Pause, InvalidateRequests
    <3>2. Unanswered(w, request) => Unanswered(w, request')
      BY <3>1 DEF Unanswered
    <3> QED BY <1>11, <2>2, <3>2 DEF Pause, Waiting, Held
  <2> QED BY <2>1, <2>2
<1>12. ASSUME NEW v \in Work, NEW x \in Area \cup {None}, Start(v, x) PROVE Waiting(w)'
  <2>1. CASE v = w
    <3>1. state'[w] = "Active"
      BY <1>12, <2>1 DEF Start
    <3> QED BY <3>1 DEF Waiting, Held
  <2>2. CASE v # w
    <3>1. /\ gen'[w] = gen[w] /\ state'[w] = state[w] /\ active'[w] = active[w]
          /\ UNCHANGED <<paused, resume, rev, stopped, awaiting, request>>
      BY <1>12, <2>2 DEF Start
    <3>2. gen[w] # 0 => arev'[<<w, gen[w]>>] = arev[<<w, gen[w]>>]
      <4>1. arev' = [arev EXCEPT ![<<v, gen[v] + 1>>] = rev[v]] /\ <<w, gen[w]>> # <<v, gen[v] + 1>>
        BY <1>12, <2>2 DEF Start
      <4>2. gen[w] # 0 => <<w, gen[w]>> \in Attempt
        BY PairIsAttempt, BoundAssumption DEF Gen
      <4> QED BY <4>1, <4>2 DEF AttemptsOK
    <3> QED BY <3>1, <3>2 DEF Waiting, Held
  <2> QED BY <2>1, <2>2
<1>13. ASSUME NEW v \in Work, NEW k \in Kinds, Ask(k, v) PROVE Waiting(w)'
  <2>1. PICK q \in Request : request[q].status = "none"
                             /\ \A r \in Request : r # q => request'[r] = request[r]
    <3>1. <<k, v, gen[v]>> \in Request
      BY DEF Request
    <3> QED BY <1>13, <3>1 DEF Ask, RequestsOK
  <2>2. Unanswered(w, request) => Unanswered(w, request')
    BY <2>1 DEF Unanswered
  <2> QED BY <1>13, <2>2, WaitingKept DEF Ask
<1>14. ASSUME NEW g \in Goal, AcceptGoal(g) PROVE Waiting(w)'
  BY <1>14 DEF AcceptGoal, Waiting, Held
<1>15. ASSUME NEW r \in Request, Answer(r) PROVE Waiting(w)'
  <2>1. r[2] \in Work
    BY DEF Request
  <2>2. UNCHANGED <<paused, rev, gen, active, arev, stopped, awaiting>>
    BY <1>15 DEF Answer
  <2>3. CASE r[2] = w
    <3> SUFFICES ASSUME Held(w)' PROVE stopped'[<<w, gen'[w]>>] /\ Unanswered(w, request')
      BY DEF Waiting
    <3> DEFINE released ==
          /\ \E g \in Gen : LET a == <<w, g>> IN
               awaiting[a] /\ stopped[a] /\ g = gen[w] /\ arev[a] = rev[w]
          /\ ~Unanswered(w, request')
          /\ state[w] = "Blocked" /\ ~paused[w] /\ active[w] = 0
    <3>1. /\ state' = [state EXCEPT ![w] = IF released THEN "Ready" ELSE @]
          /\ resume' = [resume EXCEPT ![w] = IF released THEN None ELSE @]
      BY <1>15, <2>3 DEF Answer
    <3> HIDE DEF released
    <3>2. ~released
      BY <3>1 DEF Held
    <3>3. Held(w)
      BY <2>2, <3>1, <3>2 DEF Held
    <3>4. stopped[<<w, gen[w]>>]
      BY <3>3 DEF Waiting
    <3>5. gen[w] \in Gen
      BY <3>3, BoundAssumption DEF Held, Gen
    <3>6. Unanswered(w, request')
      BY <3>2, <3>3, <3>4, <3>5 DEF released, Held
    <3> QED BY <2>2, <3>4, <3>6
  <2>4. CASE r[2] # w
    <3>1. \A q \in Request : q[2] = w => request'[q] = request[q]
      BY <1>15, <2>4 DEF Answer, RequestsOK
    <3>2. Unanswered(w, request) => Unanswered(w, request')
      BY <3>1 DEF Unanswered
    <3>3. state'[w] = state[w] /\ resume'[w] = resume[w]
      BY <1>15, <2>1, <2>4 DEF Answer
    <3> QED BY <2>2, <3>2, <3>3, WaitingKept
  <2> QED BY <2>3, <2>4
<1>16. ASSUME NEW r \in Request, DecideApproval(r) PROVE Waiting(w)'
  BY <1>16, <1>a DEF DecideApproval
<1>17. ASSUME NEW a \in Attempt,
              \/ \E s \in Session : Admitted(a, s)
              \/ Running(a) \/ \E s \in EffectState : RecordEffect(a, s)
              \/ WriteFile(a)
       PROVE  Waiting(w)'
  <2>1. UNCHANGED <<workVars, arev, stopped, awaiting, request>>
    BY <1>17 DEF Admitted, Running, RecordEffect, WriteFile
  <2> QED BY <2>1, WaitingKept
<1>18. ASSUME NEW a \in Attempt, YieldForInput(a) PROVE Waiting(w)'
  <2>1. /\ active[a[1]] = a[2] /\ a[1] \in Work /\ a[2] # 0
        /\ UNCHANGED <<paused, rev, gen, active, arev, stopped, request>>
        /\ awaiting' = [awaiting EXCEPT ![a] = TRUE]
        /\ state' = [state EXCEPT ![a[1]] = "Blocked"]
        /\ resume' = [resume EXCEPT ![a[1]] = "Ready"]
    BY <1>18, PairIsAttempt DEF YieldForInput, ActivePermit, CurrentAttempt, Gen
  <2>2. CASE a[1] = w
    BY <2>1, <2>2 DEF Waiting, Held
  <2>3. CASE a[1] # w
    <3>1. gen[w] # 0 => awaiting'[<<w, gen[w]>>] = awaiting[<<w, gen[w]>>]
      <4>1. gen[w] # 0 => <<w, gen[w]>> \in Attempt /\ <<w, gen[w]>> # a
        BY <2>3, PairIsAttempt, BoundAssumption DEF Gen
      <4> QED BY <2>1, <4>1 DEF AttemptsOK
    <3>2. gen' = gen /\ state'[w] = state[w] /\ resume'[w] = resume[w]
      BY <2>1, <2>3
    <3> QED BY <2>1, <3>1, <3>2 DEF Waiting, Held
  <2> QED BY <2>2, <2>3
<1>19. ASSUME NEW a \in Attempt, ConsumeApproval(a) PROVE Waiting(w)'
  BY <1>19 DEF ConsumeApproval
<1>20. ASSUME NEW a \in Attempt, Submit(a) PROVE Waiting(w)'
  <2>1. /\ a[1] \in Work
        /\ state' = [state EXCEPT ![a[1]] = "Submitted"]
        /\ active' = [active EXCEPT ![a[1]] = 0]
        /\ InvalidateRequests({a[1]})
        /\ UNCHANGED <<paused, resume, rev, gen, arev, stopped, awaiting>>
    BY <1>20, PairIsAttempt DEF Submit
  <2>2. CASE a[1] = w
    BY <2>1, <2>2 DEF Waiting, Held
  <2>3. CASE a[1] # w
    <3>1. \A r \in Request : r[2] = w => request'[r] = request[r]
      BY <2>1, <2>3 DEF InvalidateRequests
    <3>2. Unanswered(w, request) => Unanswered(w, request')
      BY <3>1 DEF Unanswered
    <3> QED BY <2>1, <2>3, <3>2 DEF Waiting, Held
  <2> QED BY <2>2, <2>3
<1>21. ASSUME NEW a \in Attempt, ConfirmStopped(a) PROVE Waiting(w)'
  <2> DEFINE own == active[a[1]] = a[2]
             resumes == own /\ state[a[1]] = "Blocked" /\ ~paused[a[1]] /\ resume[a[1]] = "Ready"
  <2>1. /\ a[1] \in Work /\ stopped' = [stopped EXCEPT ![a] = TRUE]
        /\ active' = [active EXCEPT ![a[1]] = IF own THEN 0 ELSE @]
        /\ state' = [state EXCEPT ![a[1]] = IF resumes THEN "Ready" ELSE @]
        /\ resume' = [resume EXCEPT ![a[1]] = IF resumes THEN None ELSE @]
        /\ UNCHANGED <<paused, rev, gen, arev, awaiting, request>>
    BY <1>21, PairIsAttempt DEF ConfirmStopped
  <2>2. stopped[<<w, gen[w]>>] => stopped'[<<w, gen[w]>>]
    BY <2>1 DEF AttemptsOK
  <2>3. CASE a[1] = w
    BY <2>1, <2>2, <2>3 DEF Waiting, Held
  <2>4. CASE a[1] # w
    BY <2>1, <2>2, <2>4 DEF Waiting, Held
  <2> QED BY <2>3, <2>4
<1>22. ASSUME NEW a \in Attempt, NEW c \in BOOLEAN, RuntimeStopped(a, c) PROVE Waiting(w)'
  <2> DEFINE v == a[1]
             unknown == Unresolved(effect[a])
             cancelled == state[v] = "Cancelled"
             answered == /\ active[v] = a[2] /\ awaiting[a] /\ ~unknown /\ ~cancelled
                         /\ a[2] = gen[v] /\ arev[a] = rev[v]
             resumes == answered /\ ~Unanswered(v, request) /\ ~paused[v]
             freed == active[v] = a[2] /\ ~answered /\ (cancelled \/ paused[v]) /\ ~unknown
             blocks == active[v] = a[2] /\ ~answered /\ ~freed /\ (unknown \/ ~c)
  <2> HIDE DEF blocks
  <2>1. /\ v \in Work /\ v \in Ticket /\ a = <<v, a[2]>> /\ a[2] # 0
        /\ stopped' = [stopped EXCEPT ![a] = TRUE]
        /\ UNCHANGED <<paused, rev, gen, arev, awaiting, request>>
    BY <1>22, PairIsAttempt DEF RuntimeStopped, Gen, Ticket
  <2>2. /\ active' = [active EXCEPT ![v] = IF answered \/ freed THEN 0 ELSE @]
        /\ state' = [state EXCEPT ![v] = IF resumes THEN "Ready"
                                         ELSE IF blocks /\ ~cancelled THEN "Blocked" ELSE @]
        /\ resume' = [resume EXCEPT ![v] = IF resumes THEN None
                                           ELSE IF blocks THEN "Ready" ELSE @]
    BY <1>22 DEF RuntimeStopped, blocks
  <2>3. stopped'[a] /\ (stopped[<<w, gen[w]>>] => stopped'[<<w, gen[w]>>])
    BY <2>1 DEF AttemptsOK
  <2>4. CASE v # w
    <3>1. state'[w] = state[w] /\ resume'[w] = resume[w] /\ active'[w] = active[w]
      BY <2>1, <2>2, <2>4
    <3> QED BY <2>1, <2>3, <3>1 DEF Waiting, Held
  <2>5. CASE v = w
    <3> SUFFICES ASSUME Held(w)' PROVE stopped'[<<w, gen[w]>>] /\ Unanswered(w, request)
      BY <2>1 DEF Waiting
    <3>1. ~resumes
      BY <2>1, <2>2, <2>5 DEF Held
    <3>2. CASE active[w] = a[2]
      <4>1. answered \/ freed
        <5>1. active'[w] = 0
          BY DEF Held
        <5> HIDE DEF answered, freed
        <5> QED BY <2>1, <2>2, <2>5, <3>2, <5>1
      <4>2. ~cancelled
        BY <2>1, <2>2, <2>5, <3>1 DEF Held
      <4>3. ~paused[w]
        BY <2>1 DEF Held
      <4>4. answered
        BY <2>5, <4>1, <4>2, <4>3
      <4> QED BY <2>1, <2>3, <2>5, <3>1, <4>3, <4>4
    <3>3. CASE active[w] # a[2]
      <4>1. ~answered /\ ~freed /\ ~blocks
        BY <2>5, <3>3 DEF blocks
      <4>2. state'[w] = state[w] /\ resume'[w] = resume[w] /\ active'[w] = active[w]
        <5> HIDE DEF answered, freed, resumes
        <5> QED BY <2>1, <2>2, <2>5, <3>1, <4>1
      <4>3. Held(w)
        BY <2>1, <4>2 DEF Held
      <4> QED BY <2>3, <4>3 DEF Waiting
    <3> QED BY <3>2, <3>3
  <2> QED BY <2>4, <2>5
<1>23. ASSUME NEW a \in Attempt, ReconcileCompleted(a) PROVE Waiting(w)'
  <2>1. /\ a[1] \in Work /\ state' = [state EXCEPT ![a[1]] = "Active"]
        /\ resume' = [resume EXCEPT ![a[1]] = None]
        /\ UNCHANGED <<paused, rev, gen, active, arev, stopped, awaiting, request>>
    BY <1>23, PairIsAttempt DEF ReconcileCompleted
  <2>2. CASE a[1] = w
    BY <2>1, <2>2 DEF Waiting, Held
  <2>3. CASE a[1] # w
    BY <2>1, <2>3, WaitingKept
  <2> QED BY <2>2, <2>3
<1>24. ASSUME NEW a \in Attempt, OutcomeUnknown(a) PROVE Waiting(w)'
  BY <1>24 DEF OutcomeUnknown
<1>25. ASSUME NEW a \in Attempt, ReconcileFile(a) PROVE Waiting(w)'
  <2> DEFINE own == ~Unresolved(effect'[a]) /\ active[a[1]] = a[2]
             paused2 == own /\ state[a[1]] # "Cancelled"
  <2>1. /\ a[1] \in Work
        /\ active' = [active EXCEPT ![a[1]] = IF own THEN 0 ELSE @]
        /\ state' = [state EXCEPT ![a[1]] = IF paused2 THEN "Blocked" ELSE @]
        /\ paused' = [paused EXCEPT ![a[1]] = paused2 \/ @]
        /\ resume' = [resume EXCEPT ![a[1]] = IF paused2 THEN "Ready" ELSE @]
        /\ UNCHANGED <<rev, gen, arev, stopped, awaiting, request>>
    BY <1>25, PairIsAttempt DEF ReconcileFile
  <2> HIDE DEF own
  <2>2. CASE a[1] = w
    BY <2>1, <2>2 DEF Waiting, Held
  <2>3. CASE a[1] # w
    BY <2>1, <2>3 DEF Waiting, Held
  <2> QED BY <2>2, <2>3
<1>26. CASE Restart
  <2> DEFINE lost == {a \in Attempt :
                        \/ astate[a] \in {"DispatchPending", "Admitted", "Running", "Cancelling"}
                        \/ astate[a] = "Blocked" /\ ~stopped[a]}
             blocks == {x \in Work : state[x] = "Active" /\ <<x, active[x]>> \in lost}
  <2>1. /\ state' = [t \in Ticket |-> IF t \in blocks THEN "Blocked" ELSE state[t]]
        /\ resume' = [t \in Ticket |-> IF t \in blocks THEN "Ready" ELSE resume[t]]
        /\ UNCHANGED <<paused, rev, gen, active, arev, stopped, awaiting>>
    BY <1>26 DEF Restart
  <2>2. w \in blocks => active[w] # 0
    BY DEF Attempt, Gen
  <2>3. Unanswered(w, request) => Unanswered(w, request')
    <3>1. request' = request
      BY <1>26, <1>a DEF Restart, RequestsOK
    <3> QED BY <3>1
  <2> HIDE DEF blocks
  <2>4. CASE w \in blocks
    BY <2>1, <2>2, <2>4 DEF Waiting, Held
  <2>5. CASE w \notin blocks
    BY <2>1, <2>3, <2>5 DEF Waiting, Held
  <2> QED BY <2>4, <2>5
<1>27. CASE UNCHANGED vars
  BY <1>27, WaitingKept DEF vars
<1> HIDE <1>0
<1> QED BY <1>1, <1>2, <1>4, <1>5, <1>6, <1>7, <1>8, <1>9, <1>10, <1>11, <1>12, <1>13, <1>14,
       <1>15, <1>16, <1>17, <1>18, <1>19, <1>20, <1>21, <1>22, <1>23, <1>24, <1>25, <1>26,
       <1>27 DEF Next

\* Both together, while nobody asks for approvals and no unknown outcome is reported.
LEMMA InductiveYield ==
  ~ReportUnknown /\ "approval" \notin Kinds => (Spec => [](IInv /\ YieldInv))
<1> SUFFICES ASSUME ~ReportUnknown, "approval" \notin Kinds PROVE Spec => [](IInv /\ YieldInv)
  OBVIOUS
<1>1. IInv /\ YieldInv /\ [Next]_vars => YieldInv'
  BY NextAlone, NextWaiting DEF IInv, YieldInv
<1> QED BY InitYieldInv, Inductive, <1>1, PTL DEF Spec

\* Whichever of the stop and the last answer comes later releases work that yielded
\* and is built on no other work, among works that are.
THEOREM IndependentReleased ==
  ~ReportUnknown /\ "approval" \notin Kinds
    => (Spec => [](\A w \in Work : MayDepend[w] = {} => Released(w)))
<1> SUFFICES ASSUME ~ReportUnknown, "approval" \notin Kinds
             PROVE  Spec => [](\A w \in Work : MayDepend[w] = {} => Released(w))
  OBVIOUS
<1>1. IInv /\ YieldInv => \A w \in Work : MayDepend[w] = {} => Released(w)
  BY DEF YieldInv, Waiting, Held, Released
<1> QED BY InductiveYield, <1>1, PTL

\* In a scope of independent works the stop and the answer never leave one behind.
THEOREM ReleaseCorrect ==
  ~ReportUnknown /\ "approval" \notin Kinds /\ (\A w \in Work : MayDepend[w] = {})
    => (Spec => []YieldReleased)
<1> SUFFICES ASSUME ~ReportUnknown, "approval" \notin Kinds, \A w \in Work : MayDepend[w] = {}
             PROVE  Spec => []YieldReleased
  OBVIOUS
<1>1. IInv /\ YieldInv => YieldReleased
  BY DEF YieldInv, Waiting, Held, Released, YieldReleased
<1> QED BY InductiveYield, <1>1, PTL
=============================================================================
