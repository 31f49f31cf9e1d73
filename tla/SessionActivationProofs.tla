------------------------ MODULE SessionActivationProofs ------------------------
(***************************************************************************)
(* Proofs about SessionActivation, for any number of messages, executions, *)
(* drops and errors: two executions never run at once, an owner leaves by  *)
(* its own last step, every owner has an execution that will end it, and   *)
(* no message whose producer was answered is left behind.                  *)
(***************************************************************************)
EXTENDS SessionActivation, TLAPS

-----------------------------------------------------------------------------
(* The inductive invariant. *)

OwnerSet == [run : Run, registered : BOOLEAN, finalizing : BOOLEAN]
AttSet == [gen : Msg, by : Msg \cup {None}, recover : BOOLEAN, wake : BOOLEAN, pc : AttPc,
           run : Run \cup {None}]

\* Where an execution is registered, where it leaves as an owner, where it has the runner,
\* and where it may be while it is the owner.
Registered == {"m_slot", "start", "running"}
Leaving == {"final", "finish", "release", "c_slot", "c_mark", "c_inspect", "c_release"}
Holding == {"reserved", "launched", "start", "running", "final", "unbound"}
OwnerPc == RunPc \ {"none", "reserved", "m_register", "m_wait", "gone"}
Launching == {"bind", "publish", "rollback"}
Abandoned(x) == [run |-> x, registered |-> FALSE, finalizing |-> TRUE]

\* A record has its fields.
ShapeInv ==
  /\ owner = None \/ owner \in OwnerSet
  /\ att = None \/ (att \in AttSet /\ (att.pc \in Launching \cup {"adopt"} => att.run \in Run))
  /\ slot = None \/ slot \in Run
  /\ rpc \in [Run -> RunPc] /\ runs \in 0..MaxRun

\* What an execution has: from its registration to the last step of its cleanup it is the
\* owner, and its reservation is the one the router works on.
RunInv(x) ==
  /\ rpc[x] \in Registered => owner = Owner(x, TRUE)
  /\ rpc[x] = "launched" => owner = Owner(x, FALSE)
  /\ rpc[x] \in Leaving => OwnedBy(x)
  /\ rpc[x] \in {"c_inspect", "c_release"} => owner = Abandoned(x)
  /\ OwnedBy(x) => rpc[x] \in OwnerPc
  /\ rpc[x] \in Holding => slot = x
  /\ slot = x => rpc[x] \in Holding \cup {"c_slot"}
  /\ rpc[x] = "reserved" => att # None /\ att.run = x /\ att.pc \in Launching
  /\ att # None /\ att.run = x /\ att.pc \in Launching => rpc[x] = "reserved"
  /\ att # None /\ att.run = x /\ att.pc = "adopt" => rpc[x] \in {"unbound", "freed"}
  /\ x > runs => rpc[x] = "none"

\* Nobody reserves while there is an owner.
OwnInv == (owner # None => att = None) /\ \A x \in Run : RunInv(x)

-----------------------------------------------------------------------------
(* The kinds of steps. *)

\* The records of an owner and of an attempt, which are never None.
LEMMA Values ==
  /\ \A r \in Run : /\ r # None /\ r \in Int /\ Owner(r, TRUE) \in OwnerSet /\ Owner(r, FALSE) \in OwnerSet
                    /\ Owner(r, TRUE).run = r /\ Owner(r, FALSE).run = r /\ OwnerSet \cap {None} = {}
                    /\ Owner(r, TRUE) # Owner(r, FALSE)
  /\ \A g \in Msg, m \in Msg \cup {None}, a, b \in BOOLEAN :
       /\ Attempt(g, m, a, b) \in AttSet /\ Attempt(g, m, a, b) # None
       /\ Attempt(g, m, a, b).pc = "inspect"
<1>1. ASSUME NEW r \in Run
      PROVE  /\ r # None /\ r \in Int /\ Owner(r, TRUE) \in OwnerSet /\ Owner(r, FALSE) \in OwnerSet
             /\ Owner(r, TRUE).run = r /\ Owner(r, FALSE).run = r
             /\ Owner(r, TRUE) # Owner(r, FALSE)
  <2>1. r # None /\ r \in Int
    BY ActivationAssumption DEF Run
  <2>2. Owner(r, TRUE) \in OwnerSet /\ Owner(r, FALSE) \in OwnerSet
    BY DEF Owner, OwnerSet
  <2>3. Owner(r, TRUE).run = r /\ Owner(r, FALSE).run = r
    BY DEF Owner
  <2>4. Owner(r, TRUE).registered /\ ~Owner(r, FALSE).registered
    BY DEF Owner
  <2> QED BY <2>1, <2>2, <2>3, <2>4
<1>2. OwnerSet \cap {None} = {}
  BY ActivationAssumption DEF OwnerSet
<1>3. ASSUME NEW g \in Msg, NEW m \in Msg \cup {None}, NEW a \in BOOLEAN, NEW b \in BOOLEAN
      PROVE  /\ Attempt(g, m, a, b) \in AttSet /\ Attempt(g, m, a, b) # None
             /\ Attempt(g, m, a, b).pc = "inspect"
  <2>1. Attempt(g, m, a, b) \in AttSet
    BY DEF Attempt, AttSet, AttPc
  <2>2. Attempt(g, m, a, b) # None
    BY <2>1, ActivationAssumption DEF AttSet
  <2>3. Attempt(g, m, a, b) \in AttSet /\ Attempt(g, m, a, b).pc = "inspect"
    BY DEF Attempt, AttSet, AttPc
  <2> QED BY <2>2, <2>3
<1> QED BY <1>1, <1>2, <1>3

\* Waking moves the entries that wait, and nobody else.
LEMMA WokenRuns ==
  ASSUME NEW p \in [Run -> RunPc]
  PROVE  /\ Woken(p) \in [Run -> RunPc]
         /\ \A r \in Run : /\ p[r] # "m_wait" => Woken(p)[r] = p[r]
                           /\ p[r] = "m_wait" => Woken(p)[r] = "m_register"
<1>1. ASSUME NEW r \in Run
      PROVE  /\ p[r] # "m_wait" => Woken(p)[r] = p[r]
             /\ p[r] = "m_wait" => Woken(p)[r] = "m_register"
             /\ Woken(p)[r] \in RunPc
  <2>1. p[r] # "wait" /\ p[r] \in RunPc
    BY DEF RunPc
  <2>2. Woken(p)[r] = CASE p[r] = "wait" -> "request" [] p[r] = "m_wait" -> "m_register"
                        [] OTHER -> p[r]
    BY DEF Woken
  <2>3. CASE p[r] = "m_wait"
    BY <2>1, <2>2, <2>3 DEF RunPc
  <2>4. CASE p[r] # "m_wait"
    BY <2>1, <2>2, <2>4
  <2> QED BY <2>3, <2>4
<1>2. Woken(p) \in [Run -> RunPc]
  BY <1>1 DEF Woken
<1> QED BY <1>1, <1>2

\* One execution moves; entries that wait may be woken.
Moves(r, from, to) ==
  /\ r \in Run /\ rpc[r] \in from /\ rpc'[r] \in to
  /\ \A x \in Run \ {r} : rpc'[x] = rpc[x] \/ (rpc[x] = "m_wait" /\ rpc'[x] = "m_register")

Freed(r) == slot' = IF slot = r THEN None ELSE slot

\* Steps of an execution that change neither the owner nor the reservation.
Goes(r) ==
  /\ UNCHANGED <<owner, att, runs>>
  /\ \/ slot' = slot /\ Moves(r, {"m_register"}, {"m_wait"})
     \/ slot' = slot /\ Moves(r, {"m_register"}, {"gone"}) /\ owner # None
     \/ slot' = slot /\ Moves(r, {"m_slot"}, {"c_slot"})
     \/ slot = None /\ slot' = r /\ Moves(r, {"m_slot"}, {"start"})
     \/ slot' = slot /\ Moves(r, {"start", "running"}, {"running", "c_slot"})
     \/ Freed(r) /\ Moves(r, {"final"}, {"finish"})
     \/ slot' = slot /\ Moves(r, {"final"}, {"c_slot"})
     \/ slot' = slot /\ Moves(r, {"finish"}, {"release", "c_slot"})
     \/ slot' = slot /\ Moves(r, {"release"}, {"c_slot"})
     \/ Freed(r) /\ Moves(r, {"c_slot"}, {"c_mark"})
     \/ slot' = slot /\ Moves(r, {"c_inspect"}, {"c_release"})
     \/ Freed(r) /\ Moves(r, {"unbound"}, {"freed"})

\* An execution becomes the owner, stays it, or stops being it.
Enters(r) == /\ UNCHANGED <<slot, att, runs>> /\ owner = None /\ att = None /\ owner' = Owner(r, TRUE)
             /\ Moves(r, {"m_register"}, {"m_slot"})
Keeps(r) == /\ UNCHANGED <<slot, att, runs>> /\ OwnedBy(r) /\ owner' \in OwnerSet /\ owner'.run = r
            /\ \/ Moves(r, {"launched"}, {"start"}) /\ owner' = Owner(r, TRUE)
               \/ Moves(r, {"running"}, {"final"}) /\ owner'.finalizing = TRUE
               \/ Moves(r, {"c_mark"}, {"c_inspect"}) /\ owner' = Abandoned(r)
Leaves(r) == /\ UNCHANGED <<slot, runs>> /\ OwnedBy(r) /\ owner' = None
             /\ Moves(r, {"release", "c_release"}, {"gone"})
             /\ att' = att \/ (att' \in AttSet /\ att' # None /\ att'.pc = "inspect")

\* An execution is made.
Makes(r) == /\ runs' = runs + 1 /\ r = runs' /\ owner' = owner
            /\ \/ slot' = slot /\ att' = att /\ Moves(r, {"none"}, {"m_register"})
               \/ /\ slot = None /\ slot' = r /\ Moves(r, {"none"}, {"reserved"})
                  /\ att # None /\ att.pc = "slot"
                  /\ att' \in AttSet /\ att' # None /\ att'.pc = "bind" /\ att'.run = r

\* A reservation launches an execution, or gives it up.
Launches(r) ==
  /\ att # None /\ att.run = r /\ att.pc \in Launching /\ UNCHANGED runs
  /\ \/ /\ slot' = slot /\ att' = None /\ owner' = Owner(r, FALSE)
        /\ Moves(r, {"reserved"}, {"launched"})
     \/ /\ Freed(r) /\ owner' = owner /\ Moves(r, {"reserved"}, {"gone"})
        /\ att' = None \/ (att' \in AttSet /\ att' # None /\ att'.pc = "dropped")
     \/ /\ slot' = slot /\ owner' = owner /\ Moves(r, {"reserved"}, {"unbound"})
        /\ att' \in AttSet /\ att' # None /\ att'.pc = "dropped"

\* No execution moves: a reservation is made, goes on or ends.
Wakes == \A x \in Run : rpc'[x] = rpc[x] \/ (rpc[x] = "m_wait" /\ rpc'[x] = "m_register")
Reserves ==
  /\ UNCHANGED <<slot, runs>> /\ Wakes
  /\ \/ owner' = owner /\ att' = att
     \/ /\ owner' = owner /\ owner = None /\ att = None /\ att' \in AttSet /\ att' # None
        /\ att'.pc = "inspect"
     \/ owner' = owner /\ att # None /\ att.pc \notin Launching /\ att' = None
     \/ /\ owner' = owner /\ att # None /\ att.pc \notin Launching /\ att' \in AttSet /\ att' # None
        /\ att'.pc \in {"slot", "dropped"}
     \/ /\ owner' = owner /\ att # None /\ att.pc = "slot" /\ att' \in AttSet /\ att' # None
        /\ att'.pc = "adopt" /\ att'.run = slot /\ slot # None
     \/ /\ owner' = owner /\ att # None /\ att.pc \in {"bind", "publish"} /\ att' \in AttSet /\ att' # None
        /\ att'.run = att.run /\ att'.pc \in Launching
     \/ /\ att # None /\ att.pc = "adopt" /\ att' = None /\ owner' = Owner(att.run, FALSE)

Kind == \/ Reserves
        \/ \E r \in Run : Goes(r) \/ Enters(r) \/ Keeps(r) \/ Leaves(r) \/ Makes(r) \/ Launches(r)

-----------------------------------------------------------------------------
(* Every kind of step keeps the invariant. *)

\* An owner's record names its execution, registered or not.
LEMMA OwnerFacts ==
  ASSUME NEW x \in Run
  PROVE  /\ x # None /\ x \in Int /\ Owner(x, TRUE) # None /\ Owner(x, FALSE) # None
         /\ Owner(x, TRUE).run = x /\ Owner(x, FALSE).run = x /\ Owner(x, TRUE) # Owner(x, FALSE)
BY Values

\* Executions are numbered by integers.
LEMMA RunsFacts == ASSUME ShapeInv PROVE runs \in Int /\ \A x \in Run : x \in Int /\ x >= 1
<1>1. MaxRun \in Nat
  BY ActivationAssumption
<1> QED BY <1>1 DEF ShapeInv, Run

\* What a step of r leaves of the others.
LEMMA OthersOwn ==
  ASSUME ShapeInv, OwnInv, NEW r \in Run, NEW x \in Run, x # r,
         Goes(r) \/ Enters(r) \/ Keeps(r) \/ Leaves(r) \/ Makes(r) \/ Launches(r)
  PROVE  RunInv(x)'
<1> USE DEF OwnedBy
<1>0. /\ RunInv(x) /\ RunInv(r) /\ (owner # None => att = None)
      /\ rpc'[x] = rpc[x] \/ (rpc[x] = "m_wait" /\ rpc'[x] = "m_register")
  BY DEF OwnInv, Goes, Enters, Keeps, Leaves, Makes, Launches, Moves
<1>a. x # None /\ Owner(x, TRUE) # None /\ Owner(x, FALSE) # None /\ r # None
      /\ Owner(x, TRUE).run = x /\ Owner(x, FALSE).run = x
      /\ Owner(r, TRUE).run = r /\ Owner(r, FALSE).run = r
  BY OwnerFacts
\* The pc of x, up to a wake-up, decides nothing new.
<1>b. /\ rpc'[x] \in Registered => rpc[x] \in Registered
      /\ rpc'[x] = "launched" => rpc[x] = "launched"
      /\ rpc'[x] \in Leaving => rpc[x] \in Leaving
      /\ rpc'[x] \in {"c_inspect", "c_release"} => rpc[x] \in {"c_inspect", "c_release"}
      /\ rpc'[x] \in Holding <=> rpc[x] \in Holding
      /\ rpc'[x] = "c_slot" <=> rpc[x] = "c_slot"
      /\ rpc'[x] = "reserved" <=> rpc[x] = "reserved"
      /\ rpc[x] \in {"unbound", "freed"} <=> rpc'[x] \in {"unbound", "freed"}
      /\ rpc[x] \in OwnerPc => rpc'[x] \in OwnerPc
      /\ rpc[x] = "none" <=> rpc'[x] = "none"
  BY <1>0 DEF Registered, Leaving, Holding, OwnerPc, RunPc
<1>1. CASE UNCHANGED <<owner, att>> /\ runs' \in {runs, runs + 1} /\ r <= runs'
           /\ (slot' = slot \/ Freed(r) \/ (slot = None /\ slot' = r))
  <2>1. (slot' = x <=> slot = x)
    BY <1>1, <1>a DEF Freed
  <2>2. x > runs' => rpc'[x] = "none"
    <3>1. r \in Int /\ x \in Int /\ runs \in Int
      BY RunsFacts
    <3> QED BY <1>0, <1>1, <1>b, <3>1 DEF RunInv
  <2>3. rpc'[x] \in Holding => slot' = x
    BY <1>0, <1>b, <2>1 DEF RunInv
  <2>4. slot' = x => rpc'[x] \in Holding \cup {"c_slot"}
    BY <1>0, <1>b, <2>1 DEF RunInv
  <2> QED BY <1>0, <1>1, <1>b, <2>2, <2>3, <2>4 DEF RunInv
<1>2. CASE Goes(r) \/ (Makes(r) /\ UNCHANGED <<slot, att>>)
  <2>1. r <= runs'
    BY <1>2, <1>0, RunsFacts DEF Goes, Makes, Moves, RunInv
  <2> QED BY <1>1, <1>2, <2>1 DEF Goes, Makes
\* x is not where only an owner is, when there is none or r is it.
<1>c. (owner = None \/ owner.run = r) => /\ rpc[x] \notin Registered \cup Leaving \cup {"launched"}
                                         /\ rpc[x] \notin {"c_inspect", "c_release"}
                                         /\ ~OwnedBy(x)
  BY <1>0, <1>a DEF RunInv, Leaving
<1>d. rpc'[x] \in Holding => slot = x
  BY <1>0, <1>b DEF RunInv
<1>e. slot = x => rpc'[x] \in Holding \cup {"c_slot"}
  BY <1>0, <1>b DEF RunInv
<1>f. runs' = runs => (x > runs' => rpc'[x] = "none")
  BY <1>0, <1>b DEF RunInv
<1>3. CASE Enters(r) \/ Keeps(r)
  <2>1. owner' # None /\ owner'.run = r /\ (owner = None \/ owner.run = r)
    BY <1>3, <1>a, Values DEF Enters, Keeps
  <2>2. UNCHANGED <<slot, att, runs>>
    BY <1>3 DEF Enters, Keeps
  <2> QED BY <1>0, <1>b, <1>c, <1>d, <1>e, <1>f, <2>1, <2>2 DEF RunInv
<1>4. CASE Leaves(r)
  <2>1. owner' = None /\ owner # None /\ owner.run = r /\ att = None /\ UNCHANGED <<slot, runs>>
    BY <1>0, <1>4 DEF Leaves
  <2>2. att' # None => att'.pc \notin Launching \cup {"adopt"}
    BY <1>4, <2>1 DEF Leaves, Launching
  <2> QED BY <1>0, <1>b, <1>c, <1>d, <1>e, <1>f, <2>1, <2>2 DEF RunInv
<1>5. CASE Makes(r) /\ slot = None
  <2>1. rpc[x] \notin Holding /\ slot # x
    BY <1>0, <1>5, <1>a DEF RunInv
  <2>2. CASE slot' = r /\ owner' = owner /\ runs' = runs + 1 /\ att # None /\ att.pc = "slot" /\ att'.run = r
    <3>1. x > runs' => rpc'[x] = "none"
      <4>1. x \in Int /\ runs \in Int
        BY RunsFacts
      <4> QED BY <1>0, <1>b, <2>2, <4>1 DEF RunInv
    <3>2. rpc'[x] \notin Holding /\ rpc'[x] # "reserved"
      BY <1>b, <2>1 DEF Holding
    <3> QED BY <1>0, <1>b, <2>1, <2>2, <3>1, <3>2 DEF RunInv
  <2> QED BY <1>2, <1>5, <2>2 DEF Makes
<1>6. CASE Launches(r)
  <2>1. att.run = r /\ att # None /\ owner = None /\ runs' = runs
    BY <1>0, <1>6 DEF Launches
  <2>2. att' # None => att'.pc = "dropped"
    BY <1>6 DEF Launches
  <2>3. (slot' = x <=> slot = x) /\ rpc'[x] # "reserved"
    BY <1>0, <1>b, <1>6, <1>a, <2>1 DEF Launches, Freed, RunInv
  <2>4. owner' = None \/ owner' = Owner(r, FALSE)
    BY <1>6, <2>1 DEF Launches
  <2> QED BY <1>0, <1>a, <1>b, <1>c, <1>d, <1>e, <1>f, <2>1, <2>2, <2>3, <2>4 DEF RunInv, Launching
<1> QED BY <1>2, <1>3, <1>4, <1>5, <1>6 DEF Makes

\* What a step of r leaves of r.
LEMMA SelfOwn ==
  ASSUME ShapeInv, OwnInv, NEW r \in Run,
         Goes(r) \/ Enters(r) \/ Keeps(r) \/ Leaves(r) \/ Makes(r) \/ Launches(r)
  PROVE  RunInv(r)'
<1> USE DEF OwnedBy
<1>0. RunInv(r) /\ (owner # None => att = None)
  BY DEF OwnInv
<1>a. /\ r # None /\ Owner(r, TRUE) # None /\ Owner(r, FALSE) # None
      /\ Owner(r, TRUE).run = r /\ Owner(r, FALSE).run = r
  BY OwnerFacts
<1>b. runs' = runs /\ rpc[r] # "none" => ~(r > runs')
  BY <1>0, RunsFacts DEF RunInv
<1>1. CASE Goes(r)
  <2>1. UNCHANGED <<owner, att, runs>> /\ rpc[r] # "none" /\ rpc[r] # "reserved" /\ rpc'[r] # "reserved"
    BY <1>1 DEF Goes, Moves
  <2>2. ~(att # None /\ att.run = r /\ att.pc \in Launching)
    BY <1>0, <2>1 DEF RunInv
  <2>3. att # None /\ att.run = r /\ att.pc = "adopt" => rpc'[r] \in {"unbound", "freed"}
    BY <1>0, <1>1 DEF Goes, Moves, RunInv
  <2>4. rpc'[r] \in Registered => rpc[r] \in Registered
    BY <1>1 DEF Goes, Moves, Registered
  <2>5. rpc'[r] # "launched" /\ (rpc'[r] \in Leaving => rpc[r] \in Leaving \cup Registered)
    BY <1>1 DEF Goes, Moves, Registered, Leaving
  <2>8. rpc'[r] \in {"c_inspect", "c_release"} => rpc[r] \in {"c_inspect", "c_release"}
    BY <1>1 DEF Goes, Moves
  <2>6. OwnedBy(r) => rpc'[r] \in OwnerPc
    BY <1>0, <1>1 DEF Goes, Moves, RunInv, OwnerPc, RunPc
  <2>7. (rpc'[r] \in Holding => slot' = r) /\ (slot' = r => rpc'[r] \in Holding \cup {"c_slot"})
    <3>1. CASE slot' = slot
      BY <1>0, <1>1, <1>a, <3>1 DEF Goes, Moves, Freed, RunInv, Holding
    <3>2. CASE slot = None /\ slot' = r
      BY <1>0, <1>1, <1>a, <3>2 DEF Goes, Moves, Freed, RunInv, Holding
    <3>3. CASE Freed(r) /\ slot' # slot
      <4>1. slot' # r
        BY <1>a, <3>3 DEF Freed
      <4>2. rpc'[r] \notin Holding
        BY <1>1, <1>a, <3>3 DEF Goes, Moves, Freed, Holding
      <4> QED BY <4>1, <4>2
    <3> QED BY <1>1, <3>1, <3>2, <3>3 DEF Goes
  <2> QED BY <1>0, <1>a, <1>b, <2>1, <2>2, <2>3, <2>4, <2>5, <2>6, <2>7, <2>8 DEF RunInv
<1>2. CASE Enters(r) \/ Keeps(r)
  <2>1. UNCHANGED <<slot, att, runs>> /\ att = None /\ owner' # None /\ owner'.run = r /\ rpc[r] # "none"
    BY <1>0, <1>2, <1>a, Values DEF Enters, Keeps, Moves
  <2>2. /\ rpc'[r] \in Registered => owner' = Owner(r, TRUE)
        /\ rpc'[r] \in {"c_inspect", "c_release"} => owner' = Abandoned(r)
        /\ rpc'[r] \notin {"launched", "reserved"} /\ rpc'[r] \in OwnerPc
    BY <1>2 DEF Enters, Keeps, Moves, Registered, OwnerPc, RunPc
  <2>3. rpc'[r] \in Holding <=> rpc[r] \in Holding
    BY <1>2 DEF Enters, Keeps, Moves, Holding
  <2>4. rpc[r] # "c_slot"
    BY <1>2 DEF Enters, Keeps, Moves
  <2> QED BY <1>0, <1>b, <2>1, <2>2, <2>3, <2>4 DEF RunInv
<1>3. CASE Leaves(r)
  <2>1. /\ UNCHANGED <<slot, runs>> /\ att = None /\ owner' = None
        /\ rpc[r] \in {"release", "c_release"} /\ rpc'[r] = "gone"
    BY <1>0, <1>3 DEF Leaves, Moves
  <2>2. att' # None => att'.pc \notin Launching \cup {"adopt"}
    BY <1>3, <2>1 DEF Leaves, Launching
  <2>3. slot # r
    BY <1>0, <2>1 DEF RunInv, Holding
  <2> QED BY <1>b, <2>1, <2>2, <2>3 DEF RunInv, Registered, Leaving, Holding
<1>4. CASE Makes(r)
  <2>1. rpc[r] = "none" /\ runs' = runs + 1 /\ r = runs + 1 /\ owner' = owner
    BY <1>4 DEF Makes, Moves
  <2>2. ~(r > runs') /\ ~OwnedBy(r) /\ slot # r
    <3>1. ~(r > runs')
      BY <2>1, RunsFacts
    <3> QED BY <1>0, <2>1, <3>1 DEF RunInv, OwnerPc, Holding
  <2>3. CASE slot' = slot /\ att' = att /\ rpc'[r] = "m_register"
    BY <1>0, <2>1, <2>2, <2>3 DEF RunInv, Registered, Leaving, Holding
  <2>4. CASE /\ slot = None /\ slot' = r /\ rpc'[r] = "reserved" /\ att' # None /\ att'.pc = "bind"
             /\ att'.run = r
    BY <2>1, <2>2, <2>4 DEF RunInv, Registered, Leaving, Holding, Launching
  <2> QED BY <1>4, <2>3, <2>4 DEF Makes, Moves
<1>5. CASE Launches(r)
  <2>1. /\ att # None /\ att.run = r /\ owner = None /\ runs' = runs /\ rpc[r] = "reserved" /\ slot = r
        /\ att' # None => att'.pc = "dropped"
    BY <1>0, <1>5 DEF Launches, Moves, RunInv, Holding
  <2>2. CASE slot' = slot /\ owner' = Owner(r, FALSE) /\ rpc'[r] = "launched"
    BY <1>a, <1>b, <2>1, <2>2 DEF RunInv, Registered, Leaving, Holding, Launching, OwnerPc, RunPc
  <2>3. CASE Freed(r) /\ owner' = owner /\ rpc'[r] = "gone"
    BY <1>a, <1>b, <2>1, <2>3 DEF RunInv, Registered, Leaving, Holding, Launching, Freed
  <2>4. CASE slot' = slot /\ owner' = owner /\ rpc'[r] = "unbound"
    BY <1>a, <1>b, <2>1, <2>4 DEF RunInv, Registered, Leaving, Holding, Launching
  <2> QED BY <1>5, <2>2, <2>3, <2>4 DEF Launches, Moves
<1> QED BY <1>1, <1>2, <1>3, <1>4, <1>5

\* A step of the reservation alone: who is adopted holds the runner without a launch.
LEMMA ReservesOwn ==
  ASSUME ShapeInv, OwnInv, Reserves PROVE OwnInv'
<1> USE DEF OwnedBy
<1>0. owner # None => att = None
  BY DEF OwnInv
<1>1. (owner # None => att = None)'
  BY <1>0 DEF Reserves
<1>2. ASSUME NEW x \in Run PROVE RunInv(x)'
  <2>0. /\ RunInv(x) /\ UNCHANGED <<slot, runs>>
        /\ rpc'[x] = rpc[x] \/ (rpc[x] = "m_wait" /\ rpc'[x] = "m_register")
    BY DEF OwnInv, Reserves, Wakes
  <2>a. x # None /\ Owner(x, FALSE).run = x
    BY OwnerFacts
  <2>b. /\ rpc'[x] \in Registered => rpc[x] \in Registered
        /\ rpc'[x] = "launched" => rpc[x] = "launched"
        /\ rpc'[x] \in Leaving => rpc[x] \in Leaving
        /\ rpc'[x] \in {"c_inspect", "c_release"} => rpc[x] \in {"c_inspect", "c_release"}
        /\ rpc'[x] \in Holding <=> rpc[x] \in Holding
        /\ rpc'[x] = "c_slot" <=> rpc[x] = "c_slot"
        /\ rpc'[x] = "reserved" <=> rpc[x] = "reserved"
        /\ rpc[x] \in {"unbound", "freed"} <=> rpc'[x] \in {"unbound", "freed"}
        /\ rpc[x] \in OwnerPc => rpc'[x] \in OwnerPc
        /\ rpc[x] = "none" <=> rpc'[x] = "none"
    BY <2>0 DEF Registered, Leaving, Holding, OwnerPc, RunPc
  <2>1. CASE owner' = owner /\ att' = att
    BY <2>0, <2>b, <2>1 DEF RunInv
  <2>2. CASE /\ owner' = owner /\ (att = None \/ att.pc \notin Launching)
             /\ att' # None => att'.pc \notin Launching \cup {"adopt"}
    BY <2>0, <2>b, <2>2 DEF RunInv
  <2>3. CASE /\ owner' = owner /\ att # None /\ att.pc = "slot" /\ att' # None
             /\ att'.pc = "adopt" /\ att'.run = slot /\ slot # None
    <3>1. owner = None /\ att.pc \notin Launching /\ att'.pc \notin Launching
      BY <1>0, <2>3 DEF Launching
    <3>2. slot = x => rpc[x] = "unbound"
      <4>1. rpc[x] \notin Registered \cup Leaving \cup {"launched", "reserved"}
        BY <2>0, <3>1, OwnerFacts DEF RunInv
      <4> QED BY <2>0, <4>1 DEF RunInv, Holding, Leaving, Registered
    <3> QED BY <2>0, <2>b, <2>3, <3>1, <3>2 DEF RunInv
  <2>4. CASE /\ owner' = owner /\ att # None /\ att.pc \in Launching /\ att' # None
             /\ att'.run = att.run /\ att'.pc \in Launching
    BY <2>0, <2>b, <2>4 DEF RunInv, Launching
  <2>5. CASE att # None /\ att.pc = "adopt" /\ att' = None /\ owner' = Owner(att.run, FALSE)
    <3>1. owner = None /\ att.pc \notin Launching /\ att.run \in Run
      BY <1>0, <2>5 DEF Launching, ShapeInv
    <3>2. owner'.run = att.run
      BY <2>5, <3>1, OwnerFacts
    <3>3. /\ rpc[x] \notin Registered \cup Leaving \cup {"launched", "reserved"}
          /\ rpc[x] \notin {"c_inspect", "c_release"}
      BY <2>0, <3>1, OwnerFacts DEF RunInv, Leaving
    <3>4. x = att.run => rpc[x] \in OwnerPc
      BY <2>0, <2>5 DEF RunInv, OwnerPc, RunPc
    <3> QED BY <2>0, <2>b, <2>5, <3>1, <3>2, <3>3, <3>4 DEF RunInv
  <2> QED BY <1>0, <2>1, <2>2, <2>3, <2>4, <2>5 DEF Reserves, Launching
<1> QED BY <1>1, <1>2 DEF OwnInv

\* A step of any kind keeps the owner's invariant.
LEMMA KindOwn == ASSUME ShapeInv, OwnInv, Kind PROVE OwnInv'
<1>1. ASSUME NEW r \in Run, Goes(r) \/ Enters(r) \/ Keeps(r) \/ Leaves(r) \/ Makes(r) \/ Launches(r)
      PROVE  OwnInv'
  <2>1. (owner # None => att = None)'
    <3>0. owner # None => att = None
      BY DEF OwnInv
    <3>1. CASE Goes(r) \/ Enters(r) \/ Keeps(r) \/ Leaves(r)
      BY <3>0, <3>1, Values DEF Goes, Enters, Keeps, Leaves, OwnedBy
    <3>2. CASE Makes(r)
      BY <3>0, <3>2 DEF Makes
    <3>3. CASE Launches(r)
      BY <3>0, <3>3 DEF Launches
    <3> QED BY <1>1, <3>1, <3>2, <3>3
  <2>2. ASSUME NEW x \in Run PROVE RunInv(x)'
    BY <1>1, OthersOwn, SelfOwn
  <2> QED BY <2>1, <2>2 DEF OwnInv
<1> QED BY <1>1, ReservesOwn DEF Kind

-----------------------------------------------------------------------------
(* Every step is of a kind. *)

ProdPc == {"none", "request", "wait", "attempt", "answered", "failed", "dropped"}

\* Generations count messages, and whoever waits for a reservation finds one.
NumInv ==
  /\ gen \in 0..MaxMsg /\ admitted \in 0..gen /\ latest \in 0..gen /\ dispatched \in 0..gen
  /\ att # None => att.gen \in 1..gen /\ att.by \in (1..gen) \cup {None}
  /\ recovery = None \/ recovery \in [gen : 1..gen, completed : BOOLEAN]
  /\ rescue \in Nat /\ snap \in [Run -> 0..gen] /\ prod \in [Msg -> ProdPc]
  /\ \A m \in Msg : m > gen => prod[m] = "none"
  /\ (\E m \in Msg : prod[m] = "wait") \/ (\E r \in Run : rpc[r] = "m_wait") => att # None

\* The counters are naturals within their bounds.
LEMMA NumFacts ==
  ASSUME NumInv
  PROVE  /\ gen \in Nat /\ admitted \in Nat /\ latest \in Nat /\ dispatched \in Nat
         /\ gen <= MaxMsg /\ admitted <= gen /\ latest <= gen /\ dispatched <= gen /\ MaxMsg \in Nat
         /\ \A r \in Run : snap[r] \in Nat /\ snap[r] <= gen
<1>1. MaxMsg \in Nat
  BY ActivationAssumption
<1>2. gen \in Nat /\ gen <= MaxMsg
  BY <1>1 DEF NumInv
<1> QED BY <1>1, <1>2 DEF NumInv

\* A step that only moves one execution.
LEMMA GotoMoves ==
  ASSUME ShapeInv, NEW r \in Run, NEW from, NEW to, NEW l \in RunPc, rpc[r] \in from, l \in to, Goto(r, l)
  PROVE  Moves(r, from, to) /\ rpc' \in [Run -> RunPc]
BY DEF Goto, Moves, ShapeInv

\* A step that moves one execution and wakes the entries that wait.
LEMMA WokenMoves ==
  ASSUME ShapeInv, NEW r \in Run, NEW from, NEW to, NEW l \in RunPc \ {"m_wait"}, rpc[r] \in from, l \in to,
         rpc' = Woken([rpc EXCEPT ![r] = l])
  PROVE  Moves(r, from, to) /\ rpc' \in [Run -> RunPc]
<1>1. [rpc EXCEPT ![r] = l] \in [Run -> RunPc]
  BY DEF ShapeInv
<1>2. [rpc EXCEPT ![r] = l][r] = l /\ \A x \in Run \ {r} : [rpc EXCEPT ![r] = l][x] = rpc[x]
  BY DEF ShapeInv
<1> HIDE DEF Moves
<1>3. /\ rpc' \in [Run -> RunPc] /\ rpc'[r] = l
      /\ \A x \in Run \ {r} : /\ rpc[x] # "m_wait" => rpc'[x] = rpc[x]
                              /\ rpc[x] = "m_wait" => rpc'[x] = "m_register"
  BY <1>1, <1>2, WokenRuns
<1> QED BY <1>3 DEF Moves

\* A step that moves nobody, but may wake.
LEMMA WokenWakes ==
  ASSUME ShapeInv, rpc' = rpc \/ rpc' = Woken(rpc)
  PROVE  Wakes /\ rpc' \in [Run -> RunPc]
BY WokenRuns DEF Wakes, ShapeInv

\* The steps of a reservation.
LEMMA AttemptKinds ==
  ASSUME ShapeInv, OwnInv, NumInv, AttemptStep \/ AttemptDrop
  PROVE  Kind /\ rpc' \in [Run -> RunPc]
<1> USE DEF inboxVars, routerVars, runVars, bounds
<1>0. /\ att # None => att \in AttSet /\ \A l \in AttPc : [att EXCEPT !.pc = l] \in AttSet
      /\ att # None => \A l \in AttPc : [att EXCEPT !.pc = l].pc = l /\ [att EXCEPT !.pc = l].run = att.run
      /\ att # None /\ att.pc \in Launching \cup {"adopt"} => att.run \in Run
  BY DEF ShapeInv, AttSet
<1>n. None \notin AttSet
  BY ActivationAssumption DEF AttSet
<1>w. ASSUME Reserves PROVE Kind
  BY <1>w DEF Kind
<1>1. CASE Inspect
  <2>1. UNCHANGED <<owner, slot, runs>> /\ att # None /\ att.pc \notin Launching
    BY <1>1 DEF Inspect, Trying, Launching
  <2>2. rpc' = rpc \/ rpc' = Woken(rpc)
    BY <1>1 DEF Inspect
  <2>3. att' = None \/ att' = [att EXCEPT !.pc = "slot"]
    BY <1>1 DEF Inspect, Release, At
  <2>4. att' = None \/ (att' \in AttSet /\ att'.pc = "slot")
    BY <1>0, <2>1, <2>3 DEF AttPc
  <2> QED BY <1>n, <1>w, <2>1, <2>2, <2>4, WokenWakes DEF Reserves
<1>2. CASE ReserveSlot
  <2>1. owner' = owner /\ att # None /\ att.pc = "slot"
    BY <1>2 DEF ReserveSlot, Trying
  <2>2. CASE slot # None /\ att' = [att EXCEPT !.pc = "adopt", !.run = slot] /\ UNCHANGED <<slot, runs, rpc>>
    <3>1. att' \in AttSet /\ att'.pc = "adopt" /\ att'.run = slot
      BY <1>0, <2>1, <2>2 DEF AttSet, AttPc, ShapeInv
    <3> QED BY <1>n, <1>w, <2>1, <2>2, <3>1, WokenWakes DEF Reserves
  <2>3. CASE /\ slot = None /\ runs < MaxRun /\ runs' = runs + 1 /\ slot' = runs'
             /\ att' = [att EXCEPT !.pc = "bind", !.run = runs'] /\ Goto(runs', "reserved")
    <3>1. runs' \in Run /\ runs' > runs
      BY <2>3, ActivationAssumption, RunsFacts DEF ShapeInv, Run
    <3>2. rpc[runs'] = "none"
      BY <3>1 DEF OwnInv, RunInv
    <3>3. Moves(runs', {"none"}, {"reserved"}) /\ rpc' \in [Run -> RunPc]
      BY <2>3, <3>1, <3>2, GotoMoves DEF RunPc
    <3>4. att' \in AttSet /\ att'.pc = "bind" /\ att'.run = runs'
      BY <1>0, <2>1, <2>3, <3>1 DEF AttSet, AttPc
    <3> QED BY <1>n, <2>1, <2>3, <3>1, <3>3, <3>4 DEF Kind, Makes
  <2> QED BY <1>2, <2>2, <2>3 DEF ReserveSlot
<1>3. CASE Bind
  <2>1. att # None /\ att.pc = "bind" /\ att.run \in Run /\ UNCHANGED <<owner, runs>>
    BY <1>0, <1>3 DEF Bind, Trying, Launching
  <2>2. CASE At("publish") /\ UNCHANGED <<rpc, slot>>
    <3>1. att' \in AttSet /\ att'.pc = "publish" /\ att'.run = att.run
      BY <1>0, <2>1, <2>2 DEF At, AttPc
    <3> QED BY <1>n, <1>w, <2>1, <2>2, <3>1, WokenWakes DEF Reserves, Launching
  <2>3. CASE att' = None /\ FreeSlot(att.run) /\ rpc' = Woken([rpc EXCEPT ![att.run] = "gone"])
    <3>1. rpc[att.run] = "reserved"
      BY <2>1 DEF OwnInv, RunInv, Launching
    <3>2. Moves(att.run, {"reserved"}, {"gone"}) /\ rpc' \in [Run -> RunPc]
      BY <2>1, <2>3, <3>1, WokenMoves DEF RunPc
    <3> QED BY <2>1, <2>3, <3>2 DEF Kind, Launches, Launching, FreeSlot, Freed
  <2> QED BY <1>3, <2>2, <2>3 DEF Bind, Release
<1>4. CASE Publish
  <2>1. /\ att # None /\ att.pc = "publish" /\ att.run \in Run /\ UNCHANGED <<slot, runs>>
        /\ att' = None /\ owner' = Owner(att.run, FALSE) /\ rpc' = Woken([rpc EXCEPT ![att.run] = "launched"])
    BY <1>0, <1>4 DEF Publish, Trying, Launching, Release
  <2>2. rpc[att.run] = "reserved"
    BY <2>1 DEF OwnInv, RunInv, Launching
  <2>3. Moves(att.run, {"reserved"}, {"launched"}) /\ rpc' \in [Run -> RunPc]
    BY <2>1, <2>2, WokenMoves DEF RunPc
  <2> QED BY <2>1, <2>3 DEF Kind, Launches, Launching
<1>5. CASE Adopt
  <2>1. /\ att # None /\ att.pc = "adopt" /\ UNCHANGED <<slot, runs>> /\ att' = None
        /\ owner' = Owner(att.run, FALSE) /\ rpc' = Woken(rpc)
    BY <1>5 DEF Adopt, Trying, Release
  <2> QED BY <1>w, <2>1, WokenWakes DEF Reserves
<1>6. CASE Rollback
  <2>1. /\ att # None /\ att.pc = "rollback" /\ att.run \in Run /\ UNCHANGED <<owner, runs>>
        /\ FreeSlot(att.run) /\ Goto(att.run, "gone") /\ At("dropped")
    BY <1>0, <1>6 DEF Rollback, Trying, Launching
  <2>2. rpc[att.run] = "reserved"
    BY <2>1 DEF OwnInv, RunInv, Launching
  <2>3. Moves(att.run, {"reserved"}, {"gone"}) /\ rpc' \in [Run -> RunPc]
    BY <2>1, <2>2, GotoMoves DEF RunPc
  <2>4. att' \in AttSet /\ att'.pc = "dropped"
    BY <1>0, <2>1 DEF At, AttPc
  <2> QED BY <1>n, <2>1, <2>3, <2>4 DEF Kind, Launches, Launching, FreeSlot, Freed
<1>7. CASE Recover
  <2>1. /\ att # None /\ att.pc = "dropped" /\ UNCHANGED <<owner, slot, runs>> /\ att' = None
        /\ rpc' = Woken(rpc)
    BY <1>7 DEF Recover, Trying
  <2> QED BY <1>w, <2>1, WokenWakes DEF Reserves, Launching
<1>8. CASE AttemptDrop
  <2>1. /\ att # None /\ att.pc \in {"inspect", "slot", "bind", "publish", "adopt"}
        /\ UNCHANGED <<owner, slot, runs>> /\ At(AfterDrop(att.pc))
        /\ rpc' = IF att.pc = "bind" THEN [rpc EXCEPT ![att.run] = "unbound"] ELSE rpc
    BY <1>8 DEF AttemptDrop
  <2>2. AfterDrop(att.pc) = (IF att.pc = "publish" THEN "rollback" ELSE "dropped")
    BY DEF AfterDrop
  <2>3. att' \in AttSet /\ att'.run = att.run /\ att'.pc = AfterDrop(att.pc)
    BY <1>0, <2>1, <2>2 DEF At, AttPc
  <2>4. CASE att.pc = "bind"
    <3>1. att.run \in Run /\ rpc[att.run] = "reserved"
      BY <1>0, <2>1, <2>4 DEF OwnInv, RunInv, Launching
    <3>2. Moves(att.run, {"reserved"}, {"unbound"}) /\ rpc' \in [Run -> RunPc]
      BY <2>1, <2>4, <3>1, GotoMoves DEF RunPc, Goto
    <3> QED BY <1>n, <2>1, <2>2, <2>3, <2>4, <3>1, <3>2 DEF Kind, Launches, Launching
  <2>5. CASE att.pc = "publish"
    BY <1>n, <1>w, <2>1, <2>2, <2>3, <2>5, WokenWakes DEF Reserves, Launching
  <2>6. CASE att.pc \in {"inspect", "slot", "adopt"}
    BY <1>n, <1>w, <2>1, <2>2, <2>3, <2>6, WokenWakes DEF Reserves, Launching
  <2> QED BY <2>1, <2>4, <2>5, <2>6
<1> QED BY <1>1, <1>2, <1>3, <1>4, <1>5, <1>6, <1>7, <1>8 DEF AttemptStep

\* The last step of an owner: it makes at most one attempt for a successor.
LEMMA LeaveFacts ==
  ASSUME NumInv, ShapeInv, NEW r \in Run, NEW wanted, NEW caughtUp, Leave(r, wanted, caughtUp)
  PROVE  /\ owner' = None /\ Goto(r, "gone")
         /\ att' = att \/ (att = None /\ att' \in AttSet /\ att' # None /\ att'.pc = "inspect"
                           /\ att'.gen \in 1..gen /\ att'.by = None)
         /\ latest' \in 0..gen /\ dispatched' \in 0..gen
         /\ recovery' = None \/ recovery' \in [gen : 1..gen, completed : BOOLEAN]
<1> DEFINE seen == Most(latest, snap[r])
<1>1. seen \in 0..gen
  BY NumFacts DEF NumInv, Most
<1>2. seen > dispatched => seen \in Msg /\ seen \in 1..gen
  BY <1>1, NumFacts DEF Msg
<1>3. Completed => recovery' = None \/ recovery' \in [gen : 1..gen, completed : BOOLEAN]
  BY DEF Completed, NumInv
<1>4. seen > dispatched => /\ Attempt(seen, None, TRUE, FALSE) \in AttSet
                           /\ Attempt(seen, None, TRUE, FALSE) # None
                           /\ Attempt(seen, None, TRUE, FALSE).pc = "inspect"
                           /\ Attempt(seen, None, TRUE, FALSE).gen = seen
                           /\ Attempt(seen, None, TRUE, FALSE).by = None
  <2>1. Attempt(seen, None, TRUE, FALSE).gen = seen /\ Attempt(seen, None, TRUE, FALSE).by = None
    BY DEF Attempt
  <2> QED BY <1>2, <2>1, Values
<1>5. dispatched \in 0..gen /\ 0 \in 0..gen
  BY NumFacts DEF NumInv
<1>6. CASE /\ wanted /\ seen > dispatched /\ att = None
           /\ latest' = seen /\ att' = Attempt(seen, None, TRUE, FALSE)
           /\ UNCHANGED dispatched /\ Completed
  BY <1>1, <1>2, <1>3, <1>4, <1>5, <1>6 DEF Leave
<1>7. CASE /\ UNCHANGED att
           /\ \/ latest' = 0 /\ dispatched' = 0 /\ recovery' = None
              \/ latest' = seen /\ UNCHANGED dispatched /\ Completed
  BY <1>1, <1>3, <1>5, <1>7 DEF Leave
<1> QED BY <1>6, <1>7 DEF Leave

\* The steps of an execution.
LEMMA RunKinds ==
  ASSUME ShapeInv, OwnInv, NumInv, NEW r \in Run, RunStep(r) \/ RunDrop(r) \/ RemoveRunner(r)
  PROVE  Kind /\ rpc' \in [Run -> RunPc]
<1> USE DEF inboxVars, routerVars, runVars, bounds
<1>0. RunInv(r)
  BY DEF OwnInv
<1>g. ASSUME Goes(r) PROVE Kind
  BY <1>g DEF Kind
<1>1. CASE RegisterEntry(r)
  <2>0. rpc[r] = "m_register" /\ UNCHANGED <<att, slot, runs>>
    BY <1>1 DEF RegisterEntry
  <2>1. CASE owner # None /\ Goto(r, "gone") /\ UNCHANGED owner
    <3>1. Moves(r, {"m_register"}, {"gone"}) /\ rpc' \in [Run -> RunPc]
      BY <2>0, <2>1, GotoMoves DEF RunPc
    <3> QED BY <1>g, <2>0, <2>1, <3>1 DEF Goes
  <2>2. CASE Goto(r, "m_wait") /\ UNCHANGED owner
    <3>1. Moves(r, {"m_register"}, {"m_wait"}) /\ rpc' \in [Run -> RunPc]
      BY <2>0, <2>2, GotoMoves DEF RunPc
    <3> QED BY <1>g, <2>0, <2>2, <3>1 DEF Goes
  <2>3. CASE owner = None /\ att = None /\ Goto(r, "m_slot") /\ owner' = Owner(r, TRUE)
    <3>1. Moves(r, {"m_register"}, {"m_slot"}) /\ rpc' \in [Run -> RunPc]
      BY <2>0, <2>3, GotoMoves DEF RunPc
    <3> QED BY <2>0, <2>3, <3>1 DEF Kind, Enters
  <2> QED BY <1>1, <2>1, <2>2, <2>3 DEF RegisterEntry, ReservationSeen
<1>2. CASE EntrySlot(r)
  <2>0. rpc[r] = "m_slot" /\ UNCHANGED <<owner, att, runs>>
    BY <1>2 DEF EntrySlot
  <2>1. CASE slot = None /\ slot' = r /\ Goto(r, "start")
    <3>1. Moves(r, {"m_slot"}, {"start"}) /\ rpc' \in [Run -> RunPc]
      BY <2>0, <2>1, GotoMoves DEF RunPc
    <3> QED BY <1>g, <2>0, <2>1, <3>1 DEF Goes
  <2>2. CASE UNCHANGED slot /\ Goto(r, "c_slot")
    <3>1. Moves(r, {"m_slot"}, {"c_slot"}) /\ rpc' \in [Run -> RunPc]
      BY <2>0, <2>2, GotoMoves DEF RunPc
    <3> QED BY <1>g, <2>0, <2>2, <3>1 DEF Goes
  <2> QED BY <1>2, <2>1, <2>2 DEF EntrySlot
<1>3. CASE Register(r)
  <2>1. rpc[r] = "launched" /\ owner = Owner(r, FALSE) /\ owner' = Owner(r, TRUE) /\ Goto(r, "start")
        /\ UNCHANGED <<att, slot, runs>>
    BY <1>0, <1>3 DEF Register, RunInv
  <2>2. Moves(r, {"launched"}, {"start"}) /\ rpc' \in [Run -> RunPc]
    BY <2>1, GotoMoves DEF RunPc
  <2>3. OwnedBy(r) /\ owner' \in OwnerSet /\ owner'.run = r
    BY <2>1, Values DEF OwnedBy
  <2> QED BY <2>1, <2>2, <2>3 DEF Kind, Keeps
<1>4. CASE Drain(r)
  <2>1. rpc[r] \in {"start", "running"} /\ Goto(r, "running")
        /\ UNCHANGED <<owner, att, slot, runs>>
    BY <1>4 DEF Drain
  <2>2. Moves(r, {"start", "running"}, {"running", "c_slot"}) /\ rpc' \in [Run -> RunPc]
    BY <2>1, GotoMoves DEF RunPc
  <2> QED BY <1>g, <2>1, <2>2 DEF Goes
<1>5. CASE BeginFinalization(r)
  <2>1. rpc[r] = "running" /\ Goto(r, "final") /\ UNCHANGED <<att, slot, runs>>
    BY <1>5 DEF BeginFinalization
  <2>2. owner = Owner(r, TRUE) /\ OwnedBy(r)
    BY <1>0, <2>1, Values DEF RunInv, Registered, OwnedBy
  <2>3. owner' = [owner EXCEPT !.finalizing = TRUE]
    BY <1>5, <2>2 DEF BeginFinalization
  <2>4. owner' \in OwnerSet /\ owner'.run = r /\ owner'.finalizing = TRUE
    BY <2>2, <2>3 DEF Owner, OwnerSet
  <2>5. Moves(r, {"running"}, {"final"}) /\ rpc' \in [Run -> RunPc]
    BY <2>1, GotoMoves DEF RunPc
  <2> QED BY <2>1, <2>2, <2>4, <2>5 DEF Kind, Keeps
<1>6. CASE FinalizeRunner(r)
  <2>1. rpc[r] = "final" /\ FreeSlot(r) /\ Goto(r, "finish") /\ UNCHANGED <<owner, att, runs>>
    BY <1>6 DEF FinalizeRunner
  <2>2. Moves(r, {"final"}, {"finish"}) /\ rpc' \in [Run -> RunPc]
    BY <2>1, GotoMoves DEF RunPc
  <2> QED BY <1>g, <2>1, <2>2 DEF Goes, Freed, FreeSlot
<1>7. CASE FinishInspect(r)
  <2>1. /\ rpc[r] = "finish" /\ UNCHANGED <<owner, att, slot, runs>>
        /\ Goto(r, "release") \/ Goto(r, "c_slot")
    BY <1>7 DEF FinishInspect
  <2>2. Moves(r, {"finish"}, {"release", "c_slot"}) /\ rpc' \in [Run -> RunPc]
    BY <2>1, GotoMoves DEF RunPc
  <2> QED BY <1>g, <2>1, <2>2 DEF Goes
\* The two releases.
<1>l. ASSUME rpc[r] \in {"release", "c_release"}, UNCHANGED <<slot, runs>>,
             \E wanted, caughtUp : Leave(r, wanted, caughtUp)
      PROVE  Kind /\ rpc' \in [Run -> RunPc]
  <2>1. OwnedBy(r)
    BY <1>0, <1>l DEF RunInv, Leaving
  <2>2. /\ owner' = None /\ Goto(r, "gone")
        /\ att' = att \/ (att' \in AttSet /\ att' # None /\ att'.pc = "inspect")
    BY <1>l, LeaveFacts
  <2>3. Moves(r, {"release", "c_release"}, {"gone"}) /\ rpc' \in [Run -> RunPc]
    BY <1>l, <2>2, GotoMoves DEF RunPc
  <2> QED BY <1>l, <2>1, <2>2, <2>3 DEF Kind, Leaves
<1>8. CASE FinishRelease(r)
  <2>1. OwnedBy(r) /\ rpc[r] = "release" /\ UNCHANGED <<slot, runs>>
    BY <1>0, <1>8 DEF FinishRelease, RunInv, Leaving
  <2>2. Leave(r, News(r), ~News(r))
    BY <1>8, <2>1 DEF FinishRelease
  <2> QED BY <1>l, <2>1, <2>2
<1>9. CASE CleanSlot(r)
  <2>1. rpc[r] = "c_slot" /\ FreeSlot(r) /\ Goto(r, "c_mark") /\ UNCHANGED <<owner, att, runs>>
    BY <1>9 DEF CleanSlot
  <2>2. Moves(r, {"c_slot"}, {"c_mark"}) /\ rpc' \in [Run -> RunPc]
    BY <2>1, GotoMoves DEF RunPc
  <2> QED BY <1>g, <2>1, <2>2 DEF Goes, Freed, FreeSlot
<1>10. CASE CleanMark(r)
  <2>1. OwnedBy(r) /\ rpc[r] = "c_mark" /\ UNCHANGED <<att, slot, runs>>
    BY <1>0, <1>10 DEF CleanMark, RunInv, Leaving
  <2>2. Goto(r, "c_inspect") /\ owner' = [owner EXCEPT !.registered = FALSE, !.finalizing = TRUE]
    BY <1>10, <2>1 DEF CleanMark
  <2>3. owner' \in OwnerSet /\ owner'.run = r /\ owner' = Abandoned(r)
    BY <2>1, <2>2 DEF OwnedBy, OwnerSet, ShapeInv, Abandoned
  <2>4. Moves(r, {"c_mark"}, {"c_inspect"}) /\ rpc' \in [Run -> RunPc]
    BY <2>1, <2>2, GotoMoves DEF RunPc
  <2> QED BY <2>1, <2>3, <2>4 DEF Kind, Keeps
<1>11. CASE CleanInspect(r)
  <2>1. rpc[r] = "c_inspect" /\ Goto(r, "c_release") /\ UNCHANGED <<owner, att, slot, runs>>
    BY <1>11 DEF CleanInspect
  <2>2. Moves(r, {"c_inspect"}, {"c_release"}) /\ rpc' \in [Run -> RunPc]
    BY <2>1, GotoMoves DEF RunPc
  <2> QED BY <1>g, <2>1, <2>2 DEF Goes
<1>12. CASE CleanRelease(r)
  <2>0. rpc[r] = "c_release" /\ OwnedBy(r) /\ UNCHANGED <<slot, runs>>
    BY <1>0, <1>12 DEF CleanRelease, RunInv, Leaving
  <2>1. CASE Leave(r, TRUE, Most(latest, snap[r]) = 0)
    BY <1>l, <2>0, <2>1
  <2>2. CASE ~(owner.finalizing /\ ~owner.registered) /\ Goto(r, "gone") /\ UNCHANGED <<owner, att>>
    BY <1>0, <2>0, <2>2 DEF RunInv, Abandoned
  <2> QED BY <1>12, <2>0, <2>1, <2>2 DEF CleanRelease
<1>13. CASE RunDrop(r)
  <2>1. /\ rpc[r] \in {"m_slot", "start", "running", "final", "finish", "release"}
        /\ Goto(r, "c_slot") /\ UNCHANGED <<owner, att, slot, runs>>
    BY <1>13 DEF RunDrop
  <2>2. Moves(r, {rpc[r]}, {"c_slot"}) /\ rpc' \in [Run -> RunPc]
    BY <2>1, GotoMoves DEF RunPc
  <2>3. Goes(r)
    BY <2>1, <2>2 DEF Goes, Moves
  <2> QED BY <1>g, <2>2, <2>3
<1>14. CASE RemoveRunner(r)
  <2>1. rpc[r] = "unbound" /\ FreeSlot(r) /\ Goto(r, "freed") /\ UNCHANGED <<owner, att, runs>>
    BY <1>14 DEF RemoveRunner
  <2>2. Moves(r, {"unbound"}, {"freed"}) /\ rpc' \in [Run -> RunPc]
    BY <2>1, GotoMoves DEF RunPc
  <2> QED BY <1>g, <2>1, <2>2 DEF Goes, Freed, FreeSlot
<1> QED BY <1>1, <1>2, <1>3, <1>4, <1>5, <1>6, <1>7, <1>8, <1>9, <1>10, <1>11, <1>12, <1>13, <1>14
        DEF RunStep

\* Every step of the specification is of one of the kinds.
LEMMA StepKinds ==
  ASSUME ShapeInv, OwnInv, NumInv, [Next]_vars
  PROVE  Kind /\ rpc' \in [Run -> RunPc]
<1> USE DEF inboxVars, routerVars, runVars, bounds
<1>w. ASSUME Reserves PROVE Kind
  BY <1>w DEF Kind
<1>s. ASSUME UNCHANGED <<owner, att, slot, runs, rpc>> PROVE Kind /\ rpc' \in [Run -> RunPc]
  <2>1. Reserves
    BY <1>s, WokenWakes DEF Reserves
  <2> QED BY <1>s, <1>w, <2>1 DEF ShapeInv
<1>a. ASSUME owner = None, att = None, UNCHANGED <<owner, slot, runs, rpc>>,
             NEW g \in Msg, NEW by \in Msg \cup {None}, NEW a \in BOOLEAN, NEW b \in BOOLEAN,
             att' = Attempt(g, by, a, b)
      PROVE  Kind /\ rpc' \in [Run -> RunPc]
  <2>1. Reserves
    BY <1>a, Values, WokenWakes DEF Reserves
  <2> QED BY <1>a, <1>w, <2>1 DEF ShapeInv
<1>1. CASE Commit \/ UNCHANGED vars
  BY <1>s, <1>1 DEF Commit, vars
<1>2. ASSUME NEW m \in Msg, Request(m) \/ ProducerDrop(m) PROVE Kind /\ rpc' \in [Run -> RunPc]
  <2>1. UNCHANGED <<owner, slot, runs, rpc>>
    BY <1>2 DEF Request, ProducerDrop
  <2>2. att' = att \/ (owner = None /\ att = None /\ att' = Attempt(m, m, FALSE, FALSE))
    BY <1>2 DEF Request, ProducerDrop
  <2> QED BY <1>s, <1>a, <2>1, <2>2
<1>3. CASE AttemptStep \/ AttemptDrop
  BY <1>3, AttemptKinds
<1>4. CASE Rescue
  <2>1. UNCHANGED <<owner, slot, runs, rpc>>
    BY <1>4 DEF Rescue
  <2>2. att' = att \/ (/\ owner = None /\ att = None /\ latest > dispatched
                       /\ att' = Attempt(latest, None, FALSE, FALSE))
    BY <1>4 DEF Rescue
  <2>3. latest > dispatched => latest \in Msg
    BY NumFacts DEF Msg
  <2> QED BY <1>s, <1>a, <2>1, <2>2, <2>3
<1>5. CASE Execute
  <2>1. runs < MaxRun /\ runs' = runs + 1 /\ Goto(runs', "m_register")
        /\ UNCHANGED <<owner, att, slot>>
    BY <1>5 DEF Execute
  <2>2. runs' \in Run /\ runs' > runs
    BY <2>1, ActivationAssumption, RunsFacts DEF ShapeInv, Run
  <2>3. rpc[runs'] = "none"
    BY <2>2 DEF OwnInv, RunInv
  <2>4. Moves(runs', {"none"}, {"m_register"}) /\ rpc' \in [Run -> RunPc]
    BY <2>1, <2>2, <2>3, GotoMoves DEF RunPc
  <2> QED BY <2>1, <2>2, <2>4 DEF Kind, Makes
<1>6. CASE Wake
  <2>1. UNCHANGED <<owner, slot, runs, rpc>> /\ Pending
    BY <1>6 DEF Wake
  <2>2. att' = att \/ (owner = None /\ att = None /\ att' = Attempt(admitted + 1, None, FALSE, TRUE))
    BY <1>6 DEF Wake
  <2>3. admitted + 1 \in Msg
    BY <2>1, NumFacts DEF Pending, Msg
  <2> QED BY <1>s, <1>a, <2>1, <2>2, <2>3
<1>7. ASSUME NEW r \in Run, RunStep(r) \/ RunDrop(r) \/ RemoveRunner(r)
      PROVE  Kind /\ rpc' \in [Run -> RunPc]
  BY <1>7, RunKinds
<1> QED BY <1>1, <1>2, <1>3, <1>4, <1>5, <1>6, <1>7 DEF Next

\* Records keep their fields.
LEMMA StepShape ==
  ASSUME ShapeInv, OwnInv, Kind, rpc' \in [Run -> RunPc] PROVE ShapeInv'
<1>1. CASE Reserves
  <2>1. owner' = None \/ owner' \in OwnerSet
    <3>1. CASE owner' = owner
      BY <3>1 DEF ShapeInv
    <3>2. CASE att # None /\ att.pc = "adopt" /\ owner' = Owner(att.run, FALSE)
      <4>1. att.run \in Run
        BY <3>2 DEF ShapeInv
      <4> QED BY <3>2, <4>1, Values
    <3> QED BY <1>1, <3>1, <3>2 DEF Reserves
  <2>2. att' = None \/ (att' \in AttSet /\ (att'.pc \in Launching \cup {"adopt"} => att'.run \in Run))
    <3>1. CASE att' = att \/ att' = None
      BY <3>1 DEF ShapeInv
    <3>2. CASE att' \in AttSet /\ att'.pc \in {"inspect", "slot", "dropped"}
      BY <3>2 DEF Launching
    <3>3. CASE att' \in AttSet /\ att'.run = slot /\ slot # None
      BY <3>3 DEF ShapeInv
    <3>4. CASE att' \in AttSet /\ att # None /\ att.pc \in {"bind", "publish"} /\ att'.run = att.run
      BY <3>4 DEF ShapeInv, Launching
    <3> QED BY <1>1, <3>1, <3>2, <3>3, <3>4 DEF Reserves
  <2>3. UNCHANGED <<slot, runs>>
    BY <1>1 DEF Reserves
  <2> QED BY <2>1, <2>2, <2>3 DEF ShapeInv
<1>2. ASSUME NEW r \in Run, Goes(r) \/ Enters(r) \/ Keeps(r) \/ Leaves(r) \/ Makes(r) \/ Launches(r)
      PROVE  ShapeInv'
  <2>1. owner' = None \/ owner' \in OwnerSet
    BY <1>2, Values DEF Goes, Enters, Keeps, Leaves, Makes, Launches, ShapeInv
  <2>2. att' = None \/ (att' \in AttSet /\ (att'.pc \in Launching \cup {"adopt"} => att'.run \in Run))
    <3>1. CASE att' = att \/ att' = None
      BY <3>1 DEF ShapeInv
    <3>2. CASE att' \in AttSet /\ att'.pc \in {"inspect", "dropped"}
      BY <3>2 DEF Launching
    <3>3. CASE att' \in AttSet /\ att'.run = r
      BY <3>3
    <3> QED BY <1>2, <3>1, <3>2, <3>3 DEF Goes, Enters, Keeps, Leaves, Makes, Launches
  <2>3. slot' = None \/ slot' \in Run
    BY <1>2 DEF Goes, Enters, Keeps, Leaves, Makes, Launches, Freed, ShapeInv
  <2>4. runs' \in 0..MaxRun
    <3>1. CASE runs' = runs
      BY <3>1 DEF ShapeInv
    <3>2. CASE Makes(r)
      BY <3>2, RunsFacts, ActivationAssumption DEF Makes, Run, ShapeInv
    <3> QED BY <1>2, <3>1, <3>2 DEF Goes, Enters, Keeps, Leaves, Launches
  <2> QED BY <2>1, <2>2, <2>3, <2>4 DEF ShapeInv
<1> QED BY <1>1, <1>2 DEF Kind

\* Nobody waits for a reservation that is gone: whoever ends it wakes them all.
LEMMA WokenProd ==
  ASSUME NEW p \in [Msg -> ProdPc]
  PROVE  /\ Woken(p) \in [Msg -> ProdPc]
         /\ \A m \in Msg : Woken(p)[m] # "wait" /\ (p[m] = "none" => Woken(p)[m] = "none")
<1>1. ASSUME NEW m \in Msg
      PROVE  /\ Woken(p)[m] \in ProdPc /\ Woken(p)[m] # "wait"
             /\ p[m] = "none" => Woken(p)[m] = "none"
  <2>1. p[m] # "m_wait" /\ p[m] \in ProdPc
    BY DEF ProdPc
  <2>2. Woken(p)[m] = CASE p[m] = "wait" -> "request" [] p[m] = "m_wait" -> "m_register"
                        [] OTHER -> p[m]
    BY DEF Woken
  <2>3. CASE p[m] = "wait"
    BY <2>1, <2>2, <2>3 DEF ProdPc
  <2>4. CASE p[m] # "wait"
    BY <2>1, <2>2, <2>4
  <2> QED BY <2>3, <2>4
<1>2. Woken(p) \in [Msg -> ProdPc]
  BY <1>1 DEF Woken
<1> QED BY <1>1, <1>2

\* The counters of the inbox and of the router.
Counts ==
  /\ gen \in 0..MaxMsg /\ admitted \in 0..gen /\ latest \in 0..gen /\ dispatched \in 0..gen
  /\ att # None => att.gen \in 1..gen /\ att.by \in (1..gen) \cup {None}
  /\ recovery = None \/ recovery \in [gen : 1..gen, completed : BOOLEAN]
  /\ rescue \in Nat /\ snap \in [Run -> 0..gen]

\* Whoever waits.
Waiting ==
  /\ prod \in [Msg -> ProdPc]
  /\ \A m \in Msg : m > gen => prod[m] = "none"
  /\ (\E m \in Msg : prod[m] = "wait") \/ (\E r \in Run : rpc[r] = "m_wait") => att # None

\* The two parts of the numeric invariant are kept by arguments of their own.
LEMMA NumParts == NumInv <=> Counts /\ Waiting
BY DEF NumInv, Counts, Waiting

\* The larger of two counters is a counter.
LEMMA MostFacts ==
  ASSUME NEW n \in Nat, NEW a \in 0..n, NEW b \in 0..n PROVE Most(a, b) \in 0..n
BY DEF Most

\* Generations stay within what was committed.
LEMMA StepCounts == ASSUME NumInv, ShapeInv, [Next]_vars PROVE Counts'
<1> USE DEF inboxVars, routerVars, runVars, bounds
<1>0. Counts /\ gen \in Nat /\ MaxMsg \in Nat
  BY NumParts, NumFacts
<1>a. att # None => /\ \A l : [att EXCEPT !.pc = l].gen = att.gen /\ [att EXCEPT !.pc = l].by = att.by
  BY DEF ShapeInv, AttSet
\* A step that leaves the inbox and the router's counters alone.
<1>b. ASSUME UNCHANGED <<gen, admitted, latest, dispatched, recovery, rescue, snap>>,
             att' = att \/ att' = None \/ (att # None /\ att'.gen = att.gen /\ att'.by = att.by)
      PROVE  Counts'
  BY <1>0, <1>b DEF Counts
<1>1. CASE Commit
  <2>1. gen' = gen + 1 /\ gen < MaxMsg
        /\ UNCHANGED <<admitted, latest, dispatched, att, recovery, rescue, snap>>
    BY <1>1 DEF Commit
  <2>2. 0..gen \subseteq 0..gen' /\ 1..gen \subseteq 1..gen' /\ gen' \in 0..MaxMsg
    BY <1>0, <2>1
  <2>3. recovery # None => recovery.gen \in 1..gen /\ recovery = [gen |-> recovery.gen, completed |-> recovery.completed]
                           /\ recovery.completed \in BOOLEAN
    BY <1>0 DEF Counts
  <2>4. recovery' = None \/ recovery' \in [gen : 1..gen', completed : BOOLEAN]
    BY <2>1, <2>2, <2>3
  <2>5. snap' \in [Run -> 0..gen']
    BY <1>0, <2>1, <2>2 DEF Counts
  <2> QED BY <1>0, <2>1, <2>2, <2>4, <2>5 DEF Counts
<1>2. ASSUME NEW m \in Msg, Request(m) PROVE Counts'
  <2>1. UNCHANGED <<gen, admitted, dispatched, recovery, rescue, snap>> /\ latest' = Most(latest, m)
    BY <1>2 DEF Request
  <2>2. m \in 1..gen /\ m \in 0..gen
    <3>1. prod[m] # "none" /\ ~(m > gen)
      BY <1>2 DEF Request, NumInv
    <3> QED BY <1>0, <3>1 DEF Msg
  <2>3. latest' \in 0..gen
    BY <1>0, <2>1, <2>2, MostFacts DEF Counts
  <2>4. att' = att \/ att' = Attempt(m, m, FALSE, FALSE)
    BY <1>2 DEF Request
  <2>5. att' # None => att'.gen \in 1..gen /\ att'.by \in (1..gen) \cup {None}
    BY <1>0, <2>2, <2>4 DEF Counts, Attempt
  <2> QED BY <1>0, <2>1, <2>3, <2>5 DEF Counts
<1>3. ASSUME NEW m \in Msg, ProducerDrop(m) PROVE Counts'
  BY <1>b, <1>3 DEF ProducerDrop
<1>4. CASE Inspect \/ Publish \/ Adopt
  <2>1. /\ UNCHANGED <<gen, admitted, latest, rescue, snap>> /\ att # None
        /\ dispatched' = dispatched \/ dispatched' = Dispatched(att.gen)
        /\ recovery' = recovery \/ \E c \in BOOLEAN : recovery' = [gen |-> att.gen, completed |-> c]
        /\ att' = None \/ att' = [att EXCEPT !.pc = "slot"]
    BY <1>4 DEF Inspect, Publish, Adopt, Trying, Release, At
  <2>2. att.gen \in 1..gen /\ att.gen \in 0..gen
    BY <1>0, <2>1 DEF Counts
  <2>3. dispatched' \in 0..gen
    BY <1>0, <2>1, <2>2, MostFacts DEF Counts, Dispatched
  <2>4. recovery' = None \/ recovery' \in [gen : 1..gen, completed : BOOLEAN]
    BY <1>0, <2>1, <2>2 DEF Counts
  <2>5. att' # None => att'.gen = att.gen /\ att'.by = att.by
    BY <1>a, <2>1
  <2> QED BY <1>0, <2>1, <2>2, <2>3, <2>4, <2>5 DEF Counts
<1>5. CASE ReserveSlot
  <2>1. UNCHANGED <<gen, admitted, latest, dispatched, recovery, rescue, snap>> /\ att # None
    BY <1>5 DEF ReserveSlot, Trying
  <2>2. \/ att' = [att EXCEPT !.pc = "adopt", !.run = slot]
        \/ att' = [att EXCEPT !.pc = "bind", !.run = runs']
    BY <1>5 DEF ReserveSlot
  <2>3. att'.gen = att.gen /\ att'.by = att.by
    BY <2>1, <2>2 DEF ShapeInv, AttSet
  <2> QED BY <1>b, <2>1, <2>3
<1>6. CASE Bind \/ Rollback \/ AttemptDrop
  <2>1. UNCHANGED <<gen, admitted, latest, dispatched, recovery, rescue, snap>> /\ att # None
    BY <1>6 DEF Bind, Rollback, AttemptDrop, Trying
  <2>2. att' = None \/ \E l : att' = [att EXCEPT !.pc = l]
    BY <1>6 DEF Bind, Rollback, AttemptDrop, At, Release
  <2> QED BY <1>a, <1>b, <2>1, <2>2
<1>7. CASE Recover
  <2>1. UNCHANGED <<gen, admitted, latest, dispatched, recovery, snap>> /\ att' = None
        /\ rescue' \in {rescue, rescue + 1}
    BY <1>0, <1>7 DEF Recover, Counts
  <2> QED BY <1>0, <2>1 DEF Counts
<1>8. CASE Rescue
  <2>1. UNCHANGED <<gen, admitted, latest, dispatched, recovery, snap>> /\ rescue > 0 /\ rescue' = rescue - 1
    BY <1>8 DEF Rescue
  <2>2. att' = att \/ (latest > dispatched /\ att' = Attempt(latest, None, FALSE, FALSE))
    BY <1>8 DEF Rescue
  <2>3. latest > dispatched => latest \in 1..gen
    BY NumFacts
  <2>4. att' # None => att'.gen \in 1..gen /\ att'.by \in (1..gen) \cup {None}
    BY <1>0, <2>2, <2>3 DEF Counts, Attempt
  <2>5. rescue' \in Nat
    BY <1>0, <2>1 DEF Counts
  <2> QED BY <1>0, <2>1, <2>4, <2>5 DEF Counts
<1>9. CASE Wake
  <2>1. UNCHANGED <<gen, admitted, dispatched, recovery, rescue, snap>> /\ Pending
        /\ latest' = Most(latest, admitted + 1)
    BY <1>9 DEF Wake
  <2>2. admitted + 1 \in 1..gen /\ admitted + 1 \in 0..gen
    BY <2>1, NumFacts DEF Pending
  <2>3. latest' \in 0..gen
    BY <1>0, <2>1, <2>2, MostFacts DEF Counts
  <2>4. att' = att \/ att' = Attempt(admitted + 1, None, FALSE, TRUE)
    BY <1>9 DEF Wake
  <2>5. att' # None => att'.gen \in 1..gen /\ att'.by \in (1..gen) \cup {None}
    BY <1>0, <2>2, <2>4 DEF Counts, Attempt
  <2> QED BY <1>0, <2>1, <2>3, <2>5 DEF Counts
<1>10. CASE Execute
  BY <1>b, <1>10 DEF Execute
<1>11. ASSUME NEW r \in Run,
              RegisterEntry(r) \/ EntrySlot(r) \/ Register(r) \/ BeginFinalization(r) \/ FinalizeRunner(r)
              \/ CleanSlot(r) \/ CleanMark(r) \/ RunDrop(r) \/ RemoveRunner(r)
       PROVE  Counts'
  BY <1>b, <1>11 DEF RegisterEntry, EntrySlot, Register, BeginFinalization, FinalizeRunner,
                     CleanSlot, CleanMark,
                     RunDrop, RemoveRunner
<1>12. ASSUME NEW r \in Run, Drain(r) PROVE Counts'
  <2>1. UNCHANGED <<gen, latest, dispatched, att, recovery, rescue, snap>> /\ admitted' = gen
    BY <1>12 DEF Drain
  <2> QED BY <1>0, <2>1 DEF Counts
<1>13. ASSUME NEW r \in Run, FinishInspect(r) \/ CleanInspect(r) PROVE Counts'
  <2>1. UNCHANGED <<gen, admitted, latest, dispatched, att, recovery, rescue>>
    BY <1>13 DEF FinishInspect, CleanInspect
  <2>2. \/ snap' = snap
        \/ \E v \in {Inspected, 0} : snap' = [snap EXCEPT ![r] = v]
    BY <1>13 DEF FinishInspect, CleanInspect
  <2>3. Inspected \in 0..gen /\ 0 \in 0..gen
    BY <1>0 DEF Inspected
  <2>4. snap' \in [Run -> 0..gen]
    BY <1>0, <2>2, <2>3 DEF Counts
  <2> QED BY <1>0, <2>1, <2>4 DEF Counts
<1>14. ASSUME NEW r \in Run, FinishRelease(r) \/ CleanRelease(r) PROVE Counts'
  <2>1. UNCHANGED <<gen, admitted, rescue, snap>>
    BY <1>14 DEF FinishRelease, CleanRelease
  <2>2. \/ UNCHANGED <<latest, dispatched, att, recovery>>
        \/ \E wanted, caughtUp : Leave(r, wanted, caughtUp)
    BY <1>14 DEF FinishRelease, CleanRelease
  <2>3. ASSUME NEW wanted, NEW caughtUp, Leave(r, wanted, caughtUp) PROVE Counts'
    <3>1. /\ latest' \in 0..gen /\ dispatched' \in 0..gen
          /\ recovery' = None \/ recovery' \in [gen : 1..gen, completed : BOOLEAN]
          /\ att' = att \/ (att'.gen \in 1..gen /\ att'.by = None)
      BY <2>3, LeaveFacts
    <3> QED BY <1>0, <2>1, <3>1 DEF Counts
  <2> QED BY <1>b, <2>1, <2>2, <2>3
<1>15. CASE UNCHANGED vars
  BY <1>b, <1>15 DEF vars
<1> QED BY <1>1, <1>2, <1>3, <1>4, <1>5, <1>6, <1>7, <1>8, <1>9, <1>10, <1>11, <1>12, <1>13,
           <1>14, <1>15
        DEF Next, AttemptStep, RunStep

\* Whoever waits for a reservation still finds one, or was woken.
LEMMA StepWaiting == ASSUME NumInv, ShapeInv, OwnInv, [Next]_vars PROVE Waiting'
<1> USE DEF inboxVars, routerVars, runVars, bounds
<1>0. /\ prod \in [Msg -> ProdPc] /\ rpc \in [Run -> RunPc] /\ gen \in Nat
      /\ \A m \in Msg : m > gen => prod[m] = "none"
      /\ att = None => (\A m \in Msg : prod[m] # "wait") /\ (\A x \in Run : rpc[x] # "m_wait")
      /\ att # None => att.by \in (1..gen) \cup {None}
  BY NumFacts DEF NumInv, ShapeInv
\* The producer of a message is told something.
<1>x. ASSUME NEW m \in 1..gen, NEW l \in ProdPc
      PROVE  /\ [prod EXCEPT ![m] = l] \in [Msg -> ProdPc]
             /\ \A k \in Msg : k > gen => [prod EXCEPT ![m] = l][k] = "none"
             /\ \A k \in Msg : [prod EXCEPT ![m] = l][k] = "wait" => l = "wait" \/ prod[k] = "wait"
  <2>1. \A k \in Msg : k > gen => k # m
    BY <1>0
  <2>2. \A k \in Msg : [prod EXCEPT ![m] = l][k] = IF k = m THEN l ELSE prod[k]
    BY <1>0
  <2>3. [prod EXCEPT ![m] = l] \in [Msg -> ProdPc]
    BY <1>0
  <2> QED BY <1>0, <2>1, <2>2, <2>3
\* The reservation stays, and those who wait for it.
<1>s. ASSUME att # None => att' # None, UNCHANGED <<prod, gen>>,
             \A x \in Run : rpc'[x] = "m_wait" => rpc[x] = "m_wait" \/ att' # None
      PROVE  Waiting'
  BY <1>0, <1>s DEF Waiting
\* A producer moves on.
<1>p. ASSUME NEW m \in 1..gen, NEW l \in ProdPc, prod' = [prod EXCEPT ![m] = l], UNCHANGED <<gen, rpc>>,
             att # None => att' # None, l = "wait" => att' # None
      PROVE  Waiting'
  <2> DEFINE q == [prod EXCEPT ![m] = l]
  <2>1. /\ q \in [Msg -> ProdPc] /\ \A k \in Msg : k > gen => q[k] = "none"
        /\ \A k \in Msg : q[k] = "wait" => l = "wait" \/ prod[k] = "wait"
    BY <1>x
  <2>2. prod' = q
    BY <1>p
  <2> HIDE DEF q
  <2>3. att' = None => att = None
    BY <1>p
  <2> QED BY <1>0, <1>p, <2>1, <2>2, <2>3 DEF Waiting
\* The reservation ends, and wakes them.
<1>r. ASSUME NEW p \in [Msg -> ProdPc], NEW q \in [Run -> RunPc], gen' = gen,
             \A m \in Msg : m > gen => p[m] = "none",
             prod' = Woken(p), rpc' = Woken(q)
      PROVE  Waiting'
  <2>1. /\ prod' \in [Msg -> ProdPc] /\ \A m \in Msg : prod'[m] # "wait" /\ (m > gen => prod'[m] = "none")
    BY <1>r, WokenProd
  <2>2. \A x \in Run : rpc'[x] # "m_wait"
    BY <1>r, WokenRuns
  <2> QED BY <1>r, <2>1, <2>2 DEF Waiting
<1>e. ASSUME NEW l \in ProdPc, NEW q \in [Run -> RunPc], att # None, Release(l), rpc' = Woken(q), gen' = gen
      PROVE  Waiting'
  <2> DEFINE p == IF att.by = None THEN prod ELSE [prod EXCEPT ![att.by] = l]
  <2>1. p \in [Msg -> ProdPc] /\ \A m \in Msg : m > gen => p[m] = "none"
    <3>1. CASE att.by = None
      BY <1>0, <3>1
    <3>2. CASE att.by \in 1..gen
      <4>1. att.by # None
        BY <1>0, <3>2, ActivationAssumption
      <4> QED BY <1>x, <3>2, <4>1
    <3> QED BY <1>0, <1>e, <3>1, <3>2
  <2>2. prod' = Woken(p)
    BY <1>e DEF Release
  <2> HIDE DEF p
  <2> QED BY <1>e, <1>r, <2>1, <2>2
<1>i. \A m \in Msg : prod[m] # "none" => m \in 1..gen
  BY <1>0 DEF Msg
<1>1. CASE Commit
  <2>1. gen < MaxMsg /\ gen' = gen + 1 /\ prod' = [prod EXCEPT ![gen + 1] = "request"]
        /\ UNCHANGED <<att, rpc>>
    BY <1>1 DEF Commit
  <2>2. \A m \in Msg : m > gen + 1 => m > gen /\ m # gen + 1
    BY <1>0 DEF Msg
  <2>3. \A m \in Msg : prod'[m] = IF m = gen + 1 THEN "request" ELSE prod[m]
    BY <1>0, <2>1
  <2>4. prod' \in [Msg -> ProdPc]
    BY <1>0, <2>1 DEF ProdPc
  <2>5. \A m \in Msg : prod'[m] = "wait" => prod[m] = "wait"
    BY <2>3
  <2>6. \A m \in Msg : m > gen' => prod'[m] = "none"
    BY <1>0, <2>1, <2>2, <2>3
  <2> QED BY <1>0, <2>1, <2>4, <2>5, <2>6 DEF Waiting
<1>2. ASSUME NEW m \in Msg, Request(m) PROVE Waiting'
  <2>1. prod[m] = "request" /\ UNCHANGED <<gen, rpc>>
    BY <1>2 DEF Request
  <2>2. CASE prod' = [prod EXCEPT ![m] = "answered"] /\ UNCHANGED att
    BY <1>i, <1>p, <2>1, <2>2 DEF ProdPc
  <2>3. CASE att # None /\ prod' = [prod EXCEPT ![m] = "wait"] /\ UNCHANGED att
    BY <1>i, <1>p, <2>1, <2>3 DEF ProdPc
  <2>4. CASE att = None /\ prod' = [prod EXCEPT ![m] = "attempt"]
    BY <1>i, <1>p, <2>1, <2>4 DEF ProdPc
  <2> QED BY <1>2, <2>2, <2>3, <2>4 DEF Request
<1>3. ASSUME NEW m \in Msg, ProducerDrop(m) PROVE Waiting'
  <2>1. prod[m] # "none" /\ UNCHANGED <<gen, rpc, att>> /\ prod' = [prod EXCEPT ![m] = "dropped"]
    BY <1>3 DEF ProducerDrop
  <2> QED BY <1>i, <1>p, <2>1 DEF ProdPc
<1>4. CASE Inspect
  <2>1. att # None /\ gen' = gen
    BY <1>4 DEF Inspect, Trying
  <2>2. CASE At("slot") /\ UNCHANGED <<prod, rpc>>
    <3>1. att' # None
      BY <2>1, <2>2, ActivationAssumption DEF At, ShapeInv, AttSet, AttPc
    <3> QED BY <1>s, <2>1, <2>2, <3>1
  <2>3. CASE rpc' = Woken(rpc) /\ (Release("answered") \/ Release("failed"))
    BY <1>0, <1>e, <2>1, <2>3 DEF ProdPc
  <2> QED BY <1>4, <2>2, <2>3 DEF Inspect
<1>5. CASE ReserveSlot
  <2>1. att # None /\ UNCHANGED <<prod, gen>> /\ (rpc' = rpc \/ Goto(runs', "reserved"))
    BY <1>5 DEF ReserveSlot, Trying
  <2>2. att' # None
    <3>1. /\ slot = None \/ slot \in Run
          /\ slot = None => runs' \in Run
      BY <1>5, <2>1, RunsFacts, ActivationAssumption DEF ShapeInv, ReserveSlot, Run
    <3>2. \/ slot \in Run /\ att' = [att EXCEPT !.pc = "adopt", !.run = slot]
          \/ runs' \in Run /\ att' = [att EXCEPT !.pc = "bind", !.run = runs']
      BY <1>5, <3>1 DEF ReserveSlot
    <3>3. att \in AttSet
      BY <2>1 DEF ShapeInv
    <3>4. att' \in AttSet
      BY <3>2, <3>3 DEF AttSet, AttPc
    <3> QED BY <3>4, ActivationAssumption DEF AttSet
  <2> QED BY <1>0, <1>s, <2>1, <2>2 DEF Goto
<1>6. CASE Bind
  <2>1. att # None /\ gen' = gen
    BY <1>6 DEF Bind, Trying
  <2>2. CASE At("publish") /\ UNCHANGED <<prod, rpc>>
    <3>1. att' # None
      BY <2>1, <2>2, ActivationAssumption DEF At, ShapeInv, AttSet, AttPc
    <3> QED BY <1>s, <2>1, <2>2, <3>1
  <2>3. CASE Release("failed") /\ rpc' = Woken([rpc EXCEPT ![att.run] = "gone"])
    <3>1. [rpc EXCEPT ![att.run] = "gone"] \in [Run -> RunPc]
      BY <1>0 DEF RunPc
    <3> QED BY <1>e, <2>1, <2>3, <3>1 DEF ProdPc
  <2> QED BY <1>6, <2>2, <2>3 DEF Bind
<1>7. CASE Publish \/ Adopt
  <2>1. att # None /\ gen' = gen /\ Release("answered")
    BY <1>7 DEF Publish, Adopt, Trying
  <2>2. rpc' = Woken(rpc) \/ rpc' = Woken([rpc EXCEPT ![att.run] = "launched"])
    BY <1>7 DEF Publish, Adopt
  <2>3. [rpc EXCEPT ![att.run] = "launched"] \in [Run -> RunPc]
    BY <1>0 DEF RunPc
  <2> QED BY <1>0, <1>e, <2>1, <2>2, <2>3 DEF ProdPc
<1>8. CASE Rollback
  <2>1. att # None /\ UNCHANGED <<prod, gen>> /\ At("dropped") /\ Goto(att.run, "gone")
    BY <1>8 DEF Rollback, Trying
  <2>2. att' # None
    BY <2>1, ActivationAssumption DEF At, ShapeInv, AttSet, AttPc
  <2> QED BY <1>0, <1>s, <2>1, <2>2 DEF Goto
<1>9. CASE Recover
  <2>1. gen' = gen /\ prod' = Woken(prod) /\ rpc' = Woken(rpc)
    BY <1>9 DEF Recover
  <2> QED BY <1>0, <1>r, <2>1
<1>10. CASE AttemptDrop
  <2>0. AfterDrop(att.pc) \in AttPc
    BY DEF AfterDrop, AttPc
  <2>a. att # None /\ gen' = gen /\ At(AfterDrop(att.pc))
    BY <1>10 DEF AttemptDrop
  <2>b. prod' = IF att.by = None THEN prod ELSE [prod EXCEPT ![att.by] = "dropped"]
    BY <1>10 DEF AttemptDrop
  <2>c. rpc' = IF att.pc = "bind" THEN [rpc EXCEPT ![att.run] = "unbound"] ELSE rpc
    BY <1>10 DEF AttemptDrop
  <2>2. att' # None
    BY <2>0, <2>a, ActivationAssumption DEF At, ShapeInv, AttSet
  <2>3. prod' \in [Msg -> ProdPc] /\ \A m \in Msg : m > gen => prod'[m] = "none"
    <3>1. CASE att.by = None
      BY <1>0, <2>b, <3>1
    <3>2. CASE att.by \in 1..gen
      <4>1. att.by # None /\ "dropped" \in ProdPc
        BY <1>0, <3>2, ActivationAssumption DEF ProdPc
      <4>2. prod' = [prod EXCEPT ![att.by] = "dropped"]
        BY <2>b, <4>1
      <4> QED BY <1>x, <3>2, <4>1, <4>2
    <3> QED BY <1>0, <2>a, <3>1, <3>2
  <2> QED BY <2>a, <2>2, <2>3 DEF Waiting
<1>11. CASE Rescue
  <2>1. att # None => att' = att
    BY <1>11 DEF Rescue
  <2>2. UNCHANGED <<prod, gen, rpc>>
    BY <1>11 DEF Rescue
  <2> QED BY <1>s, <2>1, <2>2, <1>0
<1>12. CASE Wake
  <2>1. att # None => att' = att
    BY <1>12 DEF Wake
  <2>2. UNCHANGED <<prod, gen, rpc>>
    BY <1>12 DEF Wake
  <2> QED BY <1>s, <2>1, <2>2, <1>0
<1>13. CASE Execute
  <2>1. UNCHANGED <<prod, gen, att>> /\ Goto(runs', "m_register")
    BY <1>13 DEF Execute
  <2> QED BY <1>0, <1>s, <2>1 DEF Goto
<1>14. ASSUME NEW r \in Run, RegisterEntry(r) PROVE Waiting'
  <2>1. UNCHANGED <<prod, gen, att>>
    BY <1>14 DEF RegisterEntry
  <2>2. \/ Goto(r, "gone") \/ Goto(r, "m_slot")
        \/ att # None /\ Goto(r, "m_wait")
    BY <1>14 DEF RegisterEntry, ReservationSeen
  <2> QED BY <1>0, <1>s, <2>1, <2>2 DEF Goto
<1>15. ASSUME NEW r \in Run,
              EntrySlot(r) \/ Register(r) \/ Drain(r) \/ BeginFinalization(r) \/ FinalizeRunner(r) \/ FinishInspect(r)
              \/ CleanSlot(r) \/ CleanMark(r) \/ CleanInspect(r) \/ RunDrop(r) \/ RemoveRunner(r)
       PROVE  Waiting'
  <2>1. UNCHANGED <<prod, gen, att>>
    BY <1>15 DEF EntrySlot, Register, Drain, BeginFinalization, FinalizeRunner, FinishInspect,
                 CleanSlot, CleanMark,
                 CleanInspect, RunDrop, RemoveRunner
  <2>2. \E l \in RunPc \ {"m_wait"} : Goto(r, l)
    BY <1>15 DEF EntrySlot, Register, Drain, BeginFinalization, FinalizeRunner, FinishInspect,
                 CleanSlot, CleanMark,
                 CleanInspect, RunDrop, RemoveRunner, RunPc
  <2> QED BY <1>0, <1>s, <2>1, <2>2 DEF Goto
<1>16. ASSUME NEW r \in Run, FinishRelease(r) \/ CleanRelease(r) PROVE Waiting'
  <2>1. UNCHANGED <<prod, gen>> /\ Goto(r, "gone")
    BY <1>16, LeaveFacts DEF FinishRelease, CleanRelease
  <2>2. att # None => att' # None
    BY <1>16, LeaveFacts DEF FinishRelease, CleanRelease
  <2> QED BY <1>0, <1>s, <2>1, <2>2 DEF Goto
<1>17. CASE UNCHANGED vars
  BY <1>0, <1>s, <1>17 DEF vars
<1> QED BY <1>1, <1>2, <1>3, <1>4, <1>5, <1>6, <1>7, <1>8, <1>9, <1>10, <1>11, <1>12, <1>13,
           <1>14, <1>15, <1>16, <1>17
        DEF Next, AttemptStep, RunStep

-----------------------------------------------------------------------------
(* The invariant, and the theorems. *)

IInv == ShapeInv /\ OwnInv /\ NumInv

\* The first state satisfies the invariant.
LEMMA InitInv == ASSUME Init PROVE IInv
<1>0. MaxRun \in Nat /\ MaxMsg \in Nat /\ None \notin Nat /\ \A x \in Run : x # None /\ x \in Nat /\ x >= 1
  BY ActivationAssumption DEF Run
<1>1. ShapeInv
  BY <1>0 DEF Init, ShapeInv, RunPc
<1>2. ASSUME NEW x \in Run PROVE RunInv(x)
  <2>1. rpc[x] = "none" /\ owner = None /\ att = None /\ slot = None
    BY DEF Init
  <2> QED BY <1>0, <2>1 DEF RunInv, OwnedBy, Registered, Leaving, Holding
<1>3. NumInv
  BY <1>0 DEF Init, NumInv, ProdPc
<1> QED BY <1>1, <1>2, <1>3 DEF IInv, OwnInv, Init

\* Every step keeps the invariant.
LEMMA NextInv == ASSUME IInv, [Next]_vars PROVE IInv'
<1>1. Kind /\ rpc' \in [Run -> RunPc]
  BY StepKinds DEF IInv
<1>2. ShapeInv'
  BY <1>1, StepShape DEF IInv
<1>3. OwnInv'
  BY <1>1, KindOwn DEF IInv
<1>4. Counts' /\ Waiting'
  BY StepCounts, StepWaiting DEF IInv
<1>5. NumInv'
  BY <1>4 DEF NumInv, Counts, Waiting
<1> QED BY <1>2, <1>3, <1>5 DEF IInv

\* The invariant holds: from its registration to the last step of its finalization or
\* cleanup an execution is the owner, and nobody reserves meanwhile.
THEOREM InvCorrect == Spec => []IInv
<1>1. Init => IInv
  BY InitInv
<1>2. IInv /\ [Next]_vars => IInv'
  BY NextInv
<1> QED BY <1>1, <1>2, PTL DEF Spec

\* The variables have their types, and whoever waits for a reservation finds one.
THEOREM TypeCorrect == Spec => []TypeOK
<1>1. IInv => TypeOK
  <2> SUFFICES ASSUME IInv PROVE TypeOK
    OBVIOUS
  <2>0. ShapeInv /\ NumInv /\ OwnInv
    BY DEF IInv
  <2>1. \A x \in Run : rpc[x] # "none" => x \in 1..runs
    <3>1. \A x \in Run : x > runs => rpc[x] = "none"
      BY <2>0 DEF OwnInv, RunInv
    <3>2. runs \in Int /\ \A x \in Run : x \in Int /\ x >= 1
      BY <2>0, RunsFacts
    <3> QED BY <3>1, <3>2
  <2>2. slot \in (1..runs) \cup {None}
    BY <2>0, <2>1 DEF ShapeInv, OwnInv, RunInv, Holding
  <2>3. owner = None \/ owner \in [run : 1..runs, registered : BOOLEAN, finalizing : BOOLEAN]
    <3>1. owner # None => owner \in OwnerSet /\ owner.run \in 1..runs
      <4>1. owner # None => owner \in OwnerSet /\ owner.run \in Run
        BY <2>0 DEF ShapeInv, OwnerSet
      <4>2. owner # None => rpc[owner.run] \in OwnerPc
        BY <2>0, <4>1 DEF OwnInv, RunInv, OwnedBy
      <4> QED BY <2>1, <4>1, <4>2 DEF OwnerPc
    <3> QED BY <3>1 DEF OwnerSet
  <2>4. att = None \/ /\ att.gen \in 1..gen /\ att.by \in Msg \cup {None}
                      /\ att.pc \in AttPc /\ att.run \in Run \cup {None}
    BY <2>0 DEF ShapeInv, AttSet, NumInv
  <2>5. rpc \in [Run -> RunPc] /\ runs \in 0..MaxRun
    BY <2>0 DEF ShapeInv
  <2> QED BY <2>0, <2>2, <2>3, <2>4, <2>5 DEF TypeOK, NumInv, ProdPc
<1> QED BY <1>1, InvCorrect, PTL

\* Whoever executes the session is its registered owner and has its runner, whatever the
\* order of registrations, launches, drops and cleanups.
THEOREM OneRunCorrect == Spec => []OneRun
<1>1. IInv => OneRun
  BY DEF IInv, OwnInv, RunInv, OneRun, Executing, Registered, Holding
<1> QED BY <1>1, InvCorrect, PTL

\* An owner is an execution that was launched or registered and is not gone: it will end
\* its ownership itself.
THEOREM OwnerLivesCorrect == Spec => []OwnerLives
<1>1. ASSUME IInv PROVE OwnerLives
  <2>1. owner # None => owner.run \in Run
    BY <1>1 DEF IInv, ShapeInv, OwnerSet
  <2>2. owner # None => rpc[owner.run] \in OwnerPc
    BY <1>1, <2>1 DEF IInv, OwnInv, RunInv, OwnedBy
  <2> QED BY <2>2 DEF OwnerLives, OwnerPc
<1> QED BY <1>1, InvCorrect, PTL

\* An owner leaves by the last step of its own finalization or cleanup, and no lease of
\* another execution clears it.
THEOREM OwnerKeptCorrect == Spec => OwnerKept
<1>1. ASSUME IInv, [Next]_vars, owner # None, owner' = None \/ owner'.run # owner.run
      PROVE  rpc[owner.run] \in {"release", "c_release"}
  <2>1. Kind
    BY <1>1, StepKinds DEF IInv
  <2>2. att = None
    BY <1>1 DEF IInv, OwnInv
  <2>3. ~Reserves /\ \A r \in Run : ~Goes(r) /\ ~Enters(r) /\ ~Makes(r) /\ ~Launches(r)
    BY <1>1, <2>2 DEF Reserves, Goes, Enters, Makes, Launches
  <2>4. ASSUME NEW r \in Run PROVE ~Keeps(r)
    BY <1>1, Values DEF Keeps, OwnedBy
  <2>5. ASSUME NEW r \in Run, Leaves(r) PROVE rpc[owner.run] \in {"release", "c_release"}
    BY <2>5 DEF Leaves, OwnedBy, Moves
  <2> QED BY <2>1, <2>3, <2>4, <2>5 DEF Kind
<1>2. IInv /\ [Next]_vars
      => [owner # None /\ (owner' = None \/ owner'.run # owner.run)
            => rpc[owner.run] \in {"release", "c_release"}]_vars
  BY <1>1
<1> QED BY <1>2, InvCorrect, PTL DEF Spec, OwnerKept

-----------------------------------------------------------------------------
(* A backlog is launched once. *)

\* What was launched counts as dispatched or is admitted by now, and what is reserved for
\* a launch that counts is newer than what was dispatched.
LaunchInv ==
  /\ launched \in [Msg -> Nat] /\ dispatched <= latest
  /\ att # None => att.gen <= latest /\ att.wake \in BOOLEAN
  /\ att # None /\ ~att.wake => att.gen > dispatched
  /\ \A m \in Msg : launched[m] > 0 => m <= dispatched \/ m <= admitted
  /\ LaunchedOnce

\* A larger generation is not below either.
LEMMA MostBounds ==
  ASSUME NEW a \in Nat, NEW b \in Nat PROVE Most(a, b) \in Nat /\ a <= Most(a, b) /\ b <= Most(a, b)
BY DEF Most

\* The last step of an owner: dispatched is forgotten only when everything is admitted.
LEMMA LeaveLaunch ==
  ASSUME NumInv, LaunchInv, NEW r \in Run, NEW wanted, NEW caughtUp, Leave(r, wanted, caughtUp),
         caughtUp => latest <= admitted, UNCHANGED <<admitted, launched>>
  PROVE  LaunchInv'
<1> DEFINE seen == Most(latest, snap[r])
<1>0. /\ latest \in Nat /\ dispatched \in Nat /\ admitted \in Nat /\ seen \in Nat /\ latest <= seen
      /\ \A m \in Msg : m \in Nat
  <2>1. latest \in Nat /\ dispatched \in Nat /\ admitted \in Nat /\ snap[r] \in Nat
    BY NumFacts
  <2>2. seen \in Nat /\ latest <= seen
    BY <2>1, MostBounds
  <2> QED BY <2>1, <2>2 DEF Msg
<1>1. CASE /\ seen > dispatched /\ latest' = seen /\ att' = Attempt(seen, None, TRUE, FALSE)
           /\ UNCHANGED dispatched
  <2>1. att'.gen = seen /\ att'.wake = FALSE
    BY <1>1 DEF Attempt
  <2> HIDE DEF seen
  <2>2. dispatched <= latest'
    BY <1>0, <1>1
  <2>3. att'.gen <= latest' /\ att'.wake \in BOOLEAN /\ att'.gen > dispatched'
    <3>1. att'.gen = latest' /\ att'.wake = FALSE /\ latest' > dispatched'
      BY <1>1, <2>1
    <3>2. latest' \in Nat
      BY <1>0, <1>1
    <3>3. att'.gen <= latest' /\ att'.gen > dispatched'
      BY <3>1, <3>2
    <3> QED BY <3>1, <3>3
  <2> QED BY <1>0, <1>1, <2>2, <2>3 DEF LaunchInv, LaunchedOnce
<1>2. CASE UNCHANGED att /\ latest' = seen /\ UNCHANGED dispatched
  <2> HIDE DEF seen
  <2>1. att' # None => att'.gen \in Nat
    BY <1>2, NumFacts DEF NumInv
  <2> QED BY <1>0, <1>2, <2>1 DEF LaunchInv, LaunchedOnce
<1>3. CASE caughtUp /\ UNCHANGED att /\ att = None /\ latest' = 0 /\ dispatched' = 0
  <2>1. \A m \in Msg : m <= dispatched => m <= admitted
    BY <1>0, <1>3 DEF LaunchInv
  <2> QED BY <1>0, <1>3, <2>1 DEF LaunchInv, LaunchedOnce
<1> QED BY <1>1, <1>2, <1>3 DEF Leave, Forget

\* Every step keeps it.
LEMMA StepLaunch == ASSUME IInv, LaunchInv, [Next]_vars PROVE LaunchInv'
<1> USE DEF inboxVars, routerVars, runVars, bounds
<1>0. /\ gen \in Nat /\ latest \in Nat /\ dispatched \in Nat /\ admitted \in Nat /\ admitted <= gen
      /\ \A m \in Msg : m \in Nat
      /\ NumInv /\ ShapeInv /\ OwnInv
  BY NumFacts DEF IInv, Msg
<1>a. att # None => att \in AttSet /\ att.gen \in Msg
  BY <1>0 DEF ShapeInv, AttSet
\* A step that launches nothing: an attempt goes on, or the inbox does.
<1>b. ASSUME UNCHANGED <<dispatched, latest, launched>>, admitted' \in Nat, admitted <= admitted',
             att' = att \/ att' = None \/ (att # None /\ att'.gen = att.gen /\ att'.wake = att.wake)
      PROVE  LaunchInv'
  BY <1>0, <1>a, <1>b DEF LaunchInv, LaunchedOnce
\* A step that hears of a generation, and may reserve for it.
<1>h. ASSUME UNCHANGED <<admitted, dispatched, launched>>, latest' \in Nat, latest <= latest',
             \/ att' = att
             \/ att'.gen <= latest' /\ att'.wake = TRUE
             \/ att'.gen <= latest' /\ att'.wake = FALSE /\ att'.gen > dispatched
      PROVE  LaunchInv'
  <2>1. dispatched' <= latest'
    BY <1>0, <1>h DEF LaunchInv
  <2>2. att' # None => att'.gen <= latest' /\ att'.wake \in BOOLEAN
    <3>1. CASE att' = att
      <4>1. att # None => att.gen \in Nat /\ att.gen <= latest /\ att.wake \in BOOLEAN
        BY <1>0, <1>a DEF LaunchInv
      <4> QED BY <1>0, <1>h, <3>1, <4>1
    <3> QED BY <1>h, <3>1
  <2>3. att' # None /\ ~att'.wake => att'.gen > dispatched'
    BY <1>h DEF LaunchInv
  <2> QED BY <1>h, <2>1, <2>2, <2>3 DEF LaunchInv, LaunchedOnce
<1>1. CASE Commit \/ UNCHANGED vars
  BY <1>0, <1>b, <1>1 DEF Commit, vars
<1>2. ASSUME NEW m \in Msg, Request(m) PROVE LaunchInv'
  <2>1. UNCHANGED <<admitted, dispatched, launched>> /\ latest' = Most(latest, m)
    BY <1>2 DEF Request
  <2>2. latest' \in Nat /\ latest <= latest' /\ m <= latest' /\ m \in Nat
    BY <1>0, <2>1, MostBounds
  <2>3. att' = att \/ (m > dispatched /\ att' = Attempt(m, m, FALSE, FALSE))
    BY <1>2 DEF Request
  <2>5. Attempt(m, m, FALSE, FALSE).gen = m /\ Attempt(m, m, FALSE, FALSE).wake = FALSE
    BY DEF Attempt
  <2> QED BY <1>h, <2>1, <2>2, <2>3, <2>5
<1>3. ASSUME NEW m \in Msg, ProducerDrop(m) PROVE LaunchInv'
  BY <1>0, <1>b, <1>3 DEF ProducerDrop
<1>4. CASE Inspect \/ ReserveSlot \/ Bind \/ Adopt \/ Rollback \/ AttemptDrop \/ Recover
  <2>1. UNCHANGED <<admitted, dispatched, latest, launched>> /\ att # None
    BY <1>4 DEF Inspect, ReserveSlot, Bind, Adopt, Rollback, AttemptDrop, Recover, Trying
  <2>2. \/ att' = None
        \/ \E l : att' = [att EXCEPT !.pc = l]
        \/ att' = [att EXCEPT !.pc = "adopt", !.run = slot]
        \/ att' = [att EXCEPT !.pc = "bind", !.run = runs']
    BY <1>4 DEF Inspect, ReserveSlot, Bind, Adopt, Rollback, AttemptDrop, Recover, Release, At
  <2>3. att' = None \/ (att'.gen = att.gen /\ att'.wake = att.wake)
    BY <1>a, <2>1, <2>2 DEF AttSet
  <2> QED BY <1>0, <1>b, <2>1, <2>3
<1>5. CASE Publish
  <2>1. att # None /\ att' = None /\ UNCHANGED <<admitted, latest>> /\ dispatched' = Most(dispatched, att.gen)
    BY <1>5 DEF Publish, Trying, Release, Dispatched
  <2>2. launched' = IF att.wake THEN launched ELSE [launched EXCEPT ![att.gen] = launched[att.gen] + 1]
    BY <1>5 DEF Publish
  <2>3. /\ dispatched' \in Nat /\ dispatched <= dispatched' /\ att.gen <= dispatched' /\ dispatched' <= latest
        /\ att.gen \in Msg /\ att.gen \in Nat
    <3>1. att.gen \in Msg /\ att.gen \in Nat /\ att.gen <= latest
      BY <1>0, <1>a, <2>1 DEF LaunchInv
    <3> QED BY <1>0, <2>1, <3>1 DEF Most, LaunchInv
  <2>4. CASE att.wake
    BY <1>0, <2>1, <2>2, <2>3, <2>4 DEF LaunchInv, LaunchedOnce
  <2>5. CASE ~att.wake
    <3>1. launched' = [launched EXCEPT ![att.gen] = launched[att.gen] + 1]
      BY <2>2, <2>5
    <3>2. att.gen > admitted => launched[att.gen] = 0
      BY <1>0, <2>1, <2>3, <2>5 DEF LaunchInv
    <3>3. launched' \in [Msg -> Nat] /\ launched'[att.gen] = launched[att.gen] + 1
      BY <2>3, <3>1 DEF LaunchInv
    <3>4. \A m \in Msg : m # att.gen => launched'[m] = launched[m]
      BY <3>1 DEF LaunchInv
    <3>5. \A m \in Msg : launched'[m] > 0 => m <= dispatched' \/ m <= admitted
      BY <1>0, <2>3, <3>4 DEF LaunchInv
    <3>6. \A m \in Msg : m > admitted => launched'[m] <= 1
      BY <1>0, <2>3, <3>2, <3>3, <3>4 DEF LaunchInv, LaunchedOnce
    <3> QED BY <2>1, <2>3, <3>3, <3>5, <3>6 DEF LaunchInv, LaunchedOnce
  <2> QED BY <2>4, <2>5
<1>6. CASE Rescue
  <2>1. UNCHANGED <<admitted, dispatched, latest, launched>>
    BY <1>6 DEF Rescue
  <2>2. att' = att \/ (latest > dispatched /\ att' = Attempt(latest, None, FALSE, FALSE))
    BY <1>6 DEF Rescue
  <2>4. Attempt(latest, None, FALSE, FALSE).gen = latest /\ Attempt(latest, None, FALSE, FALSE).wake = FALSE
    BY DEF Attempt
  <2>5. att' = att \/ (latest > dispatched /\ att'.gen = latest /\ att'.wake = FALSE)
    BY <2>2, <2>4
  <2>6. latest' \in Nat /\ latest <= latest'
    BY <1>0, <2>1
  <2>7. att' = att \/ (att'.gen <= latest' /\ att'.wake = FALSE /\ att'.gen > dispatched)
    BY <1>0, <2>1, <2>5
  <2> QED BY <1>h, <2>1, <2>6, <2>7
<1>7. CASE Wake
  <2>1. UNCHANGED <<admitted, dispatched, launched>> /\ latest' = Most(latest, admitted + 1) /\ Pending
    BY <1>7 DEF Wake
  <2>2. admitted + 1 \in Msg /\ latest' \in Nat /\ latest <= latest' /\ admitted + 1 <= latest'
    BY <1>0, <2>1, NumFacts, MostBounds DEF Pending, Msg
  <2>3. att' = att \/ att' = Attempt(admitted + 1, None, FALSE, TRUE)
    BY <1>7 DEF Wake
  <2>5. /\ Attempt(admitted + 1, None, FALSE, TRUE).gen = admitted + 1
        /\ Attempt(admitted + 1, None, FALSE, TRUE).wake = TRUE
    BY DEF Attempt
  <2> QED BY <1>0, <1>h, <2>1, <2>2, <2>3, <2>5
<1>8. CASE Execute
  BY <1>0, <1>b, <1>8 DEF Execute
<1>9. ASSUME NEW r \in Run,
             RegisterEntry(r) \/ EntrySlot(r) \/ Register(r) \/ BeginFinalization(r)
             \/ FinalizeRunner(r) \/ FinishInspect(r) \/ CleanSlot(r) \/ CleanMark(r)
             \/ CleanInspect(r) \/ RunDrop(r) \/ RemoveRunner(r)
      PROVE  LaunchInv'
  <2>1. UNCHANGED <<admitted, dispatched, latest, launched, att>>
    BY <1>9 DEF RegisterEntry, EntrySlot, Register, BeginFinalization, FinalizeRunner,
                FinishInspect, CleanSlot, CleanMark, CleanInspect, RunDrop, RemoveRunner
  <2> QED BY <1>0, <1>b, <2>1
<1>10. ASSUME NEW r \in Run, Drain(r) PROVE LaunchInv'
  BY <1>0, <1>b, <1>10 DEF Drain
<1>11. ASSUME NEW r \in Run, FinishRelease(r) PROVE LaunchInv'
  <2>1. UNCHANGED <<admitted, launched>>
    BY <1>11 DEF FinishRelease
  <2>2. CASE Leave(r, News(r), ~News(r))
    <3>1. ~News(r) => latest <= admitted
      BY <1>0 DEF News
    <3> QED BY <1>0, <2>1, <2>2, <3>1, LeaveLaunch
  <2>3. CASE UNCHANGED <<latest, dispatched, att>>
    BY <1>0, <1>b, <2>1, <2>3
  <2> QED BY <1>11, <2>2, <2>3 DEF FinishRelease
<1>12. ASSUME NEW r \in Run, CleanRelease(r) PROVE LaunchInv'
  <2>1. UNCHANGED <<admitted, launched>>
    BY <1>12 DEF CleanRelease
  <2>2. CASE Leave(r, TRUE, Most(latest, snap[r]) = 0)
    <3>1. Most(latest, snap[r]) = 0 => latest <= admitted
      BY <1>0, NumFacts DEF Most
    <3> QED BY <1>0, <2>1, <2>2, <3>1, LeaveLaunch
  <2>3. CASE UNCHANGED <<latest, dispatched, att>>
    BY <1>0, <1>b, <2>1, <2>3
  <2> QED BY <1>12, <2>2, <2>3 DEF CleanRelease
<1> QED BY <1>1, <1>2, <1>3, <1>4, <1>5, <1>6, <1>7, <1>8, <1>9, <1>10, <1>11, <1>12
        DEF Next, AttemptStep, RunStep

\* A backlog that no execution admits does not start executions again and again: the router
\* launches one for each generation, through drops, rescues and successors.
THEOREM LaunchedOnceCorrect == Spec => []LaunchedOnce
<1>1. Init => LaunchInv
  <2> SUFFICES ASSUME Init PROVE LaunchInv
    OBVIOUS
  <2> QED BY DEF Init, LaunchInv, LaunchedOnce
<1>2. IInv /\ LaunchInv /\ [Next]_vars => LaunchInv'
  BY StepLaunch
<1>3. LaunchInv => LaunchedOnce
  BY DEF LaunchInv
<1> QED BY <1>1, <1>2, <1>3, InvCorrect, PTL DEF Spec

-----------------------------------------------------------------------------
(* Nothing is left behind. *)

\* An attempt whose future was dropped, until its token is given back.
Dropping == att # None /\ att.pc \in {"rollback", "dropped"}

\* Its producer was answered, and neither a transcript nor a launch has the message.
Owed(m) == prod[m] = "answered" /\ m > admitted /\ m > dispatched

\* Every attempt that is dropped uses up one drop, and gives at most one rescue.
DropInv == errors \in Nat /\ drops \in Nat /\ rescue + (IF Dropping THEN 1 ELSE 0) <= drops

\* An attempt for a producer is for its message, and the router heard of every message
\* whose producer was answered.
HeardInv ==
  /\ att # None => att.by = None \/ (att.by = att.gen /\ ~att.wake)
  /\ \A m \in Msg : prod[m] = "answered" => m <= latest \/ m <= admitted

\* Whatever is owed has an owner that will look at the inbox when it leaves, an attempt
\* that cannot be dropped any more or that is tried again when it is, or a rescue.
CaredFor ==
  \/ owner # None
  \/ att # None /\ (att.recover \/ (drops = 1 /\ ~Dropping))
  \/ rescue > 0

CareInv == errors = 0 /\ drops <= 1 /\ (\E m \in Msg : Owed(m)) => CaredFor

StrandInv == DropInv /\ HeardInv /\ CareInv

\* Waking answers nobody.
LEMMA WokenAnswers ==
  ASSUME NEW p \in [Msg -> ProdPc], NEW m \in Msg
  PROVE  Woken(p)[m] = "answered" <=> p[m] = "answered"
<1>1. Woken(p)[m] = CASE p[m] = "wait" -> "request" [] p[m] = "m_wait" -> "m_register"
                      [] OTHER -> p[m]
  BY DEF Woken
<1>2. p[m] # "m_wait"
  BY DEF ProdPc
<1>3. CASE p[m] = "wait"
  BY <1>1, <1>3
<1>4. CASE p[m] # "wait"
  BY <1>1, <1>2, <1>4
<1> QED BY <1>3, <1>4

\* The end of a reservation answers its producer, and nobody else.
LEMMA ReleaseAnswers ==
  ASSUME NumInv, NEW answer \in ProdPc, Release(answer), NEW m \in Msg, prod'[m] = "answered",
         prod[m] # "answered"
  PROVE  att.by = m /\ answer = "answered"
<1> DEFINE p == IF att.by = None THEN prod ELSE [prod EXCEPT ![att.by] = answer]
<1>1. prod \in [Msg -> ProdPc] /\ prod' = Woken(p)
  BY DEF NumInv, Release
<1>2. p \in [Msg -> ProdPc]
  BY <1>1
<1>3. p[m] = "answered"
  BY <1>1, <1>2, WokenAnswers
<1> QED BY <1>1, <1>3

\* Who is answered by a step: a message that finds an owner or had its launch, or the
\* producer of the attempt that ends.
LEMMA NewAnswers ==
  ASSUME IInv, [Next]_vars, NEW m \in Msg, prod'[m] = "answered", prod[m] # "answered"
  PROVE  \/ /\ Request(m) /\ (owner # None \/ m <= dispatched)
         \/ /\ att # None /\ att.by = m
            /\ (Inspect /\ ~Pending) \/ Publish \/ Adopt
<1> USE DEF inboxVars, routerVars, runVars, bounds
<1>0. NumInv /\ prod \in [Msg -> ProdPc] /\ {"answered", "failed"} \subseteq ProdPc
  BY DEF IInv, NumInv, ProdPc
<1>1. prod' # prod
  OBVIOUS
<1>2. CASE Commit
  BY <1>0, <1>2 DEF Commit
<1>3. ASSUME NEW k \in Msg, Request(k) PROVE k = m /\ (owner # None \/ m <= dispatched)
  BY <1>0, <1>3 DEF Request
<1>4. ASSUME NEW k \in Msg, ProducerDrop(k) PROVE FALSE
  BY <1>0, <1>4 DEF ProducerDrop
<1>5. CASE Inspect
  <2>1. att # None
    BY <1>5 DEF Inspect, Trying
  <2>2. CASE ~Pending /\ Release("answered")
    BY <1>0, <1>5, <2>1, <2>2, ReleaseAnswers
  <2>3. CASE Release("failed")
    BY <1>0, <2>3, ReleaseAnswers
  <2> QED BY <1>1, <1>5, <2>2, <2>3 DEF Inspect
<1>6. CASE Bind
  BY <1>0, <1>1, <1>6, ReleaseAnswers DEF Bind
<1>7. CASE Publish
  <2>1. att # None /\ Release("answered")
    BY <1>7 DEF Publish, Trying
  <2> QED BY <1>0, <1>7, <2>1, ReleaseAnswers
<1>8. CASE Adopt
  <2>1. att # None /\ Release("answered")
    BY <1>8 DEF Adopt, Trying
  <2> QED BY <1>0, <1>8, <2>1, ReleaseAnswers
<1>9. CASE AttemptDrop
  <2>1. prod' = IF att.by = None THEN prod ELSE [prod EXCEPT ![att.by] = "dropped"]
    BY <1>9 DEF AttemptDrop
  <2> QED BY <1>0, <2>1
<1>10. CASE Recover
  <2>1. prod' = Woken(prod)
    BY <1>10 DEF Recover
  <2> QED BY <1>0, <2>1, WokenAnswers
<1>11. CASE ReserveSlot \/ Rollback \/ Rescue \/ Execute \/ Wake \/ UNCHANGED vars
  BY <1>1, <1>11 DEF ReserveSlot, Rollback, Rescue, Execute, Wake, vars
<1>12. ASSUME NEW r \in Run, RunStep(r) \/ RunDrop(r) \/ RemoveRunner(r) PROVE FALSE
  BY <1>1, <1>12 DEF RunStep, RunDrop, RemoveRunner, RegisterEntry, EntrySlot, Register, Drain,
     BeginFinalization, FinalizeRunner, FinishInspect, FinishRelease, CleanSlot, CleanMark,
     CleanInspect, CleanRelease
<1> QED BY <1>2, <1>3, <1>4, <1>5, <1>6, <1>7, <1>8, <1>9, <1>10, <1>11, <1>12
        DEF Next, AttemptStep

\* The router forgets what it heard of only when everything is admitted, and nothing that
\* was admitted is pending again.
LEMMA HeardGrows ==
  ASSUME IInv, [Next]_vars
  PROVE  /\ admitted' \in Nat /\ admitted <= admitted' /\ latest' \in Nat
         /\ latest <= latest' \/ latest <= admitted
<1> USE DEF inboxVars, routerVars, runVars, bounds
<1>0. gen \in Nat /\ admitted \in Nat /\ latest \in Nat /\ admitted <= gen /\ NumInv /\ NumInv'
  BY NumFacts, NextInv DEF IInv
<1>1. admitted' \in Nat /\ latest' \in Nat
  BY <1>0 DEF NumInv
<1>2. CASE UNCHANGED <<admitted, latest>>
  BY <1>0, <1>2
<1>3. ASSUME NEW g \in Nat, UNCHANGED admitted, latest' = Most(latest, g) PROVE latest <= latest'
  BY <1>0, <1>3, MostBounds
<1>4. ASSUME NEW r \in Run, Drain(r) PROVE admitted <= admitted' /\ latest' = latest
  BY <1>0, <1>4 DEF Drain
<1>5. ASSUME NEW r \in Run, NEW w, NEW c, Leave(r, w, c), c => latest <= admitted
      PROVE  latest <= latest' \/ latest <= admitted
  <2>1. snap[r] \in Nat
    BY <1>0, NumFacts
  <2>2. latest <= Most(latest, snap[r])
    BY <1>0, <2>1, MostBounds
  <2> QED BY <1>5, <2>2 DEF Leave, Forget
<1>6. ASSUME NEW r \in Run, FinishRelease(r)
      PROVE  admitted' = admitted /\ (latest <= latest' \/ latest <= admitted)
  <2>0. admitted' = admitted
    BY <1>6 DEF FinishRelease
  <2>1. ~News(r) => latest <= admitted
    BY <1>0 DEF News
  <2>2. CASE Leave(r, News(r), ~News(r))
    BY <1>5, <2>0, <2>1, <2>2
  <2>3. CASE latest' = latest
    BY <1>0, <2>0, <2>3
  <2> QED BY <1>6, <2>2, <2>3 DEF FinishRelease
<1>7. ASSUME NEW r \in Run, CleanRelease(r)
      PROVE  admitted' = admitted /\ (latest <= latest' \/ latest <= admitted)
  <2>0. admitted' = admitted
    BY <1>7 DEF CleanRelease
  <2>1. Most(latest, snap[r]) = 0 => latest <= admitted
    BY <1>0, NumFacts DEF Most
  <2>2. CASE Leave(r, TRUE, Most(latest, snap[r]) = 0)
    BY <1>5, <2>0, <2>1, <2>2
  <2>3. CASE latest' = latest
    BY <1>0, <2>0, <2>3
  <2> QED BY <1>7, <2>2, <2>3 DEF CleanRelease
<1>8. ASSUME NEW m \in Msg, Request(m) PROVE admitted' = admitted /\ latest <= latest'
  BY <1>3, <1>8 DEF Request, Msg
<1>9. CASE Wake
  <2>1. admitted' = admitted /\ latest' = Most(latest, admitted + 1) /\ admitted + 1 \in Nat
    BY <1>0, <1>9 DEF Wake
  <2>2. latest <= latest'
    BY <1>3, <2>1
  <2> QED BY <1>0, <1>1, <2>1, <2>2
<1>10. CASE \/ Commit \/ (\E m \in Msg : ProducerDrop(m)) \/ AttemptStep \/ AttemptDrop \/ Rescue
            \/ Execute \/ UNCHANGED vars
  <2>1. UNCHANGED <<admitted, latest>>
    BY <1>10 DEF Commit, ProducerDrop, AttemptStep, Inspect, ReserveSlot, Bind, Publish, Adopt,
       Rollback, Recover, AttemptDrop, Rescue, Execute, vars
  <2> QED BY <1>1, <1>2, <2>1
<1>11. ASSUME NEW r \in Run,
              RegisterEntry(r) \/ EntrySlot(r) \/ Register(r) \/ BeginFinalization(r)
              \/ FinalizeRunner(r) \/ FinishInspect(r) \/ CleanSlot(r) \/ CleanMark(r)
              \/ CleanInspect(r) \/ RunDrop(r) \/ RemoveRunner(r)
       PROVE  UNCHANGED <<admitted, latest>>
  BY <1>11 DEF RegisterEntry, EntrySlot, Register, BeginFinalization, FinalizeRunner,
     FinishInspect, CleanSlot, CleanMark, CleanInspect, RunDrop, RemoveRunner
<1>12. \/ (\E r \in Run : \/ Drain(r) \/ FinishRelease(r) \/ CleanRelease(r)
                          \/ RegisterEntry(r) \/ EntrySlot(r) \/ Register(r) \/ BeginFinalization(r)
                          \/ FinalizeRunner(r) \/ FinishInspect(r) \/ CleanSlot(r) \/ CleanMark(r)
                          \/ CleanInspect(r) \/ RunDrop(r) \/ RemoveRunner(r))
       \/ (\E m \in Msg : Request(m) \/ ProducerDrop(m))
       \/ Commit \/ AttemptStep \/ AttemptDrop \/ Rescue \/ Execute \/ Wake \/ UNCHANGED vars
  BY DEF Next, RunStep
<1> QED BY <1>0, <1>1, <1>2, <1>4, <1>6, <1>7, <1>8, <1>9, <1>10, <1>11, <1>12

\* Errors and drops are counted.
LEMMA BudgetGrows ==
  ASSUME [Next]_vars
  PROVE  (errors' = errors \/ errors' = errors + 1) /\ (drops' = drops \/ drops' = drops + 1)
<1> USE DEF inboxVars, routerVars, runVars, bounds
<1>1. CASE \/ Commit \/ (\E m \in Msg : Request(m) \/ ProducerDrop(m)) \/ AttemptStep \/ AttemptDrop
           \/ Rescue \/ Execute \/ Wake \/ UNCHANGED vars
  BY <1>1 DEF Commit, Request, ProducerDrop, AttemptStep, Inspect, ReserveSlot, Bind, Publish, Adopt,
     Rollback, Recover, AttemptDrop, Rescue, Execute, Wake, vars, Error, Drop
<1>2. ASSUME NEW r \in Run, RunStep(r) \/ RunDrop(r) \/ RemoveRunner(r)
      PROVE  (errors' = errors \/ errors' = errors + 1) /\ (drops' = drops \/ drops' = drops + 1)
  BY <1>2 DEF RunStep, RegisterEntry, EntrySlot, Register, Drain, BeginFinalization, FinalizeRunner,
     CleanSlot, CleanMark, RemoveRunner, FinishInspect, CleanInspect, RunDrop, FinishRelease,
     CleanRelease, Error, Drop
<1> QED BY <1>1, <1>2 DEF Next

\* Every drop of an attempt is counted.
LEMMA StepDrops == ASSUME IInv, DropInv, [Next]_vars PROVE DropInv'
<1> USE DEF inboxVars, routerVars, runVars, bounds
<1>0. rescue \in Nat /\ drops \in Nat /\ errors' \in Nat /\ (att # None => att \in AttSet)
  BY BudgetGrows DEF IInv, NumInv, ShapeInv, DropInv
<1>a. \A l : att # None => [att EXCEPT !.pc = l].pc = l
  BY <1>0 DEF AttSet
<1>b. ASSUME rescue' = rescue, drops' \in {drops, drops + 1}, Dropping' => Dropping \/ drops' = drops + 1
      PROVE  DropInv'
  BY <1>0, <1>b DEF DropInv
<1>c. Dropping' => att' # None /\ att'.pc \in {"rollback", "dropped"}
  BY DEF Dropping
<1>d. \A g, k, a, b : Attempt(g, k, a, b).pc = "inspect"
  BY DEF Attempt
<1>1. CASE Inspect \/ Bind \/ Publish \/ Adopt
  <2>1. rescue' = rescue /\ drops' = drops /\ att # None
    BY <1>1 DEF Inspect, Bind, Publish, Adopt, Trying, Error
  <2>2. att' = None \/ att' = [att EXCEPT !.pc = "slot"] \/ att' = [att EXCEPT !.pc = "publish"]
    BY <1>1 DEF Inspect, Bind, Publish, Adopt, Release, At
  <2>3. att' = None \/ att'.pc \in {"slot", "publish"}
    BY <1>a, <2>1, <2>2
  <2> QED BY <1>b, <1>c, <2>1, <2>3
<1>2. CASE ReserveSlot
  <2>1. rescue' = rescue /\ drops' = drops /\ att # None
    BY <1>2 DEF ReserveSlot, Trying
  <2>2. \/ att' = [att EXCEPT !.pc = "adopt", !.run = slot]
        \/ att' = [att EXCEPT !.pc = "bind", !.run = runs']
    BY <1>2 DEF ReserveSlot
  <2>3. att'.pc \in {"adopt", "bind"}
    BY <1>0, <2>1, <2>2 DEF AttSet
  <2> QED BY <1>b, <1>c, <2>1, <2>3
<1>3. CASE AttemptDrop
  <2>1. rescue' = rescue /\ drops' = drops + 1
    BY <1>3 DEF AttemptDrop, Drop
  <2> QED BY <1>b, <2>1
<1>4. CASE Rollback
  <2>1. rescue' = rescue /\ drops' = drops /\ Dropping
    BY <1>4 DEF Rollback, Trying, Dropping
  <2> QED BY <1>b, <2>1
<1>5. CASE Recover
  <2>1. rescue' = rescue + (IF att.recover THEN 1 ELSE 0) /\ drops' = drops /\ Dropping /\ ~Dropping'
    BY <1>5 DEF Recover, Trying, Dropping
  <2>2. rescue + 1 <= drops
    BY <2>1 DEF DropInv
  <2>3. rescue' <= drops' /\ rescue' \in Nat
    <3>1. CASE att.recover
      BY <1>0, <2>1, <2>2, <3>1
    <3>2. CASE ~att.recover
      BY <1>0, <2>1, <2>2, <3>2
    <3> QED BY <3>1, <3>2
  <2> QED BY <1>0, <2>1, <2>3 DEF DropInv
<1>6. CASE Rescue
  <2>1. rescue' = rescue - 1 /\ drops' = drops
    BY <1>6 DEF Rescue
  <2>2. att' = att \/ att'.pc = "inspect"
    BY <1>6, <1>d DEF Rescue
  <2>3. Dropping' => Dropping
    BY <2>2 DEF Dropping
  <2> QED BY <1>0, <2>1, <2>3 DEF DropInv
<1>7. ASSUME NEW m \in Msg, Request(m) PROVE DropInv'
  <2>1. rescue' = rescue /\ drops' = drops
    BY <1>7 DEF Request
  <2>2. att' = att \/ att'.pc = "inspect"
    BY <1>7 DEF Request, Attempt
  <2>3. Dropping' => Dropping
    BY <2>2 DEF Dropping
  <2> QED BY <1>b, <2>1, <2>3
<1>8. ASSUME NEW m \in Msg, ProducerDrop(m) PROVE DropInv'
  <2>1. rescue' = rescue /\ drops' = drops + 1
    BY <1>8 DEF ProducerDrop, Drop
  <2> QED BY <1>b, <2>1
<1>9. CASE Wake
  <2>1. rescue' = rescue /\ drops' = drops
    BY <1>9 DEF Wake
  <2>2. att' = att \/ att'.pc = "inspect"
    BY <1>9, <1>d DEF Wake
  <2>3. Dropping' => Dropping
    BY <2>2 DEF Dropping
  <2> QED BY <1>b, <2>1, <2>3
<1>10. CASE Commit \/ Execute \/ UNCHANGED vars
  <2>1. UNCHANGED <<rescue, drops, att>>
    BY <1>10 DEF Commit, Execute, vars
  <2> QED BY <1>b, <2>1 DEF Dropping
<1>11. ASSUME NEW r \in Run,
              RegisterEntry(r) \/ EntrySlot(r) \/ Register(r) \/ Drain(r) \/ BeginFinalization(r)
              \/ FinalizeRunner(r) \/ CleanSlot(r) \/ CleanMark(r) \/ RemoveRunner(r)
       PROVE  DropInv'
  <2>1. UNCHANGED <<rescue, drops, att>>
    BY <1>11 DEF RegisterEntry, EntrySlot, Register, Drain, BeginFinalization, FinalizeRunner,
       CleanSlot, CleanMark, RemoveRunner
  <2> QED BY <1>b, <2>1 DEF Dropping
<1>12. ASSUME NEW r \in Run, FinishInspect(r) \/ CleanInspect(r) \/ RunDrop(r) PROVE DropInv'
  <2>1. UNCHANGED <<rescue, att>> /\ drops' \in {drops, drops + 1}
    BY <1>0, <1>12 DEF FinishInspect, CleanInspect, RunDrop, Error, Drop
  <2> QED BY <1>b, <2>1 DEF Dropping
<1>13. ASSUME NEW r \in Run, FinishRelease(r) \/ CleanRelease(r) PROVE DropInv'
  <2>1. rescue' = rescue /\ drops' = drops
    BY <1>13 DEF FinishRelease, CleanRelease
  <2>2. att' = att \/ att'.pc = "inspect"
    BY <1>13, <1>d DEF FinishRelease, CleanRelease, Leave
  <2>3. Dropping' => Dropping
    BY <2>2 DEF Dropping
  <2> QED BY <1>b, <2>1, <2>3
<1> QED BY <1>1, <1>2, <1>3, <1>4, <1>5, <1>6, <1>7, <1>8, <1>9, <1>10, <1>11, <1>12, <1>13
        DEF Next, AttemptStep, RunStep

\* An attempt keeps what it is for, or is a new one.
LEMMA StepFor ==
  ASSUME IInv, HeardInv, [Next]_vars, att' # None
  PROVE  att'.by = None \/ (att'.by = att'.gen /\ ~att'.wake)
<1> USE DEF inboxVars, routerVars, runVars, bounds
<1>0. att # None => att \in AttSet /\ (att.by = None \/ (att.by = att.gen /\ ~att.wake))
  BY DEF IInv, ShapeInv, HeardInv
<1>b. ASSUME att' = att \/ (att # None /\ att'.by = att.by /\ att'.gen = att.gen /\ att'.wake = att.wake)
             \/ (\E g, a, b : att' = Attempt(g, None, a, b))
      PROVE  att'.by = None \/ (att'.by = att'.gen /\ ~att'.wake)
  BY <1>0, <1>b DEF Attempt
<1>1. CASE Inspect \/ ReserveSlot \/ Bind \/ Publish \/ Adopt \/ Rollback \/ Recover \/ AttemptDrop
  <2>1. att # None
    BY <1>1 DEF Inspect, ReserveSlot, Bind, Publish, Adopt, Rollback, Recover, AttemptDrop, Trying
  <2>2. \/ \E l : att' = [att EXCEPT !.pc = l]
        \/ att' = [att EXCEPT !.pc = "adopt", !.run = slot]
        \/ att' = [att EXCEPT !.pc = "bind", !.run = runs']
    BY <1>1 DEF Inspect, ReserveSlot, Bind, Publish, Adopt, Rollback, Recover, AttemptDrop, Release, At
  <2>3. att'.gen = att.gen /\ att'.by = att.by /\ att'.wake = att.wake
    BY <1>0, <2>1, <2>2 DEF AttSet
  <2> QED BY <1>b, <2>1, <2>3
<1>2. ASSUME NEW m \in Msg, Request(m) PROVE att'.by = None \/ (att'.by = att'.gen /\ ~att'.wake)
  <2>1. att' = att \/ att' = Attempt(m, m, FALSE, FALSE)
    BY <1>2 DEF Request
  <2> QED BY <1>0, <2>1 DEF Attempt
<1>3. CASE Rescue \/ Wake
  BY <1>b, <1>3 DEF Rescue, Wake
<1>4. CASE Commit \/ Execute \/ (\E m \in Msg : ProducerDrop(m)) \/ UNCHANGED vars
  <2>1. att' = att
    BY <1>4 DEF Commit, Execute, ProducerDrop, vars
  <2> QED BY <1>b, <2>1
<1>5. ASSUME NEW r \in Run,
             RegisterEntry(r) \/ EntrySlot(r) \/ Register(r) \/ Drain(r) \/ BeginFinalization(r)
             \/ FinalizeRunner(r) \/ CleanSlot(r) \/ CleanMark(r) \/ RemoveRunner(r)
             \/ FinishInspect(r) \/ CleanInspect(r) \/ RunDrop(r)
      PROVE  att' = att
  BY <1>5 DEF RegisterEntry, EntrySlot, Register, Drain, BeginFinalization, FinalizeRunner,
     CleanSlot, CleanMark, RemoveRunner, FinishInspect, CleanInspect, RunDrop
<1>6. ASSUME NEW r \in Run, FinishRelease(r) \/ CleanRelease(r)
      PROVE  att'.by = None \/ (att'.by = att'.gen /\ ~att'.wake)
  <2>1. att' = att \/ \E g : att' = Attempt(g, None, TRUE, FALSE)
    BY <1>6 DEF FinishRelease, CleanRelease, Leave
  <2> QED BY <1>b, <2>1
<1> QED BY <1>b, <1>1, <1>2, <1>3, <1>4, <1>5, <1>6 DEF Next, AttemptStep, RunStep

\* What is answered was heard of.
LEMMA StepHeard == ASSUME IInv, LaunchInv, HeardInv, [Next]_vars PROVE HeardInv'
<1>1. ASSUME NEW m \in Msg, prod'[m] = "answered" PROVE m <= latest' \/ m <= admitted'
  <2>0. /\ m \in Nat /\ gen \in Nat /\ admitted \in Nat /\ latest \in Nat /\ admitted <= gen
        /\ admitted' \in Nat /\ admitted <= admitted' /\ latest' \in Nat
        /\ latest <= latest' \/ latest <= admitted
    BY NumFacts, HeardGrows DEF IInv, Msg
  <2>1. CASE m <= latest \/ m <= admitted
    BY <2>0, <2>1
  <2>2. CASE prod[m] # "answered" /\ Request(m)
    <3>1. latest' = Most(latest, m)
      BY <2>2 DEF Request
    <3> QED BY <2>0, <3>1, MostBounds
  <2>3. CASE att # None /\ att.by = m
    <3>1. m # None
      BY <2>0, ActivationAssumption
    <3>2. att.gen = m /\ att.gen <= latest
      BY <2>3, <3>1 DEF HeardInv, LaunchInv
    <3> QED BY <2>1, <3>2
  <2> QED BY <1>1, <2>1, <2>2, <2>3, NewAnswers DEF HeardInv
<1> QED BY <1>1, StepFor DEF HeardInv

\* What is owed after a step was owed before it, or its producer was told just now and
\* there is an owner.
LEMMA OwedBefore ==
  ASSUME IInv, LaunchInv, HeardInv, [Next]_vars, NEW m \in Msg, Owed(m)'
  PROVE  Owed(m) \/ owner' # None
<1> USE DEF inboxVars, routerVars, runVars, bounds
<1>0. /\ m \in Nat /\ m # None /\ gen \in Nat /\ admitted \in Nat /\ latest \in Nat /\ admitted <= gen
      /\ admitted' \in Nat /\ admitted <= admitted' /\ latest' \in Nat
      /\ dispatched \in Nat /\ dispatched' \in Nat /\ dispatched <= latest
      /\ prod'[m] = "answered" /\ m > admitted' /\ m > dispatched'
  <2>1. dispatched' \in Nat
    BY NextInv, NumFacts DEF IInv, NumInv
  <2>2. prod'[m] = "answered" /\ m > admitted' /\ m > dispatched'
    BY DEF Owed
  <2>3. m \in Nat /\ m # None
    BY ActivationAssumption DEF Msg
  <2> QED BY <2>1, <2>2, <2>3, NumFacts, HeardGrows DEF IInv, LaunchInv
<1>1. CASE m <= dispatched
  <2>1. dispatched' # dispatched
    BY <1>0, <1>1
  <2>2. CASE Publish
    <3>1. dispatched' = Most(dispatched, att.gen) /\ att # None
      BY <2>2 DEF Publish, Dispatched, Trying
    <3>2. att.gen \in Nat
      BY <1>0, <3>1 DEF IInv, NumInv
    <3>3. dispatched <= dispatched'
      BY <1>0, <3>1, <3>2, MostBounds
    <3> QED BY <1>0, <1>1, <3>3
  <2>3. ASSUME NEW r \in Run, NEW w, NEW c, Leave(r, w, c), c => latest <= admitted PROVE FALSE
    <3>1. latest <= admitted
      BY <2>1, <2>3 DEF Leave, Forget
    <3> QED BY <1>0, <1>1, <3>1
  <2>4. ASSUME NEW r \in Run, FinishRelease(r) PROVE FALSE
    <3>1. ~News(r) => latest <= admitted
      BY <1>0 DEF News
    <3>2. Leave(r, News(r), ~News(r))
      BY <2>1, <2>4 DEF FinishRelease
    <3> QED BY <2>3, <3>1, <3>2
  <2>5. ASSUME NEW r \in Run, CleanRelease(r) PROVE FALSE
    <3>1. Most(latest, snap[r]) = 0 => latest <= admitted
      BY <1>0, NumFacts DEF Most, IInv
    <3>2. Leave(r, TRUE, Most(latest, snap[r]) = 0)
      BY <2>1, <2>5 DEF CleanRelease
    <3> QED BY <2>3, <3>1, <3>2
  <2>6. CASE \/ Commit \/ (\E k \in Msg : Request(k) \/ ProducerDrop(k)) \/ Inspect \/ ReserveSlot
             \/ Bind \/ Adopt \/ Rollback \/ Recover \/ AttemptDrop \/ Rescue \/ Execute \/ Wake
             \/ UNCHANGED vars
    BY <2>1, <2>6 DEF Commit, Request, ProducerDrop, Inspect, ReserveSlot, Bind, Adopt, Rollback,
       Recover, AttemptDrop, Rescue, Execute, Wake, vars
  <2>7. ASSUME NEW r \in Run,
               RegisterEntry(r) \/ EntrySlot(r) \/ Register(r) \/ Drain(r) \/ BeginFinalization(r)
               \/ FinalizeRunner(r) \/ CleanSlot(r) \/ CleanMark(r) \/ RemoveRunner(r)
               \/ FinishInspect(r) \/ CleanInspect(r) \/ RunDrop(r)
         PROVE  FALSE
    BY <2>1, <2>7 DEF RegisterEntry, EntrySlot, Register, Drain, BeginFinalization, FinalizeRunner,
       CleanSlot, CleanMark, RemoveRunner, FinishInspect, CleanInspect, RunDrop
  <2> QED BY <2>2, <2>4, <2>5, <2>6, <2>7 DEF Next, AttemptStep, RunStep
<1>2. CASE prod[m] = "answered" /\ ~(m <= dispatched)
  BY <1>0, <1>2 DEF Owed
<1>3. CASE prod[m] # "answered" /\ ~(m <= dispatched)
  <2>1. CASE Request(m) /\ owner # None
    BY <2>1 DEF Request
  <2>2. CASE att # None /\ att.by = m /\ Inspect /\ ~Pending
    <3>1. att.gen = m /\ m <= gen
      BY <1>0, <2>2 DEF HeardInv, IInv, NumInv
    <3>2. gen <= admitted
      BY <1>0, <2>2 DEF Pending
    <3> QED BY <1>0, <3>1, <3>2
  <2>3. CASE Publish \/ Adopt
    <3>1. owner' = Owner(att.run, FALSE)
      BY <2>3 DEF Publish, Adopt
    <3>2. owner' # None
      <4>1. att.run \in Run
        BY <2>3 DEF Publish, Adopt, Trying, IInv, ShapeInv, Launching
      <4> QED BY <3>1, <4>1, OwnerFacts
    <3> QED BY <3>2
  <2> QED BY <1>0, <1>3, <2>1, <2>2, <2>3, NewAnswers
<1> QED BY <1>1, <1>2, <1>3

\* An owner that leaves makes an attempt for what is owed, and tries it again if it is dropped.
LEMMA LeaveCares ==
  ASSUME IInv, LaunchInv, HeardInv, NEW m \in Msg, Owed(m), owner # None, NEW r \in Run,
         FinishRelease(r) \/ CleanRelease(r)
  PROVE  CaredFor'
<1>0. /\ m \in Nat /\ admitted \in Nat /\ latest \in Nat /\ dispatched \in Nat /\ snap[r] \in Nat
      /\ latest <= Most(latest, snap[r]) /\ Most(latest, snap[r]) \in Nat
      /\ m > admitted /\ m > dispatched /\ (m <= latest \/ m <= admitted) /\ att = None
  <2>1. m \in Nat /\ admitted \in Nat /\ latest \in Nat /\ dispatched \in Nat /\ snap[r] \in Nat
    BY NumFacts DEF IInv, Msg
  <2> QED BY <2>1, MostBounds DEF Owed, HeardInv, IInv, OwnInv
<1>1. latest > admitted /\ Most(latest, snap[r]) > dispatched
  BY <1>0
<1>2. News(r)
  BY <1>1 DEF News
<1>3. owner' = owner \/ att' = Attempt(Most(latest, snap[r]), None, TRUE, FALSE)
  BY <1>0, <1>1, <1>2 DEF FinishRelease, CleanRelease, Leave
<1>4. CASE owner' = owner
  BY <1>4 DEF CaredFor
<1>5. CASE att' = Attempt(Most(latest, snap[r]), None, TRUE, FALSE)
  <2>1. Most(latest, snap[r]) \in Msg
    <3>1. snap[r] <= gen /\ latest <= gen /\ gen <= MaxMsg /\ gen \in Nat /\ MaxMsg \in Nat
      BY NumFacts DEF IInv
    <3>2. Most(latest, snap[r]) <= MaxMsg
      BY <1>0, <3>1 DEF Most
    <3> QED BY <1>0, <1>1, <3>1, <3>2 DEF Msg
  <2>2. att' # None
    BY <1>5, <2>1, Values
  <2>3. att'.recover
    BY <1>5 DEF Attempt
  <2> QED BY <2>2, <2>3 DEF CaredFor
<1> QED BY <1>3, <1>4, <1>5

\* Every step takes care of what is owed.
LEMMA StepCares ==
  ASSUME IInv, LaunchInv, StrandInv, [Next]_vars, errors' = 0, drops' <= 1, NEW m \in Msg, Owed(m)
  PROVE  CaredFor'
<1> USE DEF inboxVars, routerVars, runVars, bounds
<1>0. /\ rescue \in Nat /\ drops \in Nat /\ (att # None => att \in AttSet)
      /\ m \in Nat /\ admitted \in Nat /\ gen \in Nat /\ latest \in Nat /\ dispatched \in Nat
      /\ m > admitted /\ m > dispatched /\ m <= latest /\ latest <= gen
  <2>1. m \in Nat /\ admitted \in Nat /\ gen \in Nat /\ latest \in Nat /\ dispatched \in Nat /\ latest <= gen
    BY NumFacts DEF IInv, Msg
  <2>2. m > admitted /\ m > dispatched /\ (m <= latest \/ m <= admitted)
    BY DEF Owed, StrandInv, HeardInv
  <2>3. rescue \in Nat /\ drops \in Nat /\ (att # None => att \in AttSet)
    BY DEF IInv, NumInv, ShapeInv, StrandInv, DropInv
  <2> QED BY <2>1, <2>2, <2>3
<1>b. errors = 0 /\ drops <= drops' /\ drops' \in Nat
  BY <1>0, BudgetGrows DEF StrandInv, DropInv
<1>c. CaredFor
  BY <1>0, <1>b DEF StrandInv, CareInv
<1>d. Dropping => drops = 1 /\ rescue = 0
  BY <1>0, <1>b DEF StrandInv, DropInv
<1>e. rescue > 0 => drops = 1 /\ ~Dropping
  BY <1>0, <1>b DEF StrandInv, DropInv
<1>n. None \notin AttSet
  BY ActivationAssumption DEF AttSet
\* The attempt, the rescues and the owner stay.
<1>s. ASSUME UNCHANGED <<att, rescue>>, owner # None => owner' # None PROVE CaredFor'
  BY <1>0, <1>b, <1>c, <1>s DEF CaredFor, Dropping
\* The attempt goes on.
<1>g. ASSUME att # None, att' \in AttSet, att'.recover = att.recover, owner' = owner, drops' = drops,
             rescue' = rescue, att'.pc \notin {"rollback", "dropped"} \/ Dropping
      PROVE  CaredFor'
  <2>1. att' # None
    BY <1>n, <1>g
  <2>2. CASE owner # None \/ rescue > 0
    BY <1>g, <2>2 DEF CaredFor
  <2>3. CASE att.recover
    BY <1>g, <2>1, <2>3 DEF CaredFor
  <2>4. CASE drops = 1 /\ ~Dropping
    BY <1>g, <2>1, <2>4 DEF CaredFor, Dropping
  <2> QED BY <1>c, <2>2, <2>3, <2>4 DEF CaredFor
\* A new attempt, when nobody but a rescue would have cared.
<1>m. ASSUME att = None, owner = None, att' \in AttSet, att'.pc = "inspect" PROVE CaredFor'
  <2>1. drops = 1
    BY <1>c, <1>e, <1>m DEF CaredFor
  <2>2. att' # None /\ drops' = 1
    BY <1>b, <1>n, <1>m, <2>1
  <2> QED BY <1>m, <2>2 DEF CaredFor, Dropping
<1>1. CASE Inspect
  <2>1. Pending
    BY <1>0 DEF Pending
  <2>2. ~Error
    BY <1>b DEF Error
  <2>3. At("slot") /\ att # None /\ UNCHANGED <<owner, rescue, drops>>
    BY <1>1, <2>1, <2>2 DEF Inspect, Trying
  <2>4. att' \in AttSet /\ att'.recover = att.recover /\ att'.pc = "slot"
    BY <1>0, <2>3 DEF At, AttSet, AttPc
  <2> QED BY <1>g, <2>3, <2>4
<1>2. CASE ReserveSlot
  <2>1. att # None /\ UNCHANGED <<owner, rescue, drops>>
    BY <1>2 DEF ReserveSlot, Trying
  <2>2. \/ slot \in Run /\ att' = [att EXCEPT !.pc = "adopt", !.run = slot]
        \/ runs' \in Run /\ att' = [att EXCEPT !.pc = "bind", !.run = runs']
    <3>1. runs < MaxRun => runs + 1 \in Run
      BY RunsFacts, ActivationAssumption DEF IInv, ShapeInv, Run
    <3> QED BY <1>2, <3>1 DEF ReserveSlot, IInv, ShapeInv
  <2>3. att' \in AttSet /\ att'.recover = att.recover /\ att'.pc \in {"adopt", "bind"}
    BY <1>0, <2>1, <2>2 DEF AttSet, AttPc
  <2> QED BY <1>g, <2>1, <2>3
<1>3. CASE Bind
  <2>1. ~Error
    BY <1>b DEF Error
  <2>2. att # None /\ UNCHANGED <<owner, rescue, drops>> /\ At("publish")
    BY <1>3, <2>1 DEF Bind, Trying
  <2>3. att' \in AttSet /\ att'.recover = att.recover /\ att'.pc = "publish"
    BY <1>0, <2>2 DEF At, AttSet, AttPc
  <2> QED BY <1>g, <2>2, <2>3
<1>4. CASE Publish \/ Adopt
  <2>1. owner' = Owner(att.run, FALSE)
    BY <1>4 DEF Publish, Adopt
  <2>2. att.run \in Run
    BY <1>4 DEF Publish, Adopt, Trying, IInv, ShapeInv, Launching
  <2> QED BY <2>1, <2>2, OwnerFacts DEF CaredFor
<1>5. CASE AttemptDrop
  <2>1. att # None /\ UNCHANGED <<owner, rescue>> /\ drops' = drops + 1 /\ At(AfterDrop(att.pc))
    BY <1>5 DEF AttemptDrop, Drop
  <2>2. att' \in AttSet /\ att'.recover = att.recover
    BY <1>0, <2>1 DEF At, AttSet, AttPc, AfterDrop
  <2>3. drops = 0 /\ rescue = 0
    BY <1>0, <1>b, <1>e, <2>1
  <2>4. owner # None \/ att.recover
    BY <1>c, <2>3 DEF CaredFor
  <2>5. att' # None
    BY <1>n, <2>2
  <2> QED BY <2>1, <2>2, <2>4, <2>5 DEF CaredFor
<1>6. CASE Rollback
  <2>1. att # None /\ UNCHANGED <<owner, rescue, drops>> /\ At("dropped") /\ Dropping
    BY <1>6 DEF Rollback, Trying, Dropping
  <2>2. att' \in AttSet /\ att'.recover = att.recover
    BY <1>0, <2>1 DEF At, AttSet, AttPc
  <2> QED BY <1>g, <2>1, <2>2
<1>7. CASE Recover
  <2>1. Dropping /\ owner' = owner /\ rescue' = rescue + (IF att.recover THEN 1 ELSE 0)
    BY <1>7 DEF Recover, Trying, Dropping
  <2>2. owner # None \/ att.recover
    BY <1>c, <1>d, <2>1 DEF CaredFor
  <2>3. CASE att.recover
    <3>1. rescue' = rescue + 1
      BY <2>1, <2>3
    <3>2. rescue' > 0
      BY <1>0, <3>1
    <3> QED BY <3>2 DEF CaredFor
  <2> QED BY <2>1, <2>2, <2>3 DEF CaredFor
<1>8. CASE Rescue
  <2>1. rescue > 0 /\ owner' = owner /\ drops' = drops /\ drops = 1 /\ ~Dropping
    BY <1>8, <1>e DEF Rescue
  <2>2. CASE owner # None
    BY <2>1, <2>2 DEF CaredFor
  <2>3. CASE owner = None /\ att # None
    <3>1. att' = att
      BY <1>8, <2>3 DEF Rescue
    <3> QED BY <2>1, <2>3, <3>1 DEF CaredFor, Dropping
  <2>4. CASE owner = None /\ att = None
    <3>1. latest > dispatched /\ latest \in Msg
      BY <1>0, NumFacts DEF Msg, IInv
    <3>2. att' = Attempt(latest, None, FALSE, FALSE)
      BY <1>8, <2>4, <3>1 DEF Rescue
    <3>3. att' \in AttSet /\ att'.pc = "inspect"
      BY <3>1, <3>2, Values
    <3> QED BY <1>m, <2>4, <3>3
  <2> QED BY <2>2, <2>3, <2>4
<1>9. ASSUME NEW k \in Msg, Request(k) PROVE CaredFor'
  <2>1. owner' = owner /\ rescue' = rescue
    BY <1>9 DEF Request
  <2>2. att' = att \/ (owner = None /\ att = None /\ att' = Attempt(k, k, FALSE, FALSE))
    BY <1>9 DEF Request
  <2>3. Attempt(k, k, FALSE, FALSE) \in AttSet /\ Attempt(k, k, FALSE, FALSE).pc = "inspect"
    BY Values
  <2> QED BY <1>m, <1>s, <2>1, <2>2, <2>3
<1>10. CASE Wake
  <2>1. owner' = owner /\ rescue' = rescue
    BY <1>10 DEF Wake
  <2>2. att' = att \/ (owner = None /\ att = None /\ att' = Attempt(admitted + 1, None, FALSE, TRUE))
    BY <1>10 DEF Wake
  <2>3. admitted + 1 \in Msg
    <3>1. gen <= MaxMsg /\ MaxMsg \in Nat
      BY NumFacts DEF IInv
    <3> QED BY <1>0, <3>1 DEF Msg
  <2>4. Attempt(admitted + 1, None, FALSE, TRUE) \in AttSet
        /\ Attempt(admitted + 1, None, FALSE, TRUE).pc = "inspect"
    BY <2>3, Values
  <2> QED BY <1>m, <1>s, <2>1, <2>2, <2>4
<1>11. CASE Commit \/ Execute \/ (\E k \in Msg : ProducerDrop(k)) \/ UNCHANGED vars
  <2>1. UNCHANGED <<owner, att, rescue>>
    BY <1>11 DEF Commit, Execute, ProducerDrop, vars
  <2> QED BY <1>s, <2>1
<1>12. ASSUME NEW r \in Run,
              EntrySlot(r) \/ Drain(r) \/ FinalizeRunner(r) \/ CleanSlot(r) \/ RemoveRunner(r)
              \/ FinishInspect(r) \/ CleanInspect(r) \/ RunDrop(r)
       PROVE  CaredFor'
  <2>1. UNCHANGED <<owner, att, rescue>>
    BY <1>12 DEF EntrySlot, Drain, FinalizeRunner, CleanSlot, RemoveRunner, FinishInspect,
       CleanInspect, RunDrop
  <2> QED BY <1>s, <2>1
<1>13. ASSUME NEW r \in Run, RegisterEntry(r) \/ Register(r) \/ BeginFinalization(r) \/ CleanMark(r)
       PROVE  CaredFor'
  <2>1. UNCHANGED <<att, rescue>>
    BY <1>13 DEF RegisterEntry, Register, BeginFinalization, CleanMark
  <2>2. owner # None => owner \in OwnerSet
    BY DEF IInv, ShapeInv
  <2>3. owner # None => [owner EXCEPT !.finalizing = TRUE] \in OwnerSet
                        /\ [owner EXCEPT !.registered = FALSE, !.finalizing = TRUE] \in OwnerSet
    BY <2>2 DEF OwnerSet
  <2>4. OwnerSet \cap {None} = {} /\ Owner(r, TRUE) # None
    BY Values, OwnerFacts
  <2>5. owner # None => owner' # None
    BY <1>13, <2>3, <2>4 DEF RegisterEntry, Register, BeginFinalization, CleanMark
  <2> QED BY <1>s, <2>1, <2>5
<1>14. ASSUME NEW r \in Run, FinishRelease(r) \/ CleanRelease(r) PROVE CaredFor'
  <2>1. OwnedBy(r)
    BY <1>14 DEF FinishRelease, CleanRelease, IInv, OwnInv, RunInv, Leaving
  <2> QED BY <1>14, <2>1, LeaveCares DEF OwnedBy, StrandInv
<1> QED BY <1>1, <1>2, <1>3, <1>4, <1>5, <1>6, <1>7, <1>8, <1>9, <1>10, <1>11, <1>12, <1>13, <1>14
        DEF Next, AttemptStep, RunStep

\* A message whose producer was told that somebody takes care of it is not left behind when
\* the last owner leaves, in any order of deliveries, launches, entries, wake-ups and
\* cleanups, with one future dropped anywhere.
THEOREM NoStrandedCorrect == Spec => []NoStranded
<1>1. Init => LaunchInv
  BY DEF Init, LaunchInv, LaunchedOnce
<1>2. Init => StrandInv
  <2> SUFFICES ASSUME Init PROVE StrandInv
    OBVIOUS
  <2>1. DropInv /\ HeardInv
    BY DEF Init, DropInv, HeardInv, Dropping
  <2>2. CareInv
    BY DEF Init, CareInv, Owed
  <2> QED BY <2>1, <2>2 DEF StrandInv
<1>3. IInv /\ LaunchInv /\ [Next]_vars => LaunchInv'
  BY StepLaunch
<1>4. IInv /\ LaunchInv /\ StrandInv /\ [Next]_vars => StrandInv'
  <2> SUFFICES ASSUME IInv, LaunchInv, StrandInv, [Next]_vars PROVE StrandInv'
    OBVIOUS
  <2>1. DropInv' /\ HeardInv'
    BY StepDrops, StepHeard DEF StrandInv
  <2>2. ASSUME errors' = 0, drops' <= 1, NEW m \in Msg, Owed(m)' PROVE CaredFor'
    <3>1. CASE owner' # None
      BY <3>1 DEF CaredFor
    <3>2. CASE Owed(m)
      BY <2>2, <3>2, StepCares
    <3> QED BY <2>2, <3>1, <3>2, OwedBefore DEF StrandInv
  <2> QED BY <2>1, <2>2 DEF StrandInv, CareInv
<1>5. IInv /\ StrandInv => NoStranded
  <2> SUFFICES ASSUME IInv, StrandInv, Quiet, errors = 0, drops <= 1, NEW m \in Msg, prod[m] = "answered"
               PROVE  m <= admitted \/ m <= dispatched
    BY DEF NoStranded
  <2>1. ~CaredFor
    BY DEF Quiet, CaredFor
  <2>2. ~Owed(m)
    BY <2>1 DEF StrandInv, CareInv
  <2>3. m \in Nat /\ admitted \in Nat /\ dispatched \in Nat
    BY NumFacts DEF IInv, Msg
  <2> QED BY <2>2, <2>3 DEF Owed
<1> QED BY <1>1, <1>2, <1>3, <1>4, <1>5, InvCorrect, PTL DEF Spec

-----------------------------------------------------------------------------
(* The router implements SessionTurns. *)

\* An execution that finalizes has marked its ownership.
ClosingInv == \A x \in Run : rpc[x] \in {"final", "finish", "release"} => owner.finalizing = TRUE

\* Each kind of step keeps the marks.
LEMMA StepClosing ==
  ASSUME IInv, ClosingInv, [Next]_vars PROVE ClosingInv'
<1> DEFINE Closing == {"final", "finish", "release"}
<1> SUFFICES ASSUME NEW x \in Run, rpc'[x] \in Closing PROVE owner'.finalizing = TRUE
  BY DEF ClosingInv
<1>0. Kind /\ OwnInv /\ \A y \in Run : RunInv(y)
  BY StepKinds DEF IInv, OwnInv
<1>1. rpc[x] \in Closing => owner.finalizing = TRUE /\ OwnedBy(x) /\ att = None
  BY <1>0 DEF ClosingInv, OwnInv, RunInv, Leaving, OwnedBy
<1>2. CASE Reserves
  <2>1. rpc[x] \in Closing
    BY <1>2 DEF Reserves, Wakes
  <2>2. owner' = owner
    BY <1>1, <1>2, <2>1 DEF Reserves
  <2> QED BY <1>1, <2>1, <2>2
<1>3. ASSUME NEW r \in Run, Goes(r) PROVE owner'.finalizing = TRUE
  <2>1. rpc[x] \in Closing
    BY <1>3 DEF Goes, Moves
  <2> QED BY <1>1, <1>3, <2>1 DEF Goes
<1>4. ASSUME NEW r \in Run, Enters(r) PROVE owner'.finalizing = TRUE
  <2>1. rpc[x] \in Closing
    BY <1>4 DEF Enters, Moves
  <2> QED BY <1>1, <1>4, <2>1 DEF Enters, OwnedBy
<1>5. ASSUME NEW r \in Run, Keeps(r) PROVE owner'.finalizing = TRUE
  <2>1. CASE x = r
    BY <1>5, <2>1 DEF Keeps, Moves
  <2>2. CASE x # r
    <3>1. rpc[x] \in Closing
      BY <1>5, <2>2 DEF Keeps, Moves
    <3> QED BY <1>1, <1>5, <2>2, <3>1 DEF Keeps, OwnedBy
  <2> QED BY <2>1, <2>2
<1>6. ASSUME NEW r \in Run, Leaves(r) PROVE owner'.finalizing = TRUE
  <2>1. x # r /\ rpc[x] \in Closing
    BY <1>6 DEF Leaves, Moves
  <2> QED BY <1>1, <1>6, <2>1 DEF Leaves, OwnedBy
<1>7. ASSUME NEW r \in Run, Makes(r) PROVE owner'.finalizing = TRUE
  <2>1. rpc[x] \in Closing
    BY <1>7 DEF Makes, Moves
  <2> QED BY <1>1, <1>7, <2>1 DEF Makes
<1>8. ASSUME NEW r \in Run, Launches(r) PROVE owner'.finalizing = TRUE
  <2>1. rpc[x] \in Closing
    BY <1>8 DEF Launches, Moves
  <2> QED BY <1>1, <1>8, <2>1 DEF Launches
<1> QED BY <1>0, <1>2, <1>3, <1>4, <1>5, <1>6, <1>7, <1>8 DEF Kind

\* Only a delivery and a safe point change the inbox.
LEMMA StepInbox ==
  ASSUME [Next]_vars
  PROVE  \/ UNCHANGED inboxVars
         \/ gen' = gen + 1 /\ UNCHANGED <<admitted, owner, rpc>>
         \/ \E r \in Run : Drain(r)
<1> USE DEF inboxVars, routerVars, runVars
<1>1. CASE Commit
  BY <1>1 DEF Commit
<1>2. ASSUME NEW m \in Msg, Request(m) \/ ProducerDrop(m) PROVE UNCHANGED inboxVars
  BY <1>2 DEF Request, ProducerDrop
<1>3. CASE AttemptStep \/ AttemptDrop \/ Rescue \/ Execute \/ Wake
  BY <1>3 DEF AttemptStep, Inspect, ReserveSlot, Bind, Publish, Adopt, Rollback, Recover,
              AttemptDrop, Rescue, Execute, Wake
<1>4. ASSUME NEW r \in Run, RunStep(r) PROVE UNCHANGED inboxVars \/ Drain(r)
  BY <1>4 DEF RunStep, RegisterEntry, EntrySlot, Register, BeginFinalization, FinalizeRunner,
              FinishInspect, FinishRelease, CleanSlot, CleanMark, CleanInspect, CleanRelease
<1>5. ASSUME NEW r \in Run, RunDrop(r) \/ RemoveRunner(r) PROVE UNCHANGED inboxVars
  BY <1>5 DEF RunDrop, RemoveRunner
<1>6. CASE UNCHANGED vars
  BY <1>6 DEF vars
<1> QED BY <1>1, <1>2, <1>3, <1>4, <1>5, <1>6 DEF Next

Turn == IF owner = None THEN None ELSE owner.run
Past == {r \in Run : rpc[r] = "gone"}

\* What the moves of one execution mean for those that had their turn.
LEMMA MovesPast ==
  ASSUME NEW r \in Run, NEW from, NEW to, Moves(r, from, to), "gone" \notin from
  PROVE  /\ "gone" \notin to => Past' = Past /\ r \notin Past
         /\ to = {"gone"} => Past' = Past \cup {r} /\ r \notin Past
BY DEF Moves, Past

\* What each kind of step does to the turn: nothing, or one step of it.
LEMMA StepTurns ==
  ASSUME IInv, ClosingInv, [Next]_vars, UNCHANGED inboxVars
  PROVE  Turns!Next \/ UNCHANGED <<Turn, TurnPhase, Past>>
<1> DEFINE Goal == Turns!Next \/ UNCHANGED <<Turn, TurnPhase, Past>>
<1>0. Kind /\ ShapeInv /\ OwnInv /\ \A y \in Run : RunInv(y)
  BY StepKinds DEF IInv, OwnInv
<1>s. owner' = owner => UNCHANGED <<Turn, TurnPhase>>
  BY DEF Turn, TurnPhase
<1>i. gen' = gen /\ admitted' = admitted
  BY DEF inboxVars
\* The steps of the abstract specification, in the terms of the mapping.
<1>t. ASSUME NEW r \in Run, owner = None, r \notin Past, Past' = Past,
             owner' = Owner(r, TRUE) \/ owner' = Owner(r, FALSE)
      PROVE  Goal
  <2>0. Owner(r, TRUE).finalizing = FALSE /\ Owner(r, FALSE).finalizing = FALSE
    BY DEF Owner
  <2>1. owner' # None /\ owner'.run = r /\ owner'.finalizing = FALSE
    BY <1>t, <2>0, Values
  <2>2. Turn = None /\ Turn' = r /\ TurnPhase' \in {"starting", "open"}
    BY <1>t, <2>1 DEF Turn, TurnPhase
  <2>3. Turns!Take(r)
    BY <1>i, <1>t, <2>2 DEF Turns!Take, Turn, Past
  <2> QED BY <2>3 DEF Turns!Next
<1>r. ASSUME NEW r \in Run, owner' = owner, ~OwnedBy(r), Past' = Past \cup {r}
      PROVE  Goal
  <2>1. r # Turn
    BY <1>r, Values DEF Turn, OwnedBy
  <2>2. Turns!Refuse(r)
    BY <1>i, <1>r, <1>s, <2>1 DEF Turns!Refuse, Turn, Past
  <2> QED BY <2>2 DEF Turns!Next
<1>2. CASE Reserves
  <2>1. Past' = Past
    BY <1>2 DEF Reserves, Wakes, Past
  <2>2. CASE owner' = owner
    BY <1>s, <2>1, <2>2
  <2>3. CASE att # None /\ att.pc = "adopt" /\ owner' = Owner(att.run, FALSE)
    <3>1. att.run \in Run /\ owner = None
      BY <1>0, <2>3 DEF ShapeInv, OwnInv
    <3>2. att.run \notin Past
      BY <1>0, <2>3, <3>1 DEF RunInv, Past
    <3> QED BY <1>t, <2>1, <2>3, <3>1, <3>2
  <2> QED BY <1>2, <2>2, <2>3 DEF Reserves
<1>3. ASSUME NEW r \in Run, Goes(r) PROVE Goal
  <2>1. owner' = owner
    BY <1>3 DEF Goes
  <2>2. CASE owner # None /\ Moves(r, {"m_register"}, {"gone"})
    <3>1. ~OwnedBy(r)
      BY <1>0, <2>2 DEF RunInv, Moves, OwnerPc
    <3>2. Past' = Past \cup {r}
      BY <2>2, MovesPast
    <3> QED BY <1>r, <2>1, <3>1, <3>2
  <2>3. CASE ~Moves(r, {"m_register"}, {"gone"})
    <3>1. PICK from \in SUBSET RunPc, to \in SUBSET RunPc :
            Moves(r, from, to) /\ "gone" \notin from /\ "gone" \notin to
      BY <1>3, <2>3 DEF Goes, RunPc
    <3>2. Past' = Past
      BY <3>1, MovesPast
    <3> QED BY <1>s, <2>1, <3>2
  <2> QED BY <1>3, <2>2, <2>3 DEF Goes, Moves
<1>4. ASSUME NEW r \in Run, Enters(r) PROVE Goal
  <2>1. Past' = Past /\ r \notin Past
    BY <1>4, MovesPast DEF Enters
  <2> QED BY <1>4, <1>t, <2>1 DEF Enters
<1>5. ASSUME NEW r \in Run, Keeps(r) PROVE Goal
  <2>0. owner # None /\ owner.run = r /\ owner' \in OwnerSet /\ owner' # None /\ owner'.run = r
    BY <1>5, Values DEF Keeps, OwnedBy
  <2>1. Turn # None /\ Turn' = Turn
    BY <2>0, Values DEF Turn
  <2>2. Past' = Past
    <3>1. PICK from \in {"launched", "running", "c_mark"}, to \in {"start", "final", "c_inspect"} :
            Moves(r, {from}, {to})
      BY <1>5 DEF Keeps
    <3> QED BY <3>1, MovesPast
  <2>3. CASE Moves(r, {"launched"}, {"start"}) /\ owner' = Owner(r, TRUE)
    <3>1. owner = Owner(r, FALSE)
      BY <1>0, <2>3 DEF RunInv, Moves
    <3>2. TurnPhase = "starting" /\ TurnPhase' = "open"
      BY <2>0, <2>3, <3>1 DEF TurnPhase, Owner
    <3>3. Turns!Open
      BY <1>i, <2>1, <2>2, <3>2 DEF Turns!Open, Turn, Past
    <3> QED BY <3>3 DEF Turns!Next
  <2>4. CASE owner'.finalizing = TRUE
    <3>1. TurnPhase' = "closing"
      BY <2>0, <2>4 DEF TurnPhase
    <3>2. Turns!Close
      BY <1>i, <2>1, <2>2, <3>1 DEF Turns!Close, Turn, Past
    <3> QED BY <3>2 DEF Turns!Next
  <2>5. Abandoned(r).finalizing = TRUE
    BY DEF Abandoned
  <2> QED BY <1>5, <2>3, <2>4, <2>5 DEF Keeps
<1>6. ASSUME NEW r \in Run, Leaves(r) PROVE Goal
  <2>1. owner # None /\ owner.run = r /\ owner' = None
    BY <1>6 DEF Leaves, OwnedBy
  <2>2. owner.finalizing = TRUE
    <3>1. rpc[r] = "release" \/ rpc[r] = "c_release"
      BY <1>6 DEF Leaves, Moves
    <3>2. rpc[r] = "c_release" => owner = Abandoned(r)
      BY <1>0 DEF RunInv
    <3>3. Abandoned(r).finalizing = TRUE
      BY DEF Abandoned
    <3> QED BY <3>1, <3>2, <3>3 DEF ClosingInv
  <2>3. TurnPhase = "closing" /\ TurnPhase' = "free" /\ Turn = r /\ Turn' = None
    BY <2>1, <2>2 DEF TurnPhase, Turn
  <2>4. Past' = Past \cup {r}
    BY <1>6, MovesPast DEF Leaves
  <2>5. Turns!Give
    BY <1>i, <2>3, <2>4 DEF Turns!Give, Turn, Past
  <2> QED BY <2>5 DEF Turns!Next
<1>7. ASSUME NEW r \in Run, Makes(r) PROVE Goal
  <2>1. Past' = Past
    BY <1>7, MovesPast DEF Makes
  <2> QED BY <1>7, <1>s, <2>1 DEF Makes
<1>8. ASSUME NEW r \in Run, Launches(r) PROVE Goal
  <2>0. owner = None
    BY <1>0, <1>8 DEF Launches, OwnInv
  <2>1. CASE owner' = Owner(r, FALSE) /\ Moves(r, {"reserved"}, {"launched"})
    <3>1. Past' = Past /\ r \notin Past
      BY <2>1, MovesPast
    <3> QED BY <1>t, <2>0, <2>1, <3>1
  <2>2. CASE owner' = owner /\ Moves(r, {"reserved"}, {"gone"})
    BY <1>r, <2>0, <2>2, MovesPast DEF OwnedBy
  <2>3. CASE owner' = owner /\ Moves(r, {"reserved"}, {"unbound"})
    BY <1>s, <2>3, MovesPast
  <2> QED BY <1>8, <2>1, <2>2, <2>3 DEF Launches
<1>9. CASE \E r \in Run : Goes(r) \/ Enters(r) \/ Keeps(r) \/ Leaves(r) \/ Makes(r) \/ Launches(r)
  <2> PICK r \in Run : Goes(r) \/ Enters(r) \/ Keeps(r) \/ Leaves(r) \/ Makes(r) \/ Launches(r)
    BY <1>9
  <2> QED BY <1>3, <1>4, <1>5, <1>6, <1>7, <1>8
<1> QED BY <1>0, <1>2, <1>9 DEF Kind

\* Every step is one of the abstract specification, or changes nothing it speaks of.
LEMMA StepRefines ==
  ASSUME IInv, ClosingInv, [Next]_vars
  PROVE  Turns!Next \/ UNCHANGED <<gen, admitted, Turn, TurnPhase, Past>>
<1>0. rpc \in [Run -> RunPc] /\ OwnInv
  BY DEF IInv, ShapeInv
<1>1. CASE UNCHANGED inboxVars
  BY <1>1, StepTurns DEF inboxVars
<1>2. CASE gen' = gen + 1 /\ UNCHANGED <<admitted, owner, rpc>>
  <2>1. Turns!Send
    BY <1>2 DEF Turns!Send, TurnPhase
  <2> QED BY <2>1 DEF Turns!Next
<1>3. ASSUME NEW r \in Run, Drain(r) PROVE Turns!Next
  <2>1. /\ rpc[r] \in {"start", "running"} /\ rpc' = [rpc EXCEPT ![r] = "running"]
        /\ gen' = gen /\ admitted' = gen /\ owner' = owner
    BY <1>3 DEF Drain, Goto, routerVars
  <2>2. owner = Owner(r, TRUE) /\ owner # None
    BY <1>0, <2>1, Values DEF OwnInv, RunInv, Registered
  <2>3. TurnPhase = "open" /\ TurnPhase' = TurnPhase /\ Turn' = Turn
    BY <2>1, <2>2 DEF TurnPhase, Owner, Turn
  <2>4. Past' = Past
    BY <1>0, <2>1 DEF Past
  <2>5. Turns!Hear
    BY <2>1, <2>3, <2>4 DEF Turns!Hear, Turn, Past
  <2> QED BY <2>5 DEF Turns!Next
<1> QED BY <1>1, <1>2, <1>3, StepInbox

\* Refinement: every behaviour of the router, under any drops and errors, is one of
\* SessionTurns: executions hear the messages in turns, one after the other.
THEOREM TurnsCorrect == Spec => ImplementsSessionTurns
<1>1. Init => Turns!Init /\ ClosingInv
  <2> SUFFICES ASSUME Init PROVE Turns!Init /\ ClosingInv
    OBVIOUS
  <2>1. {r \in Run : rpc[r] = "gone"} = {}
    BY DEF Init
  <2>2. Turns!Init
    BY <2>1 DEF Init, Turns!Init, TurnPhase
  <2> QED BY <2>2 DEF Init, ClosingInv
<1>2. IInv /\ ClosingInv /\ [Next]_vars => ClosingInv'
  BY StepClosing
<1>3. IInv /\ ClosingInv /\ [Next]_vars
      => [Turns!Next]_<<gen, admitted, IF owner = None THEN None ELSE owner.run, TurnPhase,
                        {r \in Run : rpc[r] = "gone"}>>
  BY StepRefines DEF Turn, Past
<1> QED BY <1>1, <1>2, <1>3, InvCorrect, PTL DEF Spec, ImplementsSessionTurns, Turns!Spec
=============================================================================
