------------------------ MODULE ReadySchedulerProofs ------------------------
(***************************************************************************)
(* Proofs about ReadyScheduler for any calls, works, capacity and bounds.  *)
(***************************************************************************)
EXTENDS ReadyScheduler, TLAPS

-----------------------------------------------------------------------------
(* The inductive invariant. *)

\* The generations before the current one are those that are cancelled, none of them is
\* ahead of a policy, a call or a barrier, and one that a call still has is in retired.
GenInv ==
  /\ cancelled = 1..(current - 1) /\ drained < current
  /\ policy # None => policy.gen <= current
  /\ \A t \in Task : /\ gen[t] <= current
                     /\ pc[t] \in InstallPc \cup PassPc => gen[t] > 0
                     /\ gen[t] \in 1..(current - 1) => gen[t] \in retired
                     /\ pc[t] = "r_drain" => obs[t] < current

\* Who works under a generation that was not cancelled when the work began.
Engaged == Using \cup {"i_validate"}

\* A pass works with the policy of its own generation, and an install that waits for the
\* host has cleared the policy: no revoke that returned has retired their generation.
UseInv ==
  \A t \in Task : /\ pc[t] \in Engaged => gen[t] > drained
                  /\ pc[t] \in Using => policy.gen = gen[t]
                  /\ pc[t] = "i_validate" => policy = None

\* A revoke under way still waits for everybody engaged at or below its generation.
BarrierInv ==
  \A r, t \in Task :
    pc[r] = "r_drain" /\ pc[t] \in Engaged /\ gen[t] <= obs[r] => gen[t] \in wait[r]

\* What prepare_ready_claim has seen holds as long as the sequence is the one it saw.
ClaimInv ==
  \A t \in Task :
    /\ pc[t] # "r_drain" => obs[t] <= seq
    /\ pc[t] \in {"c_dispatch", "c_commit"} /\ obs[t] = seq
         => Cardinality(Occupied) < Capacity /\ work[claim[t]] = "Ready"

IInv == TypeOK /\ GenInv /\ UseInv /\ BarrierInv /\ ClaimInv

-----------------------------------------------------------------------------
(* The kinds of steps. *)

\* A call ends; it takes the policy away only if it holds it and may not use it.
Ends(t) ==
  /\ Leave(t) /\ UNCHANGED <<policyVars, scopeVars, drained>>
  /\ \/ policy' = policy
     \/ /\ policy' = None /\ pc[t] \in Holding
        /\ policy # None => policy.gen \in cancelled \/ policy.expired

\* A call begins with the current generation.
Begins(t) ==
  /\ pc[t] = "idle" /\ \E l \in {"i_active", "c_active"} : Goto(t, l)
  /\ gen' = [gen EXCEPT ![t] = current]
  /\ UNCHANGED <<wait, obs, claim, policyVars, lockVars, scopeVars, drained>>

\* A pass goes on under the policy that it holds.
GoesOn(t) ==
  /\ pc[t] \in Holding /\ policy # None
  /\ pc[t] \in Using \/ (gen[t] \notin cancelled /\ policy.gen \notin cancelled)
  /\ \E l \in Using : /\ pc' = [pc EXCEPT ![t] = l]
                      /\ l \notin {"c_patrol", "c_claim"} => claim'[t] \in Work
  /\ \E o \in Nat : obs' = [obs EXCEPT ![t] = o]
  /\ \E w \in Work \cup {None} : claim' = [claim EXCEPT ![t] = w]
  /\ UNCHANGED <<gen, wait, policyVars, active, holder, policy, drained>>
  /\ seq' \in Nat /\ work' \in [Work -> WorkState] /\ queued' \subseteq Work

PassGoesOn(t) ==
  \/ PassInstalled(t) \/ PassSnapshot(t) \/ PassClaim(t) \/ PassDispatch(t)
  \/ PassCommit(t) \/ PassEnsure(t) \/ PassQueue(t)

\* Waiting for a lock or for the token, and the install that found the policy revoked.
Clears(t) ==
  /\ pc[t] = "i_old" /\ gen[t] \notin cancelled /\ (policy # None => policy.gen \in cancelled)
  /\ policy' = None /\ Goto(t, "i_validate")
  /\ UNCHANGED <<gen, wait, obs, claim, active, holder, policyVars, scopeVars, drained>>

Locks(t) ==
  \/ TakeActive(t, "i_active", "i_check") \/ TakeActive(t, "c_active", "c_check")
  \/ NotCancelled(t, "i_check", "i_state") \/ NotCancelled(t, "c_check", "c_state")
  \/ TakeState(t, "i_state", "i_old") \/ TakeState(t, "c_state", "c_installed")

LEMMA PassKinds ==
  ASSUME TypeOK, NEW t \in Task, PassGoesOn(t)
  PROVE  Ends(t) \/ GoesOn(t)
<1> USE DEF Ends, GoesOn, Goto
<1>0. /\ obs = [obs EXCEPT ![t] = obs[t]] /\ obs[t] \in Nat
      /\ claim = [claim EXCEPT ![t] = claim[t]] /\ claim[t] \in Work \cup {None}
      /\ seq \in Nat /\ work \in [Work -> WorkState] /\ queued \subseteq Work
  BY DEF TypeOK
<1>1. CASE PassInstalled(t)
  BY <1>0, <1>1 DEF PassInstalled, FenceCheck, Cancelled, Holding, Using, lockVars, scopeVars
<1>2. CASE PassSnapshot(t)
  <2>1. policy # None
    BY <1>2 DEF PassSnapshot, TypeOK, Using
  <2>2. CASE ~FenceCheck /\ Leave(t)
    BY <1>2, <2>2 DEF PassSnapshot
  <2>3. CASE \E w \in Work : claim' = [claim EXCEPT ![t] = w] /\ Goto(t, "c_ensure")
    <3>1. PICK w \in Work : claim' = [claim EXCEPT ![t] = w] /\ Goto(t, "c_ensure")
      BY <2>3
    <3>2. claim'[t] \in Work
      BY <3>1 DEF TypeOK
    <3>3. pc[t] \in Using /\ seq \in Nat /\ "c_ensure" \in Using
      BY <1>2 DEF PassSnapshot, TypeOK, Using
    <3>4. CASE ~FenceCheck /\ Leave(t)
      BY <1>2, <3>4 DEF PassSnapshot
    <3>5. CASE obs' = [obs EXCEPT ![t] = seq] /\ UNCHANGED <<gen, wait, active, holder>>
      BY <1>0, <1>2, <2>1, <3>1, <3>2, <3>3, <3>5 DEF PassSnapshot, Holding, scopeVars
    <3> QED BY <1>2, <3>4, <3>5 DEF PassSnapshot
  <2>4. CASE Goto(t, "c_claim") /\ UNCHANGED claim
    BY <1>0, <1>2, <2>1, <2>4 DEF PassSnapshot, Holding, Using, scopeVars, TypeOK
  <2> QED BY <1>2, <2>2, <2>3, <2>4 DEF PassSnapshot
<1>3. CASE PassClaim(t)
  <2>1. policy # None
    BY <1>3 DEF PassClaim, TypeOK, Using
  <2>2. CASE Leave(t) /\ UNCHANGED policy
    BY <1>3, <2>2 DEF PassClaim
  <2>3. CASE policy.expired /\ policy' = None /\ Leave(t)
    BY <1>3, <2>3 DEF PassClaim, Holding, Using
  <2>4. CASE \E w \in Work : /\ claim' = [claim EXCEPT ![t] = w] /\ Goto(t, "c_dispatch")
                            /\ UNCHANGED <<gen, wait, obs, lockVars>>
    <3>1. PICK w \in Work : /\ claim' = [claim EXCEPT ![t] = w] /\ Goto(t, "c_dispatch")
                            /\ UNCHANGED <<gen, wait, obs, lockVars>>
      BY <2>4
    <3>2. claim'[t] \in Work
      BY <3>1 DEF TypeOK
    <3>3. pc[t] \in Using /\ "c_dispatch" \in Using
      BY <1>3 DEF PassClaim, Using
    <3> QED BY <1>0, <1>3, <2>1, <3>1, <3>2, <3>3 DEF PassClaim, Holding, lockVars, scopeVars
  <2> QED BY <1>3, <2>2, <2>3, <2>4 DEF PassClaim, PrepareReadyClaim
<1>4. CASE PassDispatch(t)
  <2>1. policy # None /\ claim[t] \in Work
    BY <1>4 DEF PassDispatch, TypeOK, Using
  <2> QED BY <1>0, <1>4, <2>1 DEF PassDispatch, Holding, Using, scopeVars
<1>5. CASE PassCommit(t)
  <2>1. policy # None /\ claim[t] \in Work
    BY <1>5 DEF PassCommit, TypeOK, Using
  <2>2. CASE Conflict(t) /\ Leave(t) /\ UNCHANGED scopeVars
    BY <1>5, <2>2 DEF PassCommit
  <2>3. CASE ~Conflict(t)
    <3>1. seq' \in Nat /\ work' \in [Work -> WorkState] /\ queued' = queued
      BY <1>0, <1>5, <2>1, <2>3 DEF PassCommit, WorkState
    <3> QED BY <1>0, <1>5, <2>1, <2>3, <3>1 DEF PassCommit, Holding, Using
  <2> QED BY <1>5, <2>2, <2>3 DEF PassCommit
<1>6. CASE PassEnsure(t)
  <2>1. policy # None /\ claim[t] \in Work
    BY <1>6 DEF PassEnsure, TypeOK, Using
  <2> QED BY <1>0, <1>6, <2>1 DEF PassEnsure, Holding, Using, scopeVars
<1>7. CASE PassQueue(t)
  <2>1. policy # None /\ claim[t] \in Work
    BY <1>7 DEF PassQueue, TypeOK, Using
  <2> QED BY <1>0, <1>7, <2>1 DEF PassQueue, Holding, Using, lockVars
<1> QED BY <1>1, <1>2, <1>3, <1>4, <1>5, <1>6, <1>7 DEF PassGoesOn

\* Every step is of one of these kinds.
LEMMA StepKinds ==
  ASSUME TypeOK, Next
  PROVE  \/ Expire \/ Others
         \/ \E t \in Task : \/ Ends(t) \/ Begins(t) \/ Locks(t) \/ Clears(t) \/ InstallSet(t)
                            \/ RevokeStart(t) \/ RevokeDrain(t) \/ RevokeReturn(t)
                            \/ GoesOn(t) /\ PassGoesOn(t)
<1> SUFFICES ASSUME NEW t \in Task, Install(t) \/ Revoke(t) \/ Reconcile(t) \/ Drop(t)
             PROVE  \/ Ends(t) \/ Begins(t) \/ Locks(t) \/ Clears(t) \/ InstallSet(t)
                    \/ RevokeStart(t) \/ RevokeDrain(t) \/ RevokeReturn(t) \/ (GoesOn(t) /\ PassGoesOn(t))
  BY DEF Next
<1>1. InstallStart(t) \/ PassStart(t) => Begins(t)
  BY DEF InstallStart, PassStart, Begins
<1>2. InstallOld(t) => Ends(t) \/ Clears(t)
  BY DEF InstallOld, Ends, Clears, Cancelled, Goto
<1>3. RefuseCancelled(t, InstallPc) \/ RefusePass(t) \/ PassObserved(t) \/ Drop(t) => Ends(t)
  BY DEF RefuseCancelled, RefusePass, PassObserved, Drop, Ends
<1>4. PassRevoked(t) => Ends(t)
  BY DEF PassRevoked, Ends, HostAwait, Holding
<1>5. PassGoesOn(t) => Ends(t) \/ (GoesOn(t) /\ PassGoesOn(t))
  BY PassKinds
<1> QED BY <1>1, <1>2, <1>3, <1>4, <1>5
     DEF Install, Revoke, Reconcile, Locks, PassGoesOn

-----------------------------------------------------------------------------
(* Every kind of step keeps the types and the holders of the locks. *)

LEMMA LeaveType ==
  ASSUME TypeOK, NEW t \in Task, Leave(t), UNCHANGED <<policyVars, scopeVars>>,
         policy' \in [gen : Gen, expired : BOOLEAN] \cup {None},
         policy' # None \/ policy' = policy \/ pc[t] \in Holding,
         drained' \in Gen \cup {0}
  PROVE  TypeOK'
<1> USE DEF TypeOK, Leave
<1>1. /\ pc' \in [Task -> {"idle", "r_drain"} \cup InstallPc \cup PassPc]
      /\ gen' \in [Task -> Gen \cup {0}] /\ wait' \in [Task -> SUBSET Gen]
      /\ obs' \in [Task -> Nat] /\ claim' \in [Task -> Work \cup {None}]
  OBVIOUS
<1>2. active' \in [Gen -> Task \cup {None}] /\ holder' \in Task \cup {None}
  OBVIOUS
<1>3. None \notin Task /\ t # None
  BY ReadyAssumption
<1>4. ASSUME NEW u \in Task
      PROVE  /\ pc'[u] \in Holding <=> holder' = u
             /\ \A g \in Gen : active'[g] = u <=> pc'[u] \in Guarding /\ gen'[u] = g
             /\ pc'[u] \in Using => policy' # None
             /\ pc'[u] \in Using \ {"c_patrol", "c_claim"} => claim'[u] \in Work
  <2>1. CASE u = t
    BY <1>3, <2>1 DEF Holding, Guarding, Using
  <2>2. CASE u # t
    <3>1. /\ pc'[u] = pc[u] /\ gen'[u] = gen[u] /\ claim'[u] = claim[u]
          /\ holder' = u <=> holder = u
      BY <1>3, <2>2
    <3>3. \A g \in Gen : active'[g] = u <=> active[g] = u
      BY <1>3, <2>2
    <3>2. pc[u] \in Using => policy' # None
      BY <2>2 DEF Holding
    <3> QED BY <3>1, <3>2, <3>3
  <2> QED BY <2>1, <2>2
<1> QED BY <1>1, <1>2, <1>4 DEF policyVars, scopeVars

LEMMA MoveType ==
  ASSUME TypeOK, NEW t \in Task, NEW l, Goto(t, l), UNCHANGED <<wait, policyVars, scopeVars, drained>>,
         l \in {"idle", "r_drain"} \cup InstallPc \cup PassPc,
         gen' \in [Task -> Gen \cup {0}], \A u \in Task \ {t} : gen'[u] = gen[u],
         obs' \in [Task -> Nat], claim' = claim,
         policy' \in [gen : Gen, expired : BOOLEAN] \cup {None},
         policy' = policy \/ pc[t] \in Holding, l \notin Using,
         active' \in [Gen -> Task \cup {None}], holder' \in Task \cup {None},
         l \in Holding <=> holder' = t,
         \A g \in Gen : active'[g] = t <=> l \in Guarding /\ gen'[t] = g,
         \A u \in Task \ {t} : /\ holder' = u <=> holder = u
                               /\ \A g \in Gen : active'[g] = u <=> active[g] = u
  PROVE  TypeOK'
<1> USE DEF TypeOK, Goto
<1>1. ASSUME NEW u \in Task
      PROVE  /\ pc'[u] \in Holding <=> holder' = u
             /\ \A g \in Gen : active'[g] = u <=> pc'[u] \in Guarding /\ gen'[u] = g
             /\ pc'[u] \in Using => policy' # None
             /\ pc'[u] \in Using \ {"c_patrol", "c_claim"} => claim'[u] \in Work
  <2>1. CASE u = t
    BY <2>1
  <2>2. CASE u # t
    BY <2>2 DEF Holding
  <2> QED BY <2>1, <2>2
<1>2. pc' \in [Task -> {"idle", "r_drain"} \cup InstallPc \cup PassPc]
  OBVIOUS
<1> QED BY <1>1, <1>2 DEF policyVars, scopeVars

LEMMA BeginsType ==
  ASSUME TypeOK, NEW t \in Task, Begins(t) PROVE TypeOK'
<1>1. PICK l \in {"i_active", "c_active"} : Goto(t, l)
  BY DEF Begins
<1>2. pc[t] \notin Holding \cup Guarding /\ l \notin Using \cup Holding \cup Guarding
  BY DEF Begins, Holding, Guarding, Using
<1>3. gen' \in [Task -> Gen \cup {0}] /\ \A u \in Task \ {t} : gen'[u] = gen[u]
  BY DEF Begins, TypeOK
<1> QED BY <1>1, <1>2, <1>3, MoveType DEF Begins, TypeOK, InstallPc, PassPc, lockVars

LEMMA LocksType ==
  ASSUME TypeOK, GenInv, NEW t \in Task, Locks(t) PROVE TypeOK'
<1>0. None \notin Task
  BY ReadyAssumption
<1>1. ASSUME NEW l \in {"i_active", "c_active"}, NEW m \in {"i_check", "c_check"}, TakeActive(t, l, m)
      PROVE  TypeOK'
  <2>1. gen[t] \in Gen
    BY <1>1 DEF TakeActive, GenInv, TypeOK, InstallPc, PassPc
  <2>2. pc[t] \notin Holding \cup Guarding /\ m \notin Using \cup Holding /\ m \in Guarding
    BY <1>1 DEF TakeActive, Holding, Guarding, Using
  <2>3. /\ active' \in [Gen -> Task \cup {None}]
        /\ \A g \in Gen : active'[g] = t <=> gen[t] = g
        /\ \A u \in Task \ {t}, g \in Gen : active'[g] = u <=> active[g] = u
    BY <1>0, <1>1, <2>1, <2>2 DEF TakeActive, TypeOK
  <2> QED BY <1>1, <2>2, <2>3, MoveType DEF TakeActive, TypeOK, InstallPc, PassPc
<1>2. ASSUME NEW l \in {"i_check", "c_check"}, NEW m \in {"i_state", "c_state"}, NotCancelled(t, l, m)
      PROVE  TypeOK'
  <2>1. /\ pc[t] \notin Holding /\ pc[t] \in Guarding
        /\ m \notin Using \cup Holding /\ m \in Guarding
    BY <1>2 DEF NotCancelled, Holding, Guarding, Using
  <2> QED BY <1>2, <2>1, MoveType DEF NotCancelled, TypeOK, InstallPc, PassPc, lockVars
<1>3. ASSUME NEW l \in {"i_state", "c_state"}, NEW m \in {"i_old", "c_installed"}, TakeState(t, l, m)
      PROVE  TypeOK'
  <2>1. /\ pc[t] \notin Holding /\ pc[t] \in Guarding
        /\ m \notin Using /\ m \in Holding /\ m \in Guarding
    BY <1>3 DEF TakeState, Holding, Guarding, Using
  <2> QED BY <1>0, <1>3, <2>1, MoveType DEF TakeState, TypeOK, InstallPc, PassPc
<1> QED BY <1>1, <1>2, <1>3 DEF Locks

LEMMA ClearsType ==
  ASSUME TypeOK, NEW t \in Task, Clears(t) PROVE TypeOK'
<1>1. /\ pc[t] \in Holding /\ pc[t] \in Guarding
      /\ "i_validate" \notin Using /\ "i_validate" \in Holding /\ "i_validate" \in Guarding
  BY DEF Clears, Holding, Guarding, Using
<1> QED BY <1>1, MoveType DEF Clears, TypeOK, InstallPc

LEMMA RevokeStartType ==
  ASSUME TypeOK, NEW t \in Task, RevokeStart(t) PROVE TypeOK'
<1>1. current' \in Gen /\ cancelled' \subseteq Gen /\ retired' \subseteq Gen
  <2>1. current \in Gen /\ cancelled \subseteq Gen /\ retired \subseteq Gen
    BY DEF TypeOK
  <2>2. current' \in Gen
    BY <2>1, ReadyAssumption DEF RevokeStart, Gen
  <2> QED BY <2>1, <2>2 DEF RevokeStart
<1>2. wait' \in [Task -> SUBSET Gen] /\ obs' \in [Task -> Nat]
  <2>1. current \in Nat
    BY ReadyAssumption DEF TypeOK, Gen
  <2> QED BY <1>1, <2>1 DEF RevokeStart, TypeOK
<1>3. pc' \in [Task -> {"idle", "r_drain"} \cup InstallPc \cup PassPc]
  BY DEF RevokeStart, TypeOK, Goto
<1>4. \A u \in Task : /\ pc'[u] \in Holding <=> pc[u] \in Holding
                      /\ pc'[u] \in Guarding <=> pc[u] \in Guarding
                      /\ pc'[u] \in Using => pc'[u] = pc[u]
  BY DEF RevokeStart, TypeOK, Goto, Using, Holding, Guarding
<1> QED BY <1>1, <1>2, <1>3, <1>4 DEF RevokeStart, TypeOK, lockVars, scopeVars

LEMMA GoesOnType ==
  ASSUME TypeOK, NEW t \in Task, GoesOn(t) PROVE TypeOK'
<1>1. PICK l \in Using : /\ pc' = [pc EXCEPT ![t] = l]
                         /\ l \notin {"c_patrol", "c_claim"} => claim'[t] \in Work
  BY DEF GoesOn
<1>2. /\ pc' \in [Task -> {"idle", "r_drain"} \cup InstallPc \cup PassPc]
      /\ obs' \in [Task -> Nat] /\ claim' \in [Task -> Work \cup {None}]
  BY <1>1 DEF GoesOn, TypeOK, PassPc
<1>3. ASSUME NEW u \in Task
      PROVE  /\ pc'[u] \in Holding <=> holder' = u
             /\ \A g \in Gen : active'[g] = u <=> pc'[u] \in Guarding /\ gen'[u] = g
             /\ pc'[u] \in Using => policy' # None
             /\ pc'[u] \in Using \ {"c_patrol", "c_claim"} => claim'[u] \in Work
  <2>1. CASE u = t
    <3>1. pc[t] \in Holding /\ pc'[t] \in Holding /\ pc[t] \in Guarding /\ pc'[t] \in Guarding
      BY <1>1 DEF GoesOn, TypeOK, Holding, Guarding
    <3>2. pc'[t] = l
      BY <1>1 DEF TypeOK
    <3> QED BY <1>1, <2>1, <3>1, <3>2 DEF GoesOn, TypeOK
  <2>2. CASE u # t
    <3>1. pc'[u] = pc[u] /\ claim'[u] = claim[u]
      BY <1>1, <2>2 DEF GoesOn, TypeOK
    <3> QED BY <3>1 DEF GoesOn, TypeOK
  <2> QED BY <2>1, <2>2
<1> QED BY <1>2, <1>3 DEF GoesOn, TypeOK, policyVars

LEMMA ExpireType ==
  ASSUME TypeOK, Expire PROVE TypeOK'
<1>1. policy' \in [gen : Gen, expired : BOOLEAN]
  <2>1. policy \in [gen : Gen, expired : BOOLEAN]
    BY DEF Expire, TypeOK
  <2> QED BY <2>1 DEF Expire
<1>2. policy' # None
  BY <1>1, ReadyAssumption
<1> QED BY <1>1, <1>2 DEF Expire, TypeOK, callVars, policyVars, scopeVars

LEMMA OthersType ==
  ASSUME TypeOK, Others PROVE TypeOK'
<1>1. PICK w \in Work, from \in SUBSET WorkState, to \in WorkState : Commit(w, from, to)
  <2>1. PICK w \in Work :
          \/ Commit(w, {"Ready"}, "DispatchPending") \/ Commit(w, {"DispatchPending"}, "Running")
          \/ Commit(w, {"DispatchPending", "Running"}, "Cancelling")
          \/ Commit(w, {"Running", "Cancelling"}, "Done") \/ Commit(w, {work[w]}, work[w])
    BY DEF Others
  <2>2. work[w] \in WorkState
    BY DEF TypeOK
  <2> QED BY <2>1, <2>2 DEF WorkState
<1>2. seq' \in Nat /\ work' \in [Work -> WorkState]
  BY <1>1 DEF Commit, TypeOK
<1> QED BY <1>1, <1>2 DEF Commit, TypeOK, callVars, policyVars, lockVars

LEMMA StepType ==
  ASSUME TypeOK, GenInv, [Next]_vars PROVE TypeOK'
<1>1. ASSUME NEW t \in Task, Ends(t) PROVE TypeOK'
  BY <1>1, LeaveType DEF Ends, TypeOK
<1>2. ASSUME NEW t \in Task, InstallSet(t) PROVE TypeOK'
  <2>1. gen[t] \in Gen /\ pc[t] \in Holding
    BY <1>2 DEF InstallSet, GenInv, TypeOK, InstallPc, Holding
  <2> QED BY <1>2, <2>1, LeaveType DEF InstallSet, TypeOK
<1>3. ASSUME NEW t \in Task, RevokeReturn(t) PROVE TypeOK'
  <2>1. obs[t] \in Nat /\ obs[t] < current /\ current \in 1..MaxGen /\ drained \in 0..MaxGen
    BY <1>3, ReadyAssumption DEF RevokeReturn, GenInv, TypeOK, Gen
  <2>2. drained' \in Gen \cup {0}
    BY <1>3, <2>1, ReadyAssumption DEF RevokeReturn, Gen
  <2> QED BY <1>3, <2>2, LeaveType DEF RevokeReturn, TypeOK
<1>4. ASSUME NEW t \in Task, RevokeDrain(t) PROVE TypeOK'
  <2>1. wait' \in [Task -> SUBSET Gen]
    BY <1>4 DEF RevokeDrain, TypeOK
  <2> QED BY <1>4, <2>1 DEF RevokeDrain, TypeOK, policyVars, lockVars, scopeVars
<1>5. CASE UNCHANGED vars
  BY <1>5 DEF TypeOK, vars, callVars, policyVars, lockVars, scopeVars
<1> QED BY <1>1, <1>2, <1>3, <1>4, <1>5, StepKinds, BeginsType, LocksType, ClearsType,
           RevokeStartType, GoesOnType, ExpireType, OthersType

-----------------------------------------------------------------------------
(* Every kind of step keeps the rest of the invariant. *)

LEMMA StepGen ==
  ASSUME TypeOK, GenInv, [Next]_vars PROVE GenInv'
<1> USE DEF GenInv
<1>0. /\ current \in 1..MaxGen /\ drained \in Int /\ gen \in [Task -> 0..MaxGen]
      /\ obs \in [Task -> Nat] /\ MaxGen \in Nat /\ wait \in [Task -> SUBSET Gen]
      /\ retired \subseteq Gen
      /\ pc \in [Task -> {"idle", "r_drain"} \cup InstallPc \cup PassPc]
  BY ReadyAssumption DEF TypeOK, Gen
<1>1. ASSUME NEW t \in Task, Leave(t), UNCHANGED policyVars,
             policy' # None => policy'.gen <= current, drained' < current
      PROVE  GenInv'
  BY <1>0, <1>1 DEF Leave, policyVars, InstallPc, PassPc, Using
<1>2. ASSUME NEW t \in Task, NEW l, Goto(t, l), UNCHANGED <<policyVars, policy, drained>>,
             gen' = gen \/ gen' = [gen EXCEPT ![t] = current],
             l \in InstallPc \cup PassPc, pc[t] \in {"idle"} \cup InstallPc \cup PassPc,
             pc[t] = "idle" => gen' = [gen EXCEPT ![t] = current],
             \A u \in Task \ {t} : obs'[u] = obs[u]
      PROVE  GenInv'
  <2>1. l # "r_drain"
    BY <1>2 DEF InstallPc, PassPc, Using
  <2> QED BY <1>0, <1>2, <2>1 DEF Goto, policyVars
<1>3. ASSUME NEW t \in Task, Ends(t) PROVE GenInv'
  BY <1>1, <1>3 DEF Ends
<1>4. ASSUME NEW t \in Task, InstallSet(t) PROVE GenInv'
  BY <1>1, <1>4 DEF InstallSet
<1>5. ASSUME NEW t \in Task, RevokeReturn(t) PROVE GenInv'
  BY <1>1, <1>5 DEF RevokeReturn
<1>6. ASSUME NEW t \in Task, Begins(t) PROVE GenInv'
  BY <1>2, <1>6 DEF Begins, InstallPc, PassPc, lockVars
<1>7. ASSUME NEW t \in Task, Locks(t) PROVE GenInv'
  BY <1>2, <1>7 DEF Locks, TakeActive, NotCancelled, TakeState, InstallPc, PassPc, lockVars
<1>8. ASSUME NEW t \in Task, Clears(t) PROVE GenInv'
  <2>1. "i_old" \in InstallPc /\ "i_validate" \in InstallPc
    BY DEF InstallPc
  <2> QED BY <1>0, <1>8, <2>1 DEF Clears, Goto, policyVars
<1>9. ASSUME NEW t \in Task, GoesOn(t) PROVE GenInv'
  <2>1. /\ Holding \subseteq InstallPc \cup PassPc /\ Using \subseteq PassPc
        /\ "r_drain" \notin Using /\ "idle" \notin Holding
    BY DEF Holding, PassPc, InstallPc, Using
  <2>2. PICK l \in Using : Goto(t, l)
    BY <1>9 DEF GoesOn, Goto
  <2>3. \A u \in Task \ {t} : obs'[u] = obs[u]
    BY <1>0, <1>9 DEF GoesOn
  <2> QED BY <1>2, <1>9, <2>1, <2>2, <2>3 DEF GoesOn
<1>10. ASSUME NEW t \in Task, RevokeDrain(t) PROVE GenInv'
  BY <1>10 DEF RevokeDrain, policyVars, lockVars
<1>11. ASSUME NEW t \in Task, RevokeStart(t) PROVE GenInv'
  <2>1. cancelled' = 1..(current' - 1) /\ drained' < current' /\ current' = current + 1
    BY <1>0, <1>11 DEF RevokeStart
  <2>2. policy' = policy /\ gen' = gen
    BY <1>11 DEF RevokeStart, lockVars
  <2>3. policy' # None => policy'.gen <= current'
    <3> SUFFICES ASSUME policy # None PROVE policy.gen <= current + 1
      BY <2>1, <2>2
    <3>1. policy.gen \in 1..MaxGen
      BY DEF TypeOK, Gen
    <3> QED BY <1>0, <3>1
  <2>4. ASSUME NEW u \in Task
        PROVE  /\ gen'[u] <= current'
               /\ pc'[u] \in InstallPc \cup PassPc => gen'[u] > 0
               /\ gen'[u] \in 1..(current' - 1) => gen'[u] \in retired'
               /\ pc'[u] = "r_drain" => obs'[u] < current'
    <3>1. pc'[u] \in InstallPc \cup PassPc => pc[u] \in InstallPc \cup PassPc
      BY <1>0, <1>11 DEF RevokeStart, Goto, InstallPc, PassPc, Using
    <3>2. gen[u] \in 1..current => gen[u] \in retired'
      BY <1>0, <1>11 DEF RevokeStart, Alive
    <3>3. pc'[u] = "r_drain" => obs'[u] < current'
      BY <1>0, <1>11, <2>1 DEF RevokeStart, Goto
    <3> QED BY <1>0, <2>1, <2>2, <3>1, <3>2, <3>3
  <2> QED BY <2>1, <2>3, <2>4
<1>12. CASE Expire
  <2>1. policy'.gen = policy.gen
    <3>1. policy \in [gen : Gen, expired : BOOLEAN]
      BY <1>12 DEF Expire, TypeOK
    <3> QED BY <1>12, <3>1 DEF Expire
  <2> QED BY <1>12, <2>1 DEF Expire, callVars, policyVars
<1>13. CASE Others
  BY <1>13 DEF Others, Commit, callVars, policyVars, lockVars
<1>14. CASE UNCHANGED vars
  BY <1>14 DEF vars, callVars, policyVars, lockVars, scopeVars
<1> QED BY <1>3, <1>4, <1>5, <1>6, <1>7, <1>8, <1>9, <1>10, <1>11, <1>12, <1>13, <1>14, StepKinds

LEMMA StepUse ==
  ASSUME TypeOK, GenInv, UseInv, BarrierInv, [Next]_vars PROVE UseInv'
<1>0. /\ pc \in [Task -> {"idle", "r_drain"} \cup InstallPc \cup PassPc]
      /\ gen \in [Task -> 0..MaxGen] /\ MaxGen \in Nat /\ current \in 1..MaxGen
      /\ drained \in 0..MaxGen /\ wait \in [Task -> SUBSET Gen]
      /\ \A t \in Task : pc[t] \in Holding <=> holder = t
      /\ \A t \in Task : pc[t] \in Using => policy # None
      /\ Using \cup {"i_validate"} \subseteq Holding
  BY ReadyAssumption DEF TypeOK, Gen, Holding
<1>e. Engaged = Using \cup {"i_validate"}
  BY DEF Engaged
<1> USE <1>e DEF UseInv
<1>1. ASSUME NEW t \in Task, NEW l, Goto(t, l), l \notin Using \cup {"i_validate"},
             UNCHANGED <<policy, drained>>, \A u \in Task \ {t} : gen'[u] = gen[u]
      PROVE  UseInv'
  BY <1>0, <1>1 DEF Goto
<1>2. ASSUME NEW t \in Task, Leave(t), policy' = policy \/ pc[t] \in Holding, UNCHANGED drained
      PROVE  UseInv'
  <2>1. "idle" \notin Using \cup {"i_validate"}
    BY DEF Using
  <2> QED BY <1>0, <1>2, <2>1 DEF Leave
<1>3. ASSUME NEW t \in Task, Ends(t) PROVE UseInv'
  BY <1>2, <1>3 DEF Ends
<1>4. ASSUME NEW t \in Task, InstallSet(t) PROVE UseInv'
  BY <1>2, <1>4 DEF InstallSet, Holding
<1>5. ASSUME NEW t \in Task, RevokeReturn(t) PROVE UseInv'
  <2>1. ASSUME NEW u \in Task, pc[u] \in Engaged PROVE gen[u] > drained'
    <3>1. ~(gen[u] <= obs[t])
      BY <1>5, <2>1 DEF BarrierInv, RevokeReturn
    <3>2. gen[u] > drained /\ gen[u] \in Nat /\ obs[t] \in Nat
      BY <1>0, <2>1 DEF TypeOK
    <3> QED BY <1>5, <3>1, <3>2 DEF RevokeReturn
  <2>2. "idle" \notin Using \cup {"i_validate"}
    BY DEF Using
  <2> QED BY <1>0, <1>5, <2>1, <2>2 DEF RevokeReturn, Leave
<1>6. ASSUME NEW t \in Task, Begins(t) PROVE UseInv'
  <2>1. PICK l \in {"i_active", "c_active"} : Goto(t, l)
    BY <1>6 DEF Begins
  <2> QED BY <1>0, <1>1, <1>6, <2>1 DEF Begins, Using, lockVars
<1>7. ASSUME NEW t \in Task, Locks(t) PROVE UseInv'
  BY <1>1, <1>7 DEF Locks, TakeActive, NotCancelled, TakeState, Using, lockVars
<1>8. ASSUME NEW t \in Task, Clears(t) PROVE UseInv'
  <2>1. pc[t] = "i_old" /\ pc[t] \in Holding /\ "i_validate" \notin Using
    BY <1>8 DEF Clears, Holding, Using
  <2>2. gen[t] > 0 /\ gen[t] <= current /\ gen[t] \notin cancelled
    BY <1>8, <2>1 DEF Clears, GenInv, InstallPc
  <2>3. gen[t] > drained
    BY <1>0, <2>2 DEF GenInv
  <2> QED BY <1>0, <1>8, <2>1, <2>3 DEF Clears, Goto
<1>9. ASSUME NEW t \in Task, GoesOn(t) PROVE UseInv'
  <2>1. PICK l \in Using : pc' = [pc EXCEPT ![t] = l]
    BY <1>9 DEF GoesOn
  <2>2. l # "i_validate"
    BY DEF Using
  <2>3. policy' = policy /\ gen' = gen /\ drained' = drained /\ pc[t] \in Holding /\ policy # None
    BY <1>9 DEF GoesOn
  <2>4. policy.gen = gen[t] /\ gen[t] > drained
    <3>1. CASE pc[t] \in Using
      BY <3>1
    <3>2. CASE gen[t] \notin cancelled /\ policy.gen \notin cancelled
      <4>1. gen[t] > 0 /\ gen[t] <= current
        BY <2>3 DEF GenInv, Holding, InstallPc, PassPc
      <4>2. policy.gen \in 1..MaxGen /\ policy.gen <= current
        BY <2>3 DEF TypeOK, GenInv, Gen
      <4>3. gen[t] = current /\ policy.gen = current
        BY <1>0, <3>2, <4>1, <4>2 DEF GenInv
      <4> QED BY <4>3 DEF GenInv
    <3> QED BY <1>9, <3>1, <3>2 DEF GoesOn
  <2> QED BY <1>0, <2>1, <2>2, <2>3, <2>4
<1>10. ASSUME NEW t \in Task, RevokeDrain(t) PROVE UseInv'
  BY <1>10 DEF RevokeDrain, lockVars
<1>11. ASSUME NEW t \in Task, RevokeStart(t) PROVE UseInv'
  BY <1>1, <1>11 DEF RevokeStart, Using, lockVars
<1>12. CASE Expire
  <2>1. policy'.gen = policy.gen /\ policy # None
    <3>1. policy \in [gen : Gen, expired : BOOLEAN]
      BY <1>12 DEF Expire, TypeOK
    <3> QED BY <1>12, <3>1 DEF Expire
  <2>2. \A t \in Task : pc[t] # "i_validate"
    BY <2>1
  <2> QED BY <1>12, <2>1, <2>2 DEF Expire, callVars
<1>13. CASE Others
  BY <1>13 DEF Others, Commit, callVars, lockVars
<1>14. CASE UNCHANGED vars
  BY <1>14 DEF vars, callVars, lockVars
<1> QED BY <1>3, <1>4, <1>5, <1>6, <1>7, <1>8, <1>9, <1>10, <1>11, <1>12, <1>13, <1>14, StepKinds

LEMMA StepBarrier ==
  ASSUME TypeOK, GenInv, BarrierInv, [Next]_vars PROVE BarrierInv'
<1>0. /\ pc \in [Task -> {"idle", "r_drain"} \cup InstallPc \cup PassPc]
      /\ gen \in [Task -> 0..MaxGen] /\ MaxGen \in Nat /\ current \in 1..MaxGen
      /\ obs \in [Task -> Nat] /\ wait \in [Task -> SUBSET Gen]
      /\ "r_drain" \notin Engaged /\ Engaged = Using \cup {"i_validate"}
  BY ReadyAssumption DEF TypeOK, Gen, Using, Engaged
<1> USE DEF BarrierInv
<1>1. ASSUME NEW t \in Task, NEW l, Goto(t, l), l \notin Engaged \cup {"r_drain"},
             UNCHANGED <<wait, obs>>, \A u \in Task \ {t} : gen'[u] = gen[u]
      PROVE  BarrierInv'
  BY <1>0, <1>1 DEF Goto
<1>2. ASSUME NEW t \in Task, Leave(t) PROVE BarrierInv'
  BY <1>0, <1>2 DEF Leave, Engaged, Using
<1>3. ASSUME NEW t \in Task, Ends(t) \/ InstallSet(t) \/ RevokeReturn(t) PROVE BarrierInv'
  BY <1>2, <1>3 DEF Ends, InstallSet, RevokeReturn
<1>4. ASSUME NEW t \in Task, Begins(t) PROVE BarrierInv'
  <2>1. PICK l \in {"i_active", "c_active"} : Goto(t, l)
    BY <1>4 DEF Begins
  <2> QED BY <1>0, <1>1, <1>4, <2>1 DEF Begins, Using, Engaged
<1>5. ASSUME NEW t \in Task, Locks(t) PROVE BarrierInv'
  BY <1>1, <1>5 DEF Locks, TakeActive, NotCancelled, TakeState, Using, Engaged
<1>6. ASSUME NEW t \in Task, Clears(t) PROVE BarrierInv'
  <2>1. /\ pc[t] = "i_old" /\ gen[t] \notin cancelled /\ pc' = [pc EXCEPT ![t] = "i_validate"]
        /\ UNCHANGED <<gen, wait, obs>>
    BY <1>6 DEF Clears, Goto
  <2>2. gen[t] > 0 /\ gen[t] <= current
    BY <2>1 DEF GenInv, InstallPc
  <2>3. \A r \in Task : pc[r] = "r_drain" => ~(gen[t] <= obs[r])
    BY <1>0, <2>1, <2>2 DEF GenInv
  <2> QED BY <1>0, <2>1, <2>3
<1>7. ASSUME NEW t \in Task, GoesOn(t) PROVE BarrierInv'
  <2>1. PICK l \in Using : pc' = [pc EXCEPT ![t] = l]
    BY <1>7 DEF GoesOn
  <2>2. /\ gen' = gen /\ wait' = wait /\ pc[t] \in Holding
        /\ pc[t] \in Using \/ gen[t] \notin cancelled
        /\ \A r \in Task \ {t} : obs'[r] = obs[r]
    BY <1>0, <1>7 DEF GoesOn
  <2>3. ASSUME NEW r \in Task, pc'[r] = "r_drain", gen[t] <= obs'[r] PROVE gen[t] \in wait[r]
    <3>1. r # t /\ pc[r] = "r_drain" /\ obs'[r] = obs[r]
      BY <1>0, <2>1, <2>2, <2>3
    <3>2. CASE pc[t] \in Using
      BY <1>0, <2>3, <3>1, <3>2
    <3>3. CASE gen[t] \notin cancelled
      <4>1. gen[t] > 0 /\ obs[r] < current
        BY <2>2, <3>1 DEF GenInv, Holding, InstallPc, PassPc
      <4> QED BY <1>0, <2>3, <3>1, <3>3, <4>1 DEF GenInv
    <3> QED BY <2>2, <3>2, <3>3
  <2>4. \A u \in Task \ {t} : pc'[u] = pc[u]
    BY <1>0, <2>1
  <2>5. pc'[t] # "r_drain"
    BY <1>0, <2>1
  <2> QED BY <2>2, <2>3, <2>4, <2>5
<1>8. ASSUME NEW t \in Task, RevokeDrain(t) PROVE BarrierInv'
  <2> DEFINE g == CHOOSE x \in wait[t] : \A y \in wait[t] : x <= y
  <2>1. wait' = [wait EXCEPT ![t] = wait[t] \ {g}] /\ active[g] = None
    BY <1>8 DEF RevokeDrain
  <2>2. ASSUME NEW u \in Task, pc[u] \in Engaged, gen[u] \in wait[t] PROVE gen[u] # g
    <3>1. gen[u] \in Gen /\ pc[u] \in Guarding
      BY <1>0, <2>2 DEF TypeOK, Guarding, Holding
    <3>2. active[gen[u]] = u
      BY <3>1 DEF TypeOK
    <3> QED BY <2>1, <3>2, ReadyAssumption
  <2> HIDE DEF g
  <2>3. UNCHANGED <<pc, gen, obs>>
    BY <1>8 DEF RevokeDrain
  <2> QED BY <1>0, <2>1, <2>2, <2>3
<1>9. ASSUME NEW t \in Task, RevokeStart(t) PROVE BarrierInv'
  <2>1. /\ pc' = [pc EXCEPT ![t] = "r_drain"] /\ gen' = gen
        /\ wait' = [wait EXCEPT ![t] = retired'] /\ obs' = [obs EXCEPT ![t] = current]
    BY <1>9 DEF RevokeStart, Goto
  <2>2. ASSUME NEW u \in Task, pc[u] \in Engaged, gen[u] <= current PROVE gen[u] \in retired'
    <3>1. gen[u] > 0
      BY <1>0, <2>2 DEF GenInv, PassPc, InstallPc
    <3> QED BY <1>0, <1>9, <2>2, <3>1 DEF RevokeStart, Alive, GenInv
  <2> QED BY <1>0, <2>1, <2>2
<1>10. CASE Expire
  BY <1>10 DEF Expire, callVars
<1>11. CASE Others
  BY <1>11 DEF Others, Commit, callVars
<1>12. CASE UNCHANGED vars
  BY <1>12 DEF vars, callVars
<1> QED BY <1>3, <1>4, <1>5, <1>6, <1>7, <1>8, <1>9, <1>10, <1>11, <1>12, StepKinds

\* What a step of the pass itself makes of what it has seen.
LEMMA PassClaimKept ==
  ASSUME TypeOK, ClaimInv, NEW t \in Task, GoesOn(t), PassGoesOn(t)
  PROVE  /\ seq' >= seq /\ obs'[t] <= seq'
         /\ pc'[t] \in {"c_dispatch", "c_commit"} /\ obs'[t] = seq'
              => Cardinality(Occupied') < Capacity /\ work'[claim'[t]] = "Ready"
<1>0. /\ pc \in [Task -> {"idle", "r_drain"} \cup InstallPc \cup PassPc]
      /\ seq \in Nat /\ obs \in [Task -> Nat] /\ claim \in [Task -> Work \cup {None}]
      /\ pc[t] # "r_drain" => obs[t] <= seq
  BY DEF TypeOK, ClaimInv
<1>1. pc[t] # "idle" /\ pc'[t] # "idle" /\ obs[t] <= seq
  <2>1. PICK l \in Using : pc' = [pc EXCEPT ![t] = l]
    BY DEF GoesOn
  <2> QED BY <1>0, <2>1 DEF GoesOn, Holding, Using
<1>2. ~Leave(t)
  BY <1>0, <1>1 DEF Leave
<1>3. CASE PassInstalled(t)
  BY <1>0, <1>1, <1>2, <1>3 DEF PassInstalled, Goto, scopeVars
<1>4. CASE PassSnapshot(t)
  BY <1>0, <1>1, <1>2, <1>4 DEF PassSnapshot, Goto, scopeVars
<1>5. CASE PassClaim(t)
  <2>1. PICK w \in PrepareReadyClaim(t) :
          /\ claim' = [claim EXCEPT ![t] = w] /\ Goto(t, "c_dispatch") /\ UNCHANGED <<obs, scopeVars>>
    BY <1>2, <1>5 DEF PassClaim
  <2>2. Cardinality(Occupied) < Capacity /\ work[w] = "Ready"
    BY <2>1 DEF PrepareReadyClaim
  <2>3. Occupied' = Occupied /\ claim'[t] = w
    BY <1>0, <2>1 DEF Occupied, scopeVars
  <2> QED BY <1>0, <1>1, <2>1, <2>2, <2>3 DEF scopeVars
<1>6. CASE PassDispatch(t)
  <2>1. UNCHANGED <<obs, claim, scopeVars>> /\ pc[t] = "c_dispatch"
    BY <1>2, <1>6 DEF PassDispatch
  <2>2. Occupied' = Occupied
    BY <2>1 DEF Occupied, scopeVars
  <2> QED BY <1>0, <1>1, <2>1, <2>2 DEF ClaimInv, scopeVars
<1>7. CASE PassCommit(t)
  BY <1>0, <1>1, <1>2, <1>7 DEF PassCommit, Goto, Conflict
<1>8. CASE PassEnsure(t)
  BY <1>0, <1>1, <1>2, <1>8 DEF PassEnsure, Goto, scopeVars
<1>9. CASE PassQueue(t)
  BY <1>0, <1>1, <1>9 DEF PassQueue, Goto
<1> QED BY <1>3, <1>4, <1>5, <1>6, <1>7, <1>8, <1>9 DEF PassGoesOn

LEMMA StepClaim ==
  ASSUME TypeOK, ClaimInv, [Next]_vars PROVE ClaimInv'
<1>0. /\ pc \in [Task -> {"idle", "r_drain"} \cup InstallPc \cup PassPc]
      /\ obs \in [Task -> Nat] /\ seq \in Nat /\ claim \in [Task -> Work \cup {None}]
      /\ \A t \in Task : pc[t] \in Holding <=> holder = t
      /\ {"c_dispatch", "c_commit"} \subseteq Holding
  BY DEF TypeOK, Holding, Using
<1> USE DEF ClaimInv
<1>1. UNCHANGED scopeVars => Occupied' = Occupied /\ work' = work /\ seq' = seq
  BY DEF scopeVars, Occupied
<1>2. ASSUME NEW t \in Task, NEW l, Goto(t, l), l \notin {"c_dispatch", "c_commit"},
             pc[t] # "r_drain" \/ l = "r_drain", UNCHANGED <<claim, scopeVars>>,
             obs' = obs \/ (l = "r_drain" /\ \A u \in Task \ {t} : obs'[u] = obs[u])
      PROVE  ClaimInv'
  BY <1>0, <1>1, <1>2 DEF Goto
<1>3. ASSUME NEW t \in Task, Leave(t), UNCHANGED scopeVars PROVE ClaimInv'
  BY <1>0, <1>1, <1>3 DEF Leave
<1>4. ASSUME NEW t \in Task, Ends(t) \/ InstallSet(t) \/ RevokeReturn(t) PROVE ClaimInv'
  BY <1>3, <1>4 DEF Ends, InstallSet, RevokeReturn
<1>5. ASSUME NEW t \in Task, Begins(t) PROVE ClaimInv'
  <2>1. PICK l \in {"i_active", "c_active"} : Goto(t, l)
    BY <1>5 DEF Begins
  <2> QED BY <1>2, <1>5, <2>1 DEF Begins
<1>6. ASSUME NEW t \in Task, Locks(t) PROVE ClaimInv'
  BY <1>2, <1>6 DEF Locks, TakeActive, NotCancelled, TakeState
<1>7. ASSUME NEW t \in Task, Clears(t) PROVE ClaimInv'
  BY <1>2, <1>7 DEF Clears
<1>8. ASSUME NEW t \in Task, GoesOn(t), PassGoesOn(t) PROVE ClaimInv'
  <2>1. PICK l \in Using : pc' = [pc EXCEPT ![t] = l]
    BY <1>8 DEF GoesOn
  <2>2. ASSUME NEW u \in Task \ {t}
        PROVE  /\ pc'[u] = pc[u] /\ obs'[u] = obs[u]
               /\ pc[u] \notin {"c_dispatch", "c_commit"}
    BY <1>0, <1>8, <2>1 DEF GoesOn
  <2>3. seq' \in Nat
    BY <1>8 DEF GoesOn
  <2>4. /\ seq' >= seq /\ obs'[t] <= seq'
        /\ pc'[t] \in {"c_dispatch", "c_commit"} /\ obs'[t] = seq'
             => Cardinality(Occupied') < Capacity /\ work'[claim'[t]] = "Ready"
    BY <1>8, PassClaimKept
  <2> QED BY <1>0, <2>2, <2>3, <2>4
<1>9. ASSUME NEW t \in Task, RevokeDrain(t) PROVE ClaimInv'
  BY <1>1, <1>9 DEF RevokeDrain
<1>10. ASSUME NEW t \in Task, RevokeStart(t) PROVE ClaimInv'
  BY <1>0, <1>2, <1>10 DEF RevokeStart
<1>11. CASE Expire
  BY <1>1, <1>11 DEF Expire, callVars
<1>12. CASE Others
  BY <1>0, <1>12 DEF Others, Commit, callVars
<1>13. CASE UNCHANGED vars
  BY <1>1, <1>13 DEF vars, callVars
<1> QED BY <1>4, <1>5, <1>6, <1>7, <1>8, <1>9, <1>10, <1>11, <1>12, <1>13, StepKinds

-----------------------------------------------------------------------------
(* The theorems. *)

LEMMA InitInv == ASSUME Init PROVE IInv
<1>0. /\ MaxGen \in Nat \ {0} /\ None \notin Task /\ None \notin Work
  BY ReadyAssumption
<1>1. TypeOK
  BY <1>0 DEF Init, TypeOK, Gen, WorkState, Using, Holding, Guarding
<1>2. GenInv /\ UseInv /\ BarrierInv /\ ClaimInv
  <2>1. "idle" \notin InstallPc \cup PassPc
    BY DEF InstallPc, PassPc, Using
  <2>2. "idle" \notin Using /\ "idle" \notin Engaged
    BY DEF Using, Engaged
  <2> QED BY <2>1, <2>2 DEF Init, GenInv, UseInv, BarrierInv, ClaimInv
<1> QED BY <1>1, <1>2 DEF IInv

\* The invariant holds always, whatever the calls and their interleaving.
THEOREM InvCorrect == Spec => []IInv
<1>1. Init => IInv
  BY InitInv
<1>2. IInv /\ [Next]_vars => IInv'
  BY StepType, StepGen, StepUse, StepBarrier, StepClaim DEF IInv
<1> QED BY <1>1, <1>2, PTL DEF Spec

\* The types hold, and a call is past a lock of the scheduler exactly while it holds it.
THEOREM TypeCorrect == Spec => []TypeOK
<1>1. IInv => TypeOK
  BY DEF IInv
<1> QED BY <1>1, InvCorrect, PTL

\* The barrier of revoke holds for any number of calls and generations: no pass under a
\* policy that a completed revoke retired still commits a Start or queues a child.
THEOREM NoLateCorrect == Spec => []NoLateAdmission
<1>1. IInv => NoLateAdmission
  <2>1. {"c_commit", "c_queue"} \subseteq Using /\ Using \subseteq Engaged
    BY DEF Using, Engaged
  <2> QED BY <2>1 DEF IInv, TypeOK, UseInv, NoLateAdmission
<1> QED BY <1>1, InvCorrect, PTL

\* No call left over from a retired generation takes an installed policy away.
THEOREM PolicyCorrect == Spec => PolicyKept
<1>1. ASSUME IInv, [Next]_vars, policy # None, policy.gen \notin cancelled, ~policy.expired
      PROVE  policy' # None /\ policy'.gen = policy.gen
  <2>1. ASSUME NEW t \in Task,
               \/ Ends(t) \/ Begins(t) \/ Locks(t) \/ Clears(t) \/ RevokeStart(t)
               \/ RevokeDrain(t) \/ RevokeReturn(t) \/ GoesOn(t)
        PROVE  policy' = policy
    BY <1>1, <2>1 DEF Ends, Begins, Locks, TakeActive, NotCancelled, TakeState, Clears,
                      RevokeStart, RevokeDrain, RevokeReturn, GoesOn, lockVars
  <2>2. ASSUME NEW t \in Task, InstallSet(t) PROVE FALSE
    BY <1>1, <2>2 DEF InstallSet, IInv, UseInv
  <2>3. CASE Expire
    <3>1. policy \in [gen : Gen, expired : BOOLEAN]
      BY <1>1 DEF IInv, TypeOK
    <3>2. policy' \in [gen : Gen, expired : BOOLEAN] /\ policy'.gen = policy.gen
      BY <2>3, <3>1 DEF Expire
    <3> QED BY <3>2, ReadyAssumption
  <2>4. CASE Others
    BY <1>1, <2>4 DEF Others, Commit, lockVars
  <2>5. CASE UNCHANGED vars
    BY <1>1, <2>5 DEF vars, lockVars
  <2> QED BY <1>1, <2>1, <2>2, <2>3, <2>4, <2>5, StepKinds DEF IInv
<1>2. IInv /\ [Next]_vars
        => [policy # None /\ policy.gen \notin cancelled /\ ~policy.expired
              => policy' # None /\ policy'.gen = policy.gen]_vars
  BY <1>1
<1> QED BY <1>2, InvCorrect, PTL DEF Spec, PolicyKept

\* A pass never starts work beyond the capacity, nor a work that is no longer Ready,
\* whoever commits between its selection and its Start.
THEOREM CapacityCorrect == Spec => CapacityKept
<1>1. ASSUME IInv, Next, NEW t \in Task, pc[t] = "c_commit", pc'[t] = "c_ensure"
      PROVE  Cardinality(Occupied) < Capacity /\ work[claim[t]] = "Ready"
  <2>0. /\ pc \in [Task -> {"idle", "r_drain"} \cup InstallPc \cup PassPc] /\ TypeOK
        /\ \A u \in Task : pc[u] \in Holding <=> holder = u
        /\ "c_commit" \in Holding
    BY <1>1 DEF IInv, TypeOK, Holding, Using
  <2>1. ASSUME NEW u \in Task,
               \/ Ends(u) \/ Begins(u) \/ Locks(u) \/ Clears(u) \/ InstallSet(u)
               \/ RevokeStart(u) \/ RevokeDrain(u) \/ RevokeReturn(u)
        PROVE  FALSE
    BY <1>1, <2>0, <2>1
       DEF Ends, Begins, Locks, TakeActive, NotCancelled, TakeState, Clears, InstallSet,
           RevokeStart, RevokeDrain, RevokeReturn, Leave, Goto
  <2>2. ASSUME NEW u \in Task, GoesOn(u), PassGoesOn(u) PROVE u = t /\ PassCommit(t)
    <3>1. u = t
      BY <1>1, <2>0, <2>2 DEF GoesOn
    <3> QED BY <1>1, <2>2, <3>1
            DEF PassGoesOn, PassInstalled, PassSnapshot, PassClaim, PassDispatch, PassEnsure,
                PassQueue
  <2>3. CASE PassCommit(t)
    <3>1. obs[t] = seq
      BY <1>1, <2>0, <2>3 DEF PassCommit, Conflict, Leave
    <3> QED BY <1>1, <3>1 DEF IInv, ClaimInv
  <2>4. ~Expire /\ ~Others
    BY <1>1 DEF Expire, Others, Commit, callVars
  <2> QED BY <1>1, <2>0, <2>1, <2>2, <2>3, <2>4, StepKinds
<1>2. IInv /\ [Next]_vars
        => [\A t \in Task : pc[t] = "c_commit" /\ pc'[t] = "c_ensure"
              => Cardinality(Occupied) < Capacity /\ work[claim[t]] = "Ready"]_vars
  BY <1>1
<1> QED BY <1>2, InvCorrect, PTL DEF Spec, CapacityKept

-----------------------------------------------------------------------------
(* The scheduler implements ReadyMandate. *)

\* What is served is the claim of the call that holds the state lock.
LEMMA HolderServing ==
  ASSUME TypeOK, NEW t \in Task, pc[t] \in Holding
  PROVE  /\ pc[t] \in {"c_ensure", "c_queue"} => Serving = claim[t] /\ claim[t] \in Work /\ claim[t] # None
         /\ pc[t] \notin {"c_ensure", "c_queue"} => Serving = None
<1>1. holder = t /\ t # None
  BY ReadyAssumption DEF TypeOK
<1>2. pc[t] \in {"c_ensure", "c_queue"} => claim[t] \in Work
  BY DEF TypeOK, Using
<1> QED BY <1>1, <1>2, ReadyAssumption DEF Serving

\* A call that does not hold the state lock does not touch it.
LEMMA OtherServing ==
  ASSUME TypeOK, NEW t \in Task, pc[t] \notin Holding, holder' = holder,
         \A u \in Task \ {t} : pc'[u] = pc[u] /\ claim'[u] = claim[u]
  PROVE  Serving' = Serving
<1>1. holder # t /\ holder \in Task \cup {None}
  BY DEF TypeOK
<1> QED BY <1>1 DEF Serving

\* A call that ends releases the lock if it has it.
LEMMA LeaveServing ==
  ASSUME TypeOK, NEW t \in Task, Leave(t)
  PROVE  IF pc[t] \in Holding THEN Serving' = None ELSE Serving' = Serving
<1>1. holder = t <=> pc[t] \in Holding
  BY DEF TypeOK
<1>2. CASE pc[t] \in Holding
  BY <1>1, <1>2, ReadyAssumption DEF Leave, Serving
<1>3. CASE pc[t] \notin Holding
  <2>1. holder' = holder
    BY <1>1, <1>3 DEF Leave
  <2>2. \A u \in Task \ {t} : pc'[u] = pc[u] /\ claim'[u] = claim[u]
    BY DEF Leave, TypeOK
  <2> QED BY <1>3, <2>1, <2>2, OtherServing
<1> QED BY <1>2, <1>3

mandateVars == <<policy, current - 1, drained, work, queued, Serving>>

\* A pass that goes on serves under a mandate.
LEMMA PassRefines ==
  ASSUME IInv, NEW t \in Task, GoesOn(t), PassGoesOn(t)
  PROVE  Mandate!Next \/ UNCHANGED mandateVars
<1> DEFINE Serves == {"c_ensure", "c_queue"}
<1>0. /\ TypeOK /\ pc \in [Task -> {"idle", "r_drain"} \cup InstallPc \cup PassPc]
      /\ claim \in [Task -> Work \cup {None}] /\ None \notin Work
      /\ pc[t] \in Holding /\ holder = t /\ t # None
      /\ UNCHANGED <<policy, current, drained, holder>>
  BY ReadyAssumption DEF IInv, TypeOK, GoesOn, policyVars
<1>1. PICK l \in Using : pc' = [pc EXCEPT ![t] = l]
  BY DEF GoesOn
<1>2. pc'[t] = l /\ ~Leave(t)
  <2>1. "idle" \notin Using
    BY DEF Using
  <2> QED BY <1>0, <1>1, <2>1 DEF Leave
<1>3. Serving' = IF l \in Serves THEN claim'[t] ELSE None
  BY <1>0, <1>2 DEF Serving
<1>4. Serving = IF pc[t] \in Serves THEN claim[t] ELSE None
  BY <1>0 DEF Serving
<1>5. pc[t] \in Using => Mandate!Mandated
  <2>1. Using \subseteq Engaged
    BY DEF Engaged
  <2> QED BY <2>1 DEF IInv, UseInv, TypeOK, Mandate!Mandated
<1>n. "c_patrol" \notin Serves /\ "c_claim" \notin Serves /\ "c_dispatch" \notin Serves
      /\ "c_commit" \notin Serves /\ "c_observed" \notin Serves /\ "c_installed" \notin Serves
  OBVIOUS
<1> HIDE DEF Serves
<1>6. CASE PassInstalled(t)
  <2>1. pc[t] = "c_installed" /\ l = "c_patrol" /\ UNCHANGED scopeVars
    BY <1>0, <1>2, <1>6 DEF PassInstalled, Goto
  <2> QED BY <1>0, <1>3, <1>4, <1>n, <2>1 DEF mandateVars, scopeVars
<1>7. CASE PassSnapshot(t)
  <2>1. pc[t] = "c_patrol" /\ UNCHANGED scopeVars
    BY <1>7 DEF PassSnapshot
  <2>2. CASE l = "c_claim"
    BY <1>0, <1>3, <1>4, <1>n, <2>1, <2>2 DEF mandateVars, scopeVars
  <2>3. CASE \E w \in Work : /\ work[w] = "DispatchPending"
                             /\ claim' = [claim EXCEPT ![t] = w] /\ Goto(t, "c_ensure")
    <3>1. PICK w \in Work : /\ work[w] = "DispatchPending"
                            /\ claim' = [claim EXCEPT ![t] = w] /\ Goto(t, "c_ensure")
      BY <2>3
    <3>2. Serving = None /\ Serving' = w
      BY <1>0, <1>2, <1>3, <1>4, <1>n, <2>1, <3>1 DEF Goto, Serves
    <3>3. Mandate!Serve(w)
      BY <1>0, <1>5, <2>1, <3>1, <3>2 DEF Mandate!Serve, scopeVars, Using
    <3> QED BY <3>3 DEF Mandate!Next
  <2> QED BY <1>0, <1>2, <1>7, <2>2, <2>3 DEF PassSnapshot, Goto
<1>8. CASE PassClaim(t)
  <2>1. pc[t] = "c_claim" /\ l = "c_dispatch" /\ UNCHANGED scopeVars
    BY <1>0, <1>2, <1>8 DEF PassClaim, Goto
  <2> QED BY <1>0, <1>3, <1>4, <1>n, <2>1 DEF mandateVars, scopeVars
<1>9. CASE PassDispatch(t)
  <2>1. pc[t] = "c_dispatch" /\ l = "c_commit" /\ UNCHANGED scopeVars
    BY <1>0, <1>2, <1>9 DEF PassDispatch, Goto
  <2> QED BY <1>0, <1>3, <1>4, <1>n, <2>1 DEF mandateVars, scopeVars
<1>10. CASE PassCommit(t)
  <2>1. /\ pc[t] = "c_commit" /\ ~Conflict(t) /\ Goto(t, "c_ensure")
        /\ work' = [work EXCEPT ![claim[t]] = "DispatchPending"] /\ UNCHANGED <<queued, claim>>
    BY <1>2, <1>10 DEF PassCommit
  <2>2. claim[t] \in Work /\ pc[t] \in Using
    BY <1>0, <2>1 DEF TypeOK, Using
  <2>3. Cardinality(Occupied) < Capacity /\ work[claim[t]] = "Ready"
    BY <2>1 DEF IInv, ClaimInv, Conflict
  <2>4. Mandate!Occupied = Occupied
    BY DEF Mandate!Occupied, Occupied
  <2>5. Serving = None /\ Serving' = claim[t]
    BY <1>0, <1>2, <1>3, <1>4, <1>n, <2>1 DEF Goto, Serves
  <2>6. Mandate!Start(claim[t])
    <3>0. \A S : Mandate!Cardinality(S) = Cardinality(S)
      BY DEF Mandate!Cardinality, Cardinality
    <3>1. Mandate!Mandated /\ Mandate!Cardinality(Mandate!Occupied) < Capacity
      BY <1>5, <2>2, <2>3, <2>4, <3>0
    <3>2. work' = [work EXCEPT ![claim[t]] = "DispatchPending"] /\ UNCHANGED <<policy, current - 1, drained, queued>>
      BY <1>0, <2>1
    <3> QED BY <2>3, <2>5, <3>1, <3>2 DEF Mandate!Start
  <2> QED BY <2>2, <2>6 DEF Mandate!Next
<1>11. CASE PassEnsure(t)
  <2>1. pc[t] = "c_ensure" /\ l = "c_queue" /\ UNCHANGED scopeVars /\ claim' = claim
    BY <1>0, <1>2, <1>11 DEF PassEnsure, Goto
  <2> QED BY <1>0, <1>3, <1>4, <2>1 DEF mandateVars, scopeVars, Serves
<1>12. CASE PassQueue(t)
  <2>1. pc[t] = "c_queue" /\ l = "c_observed" /\ queued' = queued \cup {claim[t]} /\ work' = work
    BY <1>0, <1>2, <1>12 DEF PassQueue, Goto
  <2>2. Serving = claim[t] /\ claim[t] \in Work /\ Serving' = None
    BY <1>0, <1>3, <1>4, <1>n, <2>1 DEF Serves, TypeOK, Using
  <2>3. Mandate!Queue
    BY <1>0, <1>5, <2>1, <2>2 DEF Mandate!Queue, Using
  <2> QED BY <2>3 DEF Mandate!Next
<1> QED BY <1>6, <1>7, <1>8, <1>9, <1>10, <1>11, <1>12 DEF PassGoesOn

\* Every step is one of the abstract specification, or changes nothing it speaks of.
LEMMA StepRefines ==
  ASSUME IInv, [Next]_vars
  PROVE  Mandate!Next \/ UNCHANGED mandateVars
<1>0. /\ TypeOK /\ MaxGen \in Nat /\ current \in 1..MaxGen /\ drained \in 0..MaxGen
      /\ pc \in [Task -> {"idle", "r_drain"} \cup InstallPc \cup PassPc]
      /\ \A t \in Task : pc[t] \in Holding <=> holder = t
      /\ None \notin Task \cup Work
  BY ReadyAssumption DEF IInv, TypeOK, Gen
<1>1. ASSUME NEW t \in Task, Ends(t) PROVE Mandate!Next \/ UNCHANGED mandateVars
  <2>0. UNCHANGED <<current, drained, work, queued>> /\ Leave(t)
    BY <1>1 DEF Ends, policyVars, scopeVars
  <2>1. CASE policy' = policy /\ pc[t] \notin Holding
    BY <1>0, <2>0, <2>1, LeaveServing DEF mandateVars
  <2>2. CASE policy' = policy /\ pc[t] \in Holding
    <3>1. Mandate!Abandon
      BY <1>0, <2>0, <2>2, LeaveServing DEF Mandate!Abandon
    <3> QED BY <3>1 DEF Mandate!Next
  <2>3. CASE policy # None /\ policy' = None /\ pc[t] \in Holding
    <3>1. policy.gen <= current - 1 \/ policy.expired
      BY <1>0, <1>1, <2>3 DEF Ends, IInv, GenInv
    <3>2. Mandate!Withdraw
      BY <1>0, <2>0, <2>3, <3>1, LeaveServing DEF Mandate!Withdraw
    <3> QED BY <3>2 DEF Mandate!Next
  <2> QED BY <1>1, <2>1, <2>2, <2>3 DEF Ends
<1>2. ASSUME NEW t \in Task, Begins(t) PROVE UNCHANGED mandateVars
  <2>1. pc[t] \notin Holding
    BY <1>2 DEF Begins, Holding, Using
  <2>2. Serving' = Serving
    BY <1>0, <1>2, <2>1, OtherServing DEF Begins, Goto, lockVars
  <2> QED BY <1>2, <2>2 DEF Begins, policyVars, lockVars, scopeVars, mandateVars
<1>3. ASSUME NEW t \in Task, Locks(t) PROVE UNCHANGED mandateVars
  <2>0. UNCHANGED <<policy, current, drained, work, queued>>
    BY <1>3 DEF Locks, TakeActive, NotCancelled, TakeState, policyVars, lockVars, scopeVars
  <2>1. CASE holder' = holder
    <3>1. pc[t] \notin Holding
      BY <1>0, <1>3, <2>1 DEF Locks, TakeActive, NotCancelled, TakeState, Holding, Using
    <3>2. \A u \in Task \ {t} : pc'[u] = pc[u] /\ claim'[u] = claim[u]
      BY <1>0, <1>3 DEF Locks, TakeActive, NotCancelled, TakeState, Goto
    <3>3. Serving' = Serving
      BY <1>0, <2>1, <3>1, <3>2, OtherServing
    <3> QED BY <2>0, <3>3 DEF mandateVars
  <2>2. CASE holder = None /\ holder' = t /\ (Goto(t, "i_old") \/ Goto(t, "c_installed"))
    <3>1. Serving = None /\ Serving' = None
      BY <1>0, <2>2 DEF Serving, Goto
    <3> QED BY <2>0, <3>1 DEF mandateVars
  <2> QED BY <1>3, <2>1, <2>2 DEF Locks, TakeActive, NotCancelled, TakeState, lockVars
<1>4. ASSUME NEW t \in Task, Clears(t) PROVE Mandate!Next \/ UNCHANGED mandateVars
  <2>0. /\ pc[t] = "i_old" /\ pc' = [pc EXCEPT ![t] = "i_validate"] /\ policy' = None
        /\ UNCHANGED <<current, drained, work, queued, holder, claim>>
        /\ policy # None => policy.gen \in cancelled
    BY <1>4 DEF Clears, Goto, policyVars, scopeVars
  <2>1. holder = t
    BY <1>0, <2>0 DEF Holding
  <2>2. Serving = None /\ Serving' = None
    BY <1>0, <2>0, <2>1 DEF Serving
  <2>3. CASE policy = None
    BY <2>0, <2>2, <2>3 DEF mandateVars
  <2>4. CASE policy # None
    <3>1. policy.gen <= current - 1
      BY <1>0, <2>0, <2>4 DEF IInv, GenInv
    <3>2. Mandate!Withdraw
      BY <2>0, <2>2, <2>4, <3>1 DEF Mandate!Withdraw
    <3> QED BY <3>2 DEF Mandate!Next
  <2> QED BY <2>3, <2>4
<1>5. ASSUME NEW t \in Task, InstallSet(t) PROVE Mandate!Next
  <2>0. /\ pc[t] = "i_validate" /\ Leave(t) /\ policy' = [gen |-> gen[t], expired |-> FALSE]
        /\ UNCHANGED <<current, drained, work, queued>>
    BY <1>5 DEF InstallSet, policyVars, scopeVars
  <2>1. policy = None /\ gen[t] > drained /\ gen[t] <= current /\ gen[t] \in Nat
    BY <1>0, <2>0 DEF IInv, UseInv, Engaged, GenInv, TypeOK, Gen
  <2>2. pc[t] \in Holding /\ pc[t] \notin {"c_ensure", "c_queue"}
    BY <2>0 DEF Holding
  <2>3. Serving = None /\ Serving' = None
    BY <1>0, <2>0, <2>2, HolderServing, LeaveServing
  <2>4. Mandate!Grant(gen[t])
    BY <1>0, <2>0, <2>1, <2>3 DEF Mandate!Grant
  <2>5. gen[t] \in 1..((current - 1) + 1)
    BY <1>0, <2>1
  <2> QED BY <2>4, <2>5 DEF Mandate!Next
<1>6. ASSUME NEW t \in Task, RevokeStart(t) PROVE Mandate!Next
  <2>1. pc[t] \notin Holding /\ holder' = holder
    BY <1>6 DEF RevokeStart, Holding, Using, lockVars
  <2>2. \A u \in Task \ {t} : pc'[u] = pc[u] /\ claim'[u] = claim[u]
    BY <1>0, <1>6 DEF RevokeStart, Goto
  <2>3. Serving' = Serving
    BY <1>0, <2>1, <2>2, OtherServing
  <2>4. current' - 1 = (current - 1) + 1
    BY <1>0, <1>6 DEF RevokeStart
  <2>5. Mandate!Revoke
    BY <1>6, <2>3, <2>4 DEF RevokeStart, Mandate!Revoke, lockVars, scopeVars
  <2> QED BY <2>5 DEF Mandate!Next
<1>7. ASSUME NEW t \in Task, RevokeDrain(t) PROVE UNCHANGED mandateVars
  BY <1>7 DEF RevokeDrain, mandateVars, Serving, policyVars, lockVars, scopeVars
<1>8. ASSUME NEW t \in Task, RevokeReturn(t) PROVE Mandate!Next \/ UNCHANGED mandateVars
  <2>0. /\ pc[t] = "r_drain" /\ wait[t] = {} /\ Leave(t) /\ UNCHANGED <<policy, current, work, queued>>
        /\ drained' = IF obs[t] > drained THEN obs[t] ELSE drained
    BY <1>8 DEF RevokeReturn, policyVars, scopeVars
  <2>1. pc[t] \notin Holding
    BY <2>0 DEF Holding, Using
  <2>2. Serving' = Serving
    BY <1>0, <2>0, <2>1, LeaveServing
  <2>3. CASE ~(obs[t] > drained)
    BY <2>0, <2>2, <2>3 DEF mandateVars
  <2>4. CASE obs[t] > drained
    <3>1. obs[t] \in Nat /\ obs[t] <= current - 1
      BY <1>0, <2>0 DEF IInv, GenInv, TypeOK
    <3>2. Serving # None => policy.gen > obs[t]
      <4> SUFFICES ASSUME Serving # None PROVE policy.gen > obs[t]
        OBVIOUS
      <4>1. holder \in Task /\ pc[holder] \in {"c_ensure", "c_queue"}
        BY <1>0 DEF Serving, TypeOK
      <4>2. pc[holder] \in Using /\ pc[holder] \in Engaged
        BY <4>1 DEF Using, Engaged
      <4>3. policy.gen = gen[holder] /\ ~(gen[holder] <= obs[t])
        BY <2>0, <4>1, <4>2 DEF IInv, UseInv, BarrierInv
      <4>4. gen[holder] \in 0..MaxGen
        BY <1>0, <4>1, ReadyAssumption DEF TypeOK, Gen
      <4> QED BY <1>0, <3>1, <4>3, <4>4
    <3>3. Mandate!Settle(obs[t])
      BY <2>0, <2>2, <2>4, <3>1, <3>2 DEF Mandate!Settle
    <3>4. obs[t] \in 1..((current - 1) + 1)
      BY <1>0, <2>4, <3>1
    <3> QED BY <3>3, <3>4 DEF Mandate!Next
  <2> QED BY <2>3, <2>4
<1>9. ASSUME NEW t \in Task, GoesOn(t), PassGoesOn(t) PROVE Mandate!Next \/ UNCHANGED mandateVars
  BY <1>9, PassRefines
<1>10. CASE Expire
  <2>1. policy # None /\ policy' = [policy EXCEPT !.expired = TRUE]
        /\ UNCHANGED <<current, drained, work, queued, Serving>>
    BY <1>10 DEF Expire, callVars, policyVars, scopeVars, Serving
  <2>2. Mandate!Expire
    BY <2>1 DEF Mandate!Expire
  <2> QED BY <2>2 DEF Mandate!Next
<1>11. CASE Others
  <2>0. UNCHANGED <<policy, current, drained, queued, Serving>>
    BY <1>11 DEF Others, Commit, callVars, policyVars, lockVars, Serving
  <2>1. PICK w \in Work :
          \/ Commit(w, {"Ready"}, "DispatchPending")
          \/ w \in queued /\ Commit(w, {"DispatchPending"}, "Running")
          \/ Commit(w, {"DispatchPending", "Running"}, "Cancelling")
          \/ Commit(w, {"Running", "Cancelling"}, "Done")
          \/ Commit(w, {work[w]}, work[w])
    BY <1>11 DEF Others
  <2>2. CASE Commit(w, {work[w]}, work[w])
    <3>1. work' = work
      BY <1>0, <2>2 DEF Commit, TypeOK
    <3> QED BY <2>0, <3>1 DEF mandateVars
  <2>3. CASE ~Commit(w, {work[w]}, work[w])
    <3>1. Mandate!Elsewhere(w)
      BY <2>0, <2>1, <2>3 DEF Commit, Mandate!Elsewhere
    <3> QED BY <3>1 DEF Mandate!Next
  <2> QED BY <2>2, <2>3
<1>12. CASE UNCHANGED vars
  BY <1>12 DEF vars, callVars, policyVars, lockVars, scopeVars, mandateVars, Serving
<1> QED BY <1>0, <1>1, <1>2, <1>3, <1>4, <1>5, <1>6, <1>7, <1>8, <1>9, <1>10, <1>11, <1>12, StepKinds

\* Refinement: every behaviour of the scheduler, whatever the calls, their interleaving
\* and the other clients of the scope, is one of ReadyMandate.
THEOREM MandateCorrect == Spec => ImplementsReadyMandate
<1>1. Init => Mandate!Init
  BY ReadyAssumption DEF Init, Mandate!Init, Serving
<1>2. IInv /\ [Next]_vars => [Mandate!Next]_(Mandate!vars)
  BY StepRefines DEF mandateVars, Mandate!vars
<1> QED BY <1>1, <1>2, InvCorrect, PTL DEF Spec, ImplementsReadyMandate, Mandate!Spec
=============================================================================
