-------------------------- MODULE LeaseLockProofs --------------------------
(***************************************************************************)
(* Theorems about LeaseLock, for any tasks, processes and number of        *)
(* repeated commands.                                                      *)
(*                                                                         *)
(* The invariant says what a token is worth: a task the server told "OK",  *)
(* or will tell so, either is the value of the key or has seen its TTL run *)
(* out.  Mutual exclusion follows because the key has one value, and the   *)
(* refinement of Lease because a step that makes a task a holder finds the *)
(* key, or the history, on its side.                                       *)
(***************************************************************************)
EXTENDS LeaseLock, TLAPS

TokenInv ==
  /\ \A t \in Tasks : stage[t] = "granted" => shared = t \/ t \in overran
  /\ \A t \in Inside : shared = t \/ t \in overran

LeaseInv == TypeOK /\ TokenInv

\* Nobody holds a token before the first acquireLock.
LEMMA InitLeaseInv == Init => LeaseInv
BY TasksAssumption, ResendsAssumption
DEF Init, LeaseInv, TypeOK, TokenInv, Stages, Inside, Holding

\* One step keeps the types.
LEMMA NextTypeOK == TypeOK /\ [Next]_vars => TypeOK'
<1> SUFFICES ASSUME TypeOK, [Next]_vars PROVE TypeOK'
  OBVIOUS
<1> USE TasksAssumption, WorkersAssumption, ResendsAssumption DEF TypeOK, Stages, Goto, histVars
<1>1. ASSUME NEW t \in Tasks, Ask(t) PROVE TypeOK'
  BY <1>1 DEF Ask
<1>2. ASSUME NEW t \in Tasks, ServerSets(t) PROVE TypeOK'
  BY <1>2 DEF ServerSets
<1>3. ASSUME NEW t \in Tasks, AnswerOk(t) \/ AnswerNull(t) PROVE TypeOK'
  BY <1>3 DEF AnswerOk, AnswerNull
<1>4. ASSUME NEW t \in Tasks, Resend(t) PROVE TypeOK'
  BY <1>4 DEF Resend
<1>5. ASSUME NEW t \in Tasks, FallOpen(t) PROVE TypeOK'
  <2> DEFINE v == WorkerOf[t]
  <2>1. v \in Workers /\ timers[v] \in Seq(Tasks) /\ Append(timers[v], t) \in Seq(Tasks)
    OBVIOUS
  <2>2. timers' \in [Workers -> Seq(Tasks)]
    <3>1. CASE timers' = [timers EXCEPT ![v] = Append(@, t)]
      <4> HIDE DEF v
      <4> QED
        BY <2>1, <3>1
    <3> QED
      BY <1>5, <3>1 DEF FallOpen, MemoryLock
  <2>3. local' = [local EXCEPT ![v] = t] \/ local' = local
    BY <1>5 DEF FallOpen, MemoryLock
  <2>4. stage' \in [Tasks -> Stages] /\ lease' \in [Tasks -> {"none", "shared", "local"}]
    BY <1>5 DEF FallOpen, MemoryLock
  <2>5. local' \in [Workers -> Tasks \cup {NoTask}]
    <3> HIDE DEF v
    <3> QED
      BY <2>1, <2>3
  <2> QED
    BY <1>5, <2>2, <2>4, <2>5 DEF FallOpen
<1>6. ASSUME NEW t \in Tasks, ReleaseShared(t) \/ ReleaseSharedFails(t) PROVE TypeOK'
  BY <1>6 DEF ReleaseShared, ReleaseSharedFails
<1>7. ASSUME NEW t \in Tasks, ReleaseLocal(t) PROVE TypeOK'
  BY <1>7 DEF ReleaseLocal
<1>8. CASE SharedExpires
  BY <1>8 DEF SharedExpires
<1>9. ASSUME NEW w \in Workers, TimerFires(w) PROVE TypeOK'
  <2>1. Tail(timers[w]) \in Seq(Tasks) /\ Head(timers[w]) \in Tasks
    BY <1>9 DEF TimerFires
  <2>2. timers' \in [Workers -> Seq(Tasks)]
    BY <1>9, <2>1 DEF TimerFires
  <2>3. local' \in [Workers -> Tasks \cup {NoTask}]
    BY <1>9 DEF TimerFires
  <2>4. outlived' \subseteq Tasks
    BY <1>9, <2>1 DEF TimerFires
  <2> QED
    BY <1>9, <2>2, <2>3, <2>4 DEF TimerFires
<1>10. ASSUME NEW w \in Workers, ConnectionFlips(w) PROVE TypeOK'
  BY <1>10 DEF ConnectionFlips
<1>11. ASSUME NEW w \in Workers, Crash(w) PROVE TypeOK'
  <2>1. stage' \in [Tasks -> Stages] /\ local' \in [Workers -> Tasks \cup {NoTask}]
    BY <1>11 DEF Crash
  <2>2. timers' \in [Workers -> Seq(Tasks)]
    <3>1. <<>> \in Seq(Tasks)
      OBVIOUS
    <3> QED
      BY <1>11, <3>1 DEF Crash
  <2> QED
    BY <1>11, <2>1, <2>2 DEF Crash
<1>12. CASE UNCHANGED vars
  BY <1>12 DEF vars
<1> HIDE DEF TypeOK, Stages, Goto, histVars
<1> QED
  <2>1. ASSUME NEW t \in Tasks, Step(t) PROVE TypeOK'
    BY <1>1, <1>2, <1>3, <1>4, <1>5, <1>6, <1>7, <2>1 DEF Step
  <2> QED
    BY <1>8, <1>9, <1>10, <1>12, <1>11, <2>1 DEF Next

\* One step keeps what a token is worth.
LEMMA NextTokenInv == LeaseInv /\ [Next]_vars => TokenInv'
<1> SUFFICES ASSUME LeaseInv, [Next]_vars PROVE TokenInv'
  OBVIOUS
<1> USE TasksAssumption DEF LeaseInv, TypeOK, TokenInv, Inside, Holding, Goto, histVars
<1>1. ASSUME NEW t \in Tasks, Ask(t) PROVE TokenInv'
  BY <1>1 DEF Ask
<1>2. ASSUME NEW t \in Tasks, ServerSets(t) PROVE TokenInv'
  BY <1>2 DEF ServerSets
<1>3. ASSUME NEW t \in Tasks, AnswerOk(t) \/ AnswerNull(t) PROVE TokenInv'
  BY <1>3 DEF AnswerOk, AnswerNull
<1>4. ASSUME NEW t \in Tasks, Resend(t) PROVE TokenInv'
  BY <1>4 DEF Resend
<1>5. ASSUME NEW t \in Tasks, FallOpen(t) PROVE TokenInv'
  BY <1>5 DEF FallOpen, MemoryLock
<1>6. ASSUME NEW t \in Tasks, ReleaseShared(t) \/ ReleaseSharedFails(t) PROVE TokenInv'
  BY <1>6 DEF ReleaseShared, ReleaseSharedFails
<1>7. ASSUME NEW t \in Tasks, ReleaseLocal(t) PROVE TokenInv'
  BY <1>7 DEF ReleaseLocal
<1>8. CASE SharedExpires
  BY <1>8 DEF SharedExpires
<1>9. ASSUME NEW w \in Workers, TimerFires(w) \/ ConnectionFlips(w) PROVE TokenInv'
  BY <1>9 DEF TimerFires, ConnectionFlips
<1>10. ASSUME NEW w \in Workers, Crash(w) PROVE TokenInv'
  BY <1>10 DEF Crash
<1>11. CASE UNCHANGED vars
  BY <1>11 DEF vars
<1> QED
  BY <1>1, <1>2, <1>3, <1>4, <1>5, <1>6, <1>7, <1>8, <1>9, <1>10, <1>11 DEF Next, Step

\* The inductive invariant of acquireLock and releaseLock.
THEOREM LeaseInvariant == Spec => []LeaseInv
<1>1. LeaseInv /\ [Next]_vars => LeaseInv'
  BY NextTypeOK, NextTokenInv DEF LeaseInv
<1> QED
  BY InitLeaseInv, <1>1, PTL DEF Spec

\* Type correctness of both stores, their timers and the tasks.
THEOREM TypeCorrect == Spec => []TypeOK
<1>1. LeaseInv => TypeOK
  BY DEF LeaseInv
<1> QED
  BY LeaseInvariant, <1>1, PTL

\* The Valkey mutex excludes all tasks but those that outlive their TTL.
THEOREM MutualExclusion == Spec => []SharedExclusion
<1>1. LeaseInv => SharedExclusion
  BY DEF LeaseInv, TokenInv, SharedExclusion, AbstractLease!Exclusion
<1> QED
  BY LeaseInvariant, <1>1, PTL

----------------------------------------------------------------------------
(* Refinement of the abstract lease.                                       *)

\* Every step of the lock client is a step of the abstract lease or none.
LEMMA StepImplementsLease ==
  LeaseInv /\ [Next]_vars => [AbstractLease!Next]_(AbstractLease!leaseVars)
<1> SUFFICES ASSUME LeaseInv, [Next]_vars
             PROVE  [AbstractLease!Next]_(AbstractLease!leaseVars)
  OBVIOUS
<1> DEFINE Goal == [AbstractLease!Next]_(AbstractLease!leaseVars)
<1> USE TasksAssumption DEF LeaseInv, TypeOK, TokenInv, Goto, histVars
\* Steps that change neither the key, nor the history, nor who holds.
<1>0. ASSUME UNCHANGED <<shared, overran>>, Inside' = Inside PROVE Goal
  BY <1>0 DEF AbstractLease!leaseVars
<1>1. ASSUME NEW t \in Tasks,
             Ask(t) \/ AnswerNull(t) \/ Resend(t) \/ FallOpen(t) \/ ReleaseLocal(t)
      PROVE Goal
  <2>1. UNCHANGED <<shared, overran>>
    BY <1>1 DEF Ask, AnswerNull, Resend, FallOpen, ReleaseLocal
  <2>2. Inside' = Inside
    BY <1>1 DEF Ask, AnswerNull, Resend, FallOpen, MemoryLock, ReleaseLocal, Inside, Holding
  <2> QED
    BY <1>0, <2>1, <2>2
<1>2. ASSUME NEW t \in Tasks, ServerSets(t) PROVE Goal
  <2>1. Inside' = Inside /\ t \notin Inside
    BY <1>2 DEF ServerSets, Inside, Holding
  <2>2. CASE shared = NoTask
    <3>1. AbstractLease!Grant(t)
      BY <1>2, <2>1, <2>2 DEF ServerSets, AbstractLease!Grant
    <3> QED
      BY <3>1 DEF AbstractLease!Next
  <2>3. CASE shared # NoTask
    BY <1>0, <1>2, <2>1, <2>3 DEF ServerSets
  <2> QED
    BY <2>2, <2>3
<1>3. ASSUME NEW t \in Tasks, AnswerOk(t) PROVE Goal
  <2>1. t \notin Inside /\ Inside' = Inside \cup {t}
    BY <1>3 DEF AnswerOk, Inside, Holding
  <2>2. AbstractLease!Enter(t)
    BY <1>3, <2>1 DEF AnswerOk, AbstractLease!Enter
  <2> QED
    BY <2>2 DEF AbstractLease!Next
<1>4. ASSUME NEW t \in Tasks, ReleaseShared(t) \/ ReleaseSharedFails(t) PROVE Goal
  <2>1. Inside' = Inside \ {t} /\ UNCHANGED overran
    BY <1>4 DEF ReleaseShared, ReleaseSharedFails, Inside, Holding
  <2>2. CASE shared' = shared
    <3>1. AbstractLease!Abandon({t} \cap Inside)
      BY <2>1, <2>2 DEF AbstractLease!Abandon
    <3> QED
      BY <3>1 DEF AbstractLease!Next
  <2>3. CASE shared' # shared
    <3>1. AbstractLease!Return(t)
      BY <1>4, <2>1, <2>3 DEF ReleaseShared, ReleaseSharedFails, AbstractLease!Return
    <3> QED
      BY <3>1 DEF AbstractLease!Next
  <2> QED
    BY <2>2, <2>3
<1>5. CASE SharedExpires
  <2>1. AbstractLease!Expire
    BY <1>5 DEF SharedExpires, AbstractLease!Expire, Inside, Holding
  <2> QED
    BY <2>1 DEF AbstractLease!Next
<1>6. ASSUME NEW w \in Workers, TimerFires(w) \/ ConnectionFlips(w) PROVE Goal
  BY <1>0, <1>6 DEF TimerFires, ConnectionFlips, Inside, Holding
<1>7. ASSUME NEW w \in Workers, Crash(w) PROVE Goal
  <2> DEFINE S == {t \in Inside : WorkerOf[t] = w}
  <2>1. Inside' = Inside \ S /\ UNCHANGED <<shared, overran>>
    BY <1>7 DEF Crash, Inside, Holding
  <2>2. AbstractLease!Abandon(S)
    BY <2>1 DEF AbstractLease!Abandon
  <2> QED
    BY <2>2 DEF AbstractLease!Next
<1>8. CASE UNCHANGED vars
  BY <1>0, <1>8 DEF vars, Inside, Holding
<1> QED
  BY <1>1, <1>2, <1>3, <1>4, <1>5, <1>6, <1>7, <1>8 DEF Next, Step

\* The Valkey half of acquireLock and releaseLock implements the lease.
THEOREM LeaseRefinement == Spec => ImplementsLease
<1>1. Init => AbstractLease!Init
  BY DEF Init, AbstractLease!Init, Inside, Holding
<1> QED
  BY <1>1, LeaseInvariant, StepImplementsLease, PTL
  DEF Spec, ImplementsLease, AbstractLease!Spec

----------------------------------------------------------------------------
(* What a release leaves alone.                                             *)

\* releaseLock compares before it deletes, in both stores: a task that leaves its
\* section takes the lease from nobody else (cache/client.js:706-728).
THEOREM ReleaseIsOwn == Spec => ReleasesOnlyOwn
<1>1. LeaseInv /\ [Next]_vars
        => [\A t, u \in Tasks :
              t # u /\ stage[t] \in {"holding", "unlocking"} /\ stage'[t] # stage[t]
                /\ stage'[t] # "dead"
              => /\ shared = u => shared' = u
                 /\ local[WorkerOf[t]] = u => local'[WorkerOf[t]] = u]_vars
  <2> SUFFICES ASSUME LeaseInv, Next, NEW t \in Tasks, NEW u \in Tasks, t # u,
                      stage[t] \in {"holding", "unlocking"}, stage'[t] # stage[t],
                      stage'[t] # "dead"
               PROVE  /\ shared = u => shared' = u
                      /\ local[WorkerOf[t]] = u => local'[WorkerOf[t]] = u
    BY DEF vars
  <2>1. TypeOK /\ WorkerOf[t] \in Workers
    BY WorkersAssumption DEF LeaseInv
  <2>2. ReleaseShared(t) \/ ReleaseSharedFails(t) \/ ReleaseLocal(t)
    <3>1. ASSUME NEW v \in Tasks, v # t, Step(v) PROVE FALSE
      BY <2>1, <3>1
      DEF Step, Ask, ServerSets, AnswerOk, AnswerNull, Resend, FallOpen, MemoryLock, ReleaseShared,
          ReleaseSharedFails, ReleaseLocal, Goto, TypeOK
    <3>2. ~SharedExpires
      BY DEF SharedExpires
    <3>3. ASSUME NEW w \in Workers, TimerFires(w) \/ ConnectionFlips(w) \/ Crash(w) PROVE FALSE
      BY <3>3 DEF TimerFires, ConnectionFlips, Crash
    <3>4. Step(t)
      BY <3>1, <3>2, <3>3 DEF Next
    <3> QED
      BY <3>4 DEF Step, Ask, ServerSets, AnswerOk, AnswerNull, Resend, FallOpen
  <2>3. shared = u => shared' = u
    BY <2>2 DEF ReleaseShared, ReleaseSharedFails, ReleaseLocal
  <2>4. local[WorkerOf[t]] = u => local'[WorkerOf[t]] = u
    BY <2>1, <2>2 DEF ReleaseShared, ReleaseSharedFails, ReleaseLocal, TypeOK
  <2> QED
    BY <2>3, <2>4
<1> QED
  BY <1>1, LeaseInvariant, PTL DEF Spec, ReleasesOnlyOwn
=============================================================================
