------------------------- MODULE ProxyHealthProofs --------------------------
(***************************************************************************)
(* Proofs about ProxyHealth, for any workers, thresholds and bounds: the   *)
(* types, that every failure counter ends, and that only an answer or the  *)
(* operator enables a pool.                                                *)
(***************************************************************************)
EXTENDS ProxyHealth, TLAPS

\* The most that requests alone, or probes of the recovery alone, can count.
Unaided == IF MaxFails < DeadThreshold THEN DeadThreshold ELSE MaxFails

\* What the row's count is made of: a request writes the shared counter, which
\* never exceeds the failures so far; a probe of the recovery adds one to a count
\* below the dead threshold; one of the operator's adds one for his intervention.
CountInv ==
  /\ counter <= fails
  /\ row.failures <= Unaided + admins
  /\ probe["operator"].running => probe["operator"].copy.failures < Unaided + admins
  /\ probe["recovery"].running => probe["recovery"].copy.failures < DeadThreshold

\* A failure of a request under way.
Failures == [pc : {"idle", "expire", "read", "write"}, count : 0 .. MaxFails, told : BOOLEAN]

\* The inductive invariant.
HealthInv == TypeOK /\ CounterEnds /\ CountInv

---------------------------------------------------------------------------
(* The rows that the writers leave.                                         *)

LEMMA NewRowTyped == NewRow \in Rows
  BY ConstantsAssumption DEF NewRow, Rows, Statuses, MostFailures

\* updateProxyPool with a verdict of a request or of a probe.
LEMMA MergeVerdict ==
  ASSUME NEW r \in Rows, NEW s \in Statuses, NEW a \in BOOLEAN, NEW n \in Nat,
         NEW p, p = [active |-> a, status |-> s, failures |-> n]
  PROVE  Merge(r, p) = p
  BY DEF Merge, Rows

\* updateProxyPool with the sweep's verdict.
LEMMA MergeStatus ==
  ASSUME NEW r \in Rows, NEW s \in Statuses
  PROVE  Merge(r, [status |-> s]) = [r EXCEPT !.status = s]
  BY DEF Merge, Rows

\* updateProxyPool with the operator's switch.
LEMMA MergeSwitch ==
  ASSUME NEW r \in Rows, NEW a \in BOOLEAN
  PROVE  /\ Merge(r, [active |-> a]) = [r EXCEPT !.active = a]
         /\ Merge(r, [active |-> a, failures |-> 0]) = [active |-> a, status |-> r.status, failures |-> 0]
<1>1. Merge(r, [active |-> a]) = [r EXCEPT !.active = a]
  BY DEF Merge, Rows
<1>2. Merge(r, [active |-> a, failures |-> 0]) = [active |-> a, status |-> r.status, failures |-> 0]
  BY DEF Merge, Rows
<1> QED
  BY <1>1, <1>2

\* The deletion that a patch starts is a truth value.
LEMMA ClearingTyped ==
  ASSUME NEW patch, clearing \in BOOLEAN, UpdateRow(patch)
  PROVE  clearing' \in BOOLEAN
  BY DEF UpdateRow

\* computeProxyTestHealth counts one failure more, or none.
LEMMA VerdictTyped ==
  ASSUME NEW copy \in Rows, NEW ok \in BOOLEAN
  PROVE  /\ ComputeHealth(copy, ok).status \in Statuses
         /\ ComputeHealth(copy, ok).active \in BOOLEAN
         /\ ComputeHealth(copy, ok).failures \in 0 .. copy.failures + 1
         /\ ComputeHealth(copy, ok) = [active   |-> ComputeHealth(copy, ok).active,
                                       status   |-> ComputeHealth(copy, ok).status,
                                       failures |-> ComputeHealth(copy, ok).failures]
<1>1. copy.failures \in Nat /\ copy.active \in BOOLEAN
  BY ConstantsAssumption DEF Rows, MostFailures
<1>2. ComputeHealth(copy, ok).status \in Statuses
  BY <1>1 DEF ComputeHealth, Statuses
<1>3. ComputeHealth(copy, ok).active \in BOOLEAN
  BY <1>1 DEF ComputeHealth
<1> QED
  BY <1>1, <1>2, <1>3 DEF ComputeHealth

---------------------------------------------------------------------------
(* Each step keeps the invariant.                                           *)

LEMMA InitHealthInv == Init => HealthInv
<1> SUFFICES ASSUME Init PROVE HealthInv
  OBVIOUS
<1>1. rt \in [Workers -> Failures]
  BY ConstantsAssumption DEF Init, NoFailure, Failures
<1>2. probe \in [Probers -> [running : BOOLEAN, copy : Rows]]
  BY NewRowTyped DEF Init, NoProbe
<1>3. ttl \in BOOLEAN /\ clearing \in BOOLEAN /\ lost \in BOOLEAN /\ off \in BOOLEAN
  BY DEF Init
<1>4. TypeOK
  BY <1>1, <1>2, <1>3, NewRowTyped, ConstantsAssumption DEF Init, TypeOK, Failures
<1>5. CounterEnds
  BY DEF Init, CounterEnds
<1>6. CountInv
  BY ConstantsAssumption DEF Init, CountInv, NoProbe, NewRow, Unaided, Probers
<1> QED
  BY <1>4, <1>5, <1>6 DEF HealthInv

\* The commands on the counter.
LEMMA CounterKeepsInv ==
  HealthInv /\ (DeleteCounter \/ Succeed \/ CounterLapses) => HealthInv'
<1> SUFFICES ASSUME HealthInv, DeleteCounter \/ Succeed \/ CounterLapses PROVE HealthInv'
  OBVIOUS
<1>1. counter' = 0 /\ ttl' \in BOOLEAN /\ clearing' \in BOOLEAN
  BY DEF HealthInv, TypeOK, DeleteCounter, Succeed, CounterLapses, Deleted
<1>2. UNCHANGED <<row, age, rt, probe, fails, admins, lost, off>>
  BY DEF DeleteCounter, Succeed, CounterLapses, ghosts
<1>3. TypeOK'
  BY <1>1, <1>2, ConstantsAssumption DEF HealthInv, TypeOK
<1>4. CounterEnds'
  BY <1>1 DEF CounterEnds
<1>5. CountInv'
  BY <1>1, <1>2 DEF HealthInv, TypeOK, CountInv
<1> QED
  BY <1>3, <1>4, <1>5 DEF HealthInv

LEMMA IncrKeepsInv ==
  ASSUME NEW w \in Workers, HealthInv, Incr(w)
  PROVE  HealthInv'
<1>1. counter' = counter + 1 /\ fails' = fails + 1 /\ fails < MaxFails /\ rt[w].pc = "idle"
  BY DEF Incr
<1>2. UNCHANGED <<row, age, ttl, clearing, probe, admins, lost, off>>
  BY DEF Incr, ghosts
<1>3. counter' \in 0 .. MaxFails /\ fails' \in 0 .. MaxFails
  BY <1>1, ConstantsAssumption DEF HealthInv, TypeOK, CountInv
<1>4. Told(1) \in BOOLEAN /\ Told(counter') \in BOOLEAN
  BY DEF Told
<1>5. rt' \in [Workers -> Failures]
  <2>1. CASE counter' = 1
    BY <1>3, <1>4, <2>1 DEF Incr, HealthInv, TypeOK, Failures
  <2>2. CASE counter' # 1
    BY <1>3, <1>4, <2>2, ConstantsAssumption DEF Incr, Counted, NoFailure, HealthInv, TypeOK, Failures
  <2> QED
    BY <2>1, <2>2
<1>6. TypeOK'
  BY <1>2, <1>3, <1>5 DEF HealthInv, TypeOK, Failures
<1>7. CounterEnds'
  <2>1. CASE counter' = 1
    <3>1. rt'[w].pc = "expire"
      BY <2>1 DEF Incr, HealthInv, TypeOK
    <3> QED
      BY <3>1 DEF CounterEnds
  <2>2. CASE counter' # 1
    <3>1. counter > 0
      BY <1>1, <2>2 DEF HealthInv, TypeOK
    <3>2. \A v \in Workers : rt[v].pc = "expire" => rt'[v].pc = "expire"
      BY <1>1, <2>2 DEF Incr, HealthInv, TypeOK
    <3> QED
      BY <3>1, <3>2, <1>2 DEF HealthInv, CounterEnds
  <2> QED
    BY <2>1, <2>2
<1>8. CountInv'
  BY <1>1, <1>2 DEF HealthInv, TypeOK, CountInv
<1> QED
  BY <1>6, <1>7, <1>8 DEF HealthInv

\* The rest of a failure writes no counter but the time to live.
LEMMA ExpireKeepsInv ==
  ASSUME NEW w \in Workers, HealthInv, Expire(w)
  PROVE  HealthInv'
<1>1. UNCHANGED <<row, age, counter, clearing, probe, fails, admins, lost, off>>
  BY DEF Expire, ghosts
<1>2. ttl' = (counter > 0)
  BY DEF Expire
<1>3. rt' \in [Workers -> Failures]
  BY ConstantsAssumption DEF Expire, Counted, NoFailure, HealthInv, TypeOK, Failures
<1>4. ttl' \in BOOLEAN
  BY <1>2
<1>5. TypeOK'
  BY <1>1, <1>3, <1>4 DEF HealthInv, TypeOK, Failures
<1>6. CounterEnds'
  BY <1>1, <1>2 DEF CounterEnds
<1>7. CountInv'
  BY <1>1 DEF HealthInv, CountInv
<1> QED
  BY <1>5, <1>6, <1>7 DEF HealthInv

LEMMA ReadPoolKeepsInv ==
  ASSUME NEW w \in Workers, HealthInv, ReadPool(w)
  PROVE  HealthInv'
<1>1. UNCHANGED <<row, age, counter, ttl, clearing, probe, fails, admins, lost, off>>
  BY DEF ReadPool, counterVars, ghosts
<1>2. PICK known \in {rt[w].told, Told(rt[w].count)} :
        rt' = [rt EXCEPT ![w].pc = "write", ![w].told = known]
  BY DEF ReadPool
<1>3. known \in BOOLEAN
  BY <1>2 DEF HealthInv, TypeOK, Told
<1>4. TypeOK'
  BY <1>1, <1>2, <1>3 DEF HealthInv, TypeOK
<1>5. \A v \in Workers : rt[v].pc = "expire" => rt'[v].pc = "expire"
  BY <1>2 DEF ReadPool, HealthInv, TypeOK
<1>6. CounterEnds'
  BY <1>1, <1>5 DEF HealthInv, CounterEnds
<1>7. CountInv'
  BY <1>1 DEF HealthInv, CountInv
<1> QED
  BY <1>4, <1>6, <1>7 DEF HealthInv

LEMMA DisableKeepsInv ==
  ASSUME NEW w \in Workers, HealthInv, Disable(w)
  PROVE  HealthInv'
<1> DEFINE patch == [active |-> FALSE, status |-> TargetStatus(rt[w].count),
                     failures |-> rt[w].count]
<1>1. UNCHANGED <<counter, ttl, probe, fails, admins, lost, off>>
  BY DEF Disable, counterVars, ghosts
<1>2. rt[w].count \in 0 .. MaxFails /\ rt[w].count \in Nat
  BY ConstantsAssumption DEF HealthInv, TypeOK
<1>3. row' = row \/ row' = patch
  <2>1. TargetStatus(rt[w].count) \in Statuses
    BY DEF TargetStatus, Statuses
  <2>2. row \in Rows
    BY DEF HealthInv, TypeOK
  <2>3. Merge(row, patch) = patch
    BY <1>2, <2>1, <2>2 DEF Merge, Rows
  <2> QED
    BY <2>3 DEF Disable, UpdateRow
<1>4. patch \in Rows
  BY <1>2, ConstantsAssumption DEF Rows, Statuses, TargetStatus, MostFailures
<1>5. clearing' \in BOOLEAN /\ age' \in 0 .. 2
  <2>1. clearing' \in BOOLEAN
    BY ClearingTyped DEF Disable, HealthInv, TypeOK
  <2> QED
    BY <2>1 DEF Disable, HealthInv, TypeOK
<1>6. TypeOK'
  <2>1. rt' \in [Workers -> Failures]
    BY ConstantsAssumption DEF Disable, NoFailure, HealthInv, TypeOK, Failures
  <2>2. row' \in Rows
    BY <1>3, <1>4 DEF HealthInv, TypeOK
  <2> QED
    BY <1>1, <1>5, <2>1, <2>2 DEF HealthInv, TypeOK, Failures
<1>7. \A v \in Workers : rt[v].pc = "expire" => rt'[v].pc = "expire"
  BY DEF Disable, HealthInv, TypeOK
<1>8. CounterEnds'
  BY <1>1, <1>7 DEF HealthInv, CounterEnds
<1>9. row'.failures <= Unaided + admins
  BY <1>2, <1>3, ConstantsAssumption DEF HealthInv, TypeOK, CountInv, Unaided
<1>10. CountInv'
  BY <1>1, <1>9 DEF HealthInv, CountInv, Unaided
<1> QED
  BY <1>6, <1>8, <1>10 DEF HealthInv

LEMMA CrashKeepsInv ==
  ASSUME NEW w \in Workers, HealthInv, Crash(w)
  PROVE  HealthInv'
<1>1. UNCHANGED <<row, age, counter, ttl, clearing, probe, fails, admins, off>> /\ lost'
  BY DEF Crash, counterVars
<1>2. TypeOK'
  BY <1>1, ConstantsAssumption DEF Crash, NoFailure, HealthInv, TypeOK
<1>3. CounterEnds'
  BY <1>1 DEF CounterEnds
<1>4. CountInv'
  BY <1>1 DEF HealthInv, CountInv
<1> QED
  BY <1>2, <1>3, <1>4 DEF HealthInv

\* A probe of the recovery begins below the dead threshold, one of the operator's
\* with one intervention more than the row's count can show.
LEMMA StartKeepsInv ==
  HealthInv /\ (Recover \/ SweepPool \/ TestPool) => HealthInv'
<1> SUFFICES ASSUME HealthInv, Recover \/ SweepPool \/ TestPool PROVE HealthInv'
  OBVIOUS
<1>1. UNCHANGED <<row, age, counter, ttl, clearing, rt, fails, lost, off>>
  BY DEF Recover, SweepPool, TestPool, StartProbe, counterVars, ghosts
<1>2. PICK p \in Probers : StartProbe(p) /\ (p = "operator" => TestPool) /\ (p = "recovery" => Recover)
  BY DEF Recover, SweepPool, TestPool, Probers
<1>3. admins' \in 0 .. MaxAdmin /\ admins' >= admins /\ (TestPool => admins' = admins + 1)
  BY ConstantsAssumption DEF HealthInv, TypeOK, Recover, SweepPool, TestPool
<1>4. probe' \in [Probers -> [running : BOOLEAN, copy : Rows]]
  BY <1>2, NewRowTyped DEF StartProbe, HealthInv, TypeOK
<1>5. TypeOK'
  BY <1>1, <1>3, <1>4 DEF HealthInv, TypeOK
<1>6. CounterEnds'
  BY <1>1 DEF HealthInv, CounterEnds
<1>7. row.failures \in Nat /\ admins \in Nat /\ admins' \in Nat /\ Unaided \in Nat
  BY <1>3, ConstantsAssumption DEF HealthInv, TypeOK, Rows, MostFailures, Unaided
<1>8. row'.failures <= Unaided + admins'
  BY <1>1, <1>3, <1>7 DEF HealthInv, CountInv
<1>9. probe'["operator"].running => probe'["operator"].copy.failures < Unaided + admins'
  <2>1. CASE p = "operator"
    <3>1. probe'["operator"].copy = row
      BY <1>2, <2>1 DEF StartProbe, HealthInv, TypeOK
    <3> QED
      BY <3>1, <1>2, <1>3, <1>7, <2>1 DEF HealthInv, CountInv
  <2>2. CASE p # "operator"
    <3>1. probe'["operator"] = probe["operator"]
      BY <1>2, <2>2 DEF StartProbe, HealthInv, TypeOK, Probers
    <3>2. probe["operator"].copy.failures \in Nat
      BY ConstantsAssumption DEF HealthInv, TypeOK, Probers, Rows, MostFailures
    <3> QED
      BY <3>1, <3>2, <1>3, <1>7 DEF HealthInv, CountInv
  <2> QED
    BY <2>1, <2>2
<1>10. probe'["recovery"].running => probe'["recovery"].copy.failures < DeadThreshold
  <2>1. CASE p = "recovery"
    <3>1. probe'["recovery"].copy = row
      BY <1>2, <2>1 DEF StartProbe, HealthInv, TypeOK
    <3>2. ~(row.failures >= DeadThreshold)
      BY <1>2, <2>1 DEF Recover, Candidate, Dead
    <3> QED
      BY <3>1, <3>2, <1>7, ConstantsAssumption
  <2>2. CASE p # "recovery"
    <3>1. probe'["recovery"] = probe["recovery"]
      BY <1>2, <2>2 DEF StartProbe, HealthInv, TypeOK, Probers
    <3> QED
      BY <3>1 DEF HealthInv, CountInv
  <2> QED
    BY <2>1, <2>2
<1>11. CountInv'
  BY <1>1, <1>8, <1>9, <1>10 DEF HealthInv, CountInv, Unaided
<1> QED
  BY <1>5, <1>6, <1>11 DEF HealthInv

LEMMA EndProbeKeepsInv ==
  ASSUME NEW p \in Probers, NEW ok \in BOOLEAN, HealthInv, EndProbe(p, ok)
  PROVE  HealthInv'
<1>1. UNCHANGED <<counter, ttl, rt, fails, admins, lost, off>> /\ age' = 0
  BY DEF EndProbe, counterVars, ghosts
<1>2. probe[p].running /\ probe' = [probe EXCEPT ![p] = NoProbe]
  BY DEF EndProbe
<1>3. probe' \in [Probers -> [running : BOOLEAN, copy : Rows]]
  BY <1>2, NewRowTyped DEF NoProbe, HealthInv, TypeOK
<1>4. clearing' \in BOOLEAN
  BY ClearingTyped DEF EndProbe, HealthInv, TypeOK
<1>5. row \in Rows /\ probe[p].copy \in Rows
  BY DEF HealthInv, TypeOK
<1>6. row.failures \in Nat /\ admins \in 0 .. MaxAdmin /\ admins \in Nat /\ Unaided \in Nat
        /\ MostFailures = Unaided + MaxAdmin
  BY <1>5, ConstantsAssumption DEF HealthInv, TypeOK, Rows, MostFailures, Unaided
<1>7. row' \in Rows /\ row'.failures <= Unaided + admins
  <2>1. CASE p = "sweep"
    <3>1. row' = [row EXCEPT !.status = IF ok THEN "active" ELSE "failed"]
      BY <1>5, <2>1, MergeStatus DEF EndProbe, UpdateRow, SweepVerdict, Statuses
    <3> QED
      BY <3>1, <1>5 DEF Rows, Statuses, HealthInv, CountInv
  <2>2. CASE p # "sweep"
    <3> DEFINE v == ComputeHealth(probe[p].copy, ok)
    <3>1. /\ v.status \in Statuses /\ v.active \in BOOLEAN
          /\ v.failures \in 0 .. probe[p].copy.failures + 1
          /\ v = [active |-> v.active, status |-> v.status, failures |-> v.failures]
      BY <1>5, VerdictTyped
    <3>2. probe[p].copy.failures \in Nat
      BY <1>5, ConstantsAssumption DEF Rows, MostFailures
    <3>3. probe[p].copy.failures < Unaided + admins
      <4>1. CASE p = "operator"
        BY <1>2, <4>1 DEF HealthInv, CountInv
      <4>2. CASE p = "recovery"
        BY <1>2, <1>6, <3>2, <4>2, ConstantsAssumption DEF HealthInv, CountInv, Unaided
      <4> QED
        BY <2>2, <4>1, <4>2 DEF Probers
    <3>4. v.failures \in Nat /\ v.failures <= Unaided + admins
      BY <1>6, <3>1, <3>2, <3>3
    <3>5. row' = v
      <4>1. Merge(row, v) = v
        BY <1>5, <3>1, <3>4, MergeVerdict
      <4> QED
        BY <4>1, <2>2 DEF EndProbe, UpdateRow
    <3>6. v.failures \in 0 .. MostFailures
      BY <1>6, <3>4, ConstantsAssumption
    <3>7. row' \in Rows
      BY <3>1, <3>5, <3>6 DEF Rows
    <3> QED
      BY <3>4, <3>5, <3>7
  <2> QED
    BY <2>1, <2>2
<1>8. TypeOK'
  BY <1>1, <1>3, <1>4, <1>7 DEF HealthInv, TypeOK
<1>9. CounterEnds'
  BY <1>1 DEF HealthInv, CounterEnds
<1>10. \A q \in Probers : probe'[q].running => probe'[q] = probe[q]
  BY <1>2 DEF NoProbe, HealthInv, TypeOK
<1>11. CountInv'
  BY <1>1, <1>7, <1>10 DEF HealthInv, CountInv, Unaided, Probers
<1> QED
  BY <1>8, <1>9, <1>11 DEF HealthInv

LEMMA SwitchKeepsInv ==
  HealthInv /\ (SwitchOff \/ SwitchOn) => HealthInv'
<1> SUFFICES ASSUME HealthInv, SwitchOff \/ SwitchOn PROVE HealthInv'
  OBVIOUS
<1>1. UNCHANGED <<age, counter, ttl, rt, probe, fails, lost>> /\ off' \in BOOLEAN
  BY DEF SwitchOff, SwitchOn, counterVars
<1>2. admins' = admins + 1 /\ admins' \in 0 .. MaxAdmin
  BY ConstantsAssumption DEF HealthInv, TypeOK, SwitchOff, SwitchOn
<1>3. clearing' \in BOOLEAN
  BY ClearingTyped DEF SwitchOff, SwitchOn, HealthInv, TypeOK
<1>4. row \in Rows /\ row.failures \in Nat /\ Unaided \in Nat /\ admins \in Nat
  BY ConstantsAssumption DEF HealthInv, TypeOK, Rows, MostFailures, Unaided
<1>5. PICK a \in BOOLEAN, n \in {row.failures, 0} :
        row' = [active |-> a, status |-> row.status, failures |-> n]
  <2>1. \A a \in BOOLEAN :
          /\ Merge(row, [active |-> a]) = [active |-> a, status |-> row.status, failures |-> row.failures]
          /\ Merge(row, [active |-> a, failures |-> 0]) = [active |-> a, status |-> row.status, failures |-> 0]
    BY <1>4, MergeSwitch DEF Rows
  <2>2. \/ UpdateRow([active |-> FALSE])
        \/ UpdateRow([active |-> TRUE])
        \/ UpdateRow([active |-> TRUE, failures |-> 0])
    BY DEF SwitchOff, SwitchOn
  <2> QED
    BY <2>1, <2>2 DEF UpdateRow
<1>6. row' \in Rows
  BY <1>4, <1>5, ConstantsAssumption DEF Rows, MostFailures
<1>7. TypeOK'
  BY <1>1, <1>2, <1>3, <1>6 DEF HealthInv, TypeOK
<1>8. CounterEnds'
  BY <1>1 DEF HealthInv, CounterEnds
<1>9. row'.failures <= Unaided + admins'
  BY <1>2, <1>4, <1>5 DEF HealthInv, CountInv
<1>10. probe["operator"].copy.failures \in Nat
  BY ConstantsAssumption DEF HealthInv, TypeOK, Probers, Rows, MostFailures
<1>11. CountInv'
  BY <1>1, <1>2, <1>4, <1>9, <1>10 DEF HealthInv, CountInv, Unaided
<1> QED
  BY <1>7, <1>8, <1>11 DEF HealthInv

---------------------------------------------------------------------------
(* The theorems.                                                            *)

\* The whole invariant holds in every reachable state.
THEOREM HealthInvariant == Spec => []HealthInv
<1>1. HealthInv /\ [Next]_vars => HealthInv'
  <2> SUFFICES ASSUME HealthInv, [Next]_vars PROVE HealthInv'
    OBVIOUS
  <2>1. CASE Age
    BY <2>1 DEF Age, HealthInv, TypeOK, CounterEnds, CountInv, counterVars, ghosts, Unaided
  <2>2. CASE DeleteCounter \/ Succeed \/ CounterLapses
    BY <2>2, CounterKeepsInv
  <2>3. ASSUME NEW w \in Workers, Failure(w) PROVE HealthInv'
    BY <2>3, IncrKeepsInv, ExpireKeepsInv, ReadPoolKeepsInv, DisableKeepsInv, CrashKeepsInv
       DEF Failure
  <2>4. CASE Recover \/ SweepPool \/ TestPool
    BY <2>4, StartKeepsInv
  <2>5. ASSUME NEW p \in Probers, NEW ok \in BOOLEAN, EndProbe(p, ok) PROVE HealthInv'
    BY <2>5, EndProbeKeepsInv
  <2>6. CASE SwitchOff \/ SwitchOn
    BY <2>6, SwitchKeepsInv
  <2>7. CASE UNCHANGED vars
    BY <2>7 DEF vars, HealthInv, TypeOK, CounterEnds, CountInv, Unaided
  <2> QED
    BY <2>1, <2>2, <2>3, <2>4, <2>5, <2>6, <2>7 DEF Next
<1> QED
  BY InitHealthInv, <1>1, PTL DEF Spec

\* Types; in particular the row's count stays within what requests, the recovery
\* and the operator's interventions account for (proxyHealth.js).
THEOREM TypeCorrect == Spec => []TypeOK
<1>1. HealthInv => TypeOK
  BY DEF HealthInv
<1> QED
  BY <1>1, HealthInvariant, PTL

\* client.js, incrSharedCounter: every failure counter has its time to live, is
\* about to get it, or lost it with a worker.
THEOREM CountersEnd == Spec => []CounterEnds
<1>1. HealthInv => CounterEnds
  BY DEF HealthInv
<1> QED
  BY <1>1, HealthInvariant, PTL

\* proxyHealth.js, computeProxyTestHealth: a disabled pool is enabled by an answer,
\* by the operator, or by a probe that read it active, and by nothing else.
THEOREM OnlyAnswersEnable == Spec => EnabledByAnswer
<1> DEFINE Enabling ==
      ~row.active /\ row'.active
        => \/ SwitchOn
           \/ \E p \in {"recovery", "operator"} :
                EndProbe(p, TRUE) \/ (EndProbe(p, FALSE) /\ probe[p].copy.active)
<1>1. HealthInv /\ [Next]_vars => [Enabling]_vars
  <2> SUFFICES ASSUME HealthInv, Next, ~row.active, row'.active PROVE Enabling
    OBVIOUS
  <2>1. row \in Rows /\ row' # row
    BY DEF HealthInv, TypeOK
  <2>2. ASSUME NEW w \in Workers, Failure(w) PROVE FALSE
    <3>1. Disable(w)
      BY <2>1, <2>2 DEF Failure, Incr, Expire, ReadPool, Crash
    <3> DEFINE patch == [active |-> FALSE, status |-> TargetStatus(rt[w].count),
                         failures |-> rt[w].count]
    <3>2. row' = Merge(row, patch)
      BY <2>1, <3>1 DEF Disable, UpdateRow
    <3>3. row'.active = FALSE
      BY <2>1, <3>2 DEF Merge, Rows
    <3> QED
      BY <3>3
  <2>3. ASSUME SwitchOff PROVE FALSE
    <3>1. row' = [row EXCEPT !.active = FALSE]
      BY <2>1, <2>3, MergeSwitch DEF SwitchOff, UpdateRow
    <3> QED
      BY <2>1, <3>1 DEF Rows
  <2>4. ASSUME NEW p \in Probers, NEW ok \in BOOLEAN, EndProbe(p, ok)
        PROVE  p # "sweep" /\ (ok \/ probe[p].copy.active)
    <3>1. p # "sweep"
      <4> SUFFICES ASSUME p = "sweep" PROVE FALSE
        OBVIOUS
      <4>1. row' = [row EXCEPT !.status = IF ok THEN "active" ELSE "failed"]
        BY <2>1, <2>4, MergeStatus DEF EndProbe, UpdateRow, SweepVerdict, Statuses
      <4> QED
        BY <2>1, <4>1 DEF Rows
    <3>2. row'.active = ComputeHealth(probe[p].copy, ok).active
      <4>1. row' = Merge(row, ComputeHealth(probe[p].copy, ok))
        BY <2>4, <3>1 DEF EndProbe, UpdateRow
      <4> QED
        BY <2>1, <4>1 DEF Merge, ComputeHealth, Rows
    <3>3. ok \/ probe[p].copy.active
      BY <3>2 DEF ComputeHealth
    <3> QED
      BY <3>1, <3>3
  <2>5. ~(Age \/ DeleteCounter \/ Succeed \/ CounterLapses \/ Recover \/ SweepPool \/ TestPool)
    BY <2>1 DEF Age, DeleteCounter, Succeed, CounterLapses, Recover, SweepPool, TestPool, StartProbe
  <2>6. CASE SwitchOn
    BY <2>6
  <2>7. CASE \E p \in Probers, ok \in BOOLEAN : EndProbe(p, ok)
    <3>1. PICK p \in Probers, ok \in BOOLEAN : EndProbe(p, ok)
      BY <2>7
    <3>2. p \in {"recovery", "operator"} /\ (ok \/ probe[p].copy.active)
      BY <2>4, <3>1 DEF Probers
    <3>3. CASE ok
      BY <3>1, <3>2, <3>3
    <3>4. CASE ~ok
      BY <3>1, <3>2, <3>4
    <3> QED
      BY <3>3, <3>4
  <2> QED
    BY <2>2, <2>3, <2>5, <2>6, <2>7 DEF Next
<1> QED
  BY <1>1, HealthInvariant, PTL DEF Spec, EnabledByAnswer
=============================================================================
