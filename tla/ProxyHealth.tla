----------------------------- MODULE ProxyHealth ----------------------------
(***************************************************************************)
(* The health of one proxy pool: its row, the shared counter of its runtime*)
(* failures, and everybody who judges it: requests that went through it,   *)
(* the recovery of degraded pools, the health sweep and the operator.      *)
(*                                                                         *)
(* Source: src/src/lib/network/proxyHealth.js, proxyAutoRecovery.js,       *)
(* proxyHealthSweep.js (its write of the row), src/src/lib/db/repos/       *)
(* proxyPoolsRepo.js, src/src/lib/cache/client.js (shared counters, Valkey *)
(* reachable), src/src/app/api/proxy-pools/[id]/test/route.js, recover/    *)
(* route.js and [id]/route.js.                                             *)
(*                                                                         *)
(* What a prober read it may hold for any time, so the five seconds that   *)
(* getProxyPools and getProxyPoolById cache a row are contained in it.     *)
(***************************************************************************)
EXTENDS Naturals

CONSTANTS Workers,         \* workers whose requests fail on the pool
          Threshold,       \* failures that disable it (PROXY_FAILOVER_THRESHOLD)
          DeadThreshold,   \* failures that make it dead (PROXY_DEAD_THRESHOLD)
          MaxFails,        \* bound: failures of requests
          MaxAdmin         \* bound: interventions of the operator

ASSUME ConstantsAssumption ==
  /\ Threshold \in Nat \ {0}
  /\ DeadThreshold \in Nat
  /\ Threshold < DeadThreshold
  /\ MaxFails \in Nat
  /\ MaxAdmin \in Nat

\* Who probes: the recovery, the operator's test and forced recover buttons, and
\* the health sweep, of which there is one (module ProxySweep).
Probers == {"recovery", "operator", "sweep"}

Statuses == {"unknown", "active", "failed", "degraded", "unhealthy", "dead"}

VARIABLES
  row,        \* is_active, test_status, consecutiveFailures
  age,        \* since lastTestedAt: 0 fresh, 1 past the cooldown, 2 due for the sweep
  counter,    \* proxy:fails:<id>
  ttl,        \* the counter's key has its time to live
  clearing,   \* a write of the row has the counter's deletion under way
  rt,         \* worker -> its failure: place, count, whether the row already told of it
  probe,      \* prober -> its copy of the row while the probe runs
  fails,      \* failures of requests so far
  admins,     \* interventions so far
  lost,       \* for the properties: a worker died between INCR and EXPIRE
  off         \* for the properties: the operator has switched the pool off

vars == <<row, age, counter, ttl, clearing, rt, probe, fails, admins, lost, off>>
counterVars == <<counter, ttl>>
ghosts == <<lost, off>>

NewRow == [active |-> TRUE, status |-> "unknown", failures |-> 0]
NoProbe == [running |-> FALSE, copy |-> NewRow]
NoFailure == [pc |-> "idle", count |-> 0, told |-> FALSE]

Init ==
  /\ row = NewRow
  /\ age = 0
  /\ counter = 0
  /\ ttl = FALSE
  /\ clearing = FALSE
  /\ rt = [w \in Workers |-> NoFailure]
  /\ probe = [p \in Probers |-> NoProbe]
  /\ fails = 0
  /\ admins = 0
  /\ lost = FALSE
  /\ off = FALSE

Dead(r) == r.status = "dead" \/ r.failures >= DeadThreshold

\* Time since the last test.
Age ==
  /\ age < 2
  /\ age' = age + 1
  /\ UNCHANGED <<row, counterVars, clearing, rt, probe, fails, admins, ghosts>>

\* The fields of the patch replace the row's.
Merge(r, patch) == [f \in DOMAIN r |-> IF f \in DOMAIN patch THEN patch[f] ELSE r[f]]

\* updateProxyPool: the patch is merged into the row read under its lock; one
\* that speaks of health starts the deletion of the counter.
UpdateRow(patch) ==
  /\ row' = Merge(row, patch)
  /\ clearing' = \/ clearing
                 \/ "failures" \in DOMAIN patch /\ patch.failures = 0
                 \/ "active" \in DOMAIN patch /\ patch.active
                 \/ "status" \in DOMAIN patch /\ patch.status = "active"

Deleted == counter' = 0 /\ ttl' = FALSE

DeleteCounter ==
  /\ clearing
  /\ clearing' = FALSE
  /\ Deleted
  /\ UNCHANGED <<row, age, rt, probe, fails, admins, ghosts>>

---------------------------------------------------------------------------
(* Requests: recordRuntimeProxyFailure and recordRuntimeProxySuccess.       *)

Succeed ==
  /\ counter > 0
  /\ Deleted
  /\ UNCHANGED <<row, age, clearing, rt, probe, fails, admins, ghosts>>

\* The window of ten minutes ends.
CounterLapses ==
  /\ ttl
  /\ Deleted
  /\ UNCHANGED <<row, age, clearing, rt, probe, fails, admins, ghosts>>

TargetStatus(n) == IF n >= DeadThreshold THEN "dead" ELSE "unhealthy"

\* The row says what n failures make of the pool.
Told(n) == ~row.active /\ row.status = TargetStatus(n) /\ row.failures = n

\* Below the threshold a counted failure has no consequence.
Counted(n, told) ==
  IF n >= Threshold THEN [pc |-> "read", count |-> n, told |-> told] ELSE NoFailure

\* Variant for the mutation runs: nobody sets the time to live.
IncrOnly(w) ==
  /\ rt[w].pc = "idle"
  /\ fails < MaxFails
  /\ fails' = fails + 1
  /\ counter' = counter + 1
  /\ rt' = [rt EXCEPT ![w] = Counted(counter', Told(counter'))]
  /\ UNCHANGED <<row, age, ttl, clearing, probe, admins, ghosts>>

\* INCR; the first one is to set the time to live with a second command.
Incr(w) ==
  /\ rt[w].pc = "idle"
  /\ fails < MaxFails
  /\ fails' = fails + 1
  /\ counter' = counter + 1
  /\ rt' = [rt EXCEPT ![w] = IF counter' = 1
                               THEN [pc |-> "expire", count |-> 1, told |-> Told(1)]
                               ELSE Counted(counter', Told(counter'))]
  /\ UNCHANGED <<row, age, ttl, clearing, probe, admins, ghosts>>

Expire(w) ==
  /\ rt[w].pc = "expire"
  /\ ttl' = (counter > 0)
  /\ rt' = [rt EXCEPT ![w] = Counted(rt[w].count, rt[w].told)]
  /\ UNCHANGED <<row, age, counter, clearing, probe, fails, admins, ghosts>>

\* getProxyPoolById: the row, or a cached copy as old as the failure.
ReadPool(w) ==
  /\ rt[w].pc = "read"
  /\ \E known \in {rt[w].told, Told(rt[w].count)} :
       rt' = [rt EXCEPT ![w].pc = "write", ![w].told = known]
  /\ UNCHANGED <<row, age, counterVars, clearing, probe, fails, admins, ghosts>>

\* Variant for the mutation runs: the counter is added to the row's failures.
DisableAdding(w) ==
  /\ rt[w].pc = "write"
  /\ IF rt[w].told
       THEN UNCHANGED <<row, clearing, age>>
       ELSE /\ UpdateRow([active |-> FALSE, status |-> TargetStatus(rt[w].count),
                          failures |-> row.failures + rt[w].count])
            /\ age' = 0
  /\ rt' = [rt EXCEPT ![w] = NoFailure]
  /\ UNCHANGED <<counterVars, probe, fails, admins, ghosts>>

\* The pool is disabled unless what was read already says so.
Disable(w) ==
  /\ rt[w].pc = "write"
  /\ IF rt[w].told
       THEN UNCHANGED <<row, clearing, age>>
       ELSE /\ UpdateRow([active |-> FALSE, status |-> TargetStatus(rt[w].count),
                          failures |-> rt[w].count])
            /\ age' = 0
  /\ rt' = [rt EXCEPT ![w] = NoFailure]
  /\ UNCHANGED <<counterVars, probe, fails, admins, ghosts>>

\* The process of a worker dies between INCR and EXPIRE: the key stays for good.
Crash(w) ==
  /\ rt[w].pc = "expire"
  /\ lost' = TRUE
  /\ rt' = [rt EXCEPT ![w] = NoFailure]
  /\ UNCHANGED <<row, age, counterVars, clearing, probe, fails, admins, off>>

---------------------------------------------------------------------------
(* Probes.                                                                   *)

\* The sweep's verdict does not depend on what it read.
StartProbe(p) ==
  /\ ~probe[p].running
  /\ probe' = [probe EXCEPT ![p] =
                 [running |-> TRUE, copy |-> IF p = "sweep" THEN NewRow ELSE row]]
  /\ UNCHANGED <<row, age, counterVars, clearing, rt, fails, ghosts>>

\* autoRecoverUnhealthyProxyPools: what a pass takes up, as far as its first twenty
\* pools reach.
Candidate ==
  /\ ~Dead(row)
  /\ \/ ~row.active
     \/ row.status \in {"unhealthy", "degraded"}
     \/ row.failures > 0
  /\ age >= 1

\* The recover route without force.  The state sweeper would do the same, but
\* nothing starts it (gateway/server.js:163-165).
Recover ==
  /\ Candidate
  /\ StartProbe("recovery")
  /\ UNCHANGED admins

\* sweepProxyPoolHealth: active pools never tested or tested long ago.
SweepPool ==
  /\ row.active
  /\ row.status = "unknown" \/ age = 2
  /\ StartProbe("sweep")
  /\ UNCHANGED admins

\* The test route, and the recover route with force.
TestPool ==
  /\ admins < MaxAdmin
  /\ admins' = admins + 1
  /\ StartProbe("operator")

\* Variant for the mutation runs: below the threshold the pool is active,
\* whatever it was.
HealthOfCount(copy, ok) ==
  LET n == IF ok THEN 0 ELSE copy.failures + 1
  IN  [failures |-> n,
       status   |-> CASE ok -> "active"
                      [] n >= DeadThreshold \/ copy.status = "dead" -> "dead"
                      [] n >= Threshold -> "unhealthy"
                      [] OTHER -> "degraded",
       active   |-> n < Threshold]

\* computeProxyTestHealth, on the copy.
ComputeHealth(copy, ok) ==
  LET n == IF ok THEN 0 ELSE copy.failures + 1
  IN  [failures |-> n,
       status   |-> CASE ok -> "active"
                      [] ~ok /\ (n >= DeadThreshold \/ copy.status = "dead") -> "dead"
                      [] ~ok /\ n \in Threshold .. DeadThreshold - 1
                             /\ copy.status # "dead" -> "unhealthy"
                      [] OTHER -> "degraded",
       active   |-> ok \/ (n < Threshold /\ copy.active)]

\* The sweep records its verdict and changes neither is_active nor the count.
SweepVerdict(ok) == [status |-> IF ok THEN "active" ELSE "failed"]

\* The proxy has answered or not; the verdict is written on what was read before.
EndProbe(p, ok) ==
  /\ probe[p].running
  /\ UpdateRow(IF p = "sweep" THEN SweepVerdict(ok) ELSE ComputeHealth(probe[p].copy, ok))
  /\ age' = 0
  /\ probe' = [probe EXCEPT ![p] = NoProbe]
  /\ UNCHANGED <<counterVars, rt, fails, admins, ghosts>>

---------------------------------------------------------------------------
(* The operator switches the pool: PUT with is_active, and a count or none.  *)

SwitchOff ==
  /\ admins < MaxAdmin
  /\ admins' = admins + 1
  /\ UpdateRow([active |-> FALSE])
  /\ off' = TRUE
  /\ UNCHANGED <<age, counterVars, rt, probe, fails, lost>>

SwitchOn ==
  /\ admins < MaxAdmin
  /\ admins' = admins + 1
  /\ \/ UpdateRow([active |-> TRUE])
     \/ UpdateRow([active |-> TRUE, failures |-> 0])
  /\ off' = FALSE
  /\ UNCHANGED <<age, counterVars, rt, probe, fails, lost>>

---------------------------------------------------------------------------
Failure(w) == Incr(w) \/ Expire(w) \/ ReadPool(w) \/ Disable(w) \/ Crash(w)

Next ==
  \/ Age \/ DeleteCounter \/ Succeed \/ CounterLapses
  \/ \E w \in Workers : Failure(w)
  \/ Recover \/ SweepPool \/ TestPool
  \/ \E p \in Probers, ok \in BOOLEAN : EndProbe(p, ok)
  \/ SwitchOff \/ SwitchOn

Spec == Init /\ [][Next]_vars

\* Time passes and a probe has its timeout; nothing makes the recovery begin.
FairSpec ==
  /\ Spec
  /\ WF_vars(Age)
  /\ \A p \in Probers : WF_vars(\E ok \in BOOLEAN : EndProbe(p, ok))

---------------------------------------------------------------------------
(* Properties.                                                               *)

\* The recovery stops at a dead pool; only the operator tests it further.
MostFailures == (IF MaxFails < DeadThreshold THEN DeadThreshold ELSE MaxFails) + MaxAdmin

Rows == [active : BOOLEAN, status : Statuses, failures : 0 .. MostFailures]

\* Types of the state; no mixture of the counter's value and of probes on old
\* copies drives the row's count past what either of them alone can reach.
TypeOK ==
  /\ row \in Rows
  /\ age \in 0 .. 2
  /\ counter \in 0 .. MaxFails
  /\ ttl \in BOOLEAN
  /\ clearing \in BOOLEAN
  /\ rt \in [Workers -> [pc : {"idle", "expire", "read", "write"}, count : 0 .. MaxFails,
                         told : BOOLEAN]]
  /\ probe \in [Probers -> [running : BOOLEAN, copy : Rows]]
  /\ fails \in 0 .. MaxFails
  /\ admins \in 0 .. MaxAdmin
  /\ lost \in BOOLEAN
  /\ off \in BOOLEAN

\* A counter of failures is never without an end: the key has its time to live,
\* or the worker that made it is about to set it, whatever deletions and other
\* workers' failures come between, but for a worker that died in that gap
\* (client.js:366).
CounterEnds ==
  counter > 0 => ttl \/ lost \/ \E w \in Workers : rt[w].pc = "expire"

\* A disabled pool is enabled by an answer of the proxy or by the operator.  A
\* probe that fails does not enable it, unless the pool was still active when
\* the probe began (proxyHealth.js:41, "preserve current isActive state"); the
\* sweep of active pools never does.
EnabledByAnswer ==
  [][~row.active /\ row'.active
       => \/ SwitchOn
          \/ \E p \in {"recovery", "operator"} :
               EndProbe(p, TRUE) \/ (EndProbe(p, FALSE) /\ probe[p].copy.active)]_vars

\* proxyAutoRecovery.js:8-10: "Periodically probes degraded or unhealthy proxy
\* pools", which would bring a disabled pool back or make it dead.  It stays as it
\* is until the operator asks.
IsolationResolved ==
  ~row.active ~> row.active \/ Dead(row)

\* A pool that the operator has switched off is not switched on by the recovery
\* of "degraded or unhealthy" pools (proxyAutoRecovery.js:9).
OffStaysOff ==
  [][off /\ ~row.active /\ row'.active => SwitchOn \/ \E ok \in BOOLEAN : EndProbe("operator", ok)]_vars
=============================================================================
