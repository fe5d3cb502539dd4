----------------------------- MODULE ProxySweep -----------------------------
(***************************************************************************)
(* The health sweep of the proxy pools and the tally of one zone.  Every   *)
(* process starts passes from its timers; a lease in Valkey and a flag per *)
(* process are to leave one pass running.  The workers of a pass read the  *)
(* zone's tally, add their probe and write it back.  A call of Valkey may  *)
(* fail: the lock is then one of the process, and the tally the copy that  *)
(* the process keeps in its memory.                                        *)
(*                                                                         *)
(* Source: src/src/lib/network/proxyHealthSweep.js, proxyZoneHealth.js,    *)
(* src/src/lib/cache/client.js (acquireLock, releaseLock, raw get and set).*)
(* The write of the pool's row is in ProxyHealth.  All pools of a pass are *)
(* of the one zone.                                                        *)
(***************************************************************************)
EXTENDS Naturals, FiniteSets

CONSTANTS Passes,       \* passes under way at once, started by the timers of any process
          Procs,        \* processes
          NoPass,       \* nobody holds the lock
          Concurrency,  \* workers of a pass
          Batch,        \* pools of a pass
          MinSamples,   \* probes before a zone is judged (MIN_SAMPLES)
          SampleCap,    \* where the number of samples stops (1000)
          MaxFails,     \* bound: probes that fail
          MaxTroubles   \* bound: calls of Valkey that fail and deaths of processes

ASSUME ConstantsAssumption ==
  /\ Passes \subseteq Nat /\ NoPass \notin Passes
  /\ Procs # {}
  /\ Concurrency \in Nat \ {0}
  /\ Batch \in Nat
  /\ MinSamples \in Nat \ {0}
  /\ SampleCap \in Nat /\ SampleCap >= MinSamples
  /\ MaxFails \in Nat
  /\ MaxTroubles \in Nat

VARIABLES
  lease,     \* holder of Valkey's key lock:proxy-health-sweep
  memLock,   \* process -> holder of the lock in its memory
  running,   \* process -> its flag
  pass,      \* pass -> its place, its process, the lock it was granted, the pools it has left
  slot,      \* pass, worker -> whether it has a tally to write, and which
  tally,     \* the zone's entry in Valkey
  memTally,  \* process -> the zone's entry in its memory
  fails,     \* failed probes so far
  troubles,  \* failed calls of Valkey and deaths so far
  overran    \* for the properties: a lock ended under its pass

locks == <<lease, memLock>>
tallies == <<tally, memTally>>
bounds == <<fails, troubles>>
vars == <<locks, running, pass, slot, tallies, bounds, overran>>

NoTally == [samples |-> 0, fails |-> 0, bad |-> FALSE]
Slots == 1 .. Concurrency
FreeSlot == [busy |-> FALSE, next |-> NoTally]
AnyProc == CHOOSE p \in Procs : TRUE
Over == [pc |-> "idle", proc |-> AnyProc, lock |-> "none", left |-> 0]
NoWork == [k \in Slots |-> FreeSlot]

Init ==
  /\ lease = NoPass
  /\ memLock = [p \in Procs |-> NoPass]
  /\ running = [p \in Procs |-> FALSE]
  /\ pass = [s \in Passes |-> Over]
  /\ slot = [s \in Passes |-> NoWork]
  /\ tally = NoTally
  /\ memTally = [p \in Procs |-> NoTally]
  /\ fails = 0
  /\ troubles = 0
  /\ overran = FALSE

\* Valkey answers the call, or the client fails open.
Answered(yes) ==
  /\ yes \/ troubles < MaxTroubles
  /\ troubles' = IF yes THEN troubles ELSE troubles + 1

---------------------------------------------------------------------------
(* sweepProxyPoolHealth: from the flag to the end of the pass.              *)

\* The flag is tested before the lock is asked for, and set after it.  All passes
\* are alike: the first free one starts.
Start(s, p) ==
  /\ pass[s].pc = "idle" /\ \A t \in Passes : t < s => pass[t].pc # "idle"
  /\ ~running[p]
  /\ pass' = [pass EXCEPT ![s] = [Over EXCEPT !.pc = "lock", !.proc = p]]
  /\ UNCHANGED <<locks, running, slot, tallies, bounds, overran>>

Grant(s, lock) == pass' = [pass EXCEPT ![s].pc = "granted", ![s].lock = lock]
Skip(s) == pass' = [pass EXCEPT ![s] = Over]

\* Variant for the mutation runs: SET without NX.
Seize(s) ==
  /\ pass[s].pc = "lock"
  /\ lease' = s
  /\ Grant(s, "shared")
  /\ UNCHANGED <<memLock, running, slot, tallies, bounds, overran>>

\* acquireLock, SET NX: another holder ends the pass.
Acquire(s) ==
  /\ pass[s].pc = "lock"
  /\ IF lease = NoPass
       THEN lease' = s /\ Grant(s, "shared")
       ELSE UNCHANGED lease /\ Skip(s)
  /\ UNCHANGED <<memLock, running, slot, tallies, bounds, overran>>

\* acquireLock when Valkey fails: the lock of the process.  The SET may have
\* been done and its answer lost; nobody releases that lease.
FallOpen(s) ==
  LET p == pass[s].proc
  IN  /\ pass[s].pc = "lock"
      /\ Answered(FALSE)
      /\ lease' \in {lease} \cup {s : x \in {lease} \cap {NoPass}}
      /\ IF memLock[p] = NoPass
           THEN memLock' = [memLock EXCEPT ![p] = s] /\ Grant(s, "local")
           ELSE UNCHANGED memLock /\ Skip(s)
      /\ UNCHANGED <<running, slot, tallies, fails, overran>>

Granted(s) ==
  /\ pass[s].pc = "granted"
  /\ running' = [running EXCEPT ![pass[s].proc] = TRUE]
  /\ pass' = [pass EXCEPT ![s].pc = "sweep", ![s].left = Batch]
  /\ UNCHANGED <<locks, slot, tallies, bounds, overran>>

\* A pass under the lock of that kind.
Holds(s, lock) == pass[s].pc \in {"granted", "sweep", "release"} /\ pass[s].lock = lock

\* The key's time to live ends, with its pass or under it; so does the timer of
\* the process's lock.
LeaseEnds ==
  /\ lease # NoPass
  /\ overran' = (overran \/ Holds(lease, "shared"))
  /\ lease' = NoPass
  /\ UNCHANGED <<memLock, running, pass, slot, tallies, bounds>>

MemLockEnds(p) ==
  /\ memLock[p] # NoPass
  /\ overran' = (overran \/ Holds(memLock[p], "local"))
  /\ memLock' = [memLock EXCEPT ![p] = NoPass]
  /\ UNCHANGED <<lease, running, pass, slot, tallies, bounds>>

\* All workers are back: the flag falls, then the lock is released.
Finish(s) ==
  /\ pass[s].pc = "sweep" /\ pass[s].left = 0
  /\ slot[s] = NoWork
  /\ running' = [running EXCEPT ![pass[s].proc] = FALSE]
  /\ pass' = [pass EXCEPT ![s].pc = "release"]
  /\ UNCHANGED <<locks, slot, tallies, bounds, overran>>

\* releaseLock deletes what carries the pass's own token, in Valkey if it answers
\* and in the process.
Release(s) ==
  /\ pass[s].pc = "release"
  /\ \E yes \in BOOLEAN :
       /\ Answered(yes)
       /\ lease' = IF yes /\ lease = s /\ pass[s].lock = "shared" THEN NoPass ELSE lease
  /\ memLock' = [p \in Procs |->
                   IF memLock[p] = s /\ pass[s].lock = "local" THEN NoPass ELSE memLock[p]]
  /\ Skip(s)
  /\ UNCHANGED <<running, slot, tallies, fails, overran>>

PassOf(s, p) == pass[s].pc # "idle" /\ pass[s].proc = p

\* A process dies and is restarted, with an empty memory; the lease stays until it
\* ends.
Crash(p) ==
  /\ troubles < MaxTroubles
  /\ troubles' = troubles + 1
  /\ \E s \in Passes : PassOf(s, p)
  /\ running' = [running EXCEPT ![p] = FALSE]
  /\ memLock' = [memLock EXCEPT ![p] = NoPass]
  /\ memTally' = [memTally EXCEPT ![p] = NoTally]
  /\ pass' = [s \in Passes |-> IF PassOf(s, p) THEN Over ELSE pass[s]]
  /\ slot' = [s \in Passes |-> IF PassOf(s, p) THEN NoWork ELSE slot[s]]
  /\ UNCHANGED <<lease, tally, fails, overran>>

---------------------------------------------------------------------------
(* The workers of a pass and recordZoneProbe.                               *)

Least(a, b) == IF a < b THEN a ELSE b

\* Variant for the mutation runs: a zone that was bad stays bad.
FoldForGood(prev, ok) ==
  LET samples  == Least(SampleCap, prev.samples + 1)
      failures == prev.fails + (IF ok THEN 0 ELSE 1)
  IN  [samples |-> samples, fails |-> failures,
       bad |-> prev.bad \/ (samples >= MinSamples /\ 5 * failures >= 4 * samples)]

\* Variant for the mutation runs: an answer is counted as a failure and the other
\* way round.
FoldSwapped(prev, ok) ==
  LET samples  == Least(SampleCap, prev.samples + 1)
      failures == prev.fails + (IF ok THEN 1 ELSE 0)
  IN  [samples |-> samples, fails |-> failures,
       bad |-> samples >= MinSamples /\ 5 * failures >= 4 * samples]

\* One probe more in the tally.  The share is 0.8.  The streak of good answers
\* is left out: `next` has no state when it is compared with "bad", so that the
\* state "good" and the streak have no effect.
Fold(prev, ok) ==
  LET samples  == Least(SampleCap, prev.samples + 1)
      failures == prev.fails + (IF ok THEN 0 ELSE 1)
  IN  [samples |-> samples, fails |-> failures,
       bad |-> samples >= MinSamples /\ 5 * failures >= 4 * samples]

\* cacheGetRaw: Valkey's entry, or else the copy of the process.
TallyRead(p, yes) == IF yes /\ tally # NoTally THEN tally ELSE memTally[p]

\* The next pool of the cursor is probed, by the first free worker since all are
\* alike, and the tally is read.  The zone answers for good after MaxFails failures.
Probe(s, k, ok) ==
  /\ pass[s].pc = "sweep"
  /\ pass[s].left > 0
  /\ ~slot[s][k].busy /\ \A j \in 1 .. k - 1 : slot[s][j].busy
  /\ ok \/ fails < MaxFails
  /\ fails' = IF ok THEN fails ELSE fails + 1
  /\ pass' = [pass EXCEPT ![s].left = @ - 1]
  /\ \E yes \in BOOLEAN :
       /\ Answered(yes)
       /\ slot' = [slot EXCEPT ![s][k] =
                     [busy |-> TRUE, next |-> Fold(TallyRead(pass[s].proc, yes), ok)]]
  /\ UNCHANGED <<locks, running, tallies, overran>>

\* cacheSetRaw: Valkey's entry if it answers, and the copy of the process.
WriteTally(s, k) ==
  /\ slot[s][k].busy
  /\ \E yes \in BOOLEAN :
       /\ Answered(yes)
       /\ tally' = IF yes THEN slot[s][k].next ELSE tally
  /\ memTally' = [memTally EXCEPT ![pass[s].proc] = slot[s][k].next]
  /\ slot' = [slot EXCEPT ![s][k] = FreeSlot]
  /\ UNCHANGED <<locks, running, pass, fails, overran>>

\* Six hours since the entry was written.  Every copy has lapsed with it but for
\* those written later that did not reach Valkey; that one lapses before it is left
\* out, since nobody reads it while Valkey answers.
TallyLapses ==
  /\ tally # NoTally
  /\ tally' = NoTally
  /\ \E P \in SUBSET Procs :
       /\ P = Procs \/ troubles > 0
       /\ memTally' = [p \in Procs |-> IF p \in P THEN NoTally ELSE memTally[p]]
  /\ UNCHANGED <<locks, running, pass, slot, bounds, overran>>

---------------------------------------------------------------------------
Step(s) ==
  \/ \E p \in Procs : Start(s, p)
  \/ Acquire(s) \/ FallOpen(s) \/ Granted(s) \/ Finish(s) \/ Release(s)
  \/ \E k \in Slots : WriteTally(s, k) \/ \E ok \in BOOLEAN : Probe(s, k, ok)

Next ==
  \/ \E s \in Passes : Step(s)
  \/ LeaseEnds \/ TallyLapses
  \/ \E p \in Procs : MemLockEnds(p) \/ Crash(p)

Spec == Init /\ [][Next]_vars

\* The timers go on starting passes, what a pass awaits has a timeout, and the
\* lease ends.
FairSpec ==
  /\ Spec
  /\ WF_vars(LeaseEnds)
  /\ \A s \in Passes : WF_vars(Step(s))

---------------------------------------------------------------------------
(* Properties.                                                               *)

Tallies == [samples : 0 .. SampleCap, fails : 0 .. MaxFails, bad : BOOLEAN]

\* Types of the state.
TypeOK ==
  /\ lease \in Passes \cup {NoPass}
  /\ memLock \in [Procs -> Passes \cup {NoPass}]
  /\ running \in [Procs -> BOOLEAN]
  /\ pass \in [Passes -> [pc : {"idle", "lock", "granted", "sweep", "release"}, proc : Procs,
                          lock : {"none", "shared", "local"}, left : 0 .. Batch]]
  /\ slot \in [Passes -> [Slots -> [busy : BOOLEAN, next : Tallies]]]
  /\ tally \in Tallies
  /\ memTally \in [Procs -> Tallies]
  /\ fails \in 0 .. MaxFails
  /\ troubles \in 0 .. MaxTroubles
  /\ overran \in BOOLEAN

Sweeping == {s \in Passes : pass[s].pc = "sweep"}

\* proxyHealthSweep.js:41-45: two passes sweep at once only under different
\* locks, Valkey's and one of a process that Valkey failed, while no lock ends
\* under its pass; though the flag is tested before the lock is awaited and set
\* after it, and releases and deaths come between.
OneSweep ==
  overran \/ \A s, t \in Sweeping :
    /\ pass[s].lock = pass[t].lock
    /\ pass[s].lock = "shared" \/ pass[s].proc = pass[t].proc
    => s = t

\* proxyHealthSweep.js:45: "The lock is what makes it a singleton".
ClusterSingleton == overran \/ Cardinality(Sweeping) <= 1

\* What a process sees of the zone while Valkey answers.
SeenBad(p) == TallyRead(p, TRUE).bad

\* A zone is condemned only when as many of its probes have failed as the rule
\* asks for (proxyZoneHealth.js:24-28), whatever probes overlapping workers lose
\* and whatever old copies of the tally come back after an outage.
VerdictEarned == \A p \in Procs : SeenBad(p) => 5 * fails >= 4 * MinSamples

\* proxyZoneHealth.js:18-20: "a provider that starts working again comes back
\* without anyone intervening": once its proxies answer the zone is forgiven.
ZoneForgiven == fails = MaxFails ~> \A p \in Procs : ~SeenBad(p)
=============================================================================
