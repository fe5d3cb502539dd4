-------------------------- MODULE ProxySweepProofs --------------------------
(***************************************************************************)
(* Proofs about ProxySweep, for any passes, processes, workers and bounds: *)
(* the types; that the sweep is a singleton under each lock while no lock  *)
(* ends under its pass; and when the verdict on the zone is reached and is *)
(* final.                                                                  *)
(***************************************************************************)
EXTENDS ProxySweep, TLAPS

PassTypes == [pc : {"idle", "lock", "granted", "sweep", "release"}, proc : Procs,
              lock : {"none", "shared", "local"}, left : 0 .. Batch]
SlotTypes == [busy : BOOLEAN, next : Tallies]

\* No tally counts more failures than there were.
TallyInv ==
  /\ tally.fails <= fails
  /\ \A p \in Procs : memTally[p].fails <= fails
  /\ \A s \in Passes, k \in Slots : slot[s][k].next.fails <= fails

\* A pass between its grant and its release has the lock it was granted, unless a
\* lock ended early.
LockInv ==
  ~overran =>
    \A s \in Passes :
      /\ Holds(s, "shared") => lease = s
      /\ Holds(s, "local") => memLock[pass[s].proc] = s
      /\ pass[s].pc \in {"granted", "sweep", "release"} => pass[s].lock # "none"

\* The inductive invariant.
SweepInv == TypeOK /\ TallyInv /\ LockInv

---------------------------------------------------------------------------
(* What is typed.                                                           *)

LEMMA RestTyped ==
  /\ NoTally \in Tallies /\ NoTally.fails = 0
  /\ FreeSlot \in SlotTypes /\ FreeSlot.next.fails = 0
  /\ Over \in PassTypes /\ Over.pc = "idle"
  /\ NoWork \in [Slots -> SlotTypes] /\ \A k \in Slots : NoWork[k] = FreeSlot
<1>1. NoTally \in Tallies /\ NoTally.fails = 0
  BY ConstantsAssumption DEF NoTally, Tallies
<1>2. FreeSlot \in SlotTypes /\ FreeSlot.next.fails = 0
  BY <1>1 DEF FreeSlot, SlotTypes
<1>3. AnyProc \in Procs
  BY ConstantsAssumption DEF AnyProc
<1>4. Over \in PassTypes /\ Over.pc = "idle"
  BY <1>3, ConstantsAssumption DEF Over, PassTypes
<1>5. NoWork \in [Slots -> SlotTypes] /\ \A k \in Slots : NoWork[k] = FreeSlot
  BY <1>2 DEF NoWork
<1> QED
  BY <1>1, <1>2, <1>4, <1>5

\* recordZoneProbe: the samples stop at the cap, one failure more at most.
LEMMA FoldTyped ==
  ASSUME NEW prev \in Tallies, NEW ok \in BOOLEAN
  PROVE  /\ Fold(prev, ok).samples \in 0 .. SampleCap
         /\ Fold(prev, ok).bad \in BOOLEAN
         /\ Fold(prev, ok).fails = prev.fails + (IF ok THEN 0 ELSE 1)
         /\ Fold(prev, ok) = [samples |-> Fold(prev, ok).samples, fails |-> Fold(prev, ok).fails,
                              bad |-> Fold(prev, ok).bad]
<1>1. prev.samples \in Nat /\ prev.fails \in Nat
  BY ConstantsAssumption DEF Tallies
<1>2. Fold(prev, ok).samples = Least(SampleCap, prev.samples + 1)
  BY DEF Fold
<1>3. Fold(prev, ok).samples \in 0 .. SampleCap
  BY <1>1, <1>2, ConstantsAssumption DEF Least
<1>4. Fold(prev, ok).bad \in BOOLEAN
  BY DEF Fold
<1>5. Fold(prev, ok).fails = prev.fails + (IF ok THEN 0 ELSE 1)
  BY DEF Fold
<1>6. Fold(prev, ok) = [samples |-> Fold(prev, ok).samples, fails |-> Fold(prev, ok).fails,
                        bad |-> Fold(prev, ok).bad]
  BY DEF Fold
<1> QED
  BY <1>3, <1>4, <1>5, <1>6

LEMMA InitSweepInv == Init => SweepInv
<1> SUFFICES ASSUME Init PROVE SweepInv
  OBVIOUS
<1>1. pass \in [Passes -> PassTypes] /\ slot \in [Passes -> [Slots -> SlotTypes]]
  BY RestTyped DEF Init
<1>2. /\ overran \in BOOLEAN /\ running \in [Procs -> BOOLEAN]
      /\ memLock \in [Procs -> Passes \cup {NoPass}] /\ memTally \in [Procs -> Tallies]
  BY RestTyped DEF Init
<1>3. TypeOK
  BY <1>1, <1>2, RestTyped, ConstantsAssumption DEF Init, TypeOK, PassTypes, SlotTypes
<1>4. TallyInv
  BY RestTyped DEF Init, TallyInv
<1>5. \A s \in Passes : pass[s].pc = "idle"
  BY RestTyped DEF Init
<1> QED
  BY <1>3, <1>4, <1>5 DEF SweepInv, LockInv, Holds

---------------------------------------------------------------------------
(* The types are kept.                                                      *)

\* A step that leaves the tallies and their workers alone.
LEMMA TalliesIdle ==
  ASSUME TypeOK, TallyInv, UNCHANGED <<slot, tallies, fails>>,
         lease' \in Passes \cup {NoPass}, memLock' \in [Procs -> Passes \cup {NoPass}],
         running' \in [Procs -> BOOLEAN], pass' \in [Passes -> PassTypes],
         troubles' \in 0 .. MaxTroubles, overran' \in BOOLEAN
  PROVE  TypeOK' /\ TallyInv'
  BY DEF TypeOK, TallyInv, tallies, PassTypes

\* A call of Valkey is answered, or fails within the bound.
LEMMA AnsweredTyped ==
  ASSUME TypeOK, NEW yes \in BOOLEAN, Answered(yes)
  PROVE  troubles' \in 0 .. MaxTroubles
  BY ConstantsAssumption DEF TypeOK, Answered

LEMMA PassesTyped ==
  ASSUME TypeOK, [Next]_vars
  PROVE  /\ pass' \in [Passes -> PassTypes]
         /\ lease' \in Passes \cup {NoPass}
         /\ memLock' \in [Procs -> Passes \cup {NoPass}]
         /\ running' \in [Procs -> BOOLEAN]
         /\ troubles' \in 0 .. MaxTroubles
         /\ overran' \in BOOLEAN
<1> DEFINE Typed == /\ pass' \in [Passes -> PassTypes]
                    /\ lease' \in Passes \cup {NoPass}
                    /\ memLock' \in [Procs -> Passes \cup {NoPass}]
                    /\ running' \in [Procs -> BOOLEAN]
                    /\ troubles' \in 0 .. MaxTroubles
                    /\ overran' \in BOOLEAN
<1>0. /\ pass \in [Passes -> PassTypes]
      /\ lease \in Passes \cup {NoPass}
      /\ memLock \in [Procs -> Passes \cup {NoPass}]
      /\ running \in [Procs -> BOOLEAN]
      /\ troubles \in 0 .. MaxTroubles /\ MaxTroubles \in Nat
      /\ overran \in BOOLEAN
  BY ConstantsAssumption DEF TypeOK, PassTypes
<1>1. ASSUME NEW s \in Passes, NEW p \in Procs, Start(s, p)
      PROVE  Typed
  <2>1. [Over EXCEPT !.pc = "lock", !.proc = p] \in PassTypes
    BY RestTyped DEF PassTypes
  <2> QED
    BY <1>0, <1>1, <2>1 DEF Start, locks, bounds
<1>2. ASSUME NEW s \in Passes, Acquire(s)
      PROVE  Typed
  <2>1. CASE lease = NoPass
    BY <1>0, <1>2, <2>1 DEF Acquire, Grant, bounds, PassTypes
  <2>2. CASE lease # NoPass
    BY <1>0, <1>2, <2>2, RestTyped DEF Acquire, Skip, bounds
  <2> QED
    BY <2>1, <2>2
<1>3. ASSUME NEW s \in Passes, FallOpen(s)
      PROVE  Typed
  <2>1. troubles' \in 0 .. MaxTroubles
    BY <1>3, AnsweredTyped DEF FallOpen
  <2>2. lease' \in Passes \cup {NoPass}
    BY <1>0, <1>3 DEF FallOpen
  <2>3. CASE memLock[pass[s].proc] = NoPass
    <3>1. memLock' = [memLock EXCEPT ![pass[s].proc] = s] /\ Grant(s, "local")
      BY <1>3, <2>3 DEF FallOpen
    <3>2. memLock' \in [Procs -> Passes \cup {NoPass}] /\ pass' \in [Passes -> PassTypes]
      BY <1>0, <3>1 DEF Grant, PassTypes
    <3> QED
      BY <1>0, <1>3, <2>1, <2>2, <3>2 DEF FallOpen
  <2>4. CASE memLock[pass[s].proc] # NoPass
    <3>1. memLock' = memLock /\ pass' = [pass EXCEPT ![s] = Over]
      BY <1>3, <2>4 DEF FallOpen, Skip
    <3> QED
      BY <1>0, <1>3, <2>1, <2>2, <3>1, RestTyped DEF FallOpen
  <2> QED
    BY <2>3, <2>4
<1>4. ASSUME NEW s \in Passes, Granted(s)
      PROVE  Typed
  <2>1. Batch \in 0 .. Batch /\ pass[s] \in PassTypes
    BY <1>0, ConstantsAssumption
  <2> DEFINE new == [pass[s] EXCEPT !.pc = "sweep", !.left = Batch]
  <2>2. new \in PassTypes
    BY <2>1 DEF PassTypes
  <2>3. pass' = [pass EXCEPT ![s] = new]
    BY <1>0, <1>4, <2>1 DEF Granted, PassTypes
  <2> HIDE DEF new
  <2>4. pass' \in [Passes -> PassTypes]
    BY <1>0, <2>2, <2>3
  <2> QED
    BY <1>0, <1>4, <2>4 DEF Granted, locks, bounds
<1>5. ASSUME NEW s \in Passes, Finish(s)
      PROVE  Typed
  BY <1>0, <1>5 DEF Finish, locks, bounds, PassTypes
<1>6. ASSUME NEW s \in Passes, Release(s)
      PROVE  Typed
  <2>1. troubles' \in 0 .. MaxTroubles /\ lease' \in Passes \cup {NoPass}
    BY <1>0, <1>6, AnsweredTyped DEF Release
  <2>2. memLock' \in [Procs -> Passes \cup {NoPass}]
    BY <1>0, <1>6 DEF Release
  <2>3. pass' \in [Passes -> PassTypes]
    BY <1>0, <1>6, RestTyped DEF Release, Skip
  <2> QED
    BY <1>0, <1>6, <2>1, <2>2, <2>3 DEF Release
<1>7. ASSUME NEW s \in Passes, NEW k \in Slots, WriteTally(s, k)
      PROVE  Typed
  BY <1>0, <1>7, AnsweredTyped DEF WriteTally, locks
<1>8. ASSUME NEW s \in Passes, NEW k \in Slots, NEW ok \in BOOLEAN, Probe(s, k, ok)
      PROVE  Typed
  <2>1. troubles' \in 0 .. MaxTroubles
    BY <1>8, AnsweredTyped DEF Probe
  <2>2. pass[s].left - 1 \in 0 .. Batch
    BY <1>0, <1>8, ConstantsAssumption DEF Probe, PassTypes
  <2>3. pass' \in [Passes -> PassTypes]
    BY <1>0, <1>8, <2>2 DEF Probe, PassTypes
  <2> QED
    BY <1>0, <1>8, <2>1, <2>3 DEF Probe, locks
<1>9. ASSUME LeaseEnds PROVE Typed
  BY <1>0, <1>9 DEF LeaseEnds, bounds, Holds
<1>10. ASSUME NEW p \in Procs, MemLockEnds(p)
       PROVE  Typed
  BY <1>0, <1>10 DEF MemLockEnds, bounds, Holds
<1>11. ASSUME NEW p \in Procs, Crash(p)
       PROVE  Typed
  <2>1. pass' \in [Passes -> PassTypes]
    BY <1>0, <1>11, RestTyped DEF Crash
  <2> QED
    BY <1>0, <1>11, <2>1 DEF Crash
<1>12. ASSUME TallyLapses PROVE Typed
  BY <1>0, <1>12 DEF TallyLapses, locks, bounds
<1> HIDE DEF Typed
<1>13. ASSUME NEW s \in Passes, Step(s)
       PROVE  Typed
  BY <1>1, <1>2, <1>3, <1>4, <1>5, <1>6, <1>7, <1>8, <1>13 DEF Step
<1>14. ASSUME UNCHANGED vars PROVE Typed
  BY <1>0, <1>14 DEF Typed, vars, locks, bounds
<1>15. ASSUME Next PROVE Typed
  BY <1>9, <1>10, <1>11, <1>12, <1>13, <1>15 DEF Next
<1> QED
  BY <1>14, <1>15 DEF Typed

\* What the calls of Valkey read: a tally.
LEMMA ReadTyped ==
  ASSUME TypeOK, TallyInv, NEW p \in Procs, NEW yes \in BOOLEAN
  PROVE  TallyRead(p, yes) \in Tallies /\ TallyRead(p, yes).fails <= fails
  BY DEF TypeOK, TallyInv, TallyRead

LEMMA TypesKept ==
  ASSUME TypeOK, TallyInv, [Next]_vars
  PROVE  TypeOK' /\ TallyInv'
<1> USE DEF PassTypes, SlotTypes
<1>0. fails \in Nat /\ MaxFails \in Nat /\ pass \in [Passes -> PassTypes]
  BY ConstantsAssumption DEF TypeOK
<1>1. ASSUME NEW s \in Passes,
             (\E p \in Procs : Start(s, p)) \/ Acquire(s) \/ FallOpen(s) \/ Granted(s)
               \/ Finish(s) \/ Release(s)
      PROVE  TypeOK' /\ TallyInv'
  <2>1. UNCHANGED <<slot, tallies, fails>>
    BY <1>1 DEF Start, Acquire, FallOpen, Granted, Finish, Release, bounds
  <2> QED
    BY <2>1, PassesTyped, TalliesIdle
<1>2. ASSUME NEW s \in Passes, NEW k \in Slots, WriteTally(s, k)
      PROVE  TypeOK' /\ TallyInv'
  <2> DEFINE t == slot[s][k].next
  <2>1. t \in Tallies /\ t.fails <= fails
    BY DEF TypeOK, TallyInv
  <2> HIDE DEF t
  <2>2. tally' \in {t, tally} /\ fails' = fails
    BY <1>2 DEF WriteTally, t
  <2>3. memTally' = [memTally EXCEPT ![pass[s].proc] = t]
    BY <1>2 DEF WriteTally, t
  <2>4. /\ memTally' \in [Procs -> Tallies]
        /\ \A p \in Procs : memTally'[p] \in {t, memTally[p]}
    BY <2>1, <2>3 DEF TypeOK
  <2>5. slot' \in [Passes -> [Slots -> SlotTypes]]
    BY <1>2, RestTyped DEF WriteTally, TypeOK
  <2>6. \A u \in Passes, j \in Slots : slot'[u][j] \in {slot[u][j], FreeSlot}
    BY <1>2 DEF WriteTally, TypeOK
  <2>7. TallyInv'
    BY <1>0, <2>1, <2>2, <2>4, <2>6, RestTyped DEF TallyInv
  <2> QED
    BY <2>1, <2>2, <2>4, <2>5, <2>7, PassesTyped DEF TypeOK
<1>3. ASSUME NEW s \in Passes, NEW k \in Slots, NEW ok \in BOOLEAN, Probe(s, k, ok)
      PROVE  TypeOK' /\ TallyInv'
  <2>1. fails' \in 0 .. MaxFails /\ fails' = fails + (IF ok THEN 0 ELSE 1)
    BY <1>0, <1>3 DEF Probe, TypeOK
  <2>2. PICK yes \in BOOLEAN :
          slot' = [slot EXCEPT ![s][k] =
                     [busy |-> TRUE, next |-> Fold(TallyRead(pass[s].proc, yes), ok)]]
    BY <1>3 DEF Probe
  <2> DEFINE prev == TallyRead(pass[s].proc, yes)
             f == Fold(prev, ok)
  <2>3. prev \in Tallies /\ prev.fails <= fails /\ prev.fails \in Nat
    BY <1>0, ReadTyped DEF Tallies
  <2> HIDE DEF prev
  <2>4. f.fails \in Nat /\ f.fails <= fails'
    BY <1>0, <2>1, <2>3, FoldTyped
  <2>5. f \in Tallies
    <3>1. f.fails \in 0 .. MaxFails
      BY <1>0, <2>1, <2>4
    <3> QED
      BY <2>3, <3>1, FoldTyped DEF Tallies
  <2> DEFINE new == [busy |-> TRUE, next |-> f]
  <2>6. new \in SlotTypes /\ new.next.fails <= fails'
    BY <2>4, <2>5
  <2>7. slot' = [slot EXCEPT ![s][k] = new]
    BY <2>2 DEF prev
  <2> HIDE DEF new
  <2>8. slot' \in [Passes -> [Slots -> SlotTypes]]
    BY <2>6, <2>7 DEF TypeOK
  <2>9. \A t \in Passes, j \in Slots : slot'[t][j] \in {slot[t][j], new}
    BY <2>7 DEF TypeOK
  <2>10. /\ \A t \in Passes, j \in Slots : slot[t][j].next.fails \in Nat
         /\ tally.fails \in Nat /\ \A p \in Procs : memTally[p].fails \in Nat
    BY <1>0 DEF TypeOK, Tallies
  <2>11. tally' = tally /\ memTally' = memTally
    BY <1>3 DEF Probe, tallies
  <2>12. TallyInv'
    BY <1>0, <2>1, <2>6, <2>9, <2>10, <2>11 DEF TallyInv
  <2> QED
    BY <2>1, <2>8, <2>11, <2>12, PassesTyped DEF TypeOK
<1>4. ASSUME LeaseEnds \/ \E p \in Procs : MemLockEnds(p)
      PROVE  TypeOK' /\ TallyInv'
  <2>1. UNCHANGED <<slot, tallies, fails>>
    BY <1>4 DEF LeaseEnds, MemLockEnds, bounds
  <2> QED
    BY <2>1, PassesTyped, TalliesIdle
<1>5. CASE TallyLapses
  <2>1. tally' = NoTally /\ slot' = slot /\ fails' = fails
    BY <1>5 DEF TallyLapses, bounds
  <2>2. memTally' \in [Procs -> Tallies] /\ \A p \in Procs : memTally'[p] \in {memTally[p], NoTally}
    BY <1>5, RestTyped DEF TallyLapses, TypeOK
  <2>3. TallyInv'
    BY <1>0, <2>1, <2>2, RestTyped DEF TallyInv
  <2> QED
    BY <2>1, <2>2, <2>3, RestTyped, PassesTyped DEF TypeOK
<1>6. ASSUME NEW p \in Procs, Crash(p)
      PROVE  TypeOK' /\ TallyInv'
  <2>1. slot' \in [Passes -> [Slots -> SlotTypes]]
    BY <1>6, RestTyped DEF Crash, TypeOK
  <2>2. \A t \in Passes, j \in Slots : slot'[t][j] \in {slot[t][j], FreeSlot}
    BY <1>6, RestTyped DEF Crash
  <2>3. tally' = tally /\ fails' = fails
        /\ memTally' = [memTally EXCEPT ![p] = NoTally]
    BY <1>6 DEF Crash
  <2>4. memTally' \in [Procs -> Tallies] /\ \A q \in Procs : memTally'[q] \in {memTally[q], NoTally}
    BY <2>3, RestTyped DEF TypeOK
  <2>5. TallyInv'
    BY <1>0, <2>2, <2>3, <2>4, RestTyped DEF TallyInv
  <2> QED
    BY <2>1, <2>3, <2>4, <2>5, PassesTyped DEF TypeOK
<1>7. CASE UNCHANGED vars
  BY <1>7 DEF vars, locks, tallies, bounds, TypeOK, TallyInv
<1>8. ASSUME NEW s \in Passes, Step(s)
      PROVE  TypeOK' /\ TallyInv'
  BY <1>1, <1>2, <1>3, <1>8 DEF Step
<1> QED
  BY <1>4, <1>5, <1>6, <1>7, <1>8 DEF Next

---------------------------------------------------------------------------
(* The locks.                                                               *)

\* What LockInv says of one pass.
HasLock(s) ==
  /\ Holds(s, "shared") => lease = s
  /\ Holds(s, "local") => memLock[pass[s].proc] = s
  /\ pass[s].pc \in {"granted", "sweep", "release"} => pass[s].lock # "none"

LEMMA LockKept ==
  ASSUME SweepInv, Next
  PROVE  LockInv'
<1> SUFFICES ASSUME ~overran', NEW s \in Passes PROVE HasLock(s)'
  BY DEF LockInv, HasLock, Holds
<1>0. /\ pass \in [Passes -> PassTypes] /\ memLock \in [Procs -> Passes \cup {NoPass}]
      /\ NoPass \notin Passes
      /\ \A t \in Passes : pass[t].proc \in Procs
  BY ConstantsAssumption DEF SweepInv, TypeOK, PassTypes
<1>1. ~overran
  <2>1. CASE LeaseEnds \/ \E p \in Procs : MemLockEnds(p)
    BY <2>1 DEF LeaseEnds, MemLockEnds
  <2>2. CASE ~(LeaseEnds \/ \E p \in Procs : MemLockEnds(p))
    <3>1. UNCHANGED overran
      BY <2>2 DEF Next, Step, Start, Acquire, FallOpen, Granted, Finish, Release, Probe,
                  WriteTally, TallyLapses, Crash
    <3> QED
      BY <3>1
  <2> QED
    BY <2>1, <2>2
<1>2. \A t \in Passes : HasLock(t)
  BY <1>1 DEF SweepInv, LockInv, HasLock
<1>3. ASSUME NEW t \in Passes, NEW p \in Procs, Start(t, p) PROVE HasLock(s)'
  <2>1. /\ lease' = lease /\ memLock' = memLock /\ pass'[t].pc = "lock"
        /\ \A u \in Passes \ {t} : pass'[u] = pass[u]
    BY <1>0, <1>3, RestTyped DEF Start, locks, PassTypes
  <2> QED
    BY <1>2, <2>1 DEF HasLock, Holds
<1>4. ASSUME NEW t \in Passes, Acquire(t) PROVE HasLock(s)'
  <2>1. CASE lease = NoPass
    <3>1. \A u \in Passes : ~Holds(u, "shared")
      BY <1>0, <1>2, <2>1 DEF HasLock
    <3>2. /\ lease' = t /\ memLock' = memLock
          /\ pass'[t].pc = "granted" /\ pass'[t].lock = "shared"
          /\ \A u \in Passes \ {t} : pass'[u] = pass[u]
      BY <1>0, <1>4, <2>1 DEF Acquire, Grant, PassTypes
    <3> QED
      BY <1>2, <3>1, <3>2 DEF HasLock, Holds
  <2>2. CASE lease # NoPass
    <3>1. /\ lease' = lease /\ memLock' = memLock /\ pass'[t].pc = "idle"
          /\ \A u \in Passes \ {t} : pass'[u] = pass[u]
      BY <1>0, <1>4, <2>2, RestTyped DEF Acquire, Skip
    <3> QED
      BY <1>2, <3>1 DEF HasLock, Holds
  <2> QED
    BY <2>1, <2>2
<1>5. ASSUME NEW t \in Passes, FallOpen(t) PROVE HasLock(s)'
  <2> DEFINE p == pass[t].proc
  <2>1. \A u \in Passes : Holds(u, "shared") => lease' = u
    BY <1>0, <1>2, <1>5 DEF FallOpen, HasLock
  <2>2. CASE memLock[p] = NoPass
    <3>1. /\ memLock'[p] = t /\ \A q \in Procs \ {p} : memLock'[q] = memLock[q]
          /\ pass'[t].pc = "granted" /\ pass'[t].lock = "local" /\ pass'[t].proc = p
          /\ \A u \in Passes \ {t} : pass'[u] = pass[u]
      BY <1>0, <1>5, <2>2 DEF FallOpen, Grant, PassTypes
    <3>2. \A u \in Passes : Holds(u, "local") => pass[u].proc # p
      BY <1>0, <1>2, <2>2 DEF HasLock
    <3> QED
      BY <1>0, <1>2, <2>1, <3>1, <3>2 DEF HasLock, Holds
  <2>3. CASE memLock[p] # NoPass
    <3>1. /\ memLock' = memLock /\ pass'[t].pc = "idle"
          /\ \A u \in Passes \ {t} : pass'[u] = pass[u]
      BY <1>0, <1>5, <2>3, RestTyped DEF FallOpen, Skip
    <3> QED
      BY <1>2, <2>1, <3>1 DEF HasLock, Holds
  <2> QED
    BY <2>2, <2>3
<1>6. ASSUME NEW t \in Passes, Granted(t) \/ Finish(t) PROVE HasLock(s)'
  <2>1. /\ lease' = lease /\ memLock' = memLock
        /\ pass[t].pc \in {"granted", "sweep"}
        /\ pass'[t].lock = pass[t].lock /\ pass'[t].proc = pass[t].proc
        /\ \A u \in Passes \ {t} : pass'[u] = pass[u]
    BY <1>0, <1>6 DEF Granted, Finish, locks, PassTypes
  <2> QED
    BY <1>2, <2>1 DEF HasLock, Holds
<1>7. ASSUME NEW t \in Passes, Release(t) PROVE HasLock(s)'
  <2>1. /\ pass'[t].pc = "idle" /\ \A u \in Passes \ {t} : pass'[u] = pass[u]
        /\ lease' = lease \/ lease = t
        /\ \A q \in Procs : memLock'[q] = memLock[q] \/ memLock[q] = t
    BY <1>0, <1>7, RestTyped DEF Release, Skip
  <2> QED
    BY <1>0, <1>2, <2>1 DEF HasLock, Holds
<1>8. ASSUME NEW t \in Passes, NEW k \in Slots, NEW ok \in BOOLEAN,
             WriteTally(t, k) \/ Probe(t, k, ok)
      PROVE  HasLock(s)'
  <2>1. /\ lease' = lease /\ memLock' = memLock
        /\ \A u \in Passes : /\ pass'[u].pc = pass[u].pc /\ pass'[u].lock = pass[u].lock
                             /\ pass'[u].proc = pass[u].proc
    BY <1>0, <1>8 DEF WriteTally, Probe, locks, PassTypes
  <2> QED
    BY <1>2, <2>1 DEF HasLock, Holds
<1>9. CASE LeaseEnds
  <2>1. lease # NoPass /\ ~Holds(lease, "shared") /\ UNCHANGED <<memLock, pass>>
    BY <1>9 DEF LeaseEnds
  <2> QED
    BY <1>2, <2>1 DEF HasLock, Holds
<1>10. ASSUME NEW p \in Procs, MemLockEnds(p) PROVE HasLock(s)'
  <2>1. /\ ~Holds(memLock[p], "local") /\ UNCHANGED <<lease, pass>>
        /\ \A q \in Procs \ {p} : memLock'[q] = memLock[q]
    BY <1>0, <1>10 DEF MemLockEnds
  <2> QED
    BY <1>0, <1>2, <2>1 DEF HasLock, Holds
<1>11. ASSUME NEW p \in Procs, Crash(p) PROVE HasLock(s)'
  <2>1. /\ lease' = lease
        /\ \A u \in Passes : pass'[u] = IF PassOf(u, p) THEN Over ELSE pass[u]
        /\ \A q \in Procs \ {p} : memLock'[q] = memLock[q]
    BY <1>0, <1>11 DEF Crash
  <2> QED
    BY <1>0, <1>2, <2>1, RestTyped DEF HasLock, Holds, PassOf
<1>12. CASE TallyLapses
  BY <1>2, <1>12 DEF TallyLapses, locks, HasLock, Holds
<1>13. ASSUME NEW t \in Passes, Step(t) PROVE HasLock(s)'
  BY <1>3, <1>4, <1>5, <1>6, <1>7, <1>8, <1>13 DEF Step
<1> QED
  BY <1>9, <1>10, <1>11, <1>12, <1>13 DEF Next

---------------------------------------------------------------------------
(* The theorems.                                                            *)

\* The whole invariant holds in every reachable state.
THEOREM SweepInvariant == Spec => []SweepInv
<1>1. SweepInv /\ [Next]_vars => SweepInv'
  <2> SUFFICES ASSUME SweepInv, [Next]_vars PROVE SweepInv'
    OBVIOUS
  <2>1. TypeOK' /\ TallyInv'
    BY TypesKept DEF SweepInv
  <2>2. CASE Next
    BY <2>1, <2>2, LockKept DEF SweepInv
  <2>3. CASE UNCHANGED vars
    BY <2>1, <2>3 DEF vars, locks, SweepInv, LockInv, Holds
  <2> QED
    BY <2>2, <2>3
<1> QED
  BY InitSweepInv, <1>1, PTL DEF Spec

\* Types; in particular the samples stop at the cap (proxyZoneHealth.js).
THEOREM TypeCorrect == Spec => []TypeOK
<1>1. SweepInv => TypeOK
  BY DEF SweepInv
<1> QED
  BY <1>1, SweepInvariant, PTL

\* proxyHealthSweep.js: while no lock ends under its pass, at most one pass of the
\* cluster runs under Valkey's lock and at most one of a process under the lock
\* that the client falls open to.
THEOREM SweepIsSingleton == Spec => []OneSweep
<1>1. SweepInv => OneSweep
  <2> SUFFICES ASSUME SweepInv, ~overran, NEW s \in Sweeping, NEW t \in Sweeping,
                      pass[s].lock = pass[t].lock,
                      pass[s].lock = "shared" \/ pass[s].proc = pass[t].proc
               PROVE  s = t
    BY DEF OneSweep
  <2>1. /\ s \in Passes /\ t \in Passes /\ pass[s].pc = "sweep" /\ pass[t].pc = "sweep"
        /\ pass[s].lock \in {"shared", "local"}
    BY DEF Sweeping, SweepInv, LockInv, TypeOK
  <2> QED
    BY <2>1 DEF SweepInv, LockInv, Holds
<1> QED
  BY <1>1, SweepInvariant, PTL

---------------------------------------------------------------------------
(* The verdict of the zone, though overlapping workers lose probes.         *)

\* Of a tally: it condemns only with samples and failures enough.
Justified(t) == t.bad => t.samples >= MinSamples /\ 5 * t.fails >= 4 * t.samples

VerdictInv ==
  /\ Justified(tally)
  /\ \A p \in Procs : Justified(memTally[p])
  /\ \A s \in Passes, k \in Slots : Justified(slot[s][k].next)

\* Of a tally: its failures are too many for the cap of the samples, so that no
\* number of good answers takes the share below 0.8 again.
Saturated(t) == t.bad /\ t.samples >= MinSamples /\ 5 * t.fails >= 4 * SampleCap

\* No worker still holds an older tally to write back.
Condemned ==
  /\ Saturated(tally)
  /\ \A s \in Passes, k \in Slots : slot[s][k].busy => Saturated(slot[s][k].next)

LEMMA FoldVerdict ==
  ASSUME NEW t \in Tallies, NEW ok \in BOOLEAN
  PROVE  /\ Justified(Fold(t, ok))
         /\ Saturated(t) => Saturated(Fold(t, ok))
<1>1. t.samples \in 0 .. SampleCap /\ t.fails \in Nat
  BY ConstantsAssumption DEF Tallies
<1>2. /\ Fold(t, ok).samples = Least(SampleCap, t.samples + 1)
      /\ Fold(t, ok).fails = t.fails + (IF ok THEN 0 ELSE 1)
      /\ Fold(t, ok).bad <=> Least(SampleCap, t.samples + 1) >= MinSamples
            /\ 5 * (t.fails + (IF ok THEN 0 ELSE 1)) >= 4 * Least(SampleCap, t.samples + 1)
  BY DEF Fold
<1>3. /\ Least(SampleCap, t.samples + 1) \in Nat /\ Least(SampleCap, t.samples + 1) <= SampleCap
      /\ t.samples >= MinSamples => Least(SampleCap, t.samples + 1) >= MinSamples
  BY <1>1, ConstantsAssumption DEF Least
<1>4. Justified(Fold(t, ok))
  BY <1>2 DEF Justified
<1>5. ASSUME Saturated(t) PROVE Saturated(Fold(t, ok))
  <2> DEFINE n == Least(SampleCap, t.samples + 1)
             f == t.fails + (IF ok THEN 0 ELSE 1)
  <2>1. n \in Nat /\ n <= SampleCap /\ n >= MinSamples
    BY <1>3, <1>5 DEF Saturated
  <2>2. f \in Nat /\ 5 * f >= 4 * SampleCap
    BY <1>1, <1>5, ConstantsAssumption DEF Saturated
  <2> HIDE DEF n, f
  <2>3. 5 * f >= 4 * n
    BY <2>1, <2>2, ConstantsAssumption
  <2> QED
    BY <1>2, <2>1, <2>2, <2>3 DEF Saturated, n, f
<1> QED
  BY <1>4, <1>5

\* A step writes a tally that a worker held, or forgets it, or leaves it; and a
\* worker comes to hold with its probe what it read and folded, or nothing.
LEMMA TallySteps ==
  ASSUME TypeOK, [Next]_vars
  PROVE  /\ \/ tally' = tally \/ TallyLapses
            \/ \E s \in Passes, k \in Slots : slot[s][k].busy /\ tally' = slot[s][k].next
         /\ \A p \in Procs :
              \/ memTally'[p] = memTally[p] \/ memTally'[p] = NoTally
              \/ \E s \in Passes, k \in Slots : slot[s][k].busy /\ memTally'[p] = slot[s][k].next
         /\ \A s \in Passes, k \in Slots :
              \/ slot'[s][k] = slot[s][k] \/ slot'[s][k] = FreeSlot
              \/ \E ok, yes \in BOOLEAN, p \in Procs :
                   /\ slot'[s][k] = [busy |-> TRUE, next |-> Fold(TallyRead(p, yes), ok)]
                   /\ yes \/ troubles' # troubles
<1> DEFINE Written == \/ tally' = tally \/ TallyLapses
                      \/ \E s \in Passes, k \in Slots :
                           slot[s][k].busy /\ tally' = slot[s][k].next
           Copied == \A p \in Procs :
                       \/ memTally'[p] = memTally[p] \/ memTally'[p] = NoTally
                       \/ \E s \in Passes, k \in Slots :
                            slot[s][k].busy /\ memTally'[p] = slot[s][k].next
           Held == \A s \in Passes, k \in Slots :
                     \/ slot'[s][k] = slot[s][k] \/ slot'[s][k] = FreeSlot
                     \/ \E ok, yes \in BOOLEAN, p \in Procs :
                          /\ slot'[s][k] = [busy |-> TRUE, next |-> Fold(TallyRead(p, yes), ok)]
                          /\ yes \/ troubles' # troubles
<1>0. /\ slot \in [Passes -> [Slots -> SlotTypes]] /\ memTally \in [Procs -> Tallies]
      /\ \A s \in Passes : pass[s].proc \in Procs
      /\ troubles \in Nat
  BY ConstantsAssumption DEF TypeOK, SlotTypes
<1>1. ASSUME NEW s \in Passes, NEW k \in Slots, WriteTally(s, k)
      PROVE  Written /\ Copied /\ Held
  <2>1. slot[s][k].busy /\ tally' \in {tally, slot[s][k].next}
    BY <1>1 DEF WriteTally
  <2>2. \A u \in Passes, j \in Slots : slot'[u][j] \in {slot[u][j], FreeSlot}
    BY <1>0, <1>1 DEF WriteTally
  <2>3. \A p \in Procs : memTally'[p] \in {memTally[p], slot[s][k].next}
    BY <1>0, <1>1 DEF WriteTally
  <2> QED
    BY <2>1, <2>2, <2>3
<1>2. ASSUME NEW s \in Passes, NEW k \in Slots, NEW ok \in BOOLEAN, Probe(s, k, ok)
      PROVE  Written /\ Copied /\ Held
  <2>1. tally' = tally /\ memTally' = memTally
    BY <1>2 DEF Probe, tallies
  <2>2. PICK yes \in BOOLEAN :
          /\ Answered(yes)
          /\ slot' = [slot EXCEPT ![s][k] =
                        [busy |-> TRUE, next |-> Fold(TallyRead(pass[s].proc, yes), ok)]]
    BY <1>2 DEF Probe
  <2>3. yes \/ troubles' # troubles
    BY <1>0, <2>2 DEF Answered
  <2> DEFINE new == [busy |-> TRUE, next |-> Fold(TallyRead(pass[s].proc, yes), ok)]
  <2>4. \A u \in Passes, j \in Slots : slot'[u][j] \in {slot[u][j], new}
    <3> HIDE DEF new
    <3>1. slot' = [slot EXCEPT ![s][k] = new]
      BY <2>2 DEF new
    <3> QED
      BY <1>0, <3>1
  <2>5. Held
    BY <1>0, <2>3, <2>4
  <2> QED
    BY <2>1, <2>5
<1>3. ASSUME NEW p \in Procs, Crash(p)
      PROVE  Written /\ Copied /\ Held
  <2>1. tally' = tally /\ \A q \in Procs : memTally'[q] \in {memTally[q], NoTally}
    BY <1>0, <1>3 DEF Crash
  <2>2. \A u \in Passes, j \in Slots : slot'[u][j] \in {slot[u][j], FreeSlot}
    BY <1>0, <1>3, RestTyped DEF Crash
  <2> QED
    BY <2>1, <2>2
<1>4. ASSUME TallyLapses PROVE Written /\ Copied /\ Held
  BY <1>4 DEF TallyLapses
<1>5. ASSUME NEW s \in Passes,
             (\E p \in Procs : Start(s, p)) \/ Acquire(s) \/ FallOpen(s) \/ Granted(s)
               \/ Finish(s) \/ Release(s)
      PROVE  Written /\ Copied /\ Held
  BY <1>5 DEF Start, Acquire, FallOpen, Granted, Finish, Release, tallies
<1>6. ASSUME LeaseEnds \/ \E p \in Procs : MemLockEnds(p)
      PROVE  Written /\ Copied /\ Held
  BY <1>6 DEF LeaseEnds, MemLockEnds, tallies
<1> HIDE DEF Written, Copied, Held
<1>7. ASSUME NEW s \in Passes, Step(s)
      PROVE  Written /\ Copied /\ Held
  BY <1>1, <1>2, <1>5, <1>7 DEF Step
<1>8. ASSUME UNCHANGED vars PROVE Written /\ Copied /\ Held
  BY <1>8 DEF Written, Copied, Held, vars, tallies
<1>9. ASSUME Next PROVE Written /\ Copied /\ Held
  BY <1>3, <1>4, <1>6, <1>7, <1>9 DEF Next
<1> QED
  BY <1>8, <1>9 DEF Written, Copied, Held

\* A zone is condemned only when as many of its probes have failed as the rule
\* asks for (proxyZoneHealth.js:95-104): neither the probes that overlapping
\* workers lose nor the copies that processes keep condemn a zone that answers.
THEOREM VerdictHasFailures == Spec => []VerdictEarned
<1>1. Init => VerdictInv
  BY DEF Init, VerdictInv, Justified, NoWork, FreeSlot, NoTally
<1>2. SweepInv /\ VerdictInv /\ [Next]_vars => VerdictInv'
  <2> SUFFICES ASSUME SweepInv, VerdictInv, [Next]_vars PROVE VerdictInv'
    OBVIOUS
  <2>1. TypeOK /\ TallyInv
    BY DEF SweepInv
  <2>2. Justified(NoTally) /\ Justified(FreeSlot.next)
    BY DEF Justified, FreeSlot, NoTally
  <2>3. Justified(tally')
    BY <2>1, <2>2, TallySteps DEF VerdictInv, TallyLapses
  <2>4. \A p \in Procs : Justified(memTally'[p])
    BY <2>1, <2>2, TallySteps DEF VerdictInv
  <2>5. ASSUME NEW s \in Passes, NEW k \in Slots PROVE Justified(slot'[s][k].next)
    <3>1. CASE slot'[s][k] = slot[s][k] \/ slot'[s][k] = FreeSlot
      BY <2>2, <3>1 DEF VerdictInv
    <3>2. ASSUME NEW ok \in BOOLEAN, NEW yes \in BOOLEAN, NEW p \in Procs,
                 slot'[s][k] = [busy |-> TRUE, next |-> Fold(TallyRead(p, yes), ok)]
          PROVE  Justified(slot'[s][k].next)
      BY <2>1, <3>2, ReadTyped, FoldVerdict
    <3>3. \/ slot'[s][k] = slot[s][k] \/ slot'[s][k] = FreeSlot
          \/ \E ok, yes \in BOOLEAN, p \in Procs :
               slot'[s][k] = [busy |-> TRUE, next |-> Fold(TallyRead(p, yes), ok)]
      BY <2>1, TallySteps
    <3> QED
      BY <3>1, <3>2, <3>3
  <2>6. (\A p \in Procs : Justified(memTally[p]))'
    BY <2>4 DEF Justified
  <2> QED
    BY <2>3, <2>5, <2>6 DEF VerdictInv, Justified
<1>3. SweepInv /\ VerdictInv => VerdictEarned
  <2> SUFFICES ASSUME SweepInv, VerdictInv, NEW p \in Procs, SeenBad(p)
               PROVE  5 * fails >= 4 * MinSamples
    BY DEF VerdictEarned
  <2> DEFINE t == TallyRead(p, TRUE)
  <2>1. t \in Tallies /\ t.fails <= fails
    BY ReadTyped DEF SweepInv
  <2>2. Justified(t) /\ t.bad
    BY DEF VerdictInv, TallyRead, SeenBad
  <2> HIDE DEF t
  <2>3. t.fails \in Nat /\ t.samples \in Nat /\ fails \in Nat
    BY <2>1, ConstantsAssumption DEF SweepInv, TypeOK, Tallies
  <2>4. t.samples >= MinSamples /\ 5 * t.fails >= 4 * t.samples
    BY <2>2 DEF Justified
  <2> QED
    BY <2>1, <2>3, <2>4, ConstantsAssumption
<1> QED
  BY <1>1, <1>2, <1>3, SweepInvariant, PTL DEF Spec

\* What run zones_stuck shows on an instance, for any cap, workers and passes: once
\* the failures have outgrown the cap, no step but the loss of the entry, or a call
\* that Valkey fails and an older copy stands in for, takes the verdict back,
\* whatever the probes answer (proxyZoneHealth.js:94-95).
THEOREM CondemnedStays ==
  Spec => [][Condemned => Condemned' \/ TallyLapses \/ troubles' # troubles]_vars
<1>1. ASSUME TypeOK, [Next]_vars, Condemned, ~TallyLapses, troubles' = troubles
      PROVE  Condemned'
  <2>1. tally \in Tallies /\ Saturated(tally) /\ tally # NoTally
    BY <1>1 DEF TypeOK, Condemned, Saturated, NoTally
  <2>2. Saturated(tally')
    BY <1>1, <2>1, TallySteps DEF Condemned
  <2>3. ASSUME NEW s \in Passes, NEW k \in Slots, slot'[s][k].busy
        PROVE  Saturated(slot'[s][k].next)
    <3>1. CASE slot'[s][k] = slot[s][k]
      BY <1>1, <2>3, <3>1 DEF Condemned
    <3>2. slot'[s][k] # FreeSlot
      BY <2>3 DEF FreeSlot
    <3>3. ASSUME NEW ok \in BOOLEAN, NEW yes \in BOOLEAN, NEW p \in Procs,
                 slot'[s][k] = [busy |-> TRUE, next |-> Fold(TallyRead(p, yes), ok)],
                 yes \/ troubles' # troubles
          PROVE  Saturated(slot'[s][k].next)
      <4>1. TallyRead(p, yes) = tally
        BY <1>1, <2>1, <3>3 DEF TallyRead
      <4> QED
        BY <2>1, <3>3, <4>1, FoldVerdict
    <3>4. \/ slot'[s][k] = slot[s][k] \/ slot'[s][k] = FreeSlot
          \/ \E ok, yes \in BOOLEAN, p \in Procs :
               /\ slot'[s][k] = [busy |-> TRUE, next |-> Fold(TallyRead(p, yes), ok)]
               /\ yes \/ troubles' # troubles
      BY <1>1, TallySteps
    <3> QED
      BY <3>1, <3>2, <3>3, <3>4
  <2>4. (\A s \in Passes, k \in Slots : slot[s][k].busy => Saturated(slot[s][k].next))'
    BY <2>3 DEF Saturated
  <2> QED
    BY <2>2, <2>4 DEF Condemned, Saturated
<1>2. TypeOK /\ [Next]_vars
        => [Condemned => Condemned' \/ TallyLapses \/ troubles' # troubles]_vars
  BY <1>1
<1> QED
  BY <1>2, TypeCorrect, PTL DEF Spec
=============================================================================
