------------------------- MODULE TokenRefreshProofs -------------------------
(***************************************************************************)
(* Proofs about TokenRefresh, for any calls, workers and bounds: the types *)
(* and what is sent to the provider, for any setting of the switches; that *)
(* the newest pair reaches the row; and that only a dead grant retires the *)
(* connection.  The last two hold under conditions on how calls meet, each *)
(* a state predicate: NoReplay, JoinsOwn, OneRotation, or Apart.           *)
(***************************************************************************)
EXTENDS TokenRefresh, TLAPS

\* What the place of a call says of it.  A run of checkAndRefreshToken that may
\* try again has not done so, and it has sent its token at most; a call of the
\* 401 path sends its token again and again, so nothing of the kind holds of it.
CallInv(c) ==
  /\ pc[c] = "bare" => c \in Bare
  /\ pc[c] = "lease" => tries[c] < LeaseTries
  /\ pc[c] = "persist" => got[c] \in Pairs
  /\ pc[c] \in {"idle", "outer", "adopt", "grace"} => ~retried[c]
  /\ pc[c] \in {"idle", "outer", "adopt"} => fired[c] = {}
  /\ pc[c] \in {"check", "lease", "start"} /\ c \notin Direct =>
       /\ token[c] \notin fired[c]
       /\ ~retried[c] => fired[c] = {}
  /\ pc[c] = "grace" => c \notin Direct
  /\ pc[c] \in {"upstream", "follow", "grace"} /\ c \notin Direct /\ ~retried[c] =>
       fired[c] \subseteq {token[c]}

CallsInv == \A c \in Calls : CallInv(c)

\* A cached renewal is that of a pair with a successor.
CacheInv == \A w \in Workers, p \in Pairs : recent[w][p] = "renewed" => p < MaxPairs

\* The inductive invariant.
RefreshInv == TypeOK /\ CallsInv /\ CacheInv /\ SingleFlight

---------------------------------------------------------------------------
(* Facts about the bounds and the helpers.                                  *)

LEMMA PairFacts ==
  /\ MaxPairs \in Nat /\ 0 \in Pairs /\ NoPair \notin Pairs
  /\ \A p \in Pairs : p + 1 \in Pairs \cup {NoPair} /\ (p < MaxPairs => p + 1 \in Pairs)
  BY BoundsAssumption DEF Pairs, NoPair

LEMMA LeaseFacts ==
  /\ NoLease \in (Calls \X Levels) \cup {NoLease}
  /\ \A c \in Calls : <<c, "outer">> \in Calls \X Levels /\ <<c, "inner">> \in Calls \X Levels
  BY DEF Levels

\* Where a result may take a call: to the row only with a pair, and back on the way
\* to the provider only on the 401 path.
LEMMA ResultPlace ==
  ASSUME NEW c \in Calls, retried[c] \in BOOLEAN, NEW o \in Outcomes
  PROVE  /\ AfterResult(c, o) \in {"persist", "check", "done", "mark", "grace", "finish"}
         /\ AfterResult(c, o) = "persist" <=> o = "renewed"
         /\ AfterResult(c, o) = "grace" => ~retried[c] /\ c \notin Direct
         /\ AfterResult(c, o) = "check" => c \in Direct
<1>1. CASE o = "renewed"
  BY <1>1 DEF AfterResult, Repeats
<1>2. CASE o # "renewed" /\ c \in Direct
  BY <1>2 DEF AfterResult, Repeats
<1>3. CASE o # "renewed" /\ c \notin Direct /\ retried[c]
  BY <1>3 DEF AfterResult, Repeats
<1>4. CASE o = "rejected" /\ c \notin Direct /\ ~retried[c]
  BY <1>4 DEF AfterResult, Repeats
<1>5. CASE o = "failed" /\ c \notin Direct /\ ~retried[c]
  BY <1>5 DEF AfterResult, Repeats, Ending
<1> QED
  BY <1>1, <1>2, <1>3, <1>4, <1>5 DEF Outcomes

LEMMA InitRefreshInv == Init => RefreshInv
<1> SUFFICES ASSUME Init PROVE RefreshInv
  OBVIOUS
<1>1. row \in [present : BOOLEAN, token : Pairs, blocked : BOOLEAN] /\ issued \in Pairs
  BY PairFacts DEF Init
<1>2. access \in [Pairs -> {"new", "due", "expired"}] /\ lease \in (Calls \X Levels) \cup {NoLease}
  BY DEF Init
<1>3. revoked \in BOOLEAN /\ lost \in BOOLEAN /\ doomed \in BOOLEAN
  BY DEF Init
<1>4. /\ pending \in [Workers -> Calls \cup {NoCall}]
      /\ recent \in [Workers -> [Pairs -> Outcomes \cup {"none"}]]
      /\ backoff \in [Workers -> BOOLEAN] /\ markers \subseteq Calls
  BY DEF Init
<1>5. /\ pc \in [Calls -> PCs] /\ token \in [Calls -> Pairs] /\ loaded \in [Calls -> Pairs]
      /\ tries \in [Calls -> 0..LeaseTries] /\ attempts \in [Calls -> 0..(RefreshTries - 1)]
      /\ retried \in [Calls -> BOOLEAN]
  BY PairFacts, BoundsAssumption DEF Init, PCs
<1>6. /\ follows \in [Calls -> Calls \cup {NoCall}] /\ got \in [Calls -> Pairs \cup {NoPair}]
      /\ fired \in [Calls -> SUBSET Pairs]
  BY DEF Init
<1>7. TypeOK
  BY <1>1, <1>2, <1>3, <1>4, <1>5, <1>6 DEF TypeOK
<1>8. CallsInv
  BY DEF Init, CallsInv, CallInv
<1>9. CacheInv /\ SingleFlight
  BY DEF Init, CacheInv, SingleFlight, Asking
<1> QED
  BY <1>7, <1>8, <1>9 DEF RefreshInv

\* A step of one call: the others keep theirs, and the one keeps its part.
LEMMA OneCall ==
  ASSUME RefreshInv, NEW c \in Calls, NEW s \in PCs \ {"upstream", "bare"},
         Goto(c, s), UNCHANGED <<recent, fired>>,
         \A d \in Calls \ {c} : /\ token'[d] = token[d] /\ tries'[d] = tries[d]
                                /\ retried'[d] = retried[d] /\ got'[d] = got[d],
         CallInv(c)'
  PROVE  CallsInv' /\ CacheInv' /\ SingleFlight' /\ pc' \in [Calls -> PCs]
<1>1. /\ pc \in [Calls -> PCs] /\ pc' = [pc EXCEPT ![c] = s]
      /\ pc'[c] = s /\ \A d \in Calls \ {c} : pc'[d] = pc[d]
      /\ pc' \in [Calls -> PCs]
  BY DEF RefreshInv, TypeOK, Goto
<1>2. ASSUME NEW d \in Calls \ {c} PROVE CallInv(d)'
  BY <1>1, <1>2 DEF RefreshInv, CallsInv, CallInv
<1>3. CallsInv'
  BY <1>2 DEF CallsInv
<1>4. SingleFlight'
  BY <1>1 DEF RefreshInv, SingleFlight, Asking
<1>5. CacheInv'
  BY DEF RefreshInv, CacheInv
<1> QED
  BY <1>1, <1>3, <1>4, <1>5

---------------------------------------------------------------------------
(* Every action keeps the invariant.                                        *)

LEMMA LoadKeeps ==
  ASSUME RefreshInv, NEW c \in Calls, Load(c)
  PROVE  RefreshInv'
<1>1. PICK s \in {"check", "adopt", "outer"} : Goto(c, s)
  BY DEF Load, LoadRequest, LoadTick
<1>2. /\ TypeOK /\ CallInv(c) /\ pc[c] = "idle" /\ s \in PCs \ {"upstream", "bare"}
      /\ token' = [token EXCEPT ![c] = row.token] /\ loaded' = [loaded EXCEPT ![c] = row.token]
      /\ UNCHANGED <<envVars, sharedVars, workerVars, tries, attempts, retried, follows, got, fired>>
  BY DEF Load, LoadRequest, LoadTick, RefreshInv, CallsInv, PCs
<1>3. row.token \in Pairs /\ token' \in [Calls -> Pairs] /\ loaded' \in [Calls -> Pairs]
  BY <1>2 DEF TypeOK
<1>4. pc' = [pc EXCEPT ![c] = s] /\ pc'[c] = s
  BY <1>1, <1>2 DEF Goto, TypeOK
<1>5. \A d \in Calls \ {c} : token'[d] = token[d]
  BY <1>2 DEF TypeOK
<1>6. CallInv(c)'
  BY <1>2, <1>4 DEF CallInv
<1>7. CallsInv' /\ CacheInv' /\ SingleFlight' /\ pc' \in [Calls -> PCs]
  BY <1>1, <1>2, <1>5, <1>6, OneCall DEF workerVars
<1>8. TypeOK'
  BY <1>2, <1>3, <1>7 DEF TypeOK, envVars, sharedVars, workerVars
<1> QED
  BY <1>7, <1>8 DEF RefreshInv

LEMMA OuterLeaseKeeps ==
  ASSUME RefreshInv, NEW c \in Calls, OuterLease(c)
  PROVE  RefreshInv'
<1>1. PICK s \in {"adopt", "done"} : Goto(c, s)
  BY DEF OuterLease
<1>2. /\ TypeOK /\ CallInv(c) /\ pc[c] = "outer" /\ s \in PCs \ {"upstream", "bare"}
      /\ lease' \in {<<c, "outer">>, lease}
      /\ UNCHANGED <<envVars, row, markers, doomed, workerVars,
                     token, loaded, tries, attempts, retried, follows, got, fired>>
  BY DEF OuterLease, RefreshInv, CallsInv, PCs
<1>3. pc'[c] = s
  BY <1>1, <1>2 DEF Goto, TypeOK
<1>4. CallInv(c)'
  BY <1>2, <1>3 DEF CallInv
<1>5. CallsInv' /\ CacheInv' /\ SingleFlight' /\ pc' \in [Calls -> PCs]
  BY <1>1, <1>2, <1>4, OneCall DEF workerVars
<1>6. lease' \in (Calls \X Levels) \cup {NoLease}
  BY <1>2, LeaseFacts DEF TypeOK
<1>7. TypeOK'
  BY <1>2, <1>5, <1>6 DEF TypeOK, envVars, workerVars
<1> QED
  BY <1>5, <1>7 DEF RefreshInv

LEMMA AdoptKeeps ==
  ASSUME RefreshInv, NEW c \in Calls, Adopt(c)
  PROVE  RefreshInv'
<1>1. /\ TypeOK /\ CallInv(c) /\ pc[c] = "adopt" /\ "check" \in PCs \ {"upstream", "bare"} /\ Goto(c, "check")
      /\ token' = [token EXCEPT ![c] = IF Fresher(c) THEN row.token ELSE @]
      /\ UNCHANGED <<envVars, sharedVars, workerVars, loaded, tries, attempts, retried, follows, got, fired>>
  BY DEF Adopt, RefreshInv, CallsInv, PCs
<1>2. token' \in [Calls -> Pairs] /\ \A d \in Calls \ {c} : token'[d] = token[d]
  BY <1>1 DEF TypeOK
<1>3. pc'[c] = "check"
  BY <1>1 DEF Goto, TypeOK
<1>4. CallInv(c)'
  BY <1>1, <1>3 DEF CallInv
<1>5. CallsInv' /\ CacheInv' /\ SingleFlight' /\ pc' \in [Calls -> PCs]
  BY <1>1, <1>2, <1>4, OneCall DEF workerVars
<1>6. TypeOK'
  BY <1>1, <1>2, <1>5 DEF TypeOK, envVars, sharedVars, workerVars
<1> QED
  BY <1>5, <1>6 DEF RefreshInv

LEMMA CheckLockKeeps ==
  ASSUME RefreshInv, NEW c \in Calls, CheckLock(c)
  PROVE  RefreshInv'
<1>1. PICK s \in {"follow", "lease"} : Goto(c, s)
  BY DEF CheckLock
<1>2. /\ TypeOK /\ CallInv(c) /\ pc[c] = "check" /\ s \in PCs \ {"upstream", "bare"}
      /\ tries' = tries \/ tries' = [tries EXCEPT ![c] = 0]
      /\ s = "lease" => tries' = [tries EXCEPT ![c] = 0]
      /\ UNCHANGED <<envVars, sharedVars, workerVars, token, loaded, attempts, retried, got, fired>>
  <2>1. /\ TypeOK /\ CallInv(c) /\ pc[c] = "check" /\ s \in PCs \ {"upstream", "bare"}
        /\ UNCHANGED <<envVars, sharedVars, workerVars, token, loaded, attempts, retried, got, fired>>
    BY DEF CheckLock, RefreshInv, CallsInv, PCs
  <2>2. \/ pc' = [pc EXCEPT ![c] = "follow"] /\ tries' = tries
        \/ pc' = [pc EXCEPT ![c] = "lease"] /\ tries' = [tries EXCEPT ![c] = 0]
    BY DEF CheckLock, Goto
  <2>3. pc'[c] = s /\ pc \in [Calls -> PCs]
    BY <1>1, <2>1 DEF Goto, TypeOK
  <2>4. CASE pc' = [pc EXCEPT ![c] = "follow"] /\ tries' = tries
    BY <2>1, <2>3, <2>4
  <2>5. CASE pc' = [pc EXCEPT ![c] = "lease"] /\ tries' = [tries EXCEPT ![c] = 0]
    BY <2>1, <2>3, <2>5
  <2> QED
    BY <2>2, <2>4, <2>5
<1>3. follows' \in [Calls -> Calls \cup {NoCall}]
  <2>1. follows' = follows \/ \E p \in Calls : follows' = [follows EXCEPT ![c] = Root(p)]
    BY <1>2, CallsAssumption DEF CheckLock, TypeOK
  <2>2. \A p \in Calls : Root(p) \in Calls
    BY <1>2 DEF Root, TypeOK
  <2>3. follows \in [Calls -> Calls \cup {NoCall}]
    BY <1>2 DEF TypeOK
  <2> QED
    BY <2>1, <2>2, <2>3
<1>4. pc'[c] = s
  BY <1>1, <1>2 DEF Goto, TypeOK
<1>5. /\ tries' \in [Calls -> 0..LeaseTries] /\ (s = "lease" => tries'[c] = 0)
      /\ \A d \in Calls \ {c} : tries'[d] = tries[d]
  BY <1>2, BoundsAssumption DEF TypeOK
<1>6. CallInv(c)'
  BY <1>2, <1>4, <1>5, BoundsAssumption DEF CallInv
<1>7. CallsInv' /\ CacheInv' /\ SingleFlight' /\ pc' \in [Calls -> PCs]
  BY <1>1, <1>2, <1>5, <1>6, OneCall DEF workerVars
<1>8. TypeOK'
  BY <1>2, <1>3, <1>5, <1>7 DEF TypeOK, envVars, sharedVars, workerVars
<1> QED
  BY <1>7, <1>8 DEF RefreshInv

LEMMA TryLeaseKeeps ==
  ASSUME RefreshInv, NEW c \in Calls, TryLease(c)
  PROVE  RefreshInv'
<1>1. /\ TypeOK /\ CallInv(c) /\ pc[c] = "lease" /\ tries[c] \in 0..LeaseTries
      /\ tries[c] < LeaseTries /\ {"start", "lease"} \subseteq PCs \ {"upstream", "bare"}
      /\ UNCHANGED <<envVars, row, markers, doomed, workerVars,
                     token, loaded, attempts, retried, follows, got, fired>>
  BY DEF TryLease, RefreshInv, CallsInv, CallInv, PCs, TypeOK
<1>2. PICK s \in {"start", "lease"}, n \in 0..LeaseTries :
        /\ Goto(c, s) /\ tries' = [tries EXCEPT ![c] = n] /\ lease' \in {<<c, "inner">>, lease}
        /\ s = "lease" => n < LeaseTries
  <2>1. CASE lease = NoLease
    <3>1. tries' = [tries EXCEPT ![c] = tries[c]]
      BY <1>1, <2>1 DEF TryLease, TypeOK
    <3> QED
      BY <1>1, <2>1, <3>1 DEF TryLease
  <2>2. CASE lease # NoLease
    <3>1. /\ tries[c] + 1 \in 0..LeaseTries
          /\ tries[c] + 1 # LeaseTries => tries[c] + 1 < LeaseTries
      BY <1>1, BoundsAssumption
    <3>2. /\ tries' = [tries EXCEPT ![c] = tries[c] + 1] /\ lease' = lease
          /\ Goto(c, IF tries[c] + 1 = LeaseTries THEN "start" ELSE "lease")
      BY <2>2 DEF TryLease
    <3> QED
      BY <3>1, <3>2
  <2> QED
    BY <2>1, <2>2
<1>3. /\ tries' \in [Calls -> 0..LeaseTries] /\ tries'[c] = n
      /\ \A d \in Calls \ {c} : tries'[d] = tries[d]
  BY <1>1, <1>2 DEF TypeOK
<1>4. pc'[c] = s
  BY <1>1, <1>2 DEF Goto, TypeOK
<1>5. CallInv(c)'
  BY <1>1, <1>2, <1>3, <1>4 DEF CallInv
<1>6. CallsInv' /\ CacheInv' /\ SingleFlight' /\ pc' \in [Calls -> PCs]
  BY <1>1, <1>2, <1>3, <1>5, OneCall DEF workerVars
<1>7. lease' \in (Calls \X Levels) \cup {NoLease}
  BY <1>1, <1>2, LeaseFacts DEF TypeOK
<1>8. TypeOK'
  BY <1>1, <1>3, <1>6, <1>7 DEF TypeOK, envVars, workerVars
<1> QED
  BY <1>6, <1>8 DEF RefreshInv

\* What a result uses up of the attempts of refreshWithRetry.
LEMMA CountedType ==
  ASSUME TypeOK, NEW group \in SUBSET Calls, NEW o \in Outcomes, Counted(group, o)
  PROVE  attempts' \in [Calls -> 0..(RefreshTries - 1)]
<1>1. ASSUME NEW c \in Calls
      PROVE  (IF c \in group /\ Repeats(c, o) THEN attempts[c] + 1 ELSE attempts[c])
               \in 0..(RefreshTries - 1)
  <2>1. attempts[c] \in 0..(RefreshTries - 1)
    BY DEF TypeOK
  <2> QED
    BY <2>1, BoundsAssumption DEF Repeats
<1> QED
  BY <1>1 DEF Counted

\* The settling of a promise, for whatever calls of a worker wait for it.
LEMMA SettleKeeps ==
  ASSUME RefreshInv, NEW w \in Workers, NEW group \in SUBSET Calls, NEW p \in Pairs,
         NEW o \in Outcomes, o = "renewed" => p < MaxPairs,
         \A c \in group : pc[c] \in {"start", "upstream", "follow"},
         Settle(w, group, p, o),
         UNCHANGED <<token, tries, retried, fired>>
  PROVE  /\ CallsInv' /\ SingleFlight'
         /\ pc' \in [Calls -> PCs] /\ got' \in [Calls -> Pairs \cup {NoPair}]
         /\ follows' \in [Calls -> Calls \cup {NoCall}]
         /\ pending' \in [Workers -> Calls \cup {NoCall}]
         /\ lease' \in (Calls \X Levels) \cup {NoLease}
         /\ attempts' \in [Calls -> 0..(RefreshTries - 1)]
<1>1. /\ pc' = [c \in Calls |-> IF c \in group THEN AfterResult(c, o) ELSE pc[c]]
      /\ got' = [c \in Calls |-> IF c \in group /\ o = "renewed" THEN p + 1 ELSE got[c]]
      /\ follows' = [c \in Calls |-> IF c \in group THEN NoCall ELSE follows[c]]
      /\ pending' = [pending EXCEPT ![w] = NoCall]
      /\ lease' \in {NoLease, lease}
  BY DEF Settle
<1>2. TypeOK
  BY DEF RefreshInv
<1>3. /\ got' \in [Calls -> Pairs \cup {NoPair}]
      /\ follows' \in [Calls -> Calls \cup {NoCall}]
      /\ pending' \in [Workers -> Calls \cup {NoCall}]
      /\ lease' \in (Calls \X Levels) \cup {NoLease}
  BY <1>1, <1>2, PairFacts DEF TypeOK
<1>4. ASSUME NEW c \in group
      PROVE  /\ pc'[c] \in {"persist", "check", "done", "mark", "grace", "finish"}
             /\ pc'[c] = "persist" => o = "renewed"
             /\ pc'[c] = "grace" => ~retried[c] /\ c \notin Direct
             /\ pc'[c] = "check" => c \in Direct
  BY <1>1, <1>2, ResultPlace DEF TypeOK
<1>5. ASSUME NEW c \in Calls \ group PROVE pc'[c] = pc[c] /\ got'[c] = got[c]
  BY <1>1
<1>6. pc' \in [Calls -> PCs]
  <2>1. \A c \in Calls : pc'[c] \in PCs
    BY <1>2, <1>4, <1>5 DEF TypeOK, PCs
  <2> QED
    BY <1>1, <2>1
<1>7. CallsInv'
  <2>1. ASSUME NEW c \in group PROVE CallInv(c)'
    <3>1. CallInv(c) /\ pc[c] \in {"start", "upstream", "follow"}
      BY DEF RefreshInv, CallsInv
    <3>2. pc'[c] = "persist" => got'[c] \in Pairs
      BY <1>1, <1>4, PairFacts
    <3> QED
      BY <1>4, <3>1, <3>2 DEF CallInv
  <2>2. ASSUME NEW c \in Calls \ group PROVE CallInv(c)'
    BY <1>5, <2>2 DEF RefreshInv, CallsInv, CallInv
  <2> QED
    BY <2>1, <2>2 DEF CallsInv
<1>8. SingleFlight'
  BY <1>4, <1>5 DEF RefreshInv, SingleFlight, Asking
<1>9. attempts' \in [Calls -> 0..(RefreshTries - 1)]
  BY <1>2, CountedType DEF Settle
<1> QED
  BY <1>3, <1>6, <1>7, <1>8, <1>9

\* Single flight: nobody of the worker is upstream with the token that is sent.
LEMMA StartKeeps ==
  ASSUME RefreshInv, NEW c \in Calls, Start(c)
  PROVE  RefreshInv'
<1> DEFINE w == WorkerOf[c]
           same == {q \in Calls : WorkerOf[q] = w /\ pc[q] = "upstream" /\ token[q] = token[c]}
<1>1. /\ TypeOK /\ CallInv(c) /\ pc[c] = "start" /\ w \in Workers /\ token[c] \in Pairs
      /\ UNCHANGED <<envVars, row, markers, doomed, recent, backoff, token, loaded, tries, retried>>
  BY CallsAssumption DEF Start, RefreshInv, CallsInv, TypeOK
<1>2. CASE recent[w][token[c]] # "none"
  <2>1. Settle(w, {c}, token[c], recent[w][token[c]]) /\ UNCHANGED fired
    BY <1>2 DEF Start
  <2>2. recent[w][token[c]] \in Outcomes
    BY <1>1, <1>2 DEF TypeOK
  <2>3. recent[w][token[c]] = "renewed" => token[c] < MaxPairs
    BY <1>1 DEF RefreshInv, CacheInv
  <2>4. /\ CallsInv' /\ SingleFlight'
        /\ pc' \in [Calls -> PCs] /\ got' \in [Calls -> Pairs \cup {NoPair}]
        /\ follows' \in [Calls -> Calls \cup {NoCall}]
        /\ pending' \in [Workers -> Calls \cup {NoCall}]
        /\ lease' \in (Calls \X Levels) \cup {NoLease}
        /\ attempts' \in [Calls -> 0..(RefreshTries - 1)]
    <3>1. {c} \in SUBSET Calls /\ \A d \in {c} : pc[d] \in {"start", "upstream", "follow"}
      BY <1>1
    <3>2. UNCHANGED <<token, tries, retried, fired>>
      BY <1>1, <2>1
    <3> HIDE DEF w
    <3> QED
      BY <1>1, <2>1, <2>2, <2>3, <3>1, <3>2, SettleKeeps
  <2>5. TypeOK'
    BY <1>1, <2>1, <2>4 DEF TypeOK, envVars
  <2>6. CacheInv'
    BY <1>1 DEF RefreshInv, CacheInv
  <2> QED
    BY <2>4, <2>5, <2>6 DEF RefreshInv
<1>3. CASE recent[w][token[c]] = "none" /\ same # {}
  <2>1. PICK q \in Calls : follows' = [follows EXCEPT ![c] = q]
    BY <1>3 DEF Start
  <2>2. /\ Goto(c, "follow") /\ pending' = [pending EXCEPT ![w] = c]
        /\ UNCHANGED <<lease, got, attempts, fired>>
    BY <1>3 DEF Start
  <2>3. pc'[c] = "follow" /\ "follow" \in PCs \ {"upstream", "bare"}
    BY <1>1, <2>2 DEF Goto, TypeOK, PCs
  <2>4. CallInv(c)'
    BY <1>1, <2>2, <2>3 DEF CallInv
  <2>5. CallsInv' /\ CacheInv' /\ SingleFlight' /\ pc' \in [Calls -> PCs]
    BY <1>1, <2>2, <2>3, <2>4, OneCall
  <2>6. /\ follows' \in [Calls -> Calls \cup {NoCall}]
        /\ pending' \in [Workers -> Calls \cup {NoCall}]
    BY <1>1, <2>1, <2>2 DEF TypeOK
  <2>7. TypeOK'
    BY <1>1, <2>2, <2>5, <2>6 DEF TypeOK, envVars
  <2> QED
    BY <2>5, <2>7 DEF RefreshInv
<1>4. CASE recent[w][token[c]] = "none" /\ same = {}
  <2>1. /\ pc' = [pc EXCEPT ![c] = "upstream"] /\ pending' = [pending EXCEPT ![w] = c]
        /\ fired' = [fired EXCEPT ![c] = fired[c] \cup {token[c]}]
        /\ UNCHANGED <<lease, got, attempts, follows>>
    BY <1>4 DEF Start, Goto
  <2>2. /\ pc' \in [Calls -> PCs] /\ pc'[c] = "upstream"
        /\ fired' \in [Calls -> SUBSET Pairs] /\ fired'[c] = fired[c] \cup {token[c]}
        /\ pending' \in [Workers -> Calls \cup {NoCall}]
        /\ \A d \in Calls \ {c} : pc'[d] = pc[d] /\ fired'[d] = fired[d]
    BY <1>1, <2>1 DEF TypeOK, PCs
  <2>3. TypeOK'
    BY <1>1, <2>1, <2>2 DEF TypeOK, envVars
  <2>4. CallsInv'
    <3>1. CallInv(c)'
      BY <1>1, <2>2 DEF CallInv
    <3>2. ASSUME NEW d \in Calls \ {c} PROVE CallInv(d)'
      BY <1>1, <2>1, <2>2, <3>2 DEF RefreshInv, CallsInv, CallInv
    <3> QED
      BY <3>1, <3>2 DEF CallsInv
  <2>5. SingleFlight'
    <3>1. ASSUME NEW d \in Calls \ {c}, Asking(d), WorkerOf[d] = WorkerOf[c], token[d] = token[c]
          PROVE  d \in Bare
      BY <1>4, <3>1 DEF Asking, RefreshInv, CallsInv, CallInv
    <3>2. \A d \in Calls \ {c} : Asking(d)' => Asking(d)
      BY <2>2 DEF Asking
    <3> QED
      BY <1>1, <3>1, <3>2 DEF RefreshInv, SingleFlight
  <2>6. CacheInv'
    BY <1>1 DEF RefreshInv, CacheInv
  <2> QED
    BY <2>3, <2>4, <2>5, <2>6 DEF RefreshInv
<1> QED
  BY <1>2, <1>3, <1>4

LEMMA AnswerKeeps ==
  ASSUME RefreshInv, NEW c \in Calls, Renewed(c) \/ Rejected(c) \/ Failed(c), pc[c] = "upstream"
  PROVE  RefreshInv'
<1> DEFINE w == WorkerOf[c]
           group == {c} \cup {q \in Calls : pc[q] = "follow" /\ follows[q] = c}
<1>1. PICK o \in Outcomes : Answer(c, o) /\ (o = "renewed" => Current(c))
  BY DEF Renewed, Rejected, Failed, Outcomes, BareAnswer
<1>2. /\ TypeOK /\ pc[c] = "upstream" /\ w \in Workers /\ token[c] \in Pairs
      /\ recent' = [recent EXCEPT ![w][token[c]] = o]
      /\ Settle(w, group, token[c], o)
      /\ UNCHANGED <<row, markers, doomed, access, revoked,
                     backoff, token, loaded, tries, retried, fired>>
  BY <1>1, CallsAssumption DEF Answer, RefreshInv, TypeOK
<1>3. o = "renewed" => token[c] < MaxPairs
  BY <1>1 DEF Current
<1>4. /\ CallsInv' /\ SingleFlight'
      /\ pc' \in [Calls -> PCs] /\ got' \in [Calls -> Pairs \cup {NoPair}]
      /\ follows' \in [Calls -> Calls \cup {NoCall}]
      /\ pending' \in [Workers -> Calls \cup {NoCall}]
      /\ lease' \in (Calls \X Levels) \cup {NoLease}
      /\ attempts' \in [Calls -> 0..(RefreshTries - 1)]
  <2>1. group \in SUBSET Calls /\ \A d \in group : pc[d] \in {"start", "upstream", "follow"}
    BY <1>2
  <2> HIDE DEF group
  <2> QED
    BY <1>2, <1>3, <2>1, SettleKeeps
<1>5. /\ recent' \in [Workers -> [Pairs -> Outcomes \cup {"none"}]]
      /\ CacheInv'
  <2>1. recent' \in [Workers -> [Pairs -> Outcomes \cup {"none"}]]
    BY <1>2 DEF TypeOK
  <2>2. ASSUME NEW v \in Workers, NEW p \in Pairs, recent'[v][p] = "renewed" PROVE p < MaxPairs
    <3>1. CASE v = w /\ p = token[c]
      BY <1>2, <1>3, <2>2, <3>1 DEF TypeOK
    <3>2. CASE ~(v = w /\ p = token[c])
      <4>1. recent'[v][p] = recent[v][p]
        BY <1>2, <3>2 DEF TypeOK
      <4> QED
        BY <2>2, <4>1 DEF RefreshInv, CacheInv
    <3> QED
      BY <3>1, <3>2
  <2> QED
    BY <2>1, <2>2 DEF CacheInv
<1>6. issued' \in Pairs
  BY <1>2, PairFacts DEF Renewed, Rejected, Failed, Current, TypeOK
<1>7. lost' \in BOOLEAN
  BY <1>2 DEF Renewed, Rejected, Failed, TypeOK
<1>8. TypeOK'
  BY <1>2, <1>4, <1>5, <1>6, <1>7 DEF TypeOK
<1> QED
  BY <1>4, <1>5, <1>8 DEF RefreshInv

\* A bare call sends its token when it is ready, whatever else is under way.
LEMMA SendKeeps ==
  ASSUME RefreshInv, NEW c \in Calls, Send(c)
  PROVE  RefreshInv'
<1>1. /\ TypeOK /\ CallInv(c) /\ pc[c] = "check" /\ c \in Bare /\ token[c] \in Pairs
      /\ pc' = [pc EXCEPT ![c] = "bare"] /\ fired' = [fired EXCEPT ![c] = fired[c] \cup {token[c]}]
      /\ UNCHANGED <<envVars, sharedVars, workerVars,
                     token, loaded, tries, attempts, retried, follows, got>>
  BY DEF Send, Goto, RefreshInv, CallsInv, TypeOK
<1>2. /\ pc' \in [Calls -> PCs] /\ pc'[c] = "bare" /\ fired' \in [Calls -> SUBSET Pairs]
      /\ \A d \in Calls \ {c} : pc'[d] = pc[d] /\ fired'[d] = fired[d]
  BY <1>1 DEF TypeOK, PCs
<1>3. CallsInv'
  <2>1. CallInv(c)'
    BY <1>1, <1>2 DEF CallInv
  <2>2. ASSUME NEW d \in Calls \ {c} PROVE CallInv(d)'
    BY <1>1, <1>2, <2>2 DEF RefreshInv, CallsInv, CallInv
  <2> QED
    BY <2>1, <2>2 DEF CallsInv
<1>4. SingleFlight'
  BY <1>1, <1>2 DEF RefreshInv, SingleFlight, Asking
<1>5. CacheInv'
  BY <1>1 DEF RefreshInv, CacheInv, workerVars
<1>6. TypeOK'
  BY <1>1, <1>2 DEF TypeOK, envVars, sharedVars, workerVars
<1> QED
  BY <1>3, <1>4, <1>5, <1>6 DEF RefreshInv

\* The answer to a bare request concerns its call alone.
LEMMA BareAnswerKeeps ==
  ASSUME RefreshInv, NEW c \in Calls, Renewed(c) \/ Rejected(c) \/ Failed(c), pc[c] # "upstream"
  PROVE  RefreshInv'
<1>1. PICK o \in Outcomes : BareAnswer(c, o) /\ (o = "renewed" => Current(c))
  BY DEF Renewed, Rejected, Failed, Outcomes, Answer
<1>2. /\ TypeOK /\ CallInv(c) /\ pc[c] = "bare" /\ c \in Bare /\ token[c] \in Pairs
      /\ Goto(c, AfterResult(c, o))
      /\ got' = [got EXCEPT ![c] = IF o = "renewed" THEN token[c] + 1 ELSE @]
      /\ Counted({c}, o)
      /\ UNCHANGED <<sharedVars, workerVars, access, revoked,
                     token, loaded, tries, retried, follows, fired>>
  BY <1>1 DEF BareAnswer, RefreshInv, CallsInv, CallInv, TypeOK
<1>3. /\ AfterResult(c, o) \in {"persist", "check", "done", "mark", "grace", "finish"}
      /\ AfterResult(c, o) = "persist" => o = "renewed"
      /\ AfterResult(c, o) = "grace" => c \notin Direct
  BY <1>2, ResultPlace DEF TypeOK
<1>4. o = "renewed" => token[c] + 1 \in Pairs
  BY <1>1, <1>2, PairFacts DEF Current, Pairs
<1>5. /\ got' \in [Calls -> Pairs \cup {NoPair}] /\ (o = "renewed" => got'[c] \in Pairs)
      /\ \A d \in Calls \ {c} : got'[d] = got[d]
  BY <1>2, <1>4 DEF TypeOK
<1>6. /\ pc'[c] = AfterResult(c, o) /\ c \in Direct
      /\ AfterResult(c, o) \in PCs \ {"upstream", "bare"}
  BY <1>2, <1>3, CallsAssumption DEF Goto, TypeOK, PCs
<1>7. CallInv(c)'
  BY <1>2, <1>3, <1>5, <1>6 DEF CallInv
<1>8. CallsInv' /\ CacheInv' /\ SingleFlight' /\ pc' \in [Calls -> PCs]
  BY <1>2, <1>5, <1>6, <1>7, OneCall DEF workerVars
<1>9. attempts' \in [Calls -> 0..(RefreshTries - 1)]
  BY <1>2, CountedType
<1>10. issued' \in Pairs /\ lost' \in BOOLEAN
  BY <1>2, PairFacts DEF Renewed, Rejected, Failed, Current, TypeOK
<1>11. TypeOK'
  BY <1>2, <1>5, <1>8, <1>9, <1>10 DEF TypeOK, sharedVars, workerVars
<1> QED
  BY <1>8, <1>11 DEF RefreshInv

LEMMA GraceKeeps ==
  ASSUME RefreshInv, NEW c \in Calls, Grace(c)
  PROVE  RefreshInv'
<1>1. /\ TypeOK /\ CallInv(c) /\ pc[c] = "grace" /\ {"check", "mark"} \subseteq PCs \ {"upstream", "bare"}
      /\ UNCHANGED <<envVars, sharedVars, workerVars, loaded, tries, attempts, follows, got, fired>>
  BY DEF Grace, RefreshInv, CallsInv, PCs
<1>2. CASE Fresher(c)
  <2>1. /\ token' = [token EXCEPT ![c] = row.token] /\ retried' = [retried EXCEPT ![c] = TRUE]
        /\ Goto(c, "check")
    BY <1>2 DEF Grace
  <2>2. /\ token' \in [Calls -> Pairs] /\ token'[c] = row.token /\ row.token # token[c]
        /\ retried' \in [Calls -> BOOLEAN] /\ retried'[c] = TRUE
        /\ \A d \in Calls \ {c} : token'[d] = token[d] /\ retried'[d] = retried[d]
    BY <1>1, <1>2, <2>1, BoundsAssumption DEF TypeOK, Fresher
  <2>3. pc'[c] = "check"
    BY <1>1, <2>1 DEF Goto, TypeOK
  <2>4. CallInv(c)'
    BY <1>1, <2>2, <2>3 DEF CallInv
  <2>5. CallsInv' /\ CacheInv' /\ SingleFlight' /\ pc' \in [Calls -> PCs]
    BY <1>1, <2>1, <2>2, <2>4, OneCall DEF workerVars
  <2>6. TypeOK'
    BY <1>1, <2>2, <2>5 DEF TypeOK, envVars, sharedVars, workerVars
  <2> QED
    BY <2>5, <2>6 DEF RefreshInv
<1>3. CASE ~Fresher(c)
  <2>1. Goto(c, "mark") /\ UNCHANGED <<token, retried>>
    BY <1>3 DEF Grace
  <2>2. pc'[c] = "mark"
    BY <1>1, <2>1 DEF Goto, TypeOK
  <2>3. CallInv(c)'
    BY <1>1, <2>1, <2>2 DEF CallInv
  <2>4. CallsInv' /\ CacheInv' /\ SingleFlight' /\ pc' \in [Calls -> PCs]
    BY <1>1, <2>1, <2>3, OneCall DEF workerVars
  <2>5. TypeOK'
    BY <1>1, <2>1, <2>4 DEF TypeOK, envVars, sharedVars, workerVars
  <2> QED
    BY <2>4, <2>5 DEF RefreshInv
<1> QED
  BY <1>2, <1>3

\* A pair is written to the row only where there is one.
LEMMA PersistKeeps ==
  ASSUME RefreshInv, NEW c \in Calls, Persist(c)
  PROVE  RefreshInv'
<1>1. PICK s \in {"finish", "done"} : Goto(c, s)
  BY DEF Persist, Ending
<1>2. /\ TypeOK /\ CallInv(c) /\ pc[c] = "persist" /\ s \in PCs \ {"upstream", "bare"}
      /\ row' = [row EXCEPT !.token = IF row.present THEN got[c] ELSE @,
                            !.blocked = IF row.present /\ ReturnsData THEN FALSE ELSE @]
      /\ UNCHANGED <<envVars, lease, markers, doomed, workerVars,
                     token, loaded, tries, attempts, retried, follows, got, fired>>
  BY DEF Persist, RefreshInv, CallsInv, PCs
<1>3. row' \in [present : BOOLEAN, token : Pairs, blocked : BOOLEAN]
  <2>1. got[c] \in Pairs
    BY <1>2 DEF CallInv
  <2> QED
    BY <1>2, <2>1 DEF TypeOK
<1>4. pc'[c] = s
  BY <1>1, <1>2 DEF Goto, TypeOK
<1>5. CallInv(c)'
  BY <1>2, <1>4 DEF CallInv
<1>6. CallsInv' /\ CacheInv' /\ SingleFlight' /\ pc' \in [Calls -> PCs]
  BY <1>1, <1>2, <1>5, OneCall DEF workerVars
<1>7. TypeOK'
  BY <1>2, <1>3, <1>6 DEF TypeOK, envVars, workerVars
<1> QED
  BY <1>6, <1>7 DEF RefreshInv

\* Mark, Finish, Judge and Release: the way to the end of a call.
LEMMA EndingKeeps ==
  ASSUME RefreshInv, NEW c \in Calls, Mark(c) \/ Finish(c) \/ Judge(c) \/ Release(c)
  PROVE  RefreshInv'
<1>1. PICK s \in {"judge", "release", "done"} : Goto(c, s)
  BY DEF Mark, Finish, Judge, Release
<1>2. /\ TypeOK /\ CallInv(c) /\ s \in PCs \ {"upstream", "bare"}
      /\ UNCHANGED <<envVars, doomed, pending, recent,
                     token, loaded, tries, attempts, retried, follows, got, fired>>
  BY DEF Mark, Finish, Judge, Release, RefreshInv, CallsInv, PCs, sharedVars, workerVars
<1>3. row' \in [present : BOOLEAN, token : Pairs, blocked : BOOLEAN]
  BY <1>2 DEF Mark, Finish, Judge, Release, sharedVars, TypeOK
<1>4. backoff' \in [Workers -> BOOLEAN]
  BY <1>2 DEF Mark, Finish, Judge, Release, workerVars, TypeOK
<1>5. markers' \subseteq Calls /\ lease' \in (Calls \X Levels) \cup {NoLease}
  BY <1>2 DEF Mark, Finish, Judge, Release, sharedVars, TypeOK
<1>6. pc'[c] = s
  BY <1>1, <1>2 DEF Goto, TypeOK
<1>7. CallInv(c)'
  BY <1>2, <1>6 DEF CallInv
<1>8. CallsInv' /\ CacheInv' /\ SingleFlight' /\ pc' \in [Calls -> PCs]
  BY <1>1, <1>2, <1>7, OneCall
<1>9. TypeOK'
  BY <1>2, <1>3, <1>4, <1>5, <1>8 DEF TypeOK, envVars
<1> QED
  BY <1>8, <1>9 DEF RefreshInv

---------------------------------------------------------------------------
(* What no call does.                                                       *)

LEMMA EnvironmentKeeps ==
  ASSUME RefreshInv, Environment \/ \E c \in Calls : MarkLands(c)
  PROVE  RefreshInv'
<1>1. TypeOK
  BY DEF RefreshInv
<1>2. ASSUME NEW p \in Pairs, Age(p) PROVE RefreshInv'
  <2>1. TypeOK'
    BY <1>1, <1>2 DEF Age, TypeOK, sharedVars, workerVars, callVars
  <2> QED
    BY <1>2, <2>1
    DEF Age, RefreshInv, CallsInv, CallInv, CacheInv, SingleFlight, Asking, workerVars, callVars
<1>3. CASE Revoke \/ LeaseExpires \/ SweepSelects \/ SweepDeletes \/ \E c \in Calls : MarkLands(c)
  <2>1. /\ UNCHANGED <<workerVars, callVars, access, issued, lost>>
        /\ revoked' \in BOOLEAN /\ doomed' \in BOOLEAN
    BY <1>1, <1>3
    DEF Revoke, LeaseExpires, SweepSelects, SweepDeletes, MarkLands, TypeOK, envVars, sharedVars
  <2>2. /\ row' \in [present : BOOLEAN, token : Pairs, blocked : BOOLEAN]
        /\ lease' \in (Calls \X Levels) \cup {NoLease} /\ markers' \subseteq Calls
    BY <1>1, <1>3
    DEF Revoke, LeaseExpires, SweepSelects, SweepDeletes, MarkLands, TypeOK, sharedVars
  <2>3. TypeOK'
    BY <1>1, <2>1, <2>2 DEF TypeOK, workerVars, callVars
  <2> QED
    BY <2>1, <2>3 DEF RefreshInv, CallsInv, CallInv, CacheInv, SingleFlight, Asking, workerVars, callVars
<1>4. ASSUME NEW w \in Workers, NEW p \in Pairs, Forget(w, p) PROVE RefreshInv'
  <2>1. /\ recent' = [recent EXCEPT ![w][p] = "none"]
        /\ UNCHANGED <<envVars, sharedVars, pending, backoff, callVars>>
    BY <1>4 DEF Forget
  <2>2. /\ recent' \in [Workers -> [Pairs -> Outcomes \cup {"none"}]]
        /\ \A v \in Workers, q \in Pairs : recent'[v][q] \in {"none", recent[v][q]}
    BY <1>1, <2>1 DEF TypeOK
  <2>3. TypeOK'
    BY <1>1, <2>1, <2>2 DEF TypeOK, envVars, sharedVars, callVars
  <2>4. CacheInv'
    BY <2>2 DEF RefreshInv, CacheInv
  <2>5. CallsInv' /\ SingleFlight'
    BY <2>1 DEF RefreshInv, CallsInv, CallInv, SingleFlight, Asking, callVars
  <2> QED
    BY <2>3, <2>4, <2>5 DEF RefreshInv
<1>5. ASSUME NEW w \in Workers, BackoffElapses(w) PROVE RefreshInv'
  <2>1. TypeOK'
    BY <1>1, <1>5 DEF BackoffElapses, TypeOK, envVars, sharedVars, callVars
  <2> QED
    BY <1>5, <2>1
    DEF BackoffElapses, RefreshInv, CallsInv, CallInv, CacheInv, SingleFlight, Asking, callVars
<1>6. ASSUME NEW w \in Workers, Crash(w) PROVE RefreshInv'
  <2>1. /\ UNCHANGED <<row, lease, doomed, access, issued, revoked,
                       token, loaded, tries, attempts, retried, got, fired>>
        /\ recent' = [recent EXCEPT ![w] = [p \in Pairs |-> "none"]]
        /\ \A c \in Calls : pc'[c] \in {"dead", pc[c]}
    BY <1>6 DEF Crash
  <2>2. pc' \in [Calls -> PCs] /\ follows' \in [Calls -> Calls \cup {NoCall}]
    BY <1>1, <1>6 DEF Crash, TypeOK, PCs
  <2>3. /\ markers' \subseteq Calls /\ pending' \in [Workers -> Calls \cup {NoCall}]
        /\ backoff' \in [Workers -> BOOLEAN]
    BY <1>1, <1>6 DEF Crash, TypeOK
  <2>4. lost' \in BOOLEAN
    BY <1>1, <1>6 DEF Crash, TypeOK
  <2>5. /\ recent' \in [Workers -> [Pairs -> Outcomes \cup {"none"}]]
        /\ \A v \in Workers, q \in Pairs : recent'[v][q] \in {"none", recent[v][q]}
    BY <1>1, <2>1 DEF TypeOK
  <2>6. TypeOK'
    BY <1>1, <2>1, <2>2, <2>3, <2>4, <2>5 DEF TypeOK
  <2>7. CacheInv'
    BY <2>5 DEF RefreshInv, CacheInv
  <2>8. CallsInv'
    BY <2>1 DEF RefreshInv, CallsInv, CallInv
  <2>9. SingleFlight'
    BY <2>1 DEF RefreshInv, SingleFlight, Asking
  <2> QED
    BY <2>6, <2>7, <2>8, <2>9 DEF RefreshInv
<1> QED
  BY <1>2, <1>3, <1>4, <1>5, <1>6 DEF Environment

\* Every step keeps the invariant.
LEMMA RefreshKept ==
  ASSUME RefreshInv, [Next]_vars
  PROVE  RefreshInv'
<1>1. CASE Environment
  BY <1>1, EnvironmentKeeps
<1>2. ASSUME NEW c \in Calls, Load(c) PROVE RefreshInv'
  BY <1>2, LoadKeeps
<1>3. ASSUME NEW c \in Calls, Run(c) PROVE RefreshInv'
  BY <1>3, OuterLeaseKeeps, AdoptKeeps, CheckLockKeeps, TryLeaseKeeps, StartKeeps, SendKeeps,
     AnswerKeeps, BareAnswerKeeps, GraceKeeps, PersistKeeps, EndingKeeps DEF Run
<1>4. ASSUME NEW c \in Calls, MarkLands(c) PROVE RefreshInv'
  BY <1>4, EnvironmentKeeps
<1>5. CASE UNCHANGED vars
  BY <1>5 DEF vars, envVars, sharedVars, workerVars, callVars,
              RefreshInv, TypeOK, CallsInv, CallInv, CacheInv, SingleFlight, Asking
<1> QED
  BY <1>1, <1>2, <1>3, <1>4, <1>5 DEF Next

---------------------------------------------------------------------------
(* The theorems.                                                            *)

\* The invariant holds of every behaviour, whatever the switches say.
THEOREM RefreshInvariant == Spec => []RefreshInv
<1>1. RefreshInv /\ [Next]_vars => RefreshInv'
  BY RefreshKept
<1> QED
  BY InitRefreshInv, <1>1, PTL DEF Spec

\* The row, the lease, the memories of the workers and the calls have their types:
\* a call writes only a pair that some answer brought, and no call tries the lease too often
\* (tokenRefresh.js, oauthCredentialManager.js).
THEOREM TypeCorrect == Spec => []TypeOK
<1>1. RefreshInv => TypeOK
  BY DEF RefreshInv
<1> QED
  BY <1>1, RefreshInvariant, PTL

\* Through the lock one worker never sends a token twice at once (dedup.js), though
\* the check of refreshLocks and its setting lie on two sides of an await and the
\* 401 path repeats; only a bare request may have a twin.
THEOREM OneRefreshPerToken == Spec => []SingleFlight
<1>1. RefreshInv => SingleFlight
  BY DEF RefreshInv
<1> QED
  BY <1>1, RefreshInvariant, PTL

\* A run of checkAndRefreshToken never sends a token that it sent before
\* (tokenRefresh.js:377-378): by CallInv, where it may send one it has not sent the
\* one it holds.
THEOREM RetriesDiffer == Spec => RetryUsesAnotherToken
<1>1. RefreshInv /\ [Next]_vars
        => [\A c \in Calls \ Direct : ~Asking(c) /\ Asking(c)' => token[c] \notin fired[c]]_vars
  <2> SUFFICES ASSUME RefreshInv, Next, NEW c \in Calls \ Direct, ~Asking(c), Asking(c)'
               PROVE  token[c] \notin fired[c]
    BY DEF vars
  <2>1. TypeOK /\ CallInv(c) /\ c \notin Bare /\ pc[c] \notin {"upstream", "bare"}
    BY CallsAssumption DEF RefreshInv, CallsInv, Asking
  <2>2. pc[c] = "start"
    <3>1. ASSUME Environment \/ \E d \in Calls : MarkLands(d) PROVE FALSE
      <4>1. pc' = pc \/ \E w \in Workers : Crash(w)
        BY <3>1
        DEF Environment, Age, Revoke, LeaseExpires, SweepSelects, SweepDeletes, BackoffElapses,
            Forget, MarkLands, callVars
      <4>2. ASSUME NEW w \in Workers, Crash(w) PROVE pc'[c] \in {"dead", pc[c]}
        BY <4>2 DEF Crash
      <4> QED
        BY <2>1, <4>1, <4>2 DEF Asking
    <3>2. PICK d \in Calls : Load(d) \/ Run(d)
      BY <3>1 DEF Next
    <3>3. CASE Renewed(d) \/ Rejected(d) \/ Failed(d)
      <4>1. PICK o \in Outcomes : Answer(d, o) \/ BareAnswer(d, o)
        BY <3>3 DEF Renewed, Rejected, Failed, Outcomes
      <4>2. pc'[c] = pc[c] \/ pc'[c] = AfterResult(c, o)
        BY <2>1, <4>1 DEF Answer, BareAnswer, Settle, Goto, TypeOK
      <4> QED
        BY <2>1, <4>2, ResultPlace DEF TypeOK, Asking
    <3>4. CASE (Start(d) /\ d # c) \/ Send(d)
      BY <2>1, <3>4 DEF Start, Send, Settle, Goto, TypeOK, Asking
    <3>5. CASE Start(d) /\ d = c
      BY <3>5 DEF Start
    <3>6. CASE Load(d) \/ OuterLease(d) \/ Adopt(d) \/ CheckLock(d) \/ TryLease(d)
      BY <2>1, <3>6
      DEF Load, LoadRequest, LoadTick, OuterLease, Adopt, CheckLock, TryLease, Goto, TypeOK, Asking
    <3>7. CASE Grace(d) \/ Persist(d) \/ Mark(d) \/ Finish(d) \/ Judge(d) \/ Release(d)
      BY <2>1, <3>7
      DEF Grace, Persist, Mark, Finish, Judge, Release, Goto, Ending, TypeOK, Asking
    <3> QED
      BY <3>2, <3>3, <3>4, <3>5, <3>6, <3>7 DEF Run
  <2> QED
    BY <2>1, <2>2 DEF CallInv
<1> QED
  BY <1>1, RefreshInvariant, PTL DEF Spec, RetryUsesAnotherToken

----------------------------------------------------------------------------
(* The newest pair.  Nobody can take a rotation back, and the code writes    *)
(* what a settled promise brought; whether that is the newest pair depends on*)
(* who settles when.  The conditions below say it of a state.                *)

\* No call is about to be served a renewal that settled before it asked.
NoReplay == \A c \in Calls : pc[c] = "start" => recent[WorkerOf[c]][token[c]] # "renewed"

\* Calls join only a refresh of the pair they hold.
JoinsOwn == \A c \in Calls : pc[c] = "follow" => token[follows[c]] = token[c]

\* The calls of one worker come one after the other.
Apart ==
  \A c, d \in Calls :
    WorkerOf[c] = WorkerOf[d] /\ pc[c] \notin Resting /\ pc[d] \notin Resting => c = d

\* While a call tries, the provider rotates at most once past the pair it loaded.
OneRotation ==
  \A c \in Calls :
    pc[c] \in {"check", "lease", "start", "upstream", "follow"} => issued <= loaded[c] + 1

\* Whoever is about to write the row holds the newest pair.
WriterInv ==
  /\ \A c \in Calls : pc[c] = "persist" => got[c] = issued
  /\ NewestPairKept

\* Steps that neither rotate, settle nor write.
Aside ==
  \/ \E p \in Pairs : Age(p)
  \/ Revoke \/ LeaseExpires \/ SweepSelects \/ SweepDeletes
  \/ \E w \in Workers : BackoffElapses(w) \/ \E p \in Pairs : Forget(w, p)
  \/ \E c \in Calls : \/ Load(c) \/ MarkLands(c)
                      \/ OuterLease(c) \/ Adopt(c) \/ CheckLock(c) \/ TryLease(c)
                      \/ Send(c) \/ Grace(c) \/ Mark(c) \/ Finish(c) \/ Judge(c) \/ Release(c)

\* Every step is one of five kinds.
LEMMA StepKinds ==
  ASSUME [Next]_vars
  PROVE  \/ Aside \/ UNCHANGED vars
         \/ \E c \in Calls : Start(c) \/ Persist(c) \/ Renewed(c) \/ Rejected(c) \/ Failed(c)
         \/ \E w \in Workers : Crash(w)
  BY DEF Next, Environment, Run, Aside

\* The pairs of the row and the provider, and those about to be written, stay.
SameWriters ==
  /\ row'.token = row.token /\ (row'.present => row.present)
  /\ UNCHANGED <<issued, lost, got>>
  /\ \A c \in Calls : pc'[c] = "persist" <=> pc[c] = "persist"

LEMMA AsideKeepsWriters ==
  ASSUME TypeOK, Aside \/ UNCHANGED vars
  PROVE  SameWriters
<1>1. row \in [present : BOOLEAN, token : Pairs, blocked : BOOLEAN] /\ pc \in [Calls -> PCs]
  BY DEF TypeOK
<1>2. CASE UNCHANGED vars
  BY <1>2 DEF SameWriters, vars, envVars, sharedVars, workerVars, callVars
<1>3. CASE \/ \E p \in Pairs : Age(p)
           \/ Revoke \/ LeaseExpires \/ SweepSelects \/ SweepDeletes
           \/ \E w \in Workers : BackoffElapses(w) \/ \E p \in Pairs : Forget(w, p)
           \/ \E c \in Calls : MarkLands(c)
  <2>1. UNCHANGED <<issued, lost, callVars>>
    BY <1>3
    DEF Age, Revoke, LeaseExpires, SweepSelects, SweepDeletes, BackoffElapses, Forget, MarkLands,
        envVars
  <2>2. row'.token = row.token /\ (row'.present => row.present)
    BY <1>1, <1>3
    DEF Age, Revoke, LeaseExpires, SweepSelects, SweepDeletes, BackoffElapses, Forget, MarkLands,
        sharedVars
  <2> QED
    BY <2>1, <2>2 DEF SameWriters, callVars
<1>4. ASSUME NEW c \in Calls, Load(c) \/ OuterLease(c) \/ Adopt(c) \/ CheckLock(c) \/ TryLease(c)
                              \/ Send(c) \/ Grace(c) \/ Mark(c) \/ Finish(c) \/ Judge(c)
                              \/ Release(c)
      PROVE  SameWriters
  <2>1. PICK s \in PCs \ {"persist"} : Goto(c, s) /\ pc[c] # "persist"
    BY <1>4
    DEF Load, LoadRequest, LoadTick, OuterLease, Adopt, CheckLock, TryLease, Send, Grace, Mark,
        Finish, Judge, Release, PCs
  <2>2. \A d \in Calls : pc'[d] = "persist" <=> pc[d] = "persist"
    BY <1>1, <2>1 DEF Goto
  <2>3. UNCHANGED <<issued, lost, got>>
    BY <1>4
    DEF Load, LoadRequest, LoadTick, OuterLease, Adopt, CheckLock, TryLease, Send, Grace, Mark,
        Finish, Judge, Release, envVars
  <2>4. row'.token = row.token /\ (row'.present => row.present)
    BY <1>1, <1>4
    DEF Load, LoadRequest, LoadTick, OuterLease, Adopt, CheckLock, TryLease, Send, Grace, Mark,
        Finish, Judge, Release, sharedVars
  <2> QED
    BY <2>2, <2>3, <2>4 DEF SameWriters
<1> QED
  BY <1>2, <1>3, <1>4 DEF Aside

\* A call waits for the row only after a rejection, and gives up only on the retry.
LEMMA ResultCause ==
  ASSUME NEW c \in Calls, retried[c] \in BOOLEAN, NEW o \in Outcomes
  PROVE  /\ AfterResult(c, o) = "grace" => o = "rejected"
         /\ AfterResult(c, o) = "mark" => retried[c] /\ o # "renewed"
<1>1. CASE o = "renewed"
  BY <1>1 DEF AfterResult, Repeats
<1>2. CASE o # "renewed" /\ c \in Direct
  BY <1>2 DEF AfterResult, Repeats
<1>3. CASE o # "renewed" /\ c \notin Direct /\ retried[c]
  BY <1>3 DEF AfterResult, Repeats
<1>4. CASE o = "rejected" /\ c \notin Direct /\ ~retried[c]
  BY <1>4 DEF AfterResult, Repeats
<1>5. CASE o = "failed" /\ c \notin Direct /\ ~retried[c]
  BY <1>5 DEF AfterResult, Repeats, Ending
<1> QED
  BY <1>1, <1>2, <1>3, <1>4, <1>5 DEF Outcomes

\* What the settling of a promise does to each call.
LEMMA SettleFacts ==
  ASSUME TypeOK, NEW w \in Workers, NEW group \in SUBSET Calls, NEW p \in Pairs,
         NEW o \in Outcomes, Settle(w, group, p, o), NEW c \in Calls
  PROVE  /\ c \notin group => pc'[c] = pc[c] /\ got'[c] = got[c] /\ follows'[c] = follows[c]
         /\ c \in group =>
              /\ pc'[c] \in {"persist", "check", "done", "mark", "grace", "finish"}
              /\ pc'[c] = "persist" <=> o = "renewed"
              /\ pc'[c] = "grace" => o = "rejected"
              /\ pc'[c] = "mark" => retried[c] /\ o # "renewed"
              /\ o = "renewed" => got'[c] = p + 1
              /\ o # "renewed" => got'[c] = got[c]
         /\ pending' = [pending EXCEPT ![w] = NoCall]
<1>1. retried[c] \in BOOLEAN
  BY DEF TypeOK
<1>2. /\ AfterResult(c, o) = "grace" => o = "rejected"
      /\ AfterResult(c, o) = "mark" => retried[c] /\ o # "renewed"
  BY <1>1, ResultCause
<1>3. c \in group => pc'[c] = AfterResult(c, o)
  BY DEF Settle
<1> QED
  BY <1>1, <1>2, <1>3, ResultPlace DEF Settle

\* An answer to the call, of the one kind or the other.
AnyAnswer(c, o) == Answer(c, o) \/ BareAnswer(c, o)

\* What the provider's answer may be.
LEMMA AnswerFacts ==
  ASSUME TypeOK, NEW c \in Calls, Renewed(c) \/ Rejected(c) \/ Failed(c)
  PROVE  \E o \in Outcomes :
           /\ AnyAnswer(c, o)
           /\ o = "renewed" => token[c] = issued /\ issued' = issued + 1 /\ lost' = lost
           /\ o = "rejected" => /\ token[c] # issued \/ revoked
                                /\ UNCHANGED <<issued, lost>>
           /\ o = "failed" => /\ Transient \/ BareAnswer(c, o)
                              /\ \/ UNCHANGED <<issued, lost>>
                                 \/ token[c] = issued /\ issued' = issued + 1 /\ lost'
<1>1. CASE Renewed(c)
  BY <1>1 DEF Renewed, Current, Outcomes, AnyAnswer
<1>2. CASE Rejected(c)
  BY <1>2 DEF Rejected, Outcomes, AnyAnswer
<1>3. CASE Failed(c)
  BY <1>3 DEF Failed, Current, Outcomes, AnyAnswer
<1> QED
  BY <1>1, <1>2, <1>3

\* The calls whose promise is the request of call c.
Waits(d, c) == d = c \/ (pc[c] = "upstream" /\ pc[d] = "follow" /\ follows[d] = c)

\* An answer moves the calls that wait for it, and no others.
LEMMA AnswerSettles ==
  ASSUME TypeOK, NEW c \in Calls, NEW o \in Outcomes, AnyAnswer(c, o), NEW d \in Calls
  PROVE  /\ ~Waits(d, c) => pc'[d] = pc[d] /\ got'[d] = got[d] /\ follows'[d] = follows[d]
         /\ Waits(d, c) =>
              /\ pc'[d] \in {"persist", "check", "done", "mark", "grace", "finish"}
              /\ pc'[d] = "persist" <=> o = "renewed"
              /\ pc'[d] = "grace" => o = "rejected"
              /\ pc'[d] = "mark" => retried[d] /\ o # "renewed"
              /\ o = "renewed" => got'[d] = token[c] + 1
              /\ o # "renewed" => got'[d] = got[d]
<1>1. CASE Answer(c, o)
  <2> DEFINE w == WorkerOf[c]
             group == {c} \cup {q \in Calls : pc[q] = "follow" /\ follows[q] = c}
             p == token[c]
  <2>1. w \in Workers /\ group \in SUBSET Calls /\ p \in Pairs /\ Settle(w, group, p, o)
    BY <1>1, CallsAssumption DEF TypeOK, Answer
  <2>2. d \in group <=> Waits(d, c)
    BY <1>1 DEF Waits, Answer
  <2> HIDE DEF w, group, p
  <2>3. /\ d \notin group => pc'[d] = pc[d] /\ got'[d] = got[d] /\ follows'[d] = follows[d]
        /\ d \in group =>
             /\ pc'[d] \in {"persist", "check", "done", "mark", "grace", "finish"}
             /\ pc'[d] = "persist" <=> o = "renewed"
             /\ pc'[d] = "grace" => o = "rejected"
             /\ pc'[d] = "mark" => retried[d] /\ o # "renewed"
             /\ o = "renewed" => got'[d] = p + 1
             /\ o # "renewed" => got'[d] = got[d]
        /\ pending' = [pending EXCEPT ![w] = NoCall]
    BY <2>1, SettleFacts
  <2> QED
    BY <2>2, <2>3 DEF p
<1>2. CASE BareAnswer(c, o)
  <2>1. /\ pc[c] = "bare" /\ pc' = [pc EXCEPT ![c] = AfterResult(c, o)] /\ follows' = follows
        /\ got' = [got EXCEPT ![c] = IF o = "renewed" THEN token[c] + 1 ELSE @]
    BY <1>2 DEF BareAnswer, Goto
  <2>2. Waits(d, c) <=> d = c
    BY <2>1 DEF Waits
  <2>3. /\ AfterResult(c, o) \in {"persist", "check", "done", "mark", "grace", "finish"}
        /\ AfterResult(c, o) = "persist" <=> o = "renewed"
        /\ AfterResult(c, o) = "grace" => o = "rejected"
        /\ AfterResult(c, o) = "mark" => retried[c] /\ o # "renewed"
    BY ResultPlace, ResultCause DEF TypeOK
  <2> QED
    BY <2>1, <2>2, <2>3 DEF TypeOK
<1> QED
  BY <1>1, <1>2 DEF AnyAnswer

\* A start is a settling from the cache for one call, or leaves results and writers
\* alone.
LEMMA StartFacts ==
  ASSUME RefreshInv, NEW c \in Calls, Start(c)
  PROVE  /\ pc[c] = "start" /\ WorkerOf[c] \in Workers /\ token[c] \in Pairs
         /\ UNCHANGED <<envVars, row, markers, doomed, recent, backoff, token, loaded, tries, retried>>
         /\ \A d \in Calls \ {c} : pc'[d] = pc[d] /\ got'[d] = got[d] /\ follows'[d] = follows[d]
         /\ \/ \E o \in Outcomes :
                 /\ recent[WorkerOf[c]][token[c]] = o
                 /\ pc'[c] \in {"persist", "check", "done", "mark", "grace", "finish"}
                 /\ pc'[c] = "persist" <=> o = "renewed"
                 /\ pc'[c] = "grace" => o = "rejected"
                 /\ pc'[c] = "mark" => retried[c] /\ o # "renewed"
                 /\ o = "renewed" => got'[c] = token[c] + 1
                 /\ o # "renewed" => got'[c] = got[c]
                 /\ pending' = [pending EXCEPT ![WorkerOf[c]] = NoCall]
            \/ /\ pc'[c] \in {"follow", "upstream"} /\ got' = got
               /\ pending' = [pending EXCEPT ![WorkerOf[c]] = c]
               /\ pc'[c] = "follow" =>
                    \E q \in Calls : /\ WorkerOf[q] = WorkerOf[c] /\ pc[q] = "upstream"
                                     /\ token[q] = token[c] /\ follows'[c] = q
<1> DEFINE w == WorkerOf[c]
           o == recent[w][token[c]]
           same == {q \in Calls : WorkerOf[q] = w /\ pc[q] = "upstream" /\ token[q] = token[c]}
<1>1. /\ TypeOK /\ pc[c] = "start" /\ w \in Workers /\ token[c] \in Pairs
      /\ UNCHANGED <<envVars, row, markers, doomed, recent, backoff, token, loaded, tries, retried>>
  BY CallsAssumption DEF Start, RefreshInv, TypeOK
<1>2. CASE o # "none"
  <2>1. Settle(w, {c}, token[c], o) /\ o \in Outcomes /\ {c} \in SUBSET Calls
    BY <1>1, <1>2 DEF Start, TypeOK
  <2> HIDE DEF w, o
  <2>2. \A d \in Calls :
          /\ d \notin {c} => pc'[d] = pc[d] /\ got'[d] = got[d] /\ follows'[d] = follows[d]
          /\ d \in {c} =>
               /\ pc'[d] \in {"persist", "check", "done", "mark", "grace", "finish"}
               /\ pc'[d] = "persist" <=> o = "renewed"
               /\ pc'[d] = "grace" => o = "rejected"
               /\ pc'[d] = "mark" => retried[d] /\ o # "renewed"
               /\ o = "renewed" => got'[d] = token[c] + 1
               /\ o # "renewed" => got'[d] = got[d]
          /\ pending' = [pending EXCEPT ![w] = NoCall]
    <3>1. TAKE d \in Calls
    <3> QED
      BY <1>1, <2>1, SettleFacts
  <2> QED
    BY <1>1, <2>1, <2>2 DEF w, o
<1>3. CASE o = "none"
  <2>1. PICK s \in {"follow", "upstream"} :
          /\ Goto(c, s) /\ got' = got /\ pending' = [pending EXCEPT ![w] = c]
          /\ s = "upstream" => follows' = follows
          /\ s = "follow" => \E q \in same : follows' = [follows EXCEPT ![c] = q]
    BY <1>3 DEF Start
  <2>2. /\ pc'[c] = s
        /\ \A d \in Calls \ {c} : pc'[d] = pc[d] /\ follows'[d] = follows[d]
        /\ s = "follow" => \E q \in same : follows'[c] = q
    BY <1>1, <2>1 DEF Goto, TypeOK
  <2> QED
    BY <1>1, <2>1, <2>2
<1> QED
  BY <1>2, <1>3

\* A write ends the call that makes it.
LEMMA PersistFacts ==
  ASSUME RefreshInv, NEW c \in Calls, Persist(c)
  PROVE  /\ pc[c] = "persist" /\ got[c] \in Pairs
         /\ row'.present = row.present
         /\ row'.token = IF row.present THEN got[c] ELSE row.token
         /\ row'.blocked => row.blocked
         /\ UNCHANGED <<envVars, lease, markers, doomed, workerVars,
                        token, loaded, tries, attempts, retried, follows, got, fired>>
         /\ pc'[c] \in {"finish", "done"}
         /\ \A d \in Calls \ {c} : pc'[d] = pc[d]
<1>1. TypeOK /\ CallInv(c) /\ pc[c] = "persist"
  BY DEF RefreshInv, CallsInv, Persist
<1>2. PICK s \in {"finish", "done"} : Goto(c, s)
  BY DEF Persist, Ending
<1>3. /\ row \in [present : BOOLEAN, token : Pairs, blocked : BOOLEAN] /\ pc \in [Calls -> PCs]
      /\ got[c] \in Pairs
  BY <1>1 DEF TypeOK, CallInv
<1> QED
  BY <1>1, <1>2, <1>3 DEF Persist, Goto

\* What a crash does to the calls, and what it may lose.
LEMMA CrashFacts ==
  ASSUME TypeOK, NEW w \in Workers, Crash(w)
  PROVE  /\ \A c \in Calls : \/ pc'[c] = pc[c] /\ follows'[c] = follows[c]
                             \/ WorkerOf[c] = w /\ pc'[c] = "dead" /\ follows'[c] = NoCall
         /\ (\E c \in Calls : pc[c] = "persist" /\ got[c] = issued /\ pc'[c] # "persist")
              => row.token = issued \/ lost'
         /\ lost => lost'
         /\ markers' \subseteq markers
         /\ pending' = [pending EXCEPT ![w] = NoCall]
         /\ recent' = [recent EXCEPT ![w] = [p \in Pairs |-> "none"]]
         /\ UNCHANGED <<row, lease, doomed, access, issued, revoked,
                        token, loaded, tries, attempts, retried, got, fired>>
<1> DEFINE dying == {c \in Calls : WorkerOf[c] = w /\ pc[c] \notin Resting}
<1>1. /\ pc' = [c \in Calls |-> IF c \in dying THEN "dead" ELSE pc[c]]
      /\ follows' = [c \in Calls |-> IF c \in dying THEN NoCall ELSE follows[c]]
      /\ lost' = (lost \/ (row.token # issued
                           /\ \E c \in dying : pc[c] = "persist" /\ got[c] = issued))
      /\ markers' \subseteq markers
      /\ pending' = [pending EXCEPT ![w] = NoCall]
      /\ recent' = [recent EXCEPT ![w] = [p \in Pairs |-> "none"]]
      /\ UNCHANGED <<row, lease, doomed, access, issued, revoked,
                     token, loaded, tries, attempts, retried, got, fired>>
  BY DEF Crash
<1>2. \A c \in Calls : \/ pc'[c] = pc[c] /\ follows'[c] = follows[c]
                       \/ WorkerOf[c] = w /\ pc'[c] = "dead" /\ follows'[c] = NoCall
  BY <1>1
<1>3. ASSUME NEW c \in Calls, pc[c] = "persist", got[c] = issued, pc'[c] # "persist"
      PROVE  row.token = issued \/ lost'
  <2>1. c \in dying
    BY <1>1, <1>3
  <2> HIDE DEF dying
  <2> QED
    BY <1>1, <1>3, <2>1
<1>4. lost => lost'
  BY <1>1
<1> QED
  BY <1>1, <1>2, <1>3, <1>4

\* The writers' invariant, where no settled renewal is replayed.
LEMMA WritersNewest ==
  ASSUME Prompt, RefreshInv, NoReplay, WriterInv, [Next]_vars
  PROVE  WriterInv'
<1>1. TypeOK /\ issued \in Nat
  BY BoundsAssumption DEF RefreshInv, TypeOK, Pairs
<1>2. CASE Aside \/ UNCHANGED vars
  BY <1>1, <1>2, AsideKeepsWriters DEF SameWriters, WriterInv, NewestPairKept
<1>3. ASSUME NEW c \in Calls, Start(c) PROVE WriterInv'
  <2>1. recent[WorkerOf[c]][token[c]] # "renewed"
    BY <1>3, StartFacts DEF NoReplay
  <2>2. \A d \in Calls : got'[d] = got[d] /\ (pc'[d] = "persist" <=> pc[d] = "persist")
    BY <1>3, <2>1, StartFacts
  <2>3. UNCHANGED <<row, issued, lost>>
    BY <1>3, StartFacts DEF envVars
  <2> QED
    BY <2>2, <2>3 DEF WriterInv, NewestPairKept
<1>4. ASSUME NEW c \in Calls, Renewed(c) \/ Rejected(c) \/ Failed(c) PROVE WriterInv'
  <2>1. PICK o \in Outcomes :
           /\ AnyAnswer(c, o)
           /\ o = "renewed" => token[c] = issued /\ issued' = issued + 1 /\ lost' = lost
           /\ o # "renewed" => UNCHANGED <<issued, lost>> \/ lost'
    BY <1>1, <1>4, AnswerFacts DEF Outcomes
  <2>2. row' = row /\ \A d \in Calls : pc[d] # "persist"
    BY <2>1 DEF AnyAnswer, Answer, BareAnswer, Written, sharedVars
  <2>3. ASSUME NEW d \in Calls
        PROVE  /\ pc'[d] = "persist" <=> Waits(d, c) /\ o = "renewed"
               /\ pc'[d] = "persist" => got'[d] = token[c] + 1
    BY <1>1, <2>1, <2>2, AnswerSettles
  <2>4. CASE o = "renewed"
    BY <2>1, <2>3, <2>4 DEF WriterInv, NewestPairKept, Waits
  <2>5. CASE o # "renewed"
    BY <2>1, <2>2, <2>3, <2>5 DEF WriterInv, NewestPairKept
  <2> QED
    BY <2>4, <2>5
<1>5. ASSUME NEW c \in Calls, Persist(c) PROVE WriterInv'
  BY <1>5, PersistFacts DEF WriterInv, NewestPairKept, envVars
<1>6. ASSUME NEW w \in Workers, Crash(w) PROVE WriterInv'
  BY <1>1, <1>6, CrashFacts DEF WriterInv, NewestPairKept
<1> QED
  BY <1>2, <1>3, <1>4, <1>5, <1>6, StepKinds

\* With the time bounds of the code a rotation can miss the row in one way only:
\* the dedup cache (dedup.js:13-17) serves a settled renewal once more, after
\* its pair was rotated away.  Calls may overlap in every other way, fail,
\* crash and lose the grant.
THEOREM NewestPairReachesRow ==
  ASSUME Prompt
  PROVE  Spec /\ []NoReplay => []NewestPairKept
<1>1. Init => WriterInv
  BY DEF Init, WriterInv, NewestPairKept
<1>2. RefreshInv /\ NoReplay /\ WriterInv /\ [Next]_vars => WriterInv'
  BY WritersNewest
<1>3. WriterInv => NewestPairKept
  BY DEF WriterInv
<1> QED
  BY <1>1, <1>2, <1>3, RefreshInvariant, PTL DEF Spec

----------------------------------------------------------------------------
(* Where the calls of a worker come one after the other, the newest pair     *)
(* needs no time bound.                                                      *)

\* A call holds a pair no older than it loaded, the row none newer than the provider.
Behind ==
  /\ row.token <= issued
  /\ \A c \in Calls : loaded[c] <= token[c] /\ token[c] <= row.token

\* The calls on the way to a result.
Waiting == {"outer", "adopt", "check", "lease", "start", "upstream", "follow", "bare"}

\* At most one call is about to write, and it writes a newer pair.
OneWriter ==
  /\ \A c \in Calls : pc[c] = "persist" => row.token < got[c] /\ got[c] <= issued
  /\ \A c, d \in Calls : pc[c] = "persist" /\ pc[d] = "persist" => c = d

\* A lock that is set is that of a call upstream, whom nobody can join.
NobodyJoins ==
  /\ \A c \in Calls : pc[c] # "follow"
  /\ \A w \in Workers :
       pending[w] # NoCall => WorkerOf[pending[w]] = w /\ pc[pending[w]] = "upstream"

\* The pair of a cached renewal is behind the row, or its successor is on the way,
\* and behind that of every call of the worker that may ask for it.
CacheBehind ==
  \A w \in Workers, p \in Pairs : recent[w][p] = "renewed" =>
    /\ row.present =>
         \/ p < row.token
         \/ \E c \in Calls : WorkerOf[c] = w /\ pc[c] = "persist" /\ got[c] = p + 1
    /\ \A c \in Calls : WorkerOf[c] = w /\ pc[c] \in Waiting => p < token[c]

PairInv == Behind /\ OneWriter /\ NobodyJoins /\ CacheBehind /\ NewestPairKept

\* Pairs are numbers.
LEMMA Numbers ==
  ASSUME TypeOK
  PROVE  /\ row.token \in Nat /\ issued \in Nat /\ row.present \in BOOLEAN
         /\ \A c \in Calls : token[c] \in Nat /\ loaded[c] \in Nat /\ retried[c] \in BOOLEAN
         /\ \A p \in Pairs : p \in Nat
  BY BoundsAssumption DEF TypeOK, Pairs

\* A call gets another pair only from a row that is there: when it loads it, reads it
\* again, or reads it after a rejection and finds another one.
LEMMA TokenSteps ==
  ASSUME TypeOK, [Next]_vars, NEW c \in Calls
  PROVE  \/ /\ token'[c] = token[c] /\ loaded'[c] = loaded[c] /\ retried'[c] = retried[c]
            /\ pc'[c] \in Waiting => pc[c] \in Waiting
         \/ /\ row.present /\ token'[c] = row.token /\ pc'[c] \in Waiting
            /\ \A d \in Calls \ {c} : pc'[d] = pc[d]
            /\ \/ pc[c] = "idle" /\ loaded'[c] = row.token /\ retried'[c] = retried[c]
               \/ pc[c] = "adopt" /\ loaded'[c] = loaded[c] /\ retried'[c] = retried[c]
               \/ pc[c] = "grace" /\ loaded'[c] = loaded[c] /\ row.token # token[c]
<1> DEFINE Same == /\ token'[c] = token[c] /\ loaded'[c] = loaded[c] /\ retried'[c] = retried[c]
                   /\ pc'[c] \in Waiting => pc[c] \in Waiting
<1> USE DEF TypeOK
<1>1. ASSUME NEW d \in Calls, d # c, Load(d) \/ Run(d) PROVE Same
  <2>1. CASE Renewed(d) \/ Rejected(d) \/ Failed(d)
    <3>1. PICK o \in Outcomes : AnyAnswer(d, o)
      BY <2>1, AnswerFacts
    <3>2. UNCHANGED <<token, loaded, retried>>
      BY <3>1 DEF AnyAnswer, Answer, BareAnswer
    <3>3. pc'[c] = pc[c] \/ pc[c] \in Waiting
      <4> HIDE DEF TypeOK
      <4>1. ~Waits(c, d) => pc'[c] = pc[c]
        BY <3>1, AnswerSettles
      <4> QED
        BY <1>1, <4>1 DEF Waits, Waiting
    <3> QED
      BY <3>2, <3>3
  <2>2. CASE Start(d) \/ Send(d)
    BY <1>1, <2>2 DEF Start, Send, Settle, Goto
  <2>3. CASE Load(d)
    BY <1>1, <2>3 DEF Load, LoadRequest, LoadTick, Goto
  <2>4. CASE OuterLease(d) \/ CheckLock(d) \/ TryLease(d) \/ Persist(d) \/ Mark(d) \/ Finish(d)
             \/ Judge(d) \/ Release(d)
    BY <1>1, <2>4
    DEF OuterLease, CheckLock, TryLease, Persist, Mark, Finish, Judge, Release, Goto
  <2>5. CASE Adopt(d) \/ Grace(d)
    BY <1>1, <2>5 DEF Adopt, Grace, Goto
  <2> QED
    BY <1>1, <2>1, <2>2, <2>3, <2>4, <2>5 DEF Run
<1>2. CASE Renewed(c) \/ Rejected(c) \/ Failed(c)
  <2>1. PICK o \in Outcomes : AnyAnswer(c, o)
    BY <1>2, AnswerFacts
  <2>2. UNCHANGED <<token, loaded, retried>> /\ pc[c] \in Waiting
    BY <2>1 DEF AnyAnswer, Answer, BareAnswer, Waiting
  <2> QED
    BY <2>2
<1>3. CASE Start(c) \/ Send(c)
  BY <1>3 DEF Start, Send, Waiting
<1>4. CASE OuterLease(c) \/ CheckLock(c) \/ TryLease(c)
  BY <1>4 DEF OuterLease, CheckLock, TryLease, Waiting
<1>5. CASE Persist(c) \/ Mark(c) \/ Finish(c) \/ Judge(c) \/ Release(c)
  BY <1>5 DEF Persist, Mark, Finish, Judge, Release, Goto, Ending, Waiting
<1>6. CASE Load(c)
  BY <1>6 DEF Load, LoadRequest, LoadTick, Goto, Waiting
<1>7. CASE Adopt(c)
  BY <1>7 DEF Adopt, Fresher, Goto, Waiting
<1>8. CASE Grace(c)
  BY <1>8 DEF Grace, Fresher, Goto, Waiting
<1>9. CASE Environment \/ (\E d \in Calls : MarkLands(d)) \/ UNCHANGED vars
  <2>1. ASSUME NEW w \in Workers, Crash(w) PROVE Same
    BY <2>1, CrashFacts DEF Waiting
  <2>2. CASE UNCHANGED callVars
    BY <2>2 DEF callVars
  <2> QED
    BY <1>9, <2>1, <2>2
    DEF Environment, Age, Revoke, LeaseExpires, SweepSelects, SweepDeletes, BackoffElapses, Forget,
        MarkLands, vars
<1> QED
  BY <1>1, <1>2, <1>3, <1>4, <1>5, <1>6, <1>7, <1>8, <1>9 DEF Next, Run

\* The row never takes an older pair, if only newer ones are about to be written.
LEMMA BehindKept ==
  ASSUME RefreshInv, Behind, [Next]_vars,
         \A c \in Calls : pc[c] = "persist" => row.token <= got[c] /\ got[c] <= issued
  PROVE  Behind' /\ row.token <= row'.token
<1>1. TypeOK /\ TypeOK' /\ row'.token \in Nat /\ issued' \in Nat
  <2>1. RefreshInv'
    BY RefreshKept
  <2> QED
    BY <2>1, Numbers, BoundsAssumption DEF RefreshInv, TypeOK, Pairs
<1>2. row.token <= row'.token /\ row'.token <= issued'
  <2>1. CASE Aside \/ UNCHANGED vars
    BY <1>1, <2>1, AsideKeepsWriters, Numbers DEF SameWriters, Behind
  <2>2. ASSUME NEW c \in Calls, Start(c) PROVE row' = row /\ issued' = issued
    BY <2>2, StartFacts DEF envVars
  <2>3. ASSUME NEW c \in Calls, Renewed(c) \/ Rejected(c) \/ Failed(c)
        PROVE  row' = row /\ issued <= issued'
    <3>1. PICK o \in Outcomes : AnyAnswer(c, o) /\ (issued' = issued \/ issued' = issued + 1)
      BY <1>1, <2>3, AnswerFacts DEF Outcomes
    <3> QED
      BY <1>1, <3>1, Numbers DEF AnyAnswer, Answer, BareAnswer, sharedVars
  <2>4. ASSUME NEW c \in Calls, Persist(c)
        PROVE  row.token <= row'.token /\ row'.token <= issued'
    BY <1>1, <2>4, PersistFacts, Numbers DEF Behind, envVars
  <2>5. ASSUME NEW w \in Workers, Crash(w) PROVE row' = row /\ issued' = issued
    BY <1>1, <2>5, CrashFacts
  <2> QED
    BY <1>1, <2>1, <2>2, <2>3, <2>4, <2>5, StepKinds, Numbers DEF Behind
<1>3. ASSUME NEW c \in Calls PROVE loaded'[c] <= token'[c] /\ token'[c] <= row'.token
  BY <1>1, <1>2, TokenSteps, Numbers DEF Behind
<1> QED
  BY <1>2, <1>3 DEF Behind

\* The writer's pair is no older than the row's and no newer than the provider's.
LEMMA WriterAhead ==
  ASSUME RefreshInv, OneWriter, NEW c \in Calls, pc[c] = "persist"
  PROVE  got[c] \in Nat /\ row.token <= got[c] /\ got[c] <= issued
<1>1. got[c] \in Pairs /\ TypeOK
  BY DEF RefreshInv, CallsInv, CallInv
<1>2. got[c] \in Nat /\ row.token \in Nat
  BY <1>1, Numbers
<1> QED
  BY <1>2 DEF OneWriter

\* Where a call stands alone, it joins nobody.
LEMMA NobodyJoinsKept ==
  ASSUME RefreshInv, Apart, NobodyJoins, [Next]_vars
  PROVE  NobodyJoins'
<1>1. TypeOK
  BY DEF RefreshInv
<1>2. ASSUME NEW c \in Calls, NEW q \in Calls, WorkerOf[q] = WorkerOf[c],
             pc[c] \notin Resting, pc[q] \notin Resting
      PROVE  q = c
  BY <1>2 DEF Apart
<1>3. CASE UNCHANGED <<pc, pending>>
  BY <1>3 DEF NobodyJoins
<1>4. ASSUME NEW c \in Calls, NEW s \in PCs \ {"follow"}, pc[c] # "upstream",
             Goto(c, s), pending' = pending
      PROVE  NobodyJoins'
  <2>1. pc'[c] = s /\ \A d \in Calls \ {c} : pc'[d] = pc[d]
    BY <1>1, <1>4 DEF Goto, TypeOK
  <2>2. \A w \in Workers : pending[w] \in Calls \cup {NoCall}
    BY <1>1 DEF TypeOK
  <2> QED
    BY <1>4, <2>1, <2>2 DEF NobodyJoins
<1>5. ASSUME NEW c \in Calls,
             \/ Load(c) \/ OuterLease(c) \/ Adopt(c) \/ TryLease(c) \/ Send(c) \/ Grace(c)
             \/ Persist(c) \/ Mark(c) \/ Finish(c) \/ Judge(c) \/ Release(c)
      PROVE  NobodyJoins'
  <2>1. \E s \in PCs \ {"follow"} : Goto(c, s) /\ pc[c] # "upstream" /\ pending' = pending
    BY <1>5
    DEF Load, LoadRequest, LoadTick, OuterLease, Adopt, TryLease, Send, Grace, Persist, Mark,
        Finish, Judge, Release, Ending, PCs, workerVars
  <2> QED
    BY <1>4, <2>1
<1>6. ASSUME NEW c \in Calls, CheckLock(c) PROVE NobodyJoins'
  <2>1. pc[c] = "check" /\ WorkerOf[c] \in Workers
    BY <1>6, CallsAssumption DEF CheckLock
  <2>2. pending[WorkerOf[c]] = NoCall
    <3>1. SUFFICES ASSUME pending[WorkerOf[c]] # NoCall PROVE FALSE
      OBVIOUS
    <3>2. PICK q \in Calls : q = pending[WorkerOf[c]]
      BY <1>1, <2>1, <3>1 DEF TypeOK
    <3>3. WorkerOf[q] = WorkerOf[c] /\ pc[q] = "upstream"
      BY <2>1, <3>1, <3>2 DEF NobodyJoins
    <3> QED
      BY <1>2, <2>1, <3>3 DEF Resting
  <2>3. Goto(c, "lease") /\ pending' = pending /\ "lease" \in PCs \ {"follow"}
    BY <1>6, <2>2 DEF CheckLock, PCs, workerVars
  <2> QED
    BY <1>4, <2>1, <2>3
<1>7. ASSUME NEW c \in Calls, Start(c) PROVE NobodyJoins'
  <2>1. /\ pc[c] = "start" /\ WorkerOf[c] \in Workers
        /\ \A d \in Calls \ {c} : pc'[d] = pc[d]
        /\ \/ /\ pc'[c] \in {"persist", "check", "done", "mark", "grace", "finish"}
              /\ pending' = [pending EXCEPT ![WorkerOf[c]] = NoCall]
           \/ /\ pc'[c] \in {"follow", "upstream"}
              /\ pending' = [pending EXCEPT ![WorkerOf[c]] = c]
    BY <1>7, StartFacts
  <2>2. pc'[c] # "follow"
    <3>1. SUFFICES ASSUME pc'[c] = "follow" PROVE FALSE
      OBVIOUS
    <3>2. PICK q \in Calls : WorkerOf[q] = WorkerOf[c] /\ pc[q] = "upstream"
      BY <1>7, <3>1, StartFacts
    <3> QED
      BY <1>2, <2>1, <3>2 DEF Resting
  <2>3. ASSUME NEW w \in Workers, pending'[w] # NoCall
        PROVE  WorkerOf[pending'[w]] = w /\ pc'[pending'[w]] = "upstream"
    <3>1. CASE w = WorkerOf[c]
      BY <1>1, <2>1, <2>2, <2>3, <3>1 DEF TypeOK
    <3>2. CASE w # WorkerOf[c]
      <4>1. pending'[w] = pending[w] /\ pending[w] \in Calls
        BY <1>1, <2>1, <2>3, <3>2 DEF TypeOK
      <4>2. WorkerOf[pending[w]] = w /\ pc[pending[w]] = "upstream"
        BY <2>3, <4>1 DEF NobodyJoins
      <4> QED
        BY <2>1, <3>2, <4>1, <4>2
    <3> QED
      BY <3>1, <3>2
  <2> QED
    BY <2>1, <2>2, <2>3 DEF NobodyJoins
<1>8. ASSUME NEW c \in Calls, Renewed(c) \/ Rejected(c) \/ Failed(c) PROVE NobodyJoins'
  <2>1. PICK o \in Outcomes : AnyAnswer(c, o)
    BY <1>1, <1>8, AnswerFacts
  <2>2. /\ WorkerOf[c] \in Workers
        /\ \/ pc[c] = "upstream" /\ pending' = [pending EXCEPT ![WorkerOf[c]] = NoCall]
           \/ pc[c] = "bare" /\ pending' = pending
    BY <2>1, CallsAssumption DEF AnyAnswer, Answer, BareAnswer, Settle, workerVars
  <2>3. ASSUME NEW d \in Calls PROVE pc'[d] # "follow" /\ (d # c => pc'[d] = pc[d])
    <3>1. Waits(d, c) <=> d = c
      BY DEF Waits, NobodyJoins
    <3>2. /\ ~Waits(d, c) => pc'[d] = pc[d]
          /\ Waits(d, c) => pc'[d] \in {"persist", "check", "done", "mark", "grace", "finish"}
      BY <1>1, <2>1, AnswerSettles
    <3> QED
      BY <3>1, <3>2 DEF NobodyJoins
  <2>4. ASSUME NEW w \in Workers, pending'[w] # NoCall
        PROVE  WorkerOf[pending'[w]] = w /\ pc'[pending'[w]] = "upstream"
    <3>1. /\ pending'[w] = pending[w] /\ pending[w] \in Calls
          /\ w # WorkerOf[c] \/ pc[c] = "bare"
      BY <1>1, <2>2, <2>4 DEF TypeOK
    <3>2. WorkerOf[pending[w]] = w /\ pc[pending[w]] = "upstream"
      BY <2>4, <3>1 DEF NobodyJoins
    <3> QED
      BY <2>3, <3>1, <3>2
  <2> QED
    BY <2>3, <2>4 DEF NobodyJoins
<1>9. ASSUME NEW w \in Workers, Crash(w) PROVE NobodyJoins'
  <2>1. /\ \A c \in Calls : pc'[c] = pc[c] \/ (WorkerOf[c] = w /\ pc'[c] = "dead")
        /\ pending' = [pending EXCEPT ![w] = NoCall]
    BY <1>1, <1>9, CrashFacts
  <2>2. ASSUME NEW v \in Workers, pending'[v] # NoCall
        PROVE  WorkerOf[pending'[v]] = v /\ pc'[pending'[v]] = "upstream"
    <3>1. v # w /\ pending'[v] = pending[v] /\ pending[v] \in Calls
      BY <1>1, <2>1, <2>2 DEF TypeOK
    <3>2. WorkerOf[pending[v]] = v /\ pc[pending[v]] = "upstream"
      BY <2>2, <3>1 DEF NobodyJoins
    <3> QED
      BY <2>1, <3>1, <3>2
  <2> QED
    BY <2>1, <2>2 DEF NobodyJoins
<1>10. CASE \/ \E p \in Pairs : Age(p)
            \/ Revoke \/ LeaseExpires \/ SweepSelects \/ SweepDeletes
            \/ \E w \in Workers : BackoffElapses(w) \/ \E p \in Pairs : Forget(w, p)
            \/ \E c \in Calls : MarkLands(c)
            \/ UNCHANGED vars
  <2>1. UNCHANGED <<pc, pending>>
    BY <1>10
    DEF Age, Revoke, LeaseExpires, SweepSelects, SweepDeletes, BackoffElapses, Forget, MarkLands,
        vars, callVars, workerVars
  <2> QED
    BY <1>3, <2>1
<1> QED
  BY <1>5, <1>6, <1>7, <1>8, <1>9, <1>10, StepKinds DEF Aside

\* A settled renewal enters the cache with the call that will write it.
LEMMA RecentSteps ==
  ASSUME RefreshInv, [Next]_vars, NEW w \in Workers, NEW p \in Pairs
  PROVE  \/ recent'[w][p] = recent[w][p] \/ recent'[w][p] = "none"
         \/ \E c \in Calls, o \in Outcomes :
              /\ Answer(c, o) /\ w = WorkerOf[c] /\ p = token[c] /\ recent'[w][p] = o
              /\ o = "renewed" => token[c] = issued /\ issued' = issued + 1
              /\ o = "rejected" => token[c] # issued \/ revoked
              /\ o = "failed" => Transient
<1>1. TypeOK
  BY DEF RefreshInv
<1>2. ASSUME NEW c \in Calls, Renewed(c) \/ Rejected(c) \/ Failed(c)
      PROVE  \/ recent'[w][p] = recent[w][p]
             \/ \E o \in Outcomes :
                  /\ Answer(c, o) /\ w = WorkerOf[c] /\ p = token[c] /\ recent'[w][p] = o
                  /\ o = "renewed" => token[c] = issued /\ issued' = issued + 1
                  /\ o = "rejected" => token[c] # issued \/ revoked
                  /\ o = "failed" => Transient
  <2>1. PICK o \in Outcomes :
           /\ AnyAnswer(c, o)
           /\ o = "renewed" => token[c] = issued /\ issued' = issued + 1
           /\ o = "rejected" => token[c] # issued \/ revoked
           /\ o = "failed" => Transient \/ BareAnswer(c, o)
    BY <1>1, <1>2, AnswerFacts
  <2> SUFFICES ASSUME ~BareAnswer(c, o) PROVE
             \/ recent'[w][p] = recent[w][p]
             \/ Answer(c, o) /\ w = WorkerOf[c] /\ p = token[c] /\ recent'[w][p] = o
    BY <2>1 DEF BareAnswer, workerVars
  <2>2. recent' = [recent EXCEPT ![WorkerOf[c]][token[c]] = o]
    BY <2>1 DEF AnyAnswer, Answer
  <2>3. \/ recent'[w][p] = recent[w][p]
        \/ w = WorkerOf[c] /\ p = token[c] /\ recent'[w][p] = o
    BY <1>1, <2>2 DEF TypeOK
  <2> QED
    BY <2>1, <2>3 DEF AnyAnswer
<1>3. ASSUME NEW v \in Workers, NEW q \in Pairs, Forget(v, q)
      PROVE  recent'[w][p] = recent[w][p] \/ recent'[w][p] = "none"
  BY <1>1, <1>3 DEF Forget, TypeOK
<1>4. ASSUME NEW v \in Workers, Crash(v)
      PROVE  recent'[w][p] = recent[w][p] \/ recent'[w][p] = "none"
  BY <1>1, <1>4 DEF Crash, TypeOK
<1>5. ASSUME NEW c \in Calls, Load(c) \/ MarkLands(c) \/ OuterLease(c) \/ Adopt(c) \/ CheckLock(c)
                              \/ TryLease(c) \/ Start(c) \/ Send(c)
      PROVE  recent' = recent
  BY <1>5
  DEF Load, LoadRequest, LoadTick, MarkLands, OuterLease, Adopt, CheckLock, TryLease, Start, Send,
      workerVars
<1>6. ASSUME NEW c \in Calls, Grace(c) \/ Persist(c) \/ Mark(c) \/ Finish(c) \/ Judge(c) \/ Release(c)
      PROVE  recent' = recent
  BY <1>6 DEF Grace, Persist, Mark, Finish, Judge, Release, workerVars
<1>7. CASE \/ \E q \in Pairs : Age(q)
           \/ Revoke \/ LeaseExpires \/ SweepSelects \/ SweepDeletes
           \/ \E v \in Workers : BackoffElapses(v)
           \/ UNCHANGED vars
  BY <1>7
  DEF Age, Revoke, LeaseExpires, SweepSelects, SweepDeletes, BackoffElapses, vars, workerVars
<1> QED
  BY <1>2, <1>3, <1>4, <1>5, <1>6, <1>7 DEF Next, Environment, Run

\* A call that could be served a settled renewal holds a newer pair.
LEMMA PairNoReplay ==
  ASSUME RefreshInv, CacheBehind
  PROVE  NoReplay
<1> SUFFICES ASSUME NEW c \in Calls, pc[c] = "start", recent[WorkerOf[c]][token[c]] = "renewed"
             PROVE  FALSE
  BY DEF NoReplay
<1>1. TypeOK /\ WorkerOf[c] \in Workers /\ token[c] \in Pairs /\ token[c] \in Nat
  BY CallsAssumption, Numbers DEF RefreshInv, TypeOK
<1>2. token[c] < token[c]
  BY <1>1 DEF CacheBehind, Waiting
<1> QED
  BY <1>1, <1>2

\* The one writer, and the pair it has for the row.
LEMMA OneWriterKept ==
  ASSUME RefreshInv, PairInv, [Next]_vars
  PROVE  OneWriter' /\ NewestPairKept'
<1>1. TypeOK /\ row.token \in Nat /\ issued \in Nat
  BY Numbers DEF RefreshInv
<1>2. Behind /\ OneWriter /\ NewestPairKept /\ NobodyJoins /\ NoReplay
  BY PairNoReplay DEF PairInv
<1>3. CASE Aside \/ UNCHANGED vars
  BY <1>1, <1>2, <1>3, AsideKeepsWriters DEF SameWriters, OneWriter, NewestPairKept
<1>4. ASSUME NEW c \in Calls, Start(c) PROVE OneWriter' /\ NewestPairKept'
  <2>1. recent[WorkerOf[c]][token[c]] # "renewed"
    BY <1>2, <1>4, StartFacts DEF NoReplay
  <2>2. \A d \in Calls : got'[d] = got[d] /\ (pc'[d] = "persist" <=> pc[d] = "persist")
    BY <1>4, <2>1, StartFacts
  <2>3. UNCHANGED <<row, issued, lost>>
    BY <1>4, StartFacts DEF envVars
  <2> QED
    BY <1>2, <2>2, <2>3 DEF OneWriter, NewestPairKept
<1>5. ASSUME NEW c \in Calls, Renewed(c) \/ Rejected(c) \/ Failed(c)
      PROVE  OneWriter' /\ NewestPairKept'
  <2>1. PICK o \in Outcomes :
           /\ AnyAnswer(c, o)
           /\ o = "renewed" => token[c] = issued /\ issued' = issued + 1 /\ lost' = lost
           /\ o # "renewed" => \/ UNCHANGED <<issued, lost>>
                               \/ issued' = issued + 1 /\ lost'
    BY <1>1, <1>5, AnswerFacts DEF Outcomes
  <2>2. row' = row /\ pc[c] # "persist"
    BY <2>1 DEF AnyAnswer, Answer, BareAnswer, sharedVars
  <2>3. ASSUME NEW d \in Calls
        PROVE  /\ d # c => pc'[d] = pc[d] /\ got'[d] = got[d]
               /\ d = c => /\ pc'[d] = "persist" <=> o = "renewed"
                           /\ o = "renewed" => got'[d] = token[c] + 1
    <3>1. Waits(d, c) <=> d = c
      BY <1>2 DEF Waits, NobodyJoins
    <3> QED
      BY <1>1, <2>1, <3>1, AnswerSettles
  <2>4. CASE o = "renewed"
    <3>1. \A d \in Calls : pc[d] # "persist"
      <4>1. SUFFICES ASSUME NEW d \in Calls, pc[d] = "persist" PROVE FALSE
        OBVIOUS
      <4>2. got[d] \in Nat
        BY <1>1, <4>1, BoundsAssumption DEF TypeOK, Pairs, NoPair
      <4>3. row.token < got[d] /\ got[d] <= issued /\ token[c] <= row.token /\ token[c] = issued
        BY <1>2, <2>1, <2>4, <4>1 DEF OneWriter, Behind
      <4> QED
        BY <1>1, <4>2, <4>3
    <3>2. \A d \in Calls : pc'[d] = "persist" <=> d = c
      BY <2>3, <2>4, <3>1
    <3>3. got'[c] = issued' /\ row'.token < issued'
      BY <1>1, <1>2, <2>1, <2>2, <2>3, <2>4 DEF Behind
    <3>4. issued' \in Nat
      BY <1>1, <2>1, <2>4
    <3> QED
      BY <3>2, <3>3, <3>4 DEF OneWriter, NewestPairKept
  <2>5. CASE o # "renewed"
    <3>1. \A d \in Calls : pc'[d] = "persist" => pc[d] = "persist" /\ got'[d] = got[d]
      BY <2>3, <2>5
    <3>2. \A d \in Calls : pc[d] = "persist" => pc'[d] = "persist" /\ got'[d] = got[d]
      BY <2>2, <2>3
    <3>3. \A d \in Calls : pc[d] = "persist" => got[d] <= issued'
      <4>1. TAKE d \in Calls
      <4>2. got[d] \in Nat
        BY <1>1, BoundsAssumption DEF TypeOK, Pairs, NoPair
      <4> QED
        BY <1>1, <1>2, <2>1, <2>5, <4>2 DEF OneWriter
    <3>4. OneWriter'
      BY <1>2, <2>2, <3>1, <3>3 DEF OneWriter
    <3>5. NewestPairKept'
      BY <1>2, <2>1, <2>2, <2>5, <3>2 DEF NewestPairKept
    <3> QED
      BY <3>4, <3>5
  <2> QED
    BY <2>4, <2>5
<1>6. ASSUME NEW c \in Calls, Persist(c) PROVE OneWriter' /\ NewestPairKept'
  <2>1. /\ pc[c] = "persist" /\ got[c] \in Nat
        /\ row'.token = IF row.present THEN got[c] ELSE row.token
        /\ row'.present = row.present
        /\ UNCHANGED <<issued, lost, got>>
        /\ \A d \in Calls : pc'[d] = "persist" => pc[d] = "persist" /\ d # c
    BY <1>1, <1>6, PersistFacts, Numbers DEF envVars
  <2>2. \A d \in Calls : pc'[d] # "persist"
    BY <1>2, <2>1 DEF OneWriter
  <2>3. row.token < got[c] /\ got[c] <= issued
    BY <1>2, <2>1 DEF OneWriter
  <2>4. row.present /\ ~lost => got[c] = issued
    BY <1>1, <1>2, <2>1, <2>3 DEF OneWriter, NewestPairKept
  <2> QED
    BY <2>1, <2>2, <2>4 DEF OneWriter, NewestPairKept
<1>7. ASSUME NEW w \in Workers, Crash(w) PROVE OneWriter' /\ NewestPairKept'
  BY <1>1, <1>2, <1>7, CrashFacts DEF OneWriter, NewestPairKept
<1> QED
  BY <1>3, <1>4, <1>5, <1>6, <1>7, StepKinds

\* What the cache holds stays behind the row and the calls.
LEMMA CacheBehindKept ==
  ASSUME RefreshInv, RefreshInv', Apart, Apart', PairInv, OneWriter', [Next]_vars
  PROVE  CacheBehind'
<1>1. /\ TypeOK /\ row.token \in Nat /\ issued \in Nat
      /\ TypeOK' /\ row'.token \in Nat
  <2>1. TypeOK /\ TypeOK'
    BY DEF RefreshInv
  <2> QED
    BY <2>1, Numbers, BoundsAssumption DEF TypeOK, Pairs
<1>2. Behind /\ OneWriter /\ NobodyJoins /\ CacheBehind
  BY DEF PairInv
<1>3. row.token <= row'.token
  <2>1. \A c \in Calls : pc[c] = "persist" => row.token <= got[c] /\ got[c] <= issued
    BY <1>2, WriterAhead
  <2> QED
    BY <1>2, <2>1, BehindKept
<1>4. row'.present => row.present
  BY <1>1, StepKinds, AsideKeepsWriters, StartFacts, PersistFacts, CrashFacts, AnswerFacts
  DEF SameWriters, AnyAnswer, Answer, BareAnswer, sharedVars
<1> SUFFICES ASSUME NEW w \in Workers, NEW p \in Pairs, recent'[w][p] = "renewed"
             PROVE  /\ row'.present =>
                         \/ p < row'.token
                         \/ \E c \in Calls : WorkerOf[c] = w /\ pc'[c] = "persist" /\ got'[c] = p + 1
                    /\ \A c \in Calls : WorkerOf[c] = w /\ pc'[c] \in Waiting => p < token'[c]
  BY DEF CacheBehind
<1>5. p \in Nat
  BY <1>1, Numbers
<1>6. CASE recent[w][p] = "renewed"
  <2>1. /\ row.present =>
             \/ p < row.token
             \/ \E c \in Calls : WorkerOf[c] = w /\ pc[c] = "persist" /\ got[c] = p + 1
        /\ \A c \in Calls : WorkerOf[c] = w /\ pc[c] \in Waiting => p < token[c]
    BY <1>2, <1>6 DEF CacheBehind
  <2>2. row'.present =>
          \/ p < row'.token
          \/ \E c \in Calls : WorkerOf[c] = w /\ pc'[c] = "persist" /\ got'[c] = p + 1
    <3> SUFFICES ASSUME row'.present, ~(p < row'.token)
                 PROVE  \E c \in Calls : WorkerOf[c] = w /\ pc'[c] = "persist" /\ got'[c] = p + 1
      OBVIOUS
    <3>1. PICK c \in Calls : WorkerOf[c] = w /\ pc[c] = "persist" /\ got[c] = p + 1
      BY <1>1, <1>3, <1>4, <1>5, <2>1
    <3>2. got[c] \in Nat
      BY <1>1, BoundsAssumption DEF TypeOK, Pairs, NoPair
    <3>3. CASE Aside \/ UNCHANGED vars
      BY <1>1, <3>1, <3>3, AsideKeepsWriters DEF SameWriters
    <3>4. ASSUME NEW d \in Calls, Start(d) PROVE pc'[c] = "persist" /\ got'[c] = got[c]
      BY <3>1, <3>4, StartFacts
    <3>5. ASSUME NEW d \in Calls, Renewed(d) \/ Rejected(d) \/ Failed(d)
          PROVE  pc'[c] = "persist" /\ got'[c] = got[c]
      <4>1. PICK o \in Outcomes : AnyAnswer(d, o)
        BY <1>1, <3>5, AnswerFacts
      <4>2. ~Waits(c, d)
        BY <3>1, <4>1 DEF Waits, AnyAnswer, Answer, BareAnswer
      <4> QED
        BY <1>1, <3>1, <4>1, <4>2, AnswerSettles
    <3>6. ASSUME NEW d \in Calls, Persist(d) PROVE pc'[c] = "persist" /\ got'[c] = got[c]
      <4>1. d # c
        <5>1. SUFFICES ASSUME d = c PROVE FALSE
          OBVIOUS
        <5>2. row'.token = IF row.present THEN got[c] ELSE row.token
          BY <3>6, <5>1, PersistFacts
        <5>3. row.present
          BY <1>4
        <5> QED
          BY <1>5, <3>1, <5>2, <5>3
      <4> QED
        BY <3>1, <3>6, <4>1, PersistFacts
    <3>7. ASSUME NEW v \in Workers, Crash(v) PROVE pc'[c] = "persist" /\ got'[c] = got[c]
      <4>1. recent' = [recent EXCEPT ![v] = [q \in Pairs |-> "none"]]
        BY <1>1, <3>7, CrashFacts
      <4>2. v # w
        BY <1>1, <4>1 DEF TypeOK
      <4> QED
        BY <1>1, <3>1, <3>7, <4>2, CrashFacts
    <3> QED
      BY <3>1, <3>3, <3>4, <3>5, <3>6, <3>7, StepKinds
  <2>3. ASSUME NEW c \in Calls, WorkerOf[c] = w, pc'[c] \in Waiting PROVE p < token'[c]
    <3>1. CASE token'[c] = token[c] /\ pc[c] \in Waiting
      BY <2>1, <2>3, <3>1
    <3>2. CASE /\ row.present /\ token'[c] = row.token
               /\ \A d \in Calls \ {c} : pc'[d] = pc[d]
               /\ pc[c] \in {"idle", "adopt", "grace"}
      <4>1. ASSUME NEW d \in Calls, WorkerOf[d] = w, pc[d] = "persist" PROVE FALSE
        <5>1. d # c /\ pc'[d] = "persist"
          BY <3>2, <4>1
        <5> QED
          BY <2>3, <4>1, <5>1 DEF Apart, Resting, Waiting
      <4> QED
        BY <2>1, <3>2, <4>1
    <3> QED
      BY <1>1, <2>3, <3>1, <3>2, TokenSteps
  <2> QED
    BY <2>2, <2>3
<1>7. CASE recent[w][p] # "renewed"
  <2>1. PICK c \in Calls, o \in Outcomes :
          Answer(c, o) /\ w = WorkerOf[c] /\ p = token[c] /\ recent'[w][p] = o
    BY <1>7, RecentSteps
  <2>2. o = "renewed" /\ pc[c] = "upstream"
    BY <2>1 DEF Answer
  <2>3. ASSUME NEW d \in Calls
        PROVE  /\ d # c => pc'[d] = pc[d]
               /\ d = c => pc'[d] = "persist" /\ got'[d] = p + 1
    <3>1. Waits(d, c) <=> d = c
      BY <1>2 DEF Waits, NobodyJoins
    <3> QED
      BY <1>1, <2>1, <2>2, <3>1, AnswerSettles DEF AnyAnswer
  <2>4. ASSUME NEW d \in Calls, WorkerOf[d] = w, pc'[d] \in Waiting PROVE FALSE
    <3>1. d # c /\ pc[d] \in Waiting
      BY <2>3, <2>4 DEF Waiting
    <3> QED
      BY <2>1, <2>2, <2>4, <3>1 DEF Apart, Waiting, Resting
  <2> QED
    BY <2>1, <2>3, <2>4
<1> QED
  BY <1>6, <1>7

\* Where the calls of each worker come one after the other, no settled renewal is
\* replayed, no call joins another's refresh, and the newest pair reaches the
\* row: with several workers racing, without any bound on the times, through
\* failures and crashes.
THEOREM ApartCallsKeepNewestPair ==
  Spec /\ []Apart => [](NewestPairKept /\ NoReplay /\ JoinsOwn)
<1>1. Init => PairInv
  BY CallsAssumption
  DEF Init, PairInv, Behind, OneWriter, NobodyJoins, CacheBehind, NewestPairKept
<1>2. /\ RefreshInv /\ RefreshInv' /\ Apart /\ Apart' /\ PairInv /\ [Next]_vars
      => PairInv'
  <2> SUFFICES ASSUME RefreshInv, RefreshInv', Apart, Apart', PairInv, [Next]_vars
               PROVE  PairInv'
    OBVIOUS
  <2>1. NobodyJoins'
    BY NobodyJoinsKept DEF PairInv
  <2>2. OneWriter' /\ NewestPairKept'
    BY OneWriterKept
  <2>3. CacheBehind'
    BY <2>2, CacheBehindKept
  <2>4. \A c \in Calls : pc[c] = "persist" => row.token <= got[c] /\ got[c] <= issued
    BY WriterAhead DEF PairInv
  <2>5. Behind'
    BY <2>4, BehindKept DEF PairInv
  <2> QED
    BY <2>1, <2>2, <2>3, <2>5 DEF PairInv
<1>3. RefreshInv /\ PairInv => NewestPairKept /\ NoReplay /\ JoinsOwn
  BY PairNoReplay DEF PairInv, NobodyJoins, JoinsOwn
<1> QED
  BY <1>1, <1>2, <1>3, RefreshInvariant, PTL DEF Spec

\* In particular where each worker has one call, as in the instance of run
\* refresh_pair: whatever the number of workers that race for the rotation.
THEOREM OneCallPerWorker ==
  ASSUME \A c, d \in Calls : WorkerOf[c] = WorkerOf[d] => c = d
  PROVE  Spec => []NewestPairKept
<1>1. Apart
  BY DEF Apart
<1> QED
  BY <1>1, ApartCallsKeepNewestPair, PTL

----------------------------------------------------------------------------
(* Only a dead grant retires the connection.                                 *)

\* The grant is gone, or its newest pair is.
Dead == revoked \/ lost

\* The connection is blocked or deleted, or something is under way that does it.
Retiring ==
  \/ row.blocked \/ ~row.present \/ doomed \/ markers # {}
  \/ \E c \in Calls : pc[c] \in {"mark", "judge"}

\* A pair the provider refused was used before, or the grant is dead.
Refused(p) == p < issued \/ revoked

\* A call that tries again holds a newer pair than it loaded, and what it was
\* refused, itself or through the cache, was rightly refused.
RetireInv ==
  /\ Behind
  /\ \A c \in Calls : retried[c] => loaded[c] < token[c]
  /\ \A c \in Calls : pc[c] = "grace" => Refused(token[c])
  /\ \A w \in Workers, p \in Pairs :
       /\ recent[w][p] # "failed"
       /\ recent[w][p] = "rejected" => Refused(p)
  /\ Retiring => Dead

\* Rotations, revocation and loss are not undone.
LEMMA ProviderGoesOn ==
  ASSUME TypeOK, [Next]_vars
  PROVE  /\ issued' \in Nat /\ issued <= issued'
         /\ revoked => revoked'
         /\ lost => lost'
<1>1. issued \in Nat
  BY Numbers
<1>2. issued' = issued \/ issued' = issued + 1
  <2>1. ASSUME NEW c \in Calls, Renewed(c) \/ Rejected(c) \/ Failed(c)
        PROVE  issued' = issued \/ issued' = issued + 1
    BY <2>1, AnswerFacts DEF Outcomes
  <2>2. ASSUME NEW c \in Calls, Start(c) \/ Persist(c) PROVE UNCHANGED <<issued, lost>>
    BY <2>2 DEF Start, Persist, envVars
  <2> QED
    BY <2>1, <2>2, StepKinds, AsideKeepsWriters, CrashFacts DEF SameWriters
<1>3. lost => lost'
  <2>1. ASSUME NEW c \in Calls, Renewed(c) \/ Rejected(c) \/ Failed(c)
        PROVE  lost => lost'
    BY <2>1, AnswerFacts DEF Outcomes
  <2>2. ASSUME NEW c \in Calls, Start(c) \/ Persist(c) PROVE UNCHANGED <<issued, lost>>
    BY <2>2 DEF Start, Persist, envVars
  <2> QED
    BY <2>1, <2>2, StepKinds, AsideKeepsWriters, CrashFacts DEF SameWriters
<1>4. revoked => revoked'
  <2>1. ASSUME NEW c \in Calls, Run(c) \/ Load(c) \/ MarkLands(c) PROVE revoked' = revoked
    <3>1. CASE Renewed(c) \/ Rejected(c) \/ Failed(c)
      BY <3>1 DEF Renewed, Rejected, Failed, Answer, BareAnswer
    <3>2. CASE Grace(c) \/ Persist(c) \/ Mark(c) \/ Finish(c) \/ Judge(c) \/ Release(c)
      BY <3>2 DEF Grace, Persist, Mark, Finish, Judge, Release, envVars
    <3>3. CASE \/ Load(c) \/ MarkLands(c) \/ OuterLease(c) \/ Adopt(c) \/ CheckLock(c)
               \/ TryLease(c) \/ Start(c) \/ Send(c)
      BY <3>3
      DEF Load, LoadRequest, LoadTick, MarkLands, OuterLease, Adopt, CheckLock, TryLease, Start,
          Send, envVars
    <3> QED
      BY <2>1, <3>1, <3>2, <3>3 DEF Run
  <2>2. CASE Environment
    BY <2>2
    DEF Environment, Age, Revoke, LeaseExpires, SweepSelects, SweepDeletes, BackoffElapses, Forget,
        Crash, envVars
  <2>3. CASE UNCHANGED vars
    BY <2>3 DEF vars, envVars
  <2> QED
    BY <2>1, <2>2, <2>3 DEF Next
<1> QED
  BY <1>1, <1>2, <1>3, <1>4

\* What a step aside does to the retiring of the connection: it starts with a call
\* that finds nothing fresher 1.5 s after it was refused, and goes on from there.
LEMMA AsideRetires ==
  ASSUME TypeOK, Aside \/ UNCHANGED vars
  PROVE  /\ \A c \in Calls : pc'[c] = "grace" => pc[c] = "grace" /\ token'[c] = token[c]
         /\ Retiring' => Retiring \/ \E c \in Calls : Grace(c) /\ ~Fresher(c)
         /\ revoked => revoked'
<1>1. row \in [present : BOOLEAN, token : Pairs, blocked : BOOLEAN] /\ pc \in [Calls -> PCs]
  BY DEF TypeOK
<1>2. CASE UNCHANGED vars
  BY <1>2 DEF Retiring, vars, envVars, sharedVars, callVars
<1>3. CASE \/ \E p \in Pairs : Age(p)
           \/ Revoke \/ LeaseExpires
           \/ \E w \in Workers : BackoffElapses(w) \/ \E p \in Pairs : Forget(w, p)
  <2>1. UNCHANGED <<row, doomed, markers, callVars>> /\ (revoked => revoked')
    BY <1>3 DEF Age, Revoke, LeaseExpires, BackoffElapses, Forget, sharedVars, envVars
  <2> QED
    BY <2>1 DEF Retiring, callVars
<1>4. CASE SweepSelects
  <2>1. UNCHANGED <<revoked, callVars>> /\ row.blocked
    BY <1>4 DEF SweepSelects, envVars
  <2> QED
    BY <2>1 DEF Retiring, callVars
<1>5. CASE SweepDeletes
  <2>1. UNCHANGED <<revoked, callVars>> /\ doomed
    BY <1>5 DEF SweepDeletes, envVars
  <2> QED
    BY <2>1 DEF Retiring, callVars
<1>6. ASSUME NEW c \in Calls, MarkLands(c)
      PROVE  /\ \A d \in Calls : pc'[d] = "grace" => pc[d] = "grace" /\ token'[d] = token[d]
             /\ Retiring
             /\ revoked => revoked'
  BY <1>6 DEF MarkLands, Retiring, callVars, envVars
<1>7. ASSUME NEW c \in Calls, Load(c) \/ OuterLease(c) \/ Adopt(c) \/ CheckLock(c) \/ TryLease(c)
                              \/ Send(c) \/ Finish(c) \/ Release(c)
      PROVE  /\ \A d \in Calls : pc'[d] = "grace" => pc[d] = "grace" /\ token'[d] = token[d]
             /\ Retiring' => Retiring
             /\ revoked => revoked'
  <2>1. PICK s \in PCs \ {"grace", "mark", "judge"} : Goto(c, s)
    BY <1>7
    DEF Load, LoadRequest, LoadTick, OuterLease, Adopt, CheckLock, TryLease, Send, Finish, Release, PCs
  <2>2. pc'[c] = s /\ \A d \in Calls \ {c} : pc'[d] = pc[d]
    BY <1>1, <2>1 DEF Goto
  <2>3. UNCHANGED <<row, doomed, markers, revoked>>
    BY <1>7
    DEF Load, LoadRequest, LoadTick, OuterLease, Adopt, CheckLock, TryLease, Send, Finish, Release,
        sharedVars, envVars
  <2>4. \A d \in Calls \ {c} : token'[d] = token[d]
    BY <1>7
    DEF Load, LoadRequest, LoadTick, OuterLease, Adopt, CheckLock, TryLease, Send, Finish, Release, TypeOK
  <2> QED
    BY <2>2, <2>3, <2>4 DEF Retiring
<1>8. ASSUME NEW c \in Calls, Mark(c) \/ Judge(c)
      PROVE  /\ \A d \in Calls : pc'[d] = "grace" => pc[d] = "grace" /\ token'[d] = token[d]
             /\ Retiring
             /\ revoked => revoked'
  <2>1. PICK s \in PCs \ {"grace"} : Goto(c, s)
    BY <1>8 DEF Mark, Judge, PCs
  <2>2. pc'[c] = s /\ \A d \in Calls \ {c} : pc'[d] = pc[d]
    BY <1>1, <2>1 DEF Goto
  <2>3. UNCHANGED <<token, revoked>> /\ pc[c] \in {"mark", "judge"}
    BY <1>8 DEF Mark, Judge, envVars
  <2> QED
    BY <2>2, <2>3 DEF Retiring
<1>9. ASSUME NEW c \in Calls, Grace(c)
      PROVE  /\ \A d \in Calls : pc'[d] = "grace" => pc[d] = "grace" /\ token'[d] = token[d]
             /\ Fresher(c) => (Retiring' => Retiring)
             /\ revoked => revoked'
  <2>1. PICK s \in {"check", "mark"} : Goto(c, s) /\ (Fresher(c) => s = "check")
    BY <1>9 DEF Grace
  <2>2. pc'[c] = s /\ \A d \in Calls \ {c} : pc'[d] = pc[d]
    BY <1>1, <2>1 DEF Goto, PCs
  <2>3. UNCHANGED <<row, doomed, markers, revoked>> /\ \A d \in Calls \ {c} : token'[d] = token[d]
    BY <1>9 DEF Grace, TypeOK, sharedVars, envVars
  <2> QED
    BY <2>1, <2>2, <2>3 DEF Retiring
<1> QED
  BY <1>2, <1>3, <1>4, <1>5, <1>6, <1>7, <1>8, <1>9 DEF Aside

\* A call whose retry is refused too, a rotation later at most, has a dead grant.
LEMMA RetryRefused ==
  ASSUME TypeOK, OneRotation, RetireInv, NEW c \in Calls,
         pc[c] \in {"start", "upstream", "follow"}, retried[c], Refused(token[c])
  PROVE  Dead
<1>1. issued \in Nat /\ loaded[c] \in Nat /\ token[c] \in Nat
  BY Numbers
<1>2. issued <= loaded[c] + 1 /\ loaded[c] < token[c]
  BY DEF OneRotation, RetireInv
<1> QED
  BY <1>1, <1>2 DEF Refused, Dead

\* The invariant behind the retiring of the connection.
LEMMA RetireKept ==
  ASSUME Prompt, ~Transient, RefreshInv, WriterInv, WriterInv', JoinsOwn, OneRotation,
         RetireInv, [Next]_vars
  PROVE  RetireInv'
<1>1. TypeOK /\ row.token \in Nat /\ issued \in Nat
  BY Numbers DEF RefreshInv
<1>2. /\ issued' \in Nat /\ issued <= issued'
      /\ revoked => revoked'
      /\ lost => lost'
  BY <1>1, ProviderGoesOn
<1>3. Behind /\ Behind'
  <2>1. \A c \in Calls : pc[c] = "persist" => row.token <= got[c] /\ got[c] <= issued
    BY <1>1 DEF WriterInv, RetireInv, Behind
  <2> QED
    BY <2>1, BehindKept DEF RetireInv
<1>4. ASSUME NEW c \in Calls, retried'[c] PROVE loaded'[c] < token'[c]
  <2>1. pc[c] \in {"idle", "adopt"} => ~retried[c]
    BY DEF RefreshInv, CallsInv, CallInv
  <2>2. retried[c] => loaded[c] < token[c]
    BY DEF RetireInv
  <2>3. loaded[c] <= token[c] /\ token[c] <= row.token
    BY <1>3 DEF Behind
  <2>4. token[c] \in Nat /\ loaded[c] \in Nat
    BY <1>1, Numbers
  <2> QED
    BY <1>1, <1>4, <2>1, <2>2, <2>3, <2>4, TokenSteps
<1>5. ASSUME NEW p \in Nat, Refused(p) PROVE Refused(p)'
  BY <1>1, <1>2, <1>5 DEF Refused
<1>6. ASSUME NEW w \in Workers, NEW p \in Pairs
      PROVE  recent'[w][p] # "failed" /\ (recent'[w][p] = "rejected" => Refused(p)')
  <2>1. p \in Nat
    BY <1>1, Numbers
  <2>2. CASE recent'[w][p] = recent[w][p] \/ recent'[w][p] = "none"
    BY <1>5, <2>1, <2>2 DEF RetireInv
  <2>3. ASSUME NEW c \in Calls, NEW o \in Outcomes,
               p = token[c], recent'[w][p] = o, Answer(c, o),
               o = "rejected" => token[c] # issued \/ revoked,
               o = "failed" => Transient
        PROVE  recent'[w][p] # "failed" /\ (recent'[w][p] = "rejected" => Refused(p)')
    <3>1. token[c] <= issued /\ token[c] \in Nat
      BY <1>1, <1>3, Numbers DEF Behind
    <3>2. o = "rejected" => Refused(token[c])
      BY <1>1, <2>3, <3>1 DEF Refused
    <3> QED
      BY <1>5, <2>3, <3>1, <3>2
  <2> QED
    BY <2>2, <2>3, RecentSteps
<1>7. Retiring => Dead'
  BY <1>2 DEF RetireInv, Dead
<1> SUFFICES /\ \A c \in Calls : pc'[c] = "grace" => Refused(token[c])'
             /\ Retiring' => Dead'
  BY <1>3, <1>4, <1>6 DEF RetireInv
<1>8. CASE Aside \/ UNCHANGED vars
  <2>1. /\ \A c \in Calls : pc'[c] = "grace" => pc[c] = "grace" /\ token'[c] = token[c]
        /\ Retiring' => Retiring \/ \E c \in Calls : Grace(c) /\ ~Fresher(c)
    BY <1>1, <1>8, AsideRetires
  <2>2. ASSUME NEW c \in Calls, Grace(c), ~Fresher(c) PROVE Dead
    <3>1. /\ pc[c] = "grace" /\ \A d \in Calls : pc[d] # "persist"
          /\ row.present => row.token = token[c]
      BY <2>2 DEF Grace, Written, Fresher
    <3>2. Refused(token[c])
      BY <3>1 DEF RetireInv
    <3>3. row.present /\ ~lost => row.token = issued
      BY <3>1 DEF WriterInv, NewestPairKept
    <3>4. ~row.present => Dead
      BY DEF RetireInv, Retiring
    <3> QED
      BY <1>1, <3>1, <3>2, <3>3, <3>4 DEF Refused, Dead
  <2>3. \A c \in Calls : pc'[c] = "grace" => Refused(token[c])'
    BY <1>1, <1>5, <2>1, Numbers DEF RetireInv
  <2>4. Dead => Dead'
    BY <1>2 DEF Dead
  <2> QED
    BY <1>7, <2>1, <2>2, <2>3, <2>4
<1>9. ASSUME NEW c \in Calls, Start(c)
      PROVE  /\ \A d \in Calls : pc'[d] = "grace" => Refused(token[d])'
             /\ Retiring' => Dead'
  <2>1. /\ pc[c] = "start" /\ WorkerOf[c] \in Workers /\ token[c] \in Pairs
        /\ UNCHANGED <<envVars, row, markers, doomed, token>>
        /\ \A d \in Calls \ {c} : pc'[d] = pc[d]
    BY <1>9, StartFacts
  <2>2. pc'[c] \in {"grace", "mark"} => Refused(token[c]) /\ (pc'[c] = "mark" => retried[c])
    <3>1. SUFFICES ASSUME pc'[c] \in {"grace", "mark"}
                   PROVE  recent[WorkerOf[c]][token[c]] = "rejected" /\ (pc'[c] = "mark" => retried[c])
      BY <2>1 DEF RetireInv
    <3>2. recent[WorkerOf[c]][token[c]] # "failed"
      BY <2>1 DEF RetireInv
    <3> QED
      BY <1>9, <3>1, <3>2, StartFacts DEF Outcomes
  <2>3. pc'[c] # "judge"
    BY <1>9, StartFacts
  <2>4. pc'[c] = "mark" => Dead'
    BY <1>1, <1>2, <2>1, <2>2, RetryRefused DEF Dead
  <2>5. Retiring' => Dead'
    BY <1>7, <2>1, <2>3, <2>4 DEF Retiring
  <2>6. ASSUME NEW d \in Calls, pc'[d] = "grace" PROVE Refused(token[d])'
    <3>1. Refused(token[d]) /\ token'[d] = token[d] /\ token[d] \in Nat
      BY <1>1, <2>1, <2>2, <2>6, Numbers DEF RetireInv
    <3> QED
      BY <1>5, <3>1
  <2> QED
    BY <2>5, <2>6
<1>10. ASSUME NEW c \in Calls, Renewed(c) \/ Rejected(c) \/ Failed(c)
       PROVE  /\ \A d \in Calls : pc'[d] = "grace" => Refused(token[d])'
              /\ Retiring' => Dead'
  <2>1. PICK o \in Outcomes :
           /\ AnyAnswer(c, o)
           /\ o = "rejected" => token[c] # issued \/ revoked
           /\ o = "failed" => BareAnswer(c, o)
    BY <1>1, <1>10, AnswerFacts
  <2>2. UNCHANGED <<row, markers, doomed, token>>
    BY <2>1 DEF AnyAnswer, Answer, BareAnswer, sharedVars
  <2>3. o = "rejected" => Refused(token[c])
    <3>1. token[c] <= issued /\ token[c] \in Nat
      BY <1>1, <1>3, Numbers DEF Behind
    <3> QED
      BY <1>1, <2>1, <3>1 DEF Refused
  <2>4. ASSUME NEW d \in Calls, Waits(d, c)
        PROVE  token[d] = token[c] /\ pc[d] \in {"upstream", "follow", "bare"}
    BY <2>1, <2>4 DEF JoinsOwn, Waits, AnyAnswer, Answer, BareAnswer
  <2>5. ASSUME NEW d \in Calls
        PROVE  /\ ~Waits(d, c) => pc'[d] = pc[d]
               /\ Waits(d, c) => /\ pc'[d] # "judge"
                                 /\ pc'[d] = "grace" => o = "rejected"
                                 /\ pc'[d] = "mark" =>
                                      retried[d] /\ o = "rejected" /\ pc[d] # "bare"
    <3>1. /\ ~Waits(d, c) => pc'[d] = pc[d]
          /\ Waits(d, c) => /\ pc'[d] \in {"persist", "check", "done", "mark", "grace", "finish"}
                            /\ pc'[d] = "grace" => o = "rejected"
                            /\ pc'[d] = "mark" => retried[d] /\ o # "renewed"
      BY <1>1, <2>1, AnswerSettles
    <3>2. CASE BareAnswer(c, o)
      <4>1. c \in Direct /\ pc[c] = "bare"
        BY <3>2, CallsAssumption DEF BareAnswer, RefreshInv, CallsInv, CallInv
      <4>2. AfterResult(c, o) # "mark"
        BY <4>1 DEF AfterResult, Repeats
      <4>3. pc'[c] # "mark"
        BY <1>1, <3>2, <4>2 DEF BareAnswer, Goto, TypeOK
      <4>4. Waits(d, c) => d = c
        BY <4>1 DEF Waits
      <4> QED
        BY <3>1, <4>3, <4>4
    <3>3. CASE Answer(c, o)
      BY <2>1, <3>1, <3>3 DEF Outcomes, Answer, BareAnswer, Waits
    <3> QED
      BY <2>1, <3>2, <3>3 DEF AnyAnswer
  <2>6. ASSUME NEW d \in Calls, pc'[d] = "grace" PROVE Refused(token[d])'
    <3>1. Refused(token[d]) /\ token'[d] = token[d] /\ token[d] \in Nat
      BY <1>1, <2>2, <2>3, <2>4, <2>5, <2>6, Numbers DEF RetireInv
    <3> QED
      BY <1>5, <3>1
  <2>7. ASSUME NEW d \in Calls, pc'[d] \in {"mark", "judge"} PROVE Dead'
    <3>1. CASE Waits(d, c)
      <4>1. retried[d] /\ Refused(token[d]) /\ pc[d] \in {"start", "upstream", "follow"}
        BY <2>3, <2>4, <2>5, <2>7, <3>1
      <4>2. Dead
        BY <1>1, <4>1, RetryRefused
      <4> QED
        BY <1>2, <4>2 DEF Dead
    <3>2. CASE ~Waits(d, c)
      BY <1>7, <2>5, <2>7, <3>2 DEF Retiring
    <3> QED
      BY <3>1, <3>2
  <2>8. Retiring' => Dead'
    BY <1>7, <2>2, <2>7 DEF Retiring
  <2> QED
    BY <2>6, <2>8
<1>11. ASSUME NEW c \in Calls, Persist(c)
       PROVE  /\ \A d \in Calls : pc'[d] = "grace" => Refused(token[d])'
              /\ Retiring' => Dead'
  <2>1. /\ row'.present = row.present /\ (row'.blocked => row.blocked)
        /\ UNCHANGED <<markers, doomed, token>>
        /\ pc'[c] \in {"finish", "done"} /\ \A d \in Calls \ {c} : pc'[d] = pc[d]
    BY <1>11, PersistFacts
  <2>2. ASSUME NEW d \in Calls, pc'[d] = "grace" PROVE Refused(token[d])'
    <3>1. Refused(token[d]) /\ token'[d] = token[d] /\ token[d] \in Nat
      BY <1>1, <2>1, <2>2, Numbers DEF RetireInv
    <3> QED
      BY <1>5, <3>1
  <2>3. Retiring' => Retiring
    BY <2>1 DEF Retiring
  <2> QED
    BY <1>7, <2>2, <2>3
<1>12. ASSUME NEW w \in Workers, Crash(w)
       PROVE  /\ \A d \in Calls : pc'[d] = "grace" => Refused(token[d])'
              /\ Retiring' => Dead'
  <2>1. /\ \A d \in Calls : pc'[d] = pc[d] \/ pc'[d] = "dead"
        /\ UNCHANGED <<row, doomed, token>> /\ markers' \subseteq markers
    BY <1>1, <1>12, CrashFacts
  <2>2. ASSUME NEW d \in Calls, pc'[d] = "grace" PROVE Refused(token[d])'
    <3>1. Refused(token[d]) /\ token'[d] = token[d] /\ token[d] \in Nat
      BY <1>1, <2>1, <2>2, Numbers DEF RetireInv
    <3> QED
      BY <1>5, <3>1
  <2>3. Retiring' => Retiring
    BY <2>1 DEF Retiring
  <2> QED
    BY <1>7, <2>2, <2>3
<1> QED
  BY <1>8, <1>9, <1>10, <1>11, <1>12, StepKinds

\* backgroundTokenRefresh.js:202 and tokenRefresh.js:398: whoever loses a rotation race,
\* the connection is blocked or deleted only when its grant is dead: where no
\* upstream call fails without an answer, calls join only their own pair's refresh,
\* and the provider rotates at most once past what a call loaded while it tries.
THEOREM DeadGrantsOnly ==
  ASSUME Prompt, ~Transient
  PROVE  Spec /\ []NoReplay /\ []JoinsOwn /\ []OneRotation => []OnlyDeadGrantsRetired
<1>1. Init => WriterInv /\ RetireInv
  BY DEF Init, WriterInv, NewestPairKept, RetireInv, Behind, Retiring, Dead
<1>2. RefreshInv /\ NoReplay /\ WriterInv /\ [Next]_vars => WriterInv'
  BY WritersNewest
<1>3. RefreshInv /\ WriterInv /\ WriterInv' /\ JoinsOwn /\ OneRotation /\ RetireInv /\ [Next]_vars
        => RetireInv'
  BY RetireKept
<1>4. RetireInv => OnlyDeadGrantsRetired
  BY DEF RetireInv, Retiring, Dead, OnlyDeadGrantsRetired
<1> QED
  BY <1>1, <1>2, <1>3, <1>4, RefreshInvariant, PTL DEF Spec

\* Where the calls of each worker come one after the other, the last condition is
\* the only one.
THEOREM ApartDeadGrantsOnly ==
  ASSUME Prompt, ~Transient
  PROVE  Spec /\ []Apart /\ []OneRotation => []OnlyDeadGrantsRetired
  BY ApartCallsKeepNewestPair, DeadGrantsOnly, PTL
=============================================================================
