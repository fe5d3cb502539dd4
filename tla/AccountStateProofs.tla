------------------------- MODULE AccountStateProofs -------------------------
(***************************************************************************)
(* Proofs about AccountState, for any requests, models, listed models and  *)
(* bounds: the types, and what keeps an account out and brings it back.    *)
(***************************************************************************)
EXTENDS AccountState, TLAPS

RowTypes == [active : BOOLEAN, mark : BOOLEAN, status : Statuses, prev : Statuses,
             window : Instants, locks : [LockKeys -> Instants], err : Texts]

ReqTypes == [pc : Places, model : Models \cup {NoModel}, copy : Copies \cup {NoRow},
             seen : Statuses, told : Texts, kind : Kinds]

Fields == {"active", "mark", "status", "prev", "window", "locks", "err"}

\* A patch has some of the row's fields, each of its type.
IsPatch(p) ==
  /\ DOMAIN p \subseteq Fields
  /\ "active" \in DOMAIN p => p.active \in BOOLEAN
  /\ "mark" \in DOMAIN p => p.mark \in BOOLEAN
  /\ "status" \in DOMAIN p => p.status \in Statuses
  /\ "prev" \in DOMAIN p => p.prev \in Statuses
  /\ "window" \in DOMAIN p => p.window \in Instants
  /\ "err" \in DOMAIN p => p.err \in Texts
  /\ "locks" \in DOMAIN p
  /\ DOMAIN p.locks \subseteq LockKeys
  /\ \A k \in DOMAIN p.locks : p.locks[k] \in Instants

\* The patch activates the account.
Activates(p) == "status" \in DOMAIN p /\ p.status = "active"

\* What the place of a request says of it.  A failure is written before the last
\* instant, so that its lock has an end.
ReqInv ==
  \A r \in Reqs :
    /\ req[r].pc # "idle" => req[r].model \in Models
    /\ req[r].pc = "fill" => req[r].model \in Listed
    /\ req[r].pc \in {"fill", "check", "upstream", "unkey", "clear"} => req[r].copy \in Copies
    /\ req[r].pc \in {"mark", "key"} => now < LastInstant

\* An active row has no marker, and "disabled" only from its enabling.
BucketInv == row.active => ~row.mark /\ (row.status = "disabled" => cause = "restored")

\* As long as a trace of a ban is left, in the row or in what a request read, the
\* ban's key is there, or about to be written, or was deleted.
BanInv ==
  (row.status = "disabled" \/ row.prev = "disabled" \/ \E q \in Reqs : req[q].seen = "disabled")
    => \/ keyLifted
       \/ connUntil = BanEnd
       \/ \E q \in Reqs : req[q].pc = "key" /\ req[q].kind = "fatal"

\* A timed status has its time but for the three named causes.
WindowInv == TimedWithoutTime => cause \in {"stale", "credit", "restored"}

\* The inductive invariant.
AccountInv == TypeOK /\ ReqInv /\ BucketInv /\ BanInv /\ WindowInv

---------------------------------------------------------------------------
(* updateProviderConnection, field by field.                                *)

LEMMA MergeApply ==
  ASSUME NEW f, NEW g, NEW x
  PROVE  /\ DOMAIN Merge(f, g) = DOMAIN f \cup DOMAIN g
         /\ x \in DOMAIN f => Merge(f, g)[x] = f[x]
         /\ x \in DOMAIN g /\ x \notin DOMAIN f => Merge(f, g)[x] = g[x]
  BY DEF Merge

LEMMA InstantsHaveZero == 0 \in Instants /\ LastInstant \in Nat
  BY ConstantsAssumption DEF Instants

\* resetHealthStateOnActivation.
LEMMA ResetFields ==
  ASSUME row \in RowTypes, NEW p, IsPatch(p)
  PROVE  LET n == ResetHealthState(p)
         IN  /\ IsPatch(n)
             /\ ~Activates(p) => n = p
             /\ Activates(p) => /\ n.window = 0 /\ n.mark = FALSE /\ n.status = "active"
                                /\ DOMAIN n = DOMAIN p \cup {"window", "mark", "locks", "err"}
                                /\ "active" \in DOMAIN p => n.active = p.active
                                /\ "prev" \in DOMAIN p => n.prev = p.prev
<1> DEFINE n == ResetHealthState(p)
<1>1. CASE ~Activates(p)
  BY <1>1 DEF Activates, ResetHealthState
<1>2. CASE Activates(p)
  <2> DEFINE c == Cleared(p)
             e == Merge(p, [err |-> "none"])
  <2>1. n = Merge(c, e)
    BY <1>2 DEF Activates, ResetHealthState
  <2>2. DOMAIN c = {"window", "mark", "locks"} /\ c.window = 0 /\ c.mark = FALSE
    BY DEF Cleared
  <2>3. DOMAIN c.locks \subseteq LockKeys /\ \A k \in DOMAIN c.locks : c.locks[k] \in Instants
    BY InstantsHaveZero DEF Cleared, Merge, IsPatch
  <2>4. /\ DOMAIN e = DOMAIN p \cup {"err"}
        /\ \A x \in DOMAIN p : e[x] = p[x]
        /\ "err" \notin DOMAIN p => e.err = "none"
    BY DEF Merge
  <2> HIDE DEF c, e
  <2>5. /\ DOMAIN n = DOMAIN p \cup {"window", "mark", "locks", "err"}
        /\ n.window = 0 /\ n.mark = FALSE /\ n.locks = c.locks
        /\ \A x \in DOMAIN e \ {"window", "mark", "locks"} : n[x] = e[x]
    BY <2>1, <2>2, <2>4 DEF Merge
  <2> HIDE DEF n
  <2>6. /\ "status" \in DOMAIN p /\ p.status = "active"
        /\ n.status = e.status /\ e.status = p.status
    BY <1>2, <2>4, <2>5 DEF Activates
  <2>7. /\ "active" \in DOMAIN p => n.active = p.active
        /\ "prev" \in DOMAIN p => n.prev = p.prev
    BY <2>4, <2>5
  <2>8. n.err \in Texts
    BY <2>4, <2>5 DEF IsPatch, Texts
  <2>9. IsPatch(n)
    BY <2>3, <2>5, <2>6, <2>7, <2>8, InstantsHaveZero DEF IsPatch, Fields, Statuses
  <2>10. n.window = 0 /\ n.mark = FALSE /\ n.status = "active"
    BY <2>5, <2>6
  <2> QED
    BY <1>2, <2>5, <2>7, <2>9, <2>10 DEF n
<1> QED
  BY <1>1, <1>2

\* The row that a patch leaves: activation and the bucket are derived.
LEMMA UpdateFields ==
  ASSUME row \in RowTypes, NEW p, IsPatch(p), UpdateRow(p)
  PROVE  /\ row' \in RowTypes
         /\ row'.status = IF "status" \in DOMAIN p THEN p.status ELSE row.status
         /\ row'.prev = IF "prev" \in DOMAIN p THEN p.prev ELSE row.prev
         /\ row'.window = IF Activates(p) THEN 0
                          ELSE IF "window" \in DOMAIN p THEN p.window ELSE row.window
         /\ row'.active => /\ ~row'.mark /\ row'.status # "disabled"
                           /\ IF "active" \in DOMAIN p THEN p.active ELSE IsActive(row)
<1> DEFINE n == ResetHealthState(p)
           existing == [row EXCEPT !.active = IsActive(row)]
           l == Merge(n.locks, row.locks)
           m == Merge([n EXCEPT !.locks = l], existing)
<1>1. row' = [m EXCEPT !.active = IsActive(m)]
  BY DEF UpdateRow
<1>2. /\ IsPatch(n)
      /\ ~Activates(p) => n = p
      /\ Activates(p) => /\ n.window = 0 /\ n.mark = FALSE /\ n.status = "active"
                         /\ DOMAIN n = DOMAIN p \cup {"window", "mark", "locks", "err"}
                         /\ "active" \in DOMAIN p => n.active = p.active
                         /\ "prev" \in DOMAIN p => n.prev = p.prev
  BY ResetFields
<1>3. existing \in RowTypes /\ existing.active = IsActive(row)
      /\ existing.status = row.status /\ existing.prev = row.prev /\ existing.window = row.window
  BY DEF RowTypes, IsActive
<1>4. row.locks \in [LockKeys -> Instants]
  BY DEF RowTypes
<1>5. l \in [LockKeys -> Instants]
  <2> HIDE DEF n
  <2>1. DOMAIN l = LockKeys /\ l = [k \in DOMAIN l |-> l[k]]
    BY <1>2, <1>4 DEF Merge, IsPatch
  <2>2. \A k \in LockKeys : l[k] \in Instants
    BY <1>2, <1>4 DEF Merge, IsPatch
  <2> QED
    BY <2>1, <2>2
<1> HIDE DEF n, existing, l
<1>6. /\ DOMAIN m = Fields
      /\ m.locks = l
      /\ \A x \in Fields \ {"locks"} : m[x] = IF x \in DOMAIN n THEN n[x] ELSE existing[x]
  <2>1. DOMAIN existing = Fields /\ DOMAIN n \subseteq Fields /\ "locks" \in DOMAIN n
    BY <1>2, <1>3 DEF RowTypes, Fields, IsPatch
  <2> QED
    BY <2>1 DEF Merge
<1>7. m = [x \in Fields |-> m[x]]
  BY <1>6 DEF m, Merge
<1> HIDE DEF m
<1>8. /\ m.active = IF "active" \in DOMAIN n THEN n.active ELSE existing.active
      /\ m.mark = IF "mark" \in DOMAIN n THEN n.mark ELSE existing.mark
      /\ m.status = IF "status" \in DOMAIN n THEN n.status ELSE existing.status
      /\ m.prev = IF "prev" \in DOMAIN n THEN n.prev ELSE existing.prev
      /\ m.window = IF "window" \in DOMAIN n THEN n.window ELSE existing.window
      /\ m.err = IF "err" \in DOMAIN n THEN n.err ELSE existing.err
  BY <1>6 DEF Fields
<1>9. /\ m.active \in BOOLEAN /\ m.mark \in BOOLEAN /\ m.status \in Statuses
      /\ m.prev \in Statuses /\ m.window \in Instants /\ m.err \in Texts
      /\ m.locks \in [LockKeys -> Instants]
  BY <1>2, <1>3, <1>5, <1>6, <1>8 DEF IsPatch, RowTypes
<1>10. m \in RowTypes
  BY <1>7, <1>9 DEF RowTypes, Fields
<1>11. /\ row' \in RowTypes /\ row'.active = IsActive(m) /\ row'.mark = m.mark
       /\ row'.status = m.status /\ row'.prev = m.prev /\ row'.window = m.window
  BY <1>1, <1>10 DEF RowTypes, IsActive
<1>12. row'.active => ~m.mark /\ m.status # "disabled" /\ m.active
  BY <1>11 DEF IsActive
<1> QED
  BY <1>2, <1>3, <1>8, <1>11, <1>12 DEF Activates

---------------------------------------------------------------------------
(* The rows that a failure and a success leave.                             *)

LEMMA MarkWriteRow ==
  ASSUME AccountInv, NEW r \in Reqs, MarkWrite(r)
  PROVE  /\ row' \in RowTypes
         /\ row'.active => ~row'.mark /\ row'.status # "disabled" /\ IsActive(row)
         /\ req[r].kind # "fatal" => row'.prev = row.prev
         /\ req[r].kind \in Timed => row'.status = req[r].kind /\ row'.window # 0
         /\ req[r].kind = "fatal" => row'.status = "disabled"
         /\ req[r].kind = "credit" => row'.status = "exhausted"
         /\ req[r].kind \in {"model", "timeout"} =>
              /\ row'.status = req[r].seen
              /\ row'.window = IF req[r].seen = "active" THEN 0 ELSE row.window
<1>1. PICK text \in Texts : UpdateRow(MarkPatch(r, text))
  BY DEF MarkWrite
<1> DEFINE p == MarkPatch(r, text)
<1>2. UpdateRow(p) /\ row \in RowTypes
  BY <1>1 DEF AccountInv, TypeOK, RowTypes
<1>3. /\ now \in Instants /\ now + 1 \in Instants /\ now + 1 # 0 /\ 0 \in Instants
      /\ req[r].model \in Models /\ req[r].seen \in Statuses /\ req[r].kind \in Kinds
      /\ req[r].told \in Texts
  BY ConstantsAssumption DEF MarkWrite, AccountInv, TypeOK, ReqInv, Instants
<1>4. CASE req[r].kind = "fatal"
  <2>1. p = [active |-> FALSE, mark |-> TRUE, status |-> "disabled", prev |-> req[r].seen,
             window |-> 0, locks |-> [k \in {All} |-> 0]]
    BY <1>4 DEF MarkPatch, Timed
  <2>2. /\ IsPatch(p) /\ "active" \in DOMAIN p /\ p.active = FALSE
        /\ "status" \in DOMAIN p /\ p.status = "disabled"
    BY <1>3, <2>1 DEF IsPatch, Fields, LockKeys, Statuses
  <2> HIDE DEF p
  <2>3. row' \in RowTypes /\ (row'.active => p.active) /\ row'.status = p.status
    BY <1>2, <2>2, UpdateFields
  <2> QED
    BY <1>4, <2>2, <2>3 DEF Timed
<1>5. CASE req[r].kind \in Timed
  <2>1. p = [status |-> req[r].kind, window |-> now + 1, locks |-> [k \in {All} |-> now + 1],
             err |-> text]
    BY <1>5 DEF MarkPatch, Timed
  <2>2. /\ IsPatch(p) /\ DOMAIN p = {"status", "window", "locks", "err"}
        /\ p.status = req[r].kind /\ p.window = now + 1
    BY <1>3, <1>5, <2>1 DEF IsPatch, Fields, LockKeys, Statuses, Timed
  <2> HIDE DEF p
  <2>3. ~Activates(p)
    BY <1>5, <2>2 DEF Activates, Timed
  <2>4. /\ row' \in RowTypes /\ row'.status = p.status /\ row'.window = p.window
        /\ row'.prev = row.prev
        /\ row'.active => ~row'.mark /\ row'.status # "disabled" /\ IsActive(row)
    BY <1>2, <2>2, <2>3, UpdateFields
  <2> QED
    BY <1>3, <1>5, <2>2, <2>4 DEF Timed
<1>6. CASE req[r].kind \in {"credit", "model", "timeout"}
  <2>1. PICK t \in Instants, e \in Texts :
          p = [status |-> IF req[r].kind = "credit" THEN "exhausted" ELSE req[r].seen,
               locks |-> [k \in {req[r].model} |-> t], err |-> e]
    BY <1>3, <1>6 DEF MarkPatch, Timed
  <2>2. /\ IsPatch(p) /\ DOMAIN p = {"status", "locks", "err"}
        /\ p.status = IF req[r].kind = "credit" THEN "exhausted" ELSE req[r].seen
    BY <1>3, <2>1 DEF IsPatch, Fields, LockKeys, Statuses
  <2> HIDE DEF p
  <2>3. Activates(p) <=> req[r].kind # "credit" /\ req[r].seen = "active"
    BY <2>2 DEF Activates
  <2>4. /\ row' \in RowTypes /\ row'.status = p.status /\ row'.prev = row.prev
        /\ row'.window = IF Activates(p) THEN 0 ELSE row.window
        /\ row'.active => ~row'.mark /\ row'.status # "disabled" /\ IsActive(row)
    BY <1>2, <2>2, <2>3, UpdateFields
  <2> QED
    BY <1>6, <2>2, <2>3, <2>4 DEF Timed
<1> QED
  BY <1>3, <1>4, <1>5, <1>6 DEF Kinds, Timed

LEMMA ClearWriteRow ==
  ASSUME AccountInv, NEW r \in Reqs, ClearWrite(r)
  PROVE  /\ row' \in RowTypes
         /\ row'.active => ~row'.mark /\ row'.status # "disabled" /\ IsActive(row)
         /\ row'.prev = row.prev
         /\ AccountFree(r) => row'.status = "active"
         /\ ~AccountFree(r) => row'.status = row.status /\ row'.window = row.window
<1> DEFINE p == ClearPatch(r)
           cleared == [locks |-> [k \in KeysToClear(r) |-> 0]]
<1>1. UpdateRow(p) /\ row \in RowTypes
  BY DEF ClearWrite, AccountInv, TypeOK, RowTypes
<1>2. KeysToClear(r) \subseteq LockKeys
  BY DEF KeysToClear
<1>3. CASE AccountFree(r)
  <2>1. p = Merge([status |-> "active"], cleared)
    BY <1>3 DEF ClearPatch
  <2>2. /\ DOMAIN p = {"status", "locks"} /\ p.status = "active"
        /\ p.locks = [k \in KeysToClear(r) |-> 0]
    BY <2>1 DEF Merge
  <2> HIDE DEF p
  <2>3. IsPatch(p)
    BY <1>2, <2>2, InstantsHaveZero DEF IsPatch, Fields, Statuses
  <2>4. /\ row' \in RowTypes /\ row'.status = p.status /\ row'.prev = row.prev
        /\ row'.active => ~row'.mark /\ row'.status # "disabled" /\ IsActive(row)
    BY <1>1, <2>2, <2>3, UpdateFields
  <2> QED
    BY <1>3, <2>2, <2>4
<1>4. CASE ~AccountFree(r)
  <2>1. p = cleared
    BY <1>4 DEF ClearPatch
  <2>2. DOMAIN p = {"locks"} /\ p.locks = [k \in KeysToClear(r) |-> 0]
    BY <2>1
  <2> HIDE DEF p
  <2>3. IsPatch(p) /\ ~Activates(p)
    BY <1>2, <2>2, InstantsHaveZero DEF IsPatch, Activates, Fields
  <2>4. /\ row' \in RowTypes /\ row'.status = row.status /\ row'.prev = row.prev
        /\ row'.window = row.window
        /\ row'.active => ~row'.mark /\ row'.status # "disabled" /\ IsActive(row)
    BY <1>1, <2>2, <2>3, UpdateFields
  <2> QED
    BY <1>4, <2>4
<1> QED
  BY <1>3, <1>4

---------------------------------------------------------------------------
(* The invariant holds at the start, and every action keeps it.             *)

\* The types of everything but the rows, by one name.
LEMMA TypeParts ==
  TypeOK <=> /\ now \in Instants
             /\ row \in RowTypes
             /\ cached \in [Listed -> Copies \cup {NoRow}]
             /\ connUntil \in Instants \cup {BanEnd}
             /\ modelUntil \in [Models -> Instants]
             /\ req \in [Reqs -> ReqTypes]
             /\ unkeying \in BOOLEAN
             /\ cause \in {"fresh", "stale", "credit", "restored"}
             /\ keyLifted \in BOOLEAN
             /\ fails \in 0 .. MaxFails
             /\ admins \in 0 .. MaxAdmin
  BY DEF TypeOK, RowTypes, ReqTypes

LEMMA RowSteps ==
  /\ CleanRow \in RowTypes
  /\ Idle \in ReqTypes
  /\ row \in RowTypes => CopyOf(row) \in Copies
  /\ [m \in Listed |-> NoRow] \in [Listed -> Copies \cup {NoRow}]
<1>1. CleanRow \in RowTypes
  BY InstantsHaveZero DEF CleanRow, RowTypes, Statuses, Texts
<1>2. Idle \in ReqTypes
  BY DEF Idle, ReqTypes, Places, Statuses, Texts, Kinds
<1>3. row \in RowTypes => CopyOf(row) \in Copies
  BY DEF RowTypes, CopyOf, Copies
<1> QED
  BY <1>1, <1>2, <1>3

LEMMA InitAccountInv == Init => AccountInv
<1> SUFFICES ASSUME Init PROVE AccountInv
  OBVIOUS
<1>1. now = 0 /\ now \in Instants /\ connUntil \in Instants /\ modelUntil \in [Models -> Instants]
  BY InstantsHaveZero DEF Init
<1>2. fails \in 0 .. MaxFails /\ admins \in 0 .. MaxAdmin
  BY ConstantsAssumption DEF Init
<1>3. /\ row \in RowTypes /\ cached \in [Listed -> Copies \cup {NoRow}]
      /\ req \in [Reqs -> ReqTypes]
  BY RowSteps DEF Init
<1>4. unkeying \in BOOLEAN /\ keyLifted \in BOOLEAN /\ cause \in {"fresh", "stale", "credit", "restored"}
  BY DEF Init
<1>5. TypeOK
  BY <1>1, <1>2, <1>3, <1>4, TypeParts
<1>6. \A r \in Reqs : req[r].pc = "idle" /\ req[r].seen = "active"
  BY DEF Init, Idle
<1>7. ReqInv
  BY <1>6 DEF ReqInv
<1>8. BucketInv /\ BanInv /\ WindowInv
  BY <1>6 DEF Init, CleanRow, BucketInv, BanInv, WindowInv, TimedWithoutTime, Timed
<1> QED
  BY <1>5, <1>7, <1>8 DEF AccountInv

\* A step of one request that leaves the row, the account's key and the marks of
\* the properties alone: a request that is no longer "key" was not writing a ban.
LEMMA QuietStep ==
  ASSUME AccountInv, NEW r \in Reqs, NEW q \in ReqTypes,
         req' = [req EXCEPT ![r] = q],
         UNCHANGED <<now, row, connUntil, unkeying, admins, cause, keyLifted>>,
         cached' \in [Listed -> Copies \cup {NoRow}],
         modelUntil' \in [Models -> Instants],
         fails' \in 0 .. MaxFails,
         q.pc # "idle" => q.model \in Models,
         q.pc = "fill" => q.model \in Listed,
         q.pc \in {"fill", "check", "upstream", "unkey", "clear"} => q.copy \in Copies,
         q.pc \in {"mark", "key"} => now < LastInstant,
         q.seen = "disabled" => row.status = "disabled" \/ req[r].seen = "disabled",
         req[r].pc = "key" => req[r].kind # "fatal"
  PROVE  AccountInv'
<1>0. TypeOK /\ req \in [Reqs -> ReqTypes]
  BY TypeParts DEF AccountInv
<1>1. /\ req'[r] = q
      /\ \A o \in Reqs \ {r} : req'[o] = req[o]
      /\ req' \in [Reqs -> ReqTypes]
  BY <1>0
<1>2. TypeOK'
  BY <1>0, <1>1 DEF TypeOK, ReqTypes
<1>3. ReqInv'
  BY <1>1 DEF AccountInv, ReqInv
<1>4. BucketInv' /\ WindowInv'
  BY DEF AccountInv, BucketInv, WindowInv, TimedWithoutTime
<1>5. BanInv'
  <2>1. (\E o \in Reqs : req'[o].seen = "disabled")
          => row.status = "disabled" \/ \E o \in Reqs : req[o].seen = "disabled"
    BY <1>1
  <2>2. (\E o \in Reqs : req[o].pc = "key" /\ req[o].kind = "fatal")
          => \E o \in Reqs : req'[o].pc = "key" /\ req'[o].kind = "fatal"
    BY <1>1
  <2> QED
    BY <2>1, <2>2 DEF AccountInv, BanInv
<1> QED
  BY <1>2, <1>3, <1>4, <1>5 DEF AccountInv

LEMMA TickKeeps ==
  ASSUME AccountInv, Tick
  PROVE  AccountInv'
<1>1. now \in Nat /\ LastInstant \in Nat /\ now' = now + 1 /\ now' \in Instants
  BY InstantsHaveZero DEF AccountInv, TypeOK, Tick, Instants
<1>2. TypeOK'
  BY <1>1 DEF AccountInv, TypeOK, Tick
<1>3. ReqInv'
  BY <1>1 DEF AccountInv, ReqInv, Tick
<1>4. BucketInv' /\ BanInv' /\ WindowInv'
  BY DEF AccountInv, Tick, BucketInv, BanInv, WindowInv, TimedWithoutTime
<1> QED
  BY <1>2, <1>3, <1>4 DEF AccountInv

LEMMA ReadCandidatesKeeps ==
  ASSUME AccountInv, NEW r \in Reqs, NEW m \in Models, ReadCandidates(r, m)
  PROVE  AccountInv'
<1>1. CopyOf(row) \in Copies /\ \A x \in Listed : cached[x] # NoRow => cached[x] \in Copies
  BY RowSteps, TypeParts DEF AccountInv
<1>2. PICK next \in {"check", "fill"}, c \in Copies :
        /\ next = "fill" => m \in Listed
        /\ \/ m \in Listed /\ cached[m] # NoRow /\ c = cached[m]
           \/ c = CopyOf(row)
        /\ req' = [req EXCEPT ![r] = [Idle EXCEPT !.pc = next, !.model = m, !.copy = c]]
  BY <1>1 DEF ReadCandidates
<1> DEFINE q == [Idle EXCEPT !.pc = next, !.model = m, !.copy = c]
<1>3. /\ q \in ReqTypes /\ q.pc = next /\ q.model = m /\ q.copy = c /\ q.seen = "active"
  BY RowSteps DEF Idle, ReqTypes, Places
<1>4. req[r].pc = "idle"
  BY DEF ReadCandidates
<1>5. /\ UNCHANGED <<now, row, cached, connUntil, modelUntil, unkeying, fails, admins, cause, keyLifted>>
      /\ TypeOK
  BY DEF ReadCandidates, AccountInv
<1> HIDE DEF q
<1> QED
  BY <1>2, <1>3, <1>4, <1>5, QuietStep DEF TypeOK, q

\* The record of a request with another place.
LEMMA ReqAt ==
  ASSUME AccountInv, NEW r \in Reqs, NEW p \in Places
  PROVE  LET q == [req[r] EXCEPT !.pc = p]
         IN  /\ req[r] \in ReqTypes /\ q \in ReqTypes /\ q.pc = p
             /\ q.model = req[r].model /\ q.copy = req[r].copy
             /\ q.seen = req[r].seen /\ q.kind = req[r].kind
  BY TypeParts DEF AccountInv, ReqTypes

LEMMA IdleFields ==
  Idle \in ReqTypes /\ Idle.pc = "idle" /\ Idle.seen = "active"
  BY RowSteps DEF Idle

LEMMA FillKeeps ==
  ASSUME AccountInv, NEW r \in Reqs, Fill(r)
  PROVE  AccountInv'
<1> DEFINE q == [req[r] EXCEPT !.pc = "check"]
<1>1. /\ req[r].pc = "fill" /\ req[r].model \in Listed /\ req[r].model \in Models
      /\ req[r].copy \in Copies /\ TypeOK
  BY DEF Fill, AccountInv, ReqInv
<1>2. req' = [req EXCEPT ![r] = q]
  BY DEF Fill
<1>3. cached' \in [Listed -> Copies \cup {NoRow}]
  BY <1>1 DEF Fill, TypeOK
<1>4. /\ UNCHANGED <<now, row, connUntil, modelUntil, unkeying, fails, admins, cause, keyLifted>>
      /\ modelUntil \in [Models -> Instants] /\ fails \in 0 .. MaxFails
  BY <1>1 DEF Fill, TypeOK
<1>5. /\ q \in ReqTypes /\ q.pc = "check" /\ q.model = req[r].model /\ q.copy = req[r].copy
      /\ q.seen = req[r].seen
  BY ReqAt DEF Places
<1> HIDE DEF q
<1> QED
  BY <1>1, <1>2, <1>3, <1>4, <1>5, QuietStep

\* Check, ClientError and Succeed: a request that read a copy keeps it or ends.
LEMMA UpstreamKeeps ==
  ASSUME AccountInv, NEW r \in Reqs, Check(r) \/ ClientError(r) \/ Succeed(r)
  PROVE  AccountInv'
<1>1. PICK p \in {"upstream", "unkey"} :
        req' = [req EXCEPT ![r] = Idle] \/ req' = [req EXCEPT ![r] = [req[r] EXCEPT !.pc = p]]
  BY DEF Check, ClientError, Succeed
<1>0. p \in Places
  BY DEF Places
<1> DEFINE q == [req[r] EXCEPT !.pc = p]
<1>2. /\ req[r].pc \in {"check", "upstream"} /\ TypeOK
      /\ UNCHANGED <<now, row, cached, connUntil, modelUntil, unkeying, fails, admins, cause, keyLifted>>
  BY DEF Check, ClientError, Succeed, AccountInv
<1>3. req[r].model \in Models /\ req[r].copy \in Copies
  BY <1>2 DEF AccountInv, ReqInv
<1>4. /\ q \in ReqTypes /\ q.pc = p /\ q.model = req[r].model /\ q.copy = req[r].copy
      /\ q.seen = req[r].seen
  BY ReqAt, <1>0
<1>5. /\ cached' \in [Listed -> Copies \cup {NoRow}] /\ modelUntil' \in [Models -> Instants]
      /\ fails' \in 0 .. MaxFails
  BY <1>2 DEF TypeOK
<1> HIDE DEF q
<1>6. CASE req' = [req EXCEPT ![r] = Idle]
  BY <1>2, <1>5, <1>6, IdleFields, QuietStep
<1>7. CASE req' = [req EXCEPT ![r] = q]
  BY <1>2, <1>3, <1>4, <1>5, <1>7, QuietStep
<1> QED
  BY <1>1, <1>6, <1>7 DEF q

LEMMA FailKeeps ==
  ASSUME AccountInv, NEW r \in Reqs, NEW k \in Kinds, Fail(r, k)
  PROVE  AccountInv'
<1> DEFINE q == [req[r] EXCEPT !.pc = "mark", !.kind = k, !.copy = NoRow, !.seen = row.status,
                           !.told = row.err]
<1>1. /\ req[r].pc = "upstream" /\ req[r].model \in Models /\ now < LastInstant
      /\ TypeOK /\ req' = [req EXCEPT ![r] = q]
      /\ UNCHANGED <<now, row, cached, connUntil, modelUntil, unkeying, admins, cause, keyLifted>>
  BY DEF Fail, AccountInv, ReqInv
<1>2. fails' \in 0 .. MaxFails
  BY <1>1, ConstantsAssumption DEF Fail, TypeOK
<1>3. /\ q \in ReqTypes /\ q.pc = "mark" /\ q.model = req[r].model /\ q.seen = row.status
  BY <1>1, TypeParts DEF ReqTypes, RowTypes, Places
<1>4. /\ cached' \in [Listed -> Copies \cup {NoRow}] /\ modelUntil' \in [Models -> Instants]
  BY <1>1 DEF TypeOK
<1> HIDE DEF q
<1> QED
  BY <1>1, <1>2, <1>3, <1>4, QuietStep


LEMMA MarkWriteKeeps ==
  ASSUME AccountInv, NEW r \in Reqs, MarkWrite(r)
  PROVE  AccountInv'
<1> DEFINE q == [req[r] EXCEPT !.pc = "key"]
<1>1. /\ req[r].pc = "mark" /\ req[r].model \in Models /\ now < LastInstant
      /\ TypeOK /\ req' = [req EXCEPT ![r] = q]
      /\ UNCHANGED <<now, connUntil, modelUntil, unkeying, fails, admins, keyLifted>>
      /\ cached' = [m \in Listed |-> NoRow]
  BY DEF MarkWrite, UpdateRow, AccountInv, ReqInv
<1>2. /\ req \in [Reqs -> ReqTypes] /\ q \in ReqTypes /\ q.pc = "key"
      /\ q.model = req[r].model /\ q.seen = req[r].seen /\ q.kind = req[r].kind
      /\ req[r].kind \in Kinds /\ req[r].seen \in Statuses
  BY <1>1, TypeParts DEF ReqTypes, Places
<1> HIDE DEF q
<1>3. /\ req'[r] = q
      /\ \A o \in Reqs \ {r} : req'[o] = req[o]
      /\ req' \in [Reqs -> ReqTypes]
  BY <1>1, <1>2
<1>4. /\ req[r].kind = "credit" => cause' = "credit"
      /\ req[r].kind \in {"model", "timeout"} =>
           cause' = IF req[r].seen = row.status THEN cause ELSE "stale"
      /\ req[r].kind \notin {"credit", "model", "timeout"} => cause' = "fresh"
  BY DEF MarkWrite, CauseOf
<1>5. TypeOK'
  BY <1>1, <1>3, <1>4, RowSteps, MarkWriteRow DEF TypeOK, RowTypes, ReqTypes
<1>6. ReqInv'
  BY <1>1, <1>2, <1>3 DEF AccountInv, ReqInv
<1>7. BucketInv'
  BY MarkWriteRow DEF BucketInv
<1>8. BanInv'
  <2>1. CASE req[r].kind = "fatal"
    BY <1>2, <1>3, <2>1 DEF BanInv
  <2>2. CASE req[r].kind # "fatal"
    <3>1. row'.prev = row.prev
      BY <1>2, <2>2, MarkWriteRow DEF Kinds, Timed
    <3>2. row'.status = "disabled" => req[r].seen = "disabled"
      BY <1>2, <2>2, MarkWriteRow DEF Kinds, Timed
    <3>3. (\E o \in Reqs : req'[o].seen = "disabled") => \E o \in Reqs : req[o].seen = "disabled"
      BY <1>2, <1>3
    <3>4. (\E o \in Reqs : req[o].pc = "key" /\ req[o].kind = "fatal")
            => \E o \in Reqs : req'[o].pc = "key" /\ req'[o].kind = "fatal"
      BY <1>1, <1>3
    <3>5. connUntil' = connUntil /\ keyLifted' = keyLifted
      BY <1>1
    <3> QED
      BY <3>1, <3>2, <3>3, <3>4, <3>5 DEF AccountInv, BanInv
  <2> QED
    BY <2>1, <2>2
<1>9. WindowInv'
  <2>1. CASE req[r].kind = "fatal"
    BY <2>1, MarkWriteRow DEF WindowInv, TimedWithoutTime, Timed
  <2>2. CASE req[r].kind \in Timed
    BY <2>2, MarkWriteRow DEF WindowInv, TimedWithoutTime
  <2>3. CASE req[r].kind \in {"model", "timeout"}
    BY <1>4, <2>3, MarkWriteRow DEF AccountInv, WindowInv, TimedWithoutTime, Timed
  <2>4. CASE req[r].kind = "credit"
    BY <1>4, <2>4 DEF WindowInv
  <2> QED
    BY <1>2, <2>1, <2>2, <2>3, <2>4 DEF Kinds, Timed
<1> QED
  BY <1>5, <1>6, <1>7, <1>8, <1>9 DEF AccountInv

\* The key of the last failure is the ban's, or a shorter one put in its place.
LEMMA MarkKeyKeeps ==
  ASSUME AccountInv, NEW r \in Reqs, MarkKey(r)
  PROVE  AccountInv'
<1>1. /\ req[r].pc = "key" /\ req[r].model \in Models /\ now < LastInstant
      /\ TypeOK /\ req' = [req EXCEPT ![r] = Idle]
      /\ UNCHANGED <<now, row, cached, unkeying, fails, admins, cause>>
  BY DEF MarkKey, AccountInv, ReqInv
<1>2. /\ req \in [Reqs -> ReqTypes] /\ req[r].kind \in Kinds
      /\ keyLifted \in BOOLEAN /\ connUntil \in Instants \cup {BanEnd}
      /\ modelUntil \in [Models -> Instants]
  BY <1>1, TypeParts DEF ReqTypes
<1>3. now + 1 \in Instants
  BY <1>1, ConstantsAssumption DEF TypeOK, Instants
<1>4. /\ req'[r] = Idle
      /\ \A o \in Reqs \ {r} : req'[o] = req[o]
      /\ req' \in [Reqs -> ReqTypes]
  BY <1>1, <1>2, IdleFields
<1>5. \/ /\ req[r].kind = "fatal" /\ connUntil' = BanEnd /\ keyLifted' = FALSE
         /\ modelUntil' = modelUntil
      \/ /\ req[r].kind # "fatal" /\ connUntil' = now + 1
         /\ keyLifted' = (keyLifted \/ connUntil = BanEnd)
         /\ modelUntil' = modelUntil
      \/ /\ req[r].kind # "fatal" /\ connUntil' = connUntil /\ keyLifted' = keyLifted
         /\ modelUntil' = [modelUntil EXCEPT ![req[r].model] = now + 1]
      \/ req[r].kind # "fatal" /\ UNCHANGED <<connUntil, modelUntil, keyLifted>>
  <2>1. CASE req[r].kind = "fatal"
    BY <2>1 DEF MarkKey, Timed
  <2>2. CASE req[r].kind \in Timed
    BY <2>2 DEF MarkKey, Timed
  <2>3. CASE req[r].kind \in {"model", "credit"}
    BY <2>3 DEF MarkKey, Timed
  <2>4. CASE req[r].kind = "timeout"
    BY <2>4 DEF MarkKey, Timed
  <2> QED
    BY <1>2, <2>1, <2>2, <2>3, <2>4 DEF Kinds, Timed
<1>6. connUntil' \in Instants \cup {BanEnd} /\ modelUntil' \in [Models -> Instants]
  BY <1>2, <1>3, <1>5
<1>7. keyLifted' \in BOOLEAN
  BY <1>2, <1>5
<1>8. TypeOK'
  BY <1>1, <1>4, <1>6, <1>7 DEF TypeOK, ReqTypes
<1>9. ReqInv'
  BY <1>1, <1>4, IdleFields DEF AccountInv, ReqInv
<1>10. BucketInv' /\ WindowInv'
  BY <1>1 DEF AccountInv, BucketInv, WindowInv, TimedWithoutTime
<1>11. BanInv'
  <2>1. (\E o \in Reqs : req'[o].seen = "disabled") => \E o \in Reqs : req[o].seen = "disabled"
    BY <1>4, IdleFields
  <2>2. req[r].kind # "fatal" =>
          ((\E o \in Reqs : req[o].pc = "key" /\ req[o].kind = "fatal")
             => \E o \in Reqs : req'[o].pc = "key" /\ req'[o].kind = "fatal")
    BY <1>4
  <2> QED
    BY <1>1, <1>5, <2>1, <2>2 DEF AccountInv, BanInv
<1> QED
  BY <1>8, <1>9, <1>10, <1>11 DEF AccountInv

LEMMA ClearKeysKeeps ==
  ASSUME AccountInv, NEW r \in Reqs, ClearKeys(r)
  PROVE  AccountInv'
<1> DEFINE q == [req[r] EXCEPT !.pc = "clear"]
<1>1. /\ req[r].pc = "unkey" /\ req[r].model \in Models /\ req[r].copy \in Copies
      /\ TypeOK /\ req' = [req EXCEPT ![r] = q]
      /\ modelUntil' = [modelUntil EXCEPT ![req[r].model] = 0]
      /\ UNCHANGED <<now, row, cached, unkeying, fails, admins, cause>>
  BY DEF ClearKeys, AccountInv, ReqInv
<1>2. /\ q \in ReqTypes /\ q.pc = "clear" /\ q.model = req[r].model /\ q.copy = req[r].copy
      /\ q.seen = req[r].seen /\ req \in [Reqs -> ReqTypes]
  BY <1>1, TypeParts DEF ReqTypes, Places
<1> HIDE DEF q
<1>3. /\ req'[r] = q
      /\ \A o \in Reqs \ {r} : req'[o] = req[o]
      /\ req' \in [Reqs -> ReqTypes]
  BY <1>1, <1>2
<1>4. \/ connUntil' = 0 /\ keyLifted' = (keyLifted \/ connUntil = BanEnd)
      \/ connUntil' = connUntil /\ keyLifted' = keyLifted
  BY DEF ClearKeys
<1>5. /\ connUntil' \in Instants \cup {BanEnd}
      /\ modelUntil' \in [Models -> Instants]
  BY <1>1, <1>4, InstantsHaveZero DEF TypeOK
<1>6. keyLifted' \in BOOLEAN
  BY <1>1, <1>4 DEF TypeOK
<1>7. TypeOK'
  BY <1>1, <1>3, <1>5, <1>6 DEF TypeOK, ReqTypes
<1>8. ReqInv'
  BY <1>1, <1>2, <1>3 DEF AccountInv, ReqInv
<1>9. BucketInv' /\ WindowInv'
  BY <1>1 DEF AccountInv, BucketInv, WindowInv, TimedWithoutTime
<1>10. BanInv'
  <2>1. (\E o \in Reqs : req'[o].seen = "disabled") => \E o \in Reqs : req[o].seen = "disabled"
    BY <1>2, <1>3
  <2>2. (\E o \in Reqs : req[o].pc = "key" /\ req[o].kind = "fatal")
          => \E o \in Reqs : req'[o].pc = "key" /\ req'[o].kind = "fatal"
    BY <1>1, <1>3
  <2> QED
    BY <1>1, <1>4, <2>1, <2>2 DEF AccountInv, BanInv
<1> QED
  BY <1>7, <1>8, <1>9, <1>10 DEF AccountInv

LEMMA ClearWriteKeeps ==
  ASSUME AccountInv, NEW r \in Reqs, ClearWrite(r)
  PROVE  AccountInv'
<1>1. /\ req[r].pc = "clear" /\ TypeOK /\ req' = [req EXCEPT ![r] = Idle]
      /\ cached' = [m \in Listed |-> NoRow]
      /\ UNCHANGED <<now, connUntil, modelUntil, unkeying, fails, admins, keyLifted>>
  BY DEF ClearWrite, UpdateRow, AccountInv
<1>2. /\ req'[r] = Idle
      /\ \A o \in Reqs \ {r} : req'[o] = req[o]
      /\ req' \in [Reqs -> ReqTypes]
  BY <1>1, IdleFields, TypeParts
<1>3. /\ AccountFree(r) => cause' = "fresh"
      /\ ~AccountFree(r) => cause' = cause
  BY DEF ClearWrite
<1>4. TypeOK'
  BY <1>1, <1>2, <1>3, RowSteps, ClearWriteRow DEF TypeOK, RowTypes, ReqTypes
<1>5. ReqInv'
  BY <1>1, <1>2, IdleFields DEF AccountInv, ReqInv
<1>6. BucketInv'
  BY ClearWriteRow DEF BucketInv
<1>7. WindowInv'
  BY <1>3, ClearWriteRow DEF AccountInv, WindowInv, TimedWithoutTime, Timed
<1>8. BanInv'
  <2>1. row'.prev = row.prev /\ (row'.status = "disabled" => row.status = "disabled")
    BY ClearWriteRow
  <2>2. (\E o \in Reqs : req'[o].seen = "disabled") => \E o \in Reqs : req[o].seen = "disabled"
    BY <1>2, IdleFields
  <2>3. (\E o \in Reqs : req[o].pc = "key" /\ req[o].kind = "fatal")
          => \E o \in Reqs : req'[o].pc = "key" /\ req'[o].kind = "fatal"
    BY <1>1, <1>2
  <2> QED
    BY <1>1, <2>1, <2>2, <2>3 DEF AccountInv, BanInv
<1> QED
  BY <1>4, <1>5, <1>6, <1>7, <1>8 DEF AccountInv


LEMMA AutoRecoverKeeps ==
  ASSUME AccountInv, AutoRecover
  PROVE  AccountInv'
<1>1. /\ TypeOK /\ row \in RowTypes /\ cached' = [m \in Listed |-> NoRow] /\ cause' = "fresh"
      /\ unkeying' = TRUE
      /\ UNCHANGED <<now, connUntil, modelUntil, req, fails, admins, keyLifted>>
  BY TypeParts DEF AutoRecover, AccountInv
<1>2. /\ row' \in RowTypes /\ row'.status = "active" /\ row'.mark = row.mark
      /\ row'.active = row.active /\ row'.prev = row.prev
  BY <1>1, InstantsHaveZero DEF AutoRecover, RowTypes, Statuses, Texts
<1>3. TypeOK'
  BY <1>1, <1>2, RowSteps DEF TypeOK, RowTypes
<1>4. ReqInv' /\ BanInv'
  BY <1>1, <1>2 DEF AccountInv, ReqInv, BanInv
<1>5. BucketInv' /\ WindowInv'
  BY <1>2 DEF AccountInv, BucketInv, WindowInv, TimedWithoutTime, Timed
<1> QED
  BY <1>3, <1>4, <1>5 DEF AccountInv

LEMMA AdminKeeps ==
  ASSUME AccountInv, Admin
  PROVE  AccountInv'
<1>1. /\ TypeOK /\ row \in RowTypes /\ cached' = [m \in Listed |-> NoRow]
      /\ admins < MaxAdmin /\ admins' = admins + 1
      /\ UNCHANGED <<now, connUntil, modelUntil, req, fails, keyLifted>>
  BY TypeParts DEF Admin, AdminReset, AdminDisable, AdminEnable, AccountInv
<1>2. /\ admins' \in 0 .. MaxAdmin /\ cached' \in [Listed -> Copies \cup {NoRow}]
  BY <1>1, ConstantsAssumption DEF TypeOK
<1>3. unkeying' \in BOOLEAN
  BY <1>1 DEF Admin, AdminReset, AdminDisable, AdminEnable, TypeOK
<1>4. CASE AdminReset
  <2>1. /\ row' \in RowTypes /\ row'.status = "active" /\ row'.mark = FALSE
        /\ row'.prev = row.prev /\ cause' = "fresh"
    BY <1>1, <1>4, RowSteps DEF AdminReset, RowTypes, CleanRow
  <2>2. TypeOK'
    BY <1>1, <1>2, <1>3, <2>1 DEF TypeOK, RowTypes
  <2>3. ReqInv' /\ BanInv' /\ BucketInv' /\ WindowInv'
    BY <1>1, <2>1 DEF AccountInv, ReqInv, BanInv, BucketInv, WindowInv, TimedWithoutTime, Timed
  <2> QED
    BY <2>2, <2>3 DEF AccountInv
<1>5. CASE AdminDisable
  <2>1. /\ row' \in RowTypes /\ row'.active = FALSE /\ row'.prev = row.status
        /\ row'.status = row.status /\ row'.window = row.window /\ cause' = cause
    BY <1>1, <1>5 DEF AdminDisable, RowTypes
  <2>2. TypeOK'
    BY <1>1, <1>2, <1>3, <2>1 DEF TypeOK, RowTypes
  <2>3. ReqInv' /\ BanInv' /\ BucketInv' /\ WindowInv'
    BY <1>1, <2>1 DEF AccountInv, ReqInv, BanInv, BucketInv, WindowInv, TimedWithoutTime
  <2> QED
    BY <2>2, <2>3 DEF AccountInv
<1>6. CASE AdminEnable
  <2>1. /\ row' \in RowTypes /\ row'.mark = FALSE /\ row'.prev = row.prev
        /\ row'.window = row.window
        /\ row'.status = IF row.status = "disabled" THEN row.prev ELSE row.status
        /\ cause' = IF row.status = "disabled" THEN "restored" ELSE cause
    BY <1>1, <1>6 DEF AdminEnable, RowTypes
  <2>2. TypeOK'
    BY <1>1, <1>2, <1>3, <2>1 DEF TypeOK, RowTypes
  <2>3. ReqInv' /\ BanInv' /\ BucketInv' /\ WindowInv'
    BY <1>1, <2>1 DEF AccountInv, ReqInv, BanInv, BucketInv, WindowInv, TimedWithoutTime
  <2> QED
    BY <2>2, <2>3 DEF AccountInv
<1> QED
  BY <1>4, <1>5, <1>6 DEF Admin

LEMMA DeleteKeysKeeps ==
  ASSUME AccountInv, DeleteKeys
  PROVE  AccountInv'
<1>1. /\ TypeOK /\ connUntil' = 0 /\ modelUntil' = [m \in Models |-> 0] /\ unkeying' = FALSE
      /\ keyLifted' = (keyLifted \/ connUntil = BanEnd)
      /\ UNCHANGED <<now, row, cached, req, fails, admins, cause>>
  BY DEF DeleteKeys, AccountInv
<1>2. keyLifted' \in BOOLEAN /\ unkeying' \in BOOLEAN
  BY <1>1 DEF TypeOK
<1>3. TypeOK'
  BY <1>1, <1>2, InstantsHaveZero DEF TypeOK
<1>4. ReqInv' /\ BanInv' /\ BucketInv' /\ WindowInv'
  BY <1>1 DEF AccountInv, ReqInv, BanInv, BucketInv, WindowInv, TimedWithoutTime
<1> QED
  BY <1>3, <1>4 DEF AccountInv

---------------------------------------------------------------------------
(* The theorems.                                                            *)

\* The invariant holds of every behaviour of the account.
THEOREM AccountInvariant == Spec => []AccountInv
<1>1. AccountInv /\ [Next]_vars => AccountInv'
  <2> SUFFICES ASSUME AccountInv, [Next]_vars PROVE AccountInv'
    OBVIOUS
  <2>1. CASE Tick
    BY <2>1, TickKeeps
  <2>2. CASE \E r \in Reqs : \E m \in Models : ReadCandidates(r, m)
    BY <2>2, ReadCandidatesKeeps
  <2>3. ASSUME NEW r \in Reqs, Proceed(r) PROVE AccountInv'
    BY <2>3, FillKeeps, UpstreamKeeps, FailKeeps, MarkWriteKeeps, MarkKeyKeeps, ClearKeysKeeps,
       ClearWriteKeeps DEF Proceed
  <2>4. CASE AutoRecover
    BY <2>4, AutoRecoverKeeps
  <2>5. CASE DeleteKeys
    BY <2>5, DeleteKeysKeeps
  <2>6. CASE Admin
    BY <2>6, AdminKeeps
  <2>7. CASE UNCHANGED vars
    BY <2>7 DEF vars, AccountInv, TypeOK, ReqInv, BanInv, BucketInv, WindowInv, TimedWithoutTime
  <2> QED
    BY <2>1, <2>2, <2>3, <2>4, <2>5, <2>6, <2>7 DEF Next
<1> QED
  BY InitAccountInv, <1>1, PTL DEF Spec

\* The row, the keys, the cached lists and the requests have their types: no key
\* of a model outlives the last instant (connectionsRepo.js, auth.js, client.js).
THEOREM TypeCorrect == Spec => []TypeOK
<1>1. AccountInv => TypeOK
  BY DEF AccountInv
<1> QED
  BY <1>1, AccountInvariant, PTL

\* The marker and is_active stay in step through every write of the row
\* (connectionsRepo.js:231): by BucketInv.
THEOREM BucketsComplete == Spec => []BucketComplete
<1>1. AccountInv => BucketComplete
  BY DEF AccountInv, BucketInv, BucketComplete
<1> QED
  BY <1>1, AccountInvariant, PTL

\* At rest, an account is usable for its models but for the named ways of being
\* kept out: at the last instant no lock is live but a ban's, and a timed status
\* without a time has one of its three causes, by WindowInv.
THEOREM AccountComesBack == Spec => []ComesBack
<1>1. AccountInv => ComesBack
  <2> SUFFICES ASSUME AccountInv, AtRest, IsActive(row), connUntil # BanEnd,
                      row.err # "barring", ~TimedWithoutTime, NEW m \in Models
               PROVE  Usable(m)
    BY DEF AccountInv, WindowInv, ComesBack
  <2>1. now = LastInstant /\ TypeOK /\ row \in RowTypes /\ LastInstant \in Nat
    BY InstantsHaveZero, TypeParts DEF AtRest, AccountInv
  <2>2. \A t \in Instants : ~Live(t)
    BY <2>1 DEF Live, Instants
  <2>3. row.window \in Instants /\ \A k \in LockKeys : row.locks[k] \in Instants
    BY <2>1 DEF RowTypes
  <2>4. m \in LockKeys /\ All \in LockKeys
    BY DEF LockKeys
  <2>5. Eligible(m)
    BY <2>2, <2>3, <2>4 DEF Eligible, IsActive
  <2>6. Routable(CopyOf(row), m)
    BY <2>2, <2>3, <2>4 DEF Routable, CopyOf, IsActive, TimedWithoutTime
  <2>7. ~CoolingDown(m)
    BY <2>1, <2>2 DEF CoolingDown, TypeOK
  <2> QED
    BY <2>5, <2>6, <2>7 DEF Usable
<1> QED
  BY <1>1, AccountInvariant, PTL

\* A disabled account comes back by an administrator alone: a failure, a success
\* and a sweep leave an active row only where there was one (connectionsRepo.js:231).
THEOREM DisabledStay == Spec => DisabledStaysOut
<1>1. AccountInv /\ [Next]_vars
        => [~IsActive(row) /\ IsActive(row') => AdminReset \/ AdminEnable]_vars
  <2> SUFFICES ASSUME AccountInv, Next, ~IsActive(row), IsActive(row')
               PROVE  AdminReset \/ AdminEnable
    BY DEF vars
  <2>1. row'.active
    BY DEF IsActive
  <2>2. ASSUME NEW r \in Reqs PROVE ~MarkWrite(r) /\ ~ClearWrite(r)
    BY <2>1, MarkWriteRow, ClearWriteRow
  <2>3. ~AutoRecover
    <3> SUFFICES ASSUME AutoRecover PROVE FALSE
      OBVIOUS
    <3>1. row.active /\ row.status \in Timed
      BY DEF AutoRecover
    <3> QED
      BY <3>1 DEF AccountInv, BucketInv, IsActive, Timed
  <2>4. ~AdminDisable
    <3> SUFFICES ASSUME AdminDisable PROVE FALSE
      OBVIOUS
    <3>1. row \in RowTypes
      BY TypeParts DEF AccountInv
    <3> QED
      BY <2>1, <3>1 DEF AdminDisable, RowTypes
  <2>5. row' # row
    OBVIOUS
  <2> QED
    BY <2>2, <2>3, <2>4, <2>5
    DEF Next, Proceed, Admin, Tick, ReadCandidates, Fill, Check, ClientError, Succeed, Fail,
        MarkKey, ClearKeys, DeleteKeys
<1> QED
  BY <1>1, AccountInvariant, PTL DEF Spec, DisabledStaysOut

\* A request passes the last check of an account banned for good only while the
\* ban is being written or after its key was deleted: by BanInv, for the key of a
\* ban is later than every instant (auth.js:1791).
THEOREM BannedNotChosen == Spec => BannedNotRouted
<1>1. AccountInv /\ [Next]_vars
        => [\A r \in Reqs :
              req[r].pc = "check" /\ req'[r].pc = "upstream"
                => row.active \/ row.status # "disabled" \/ keyLifted
                   \/ \E q \in Reqs : req[q].pc = "key"]_vars
  <2> SUFFICES ASSUME AccountInv, Next, NEW r \in Reqs,
                      req[r].pc = "check", req'[r].pc = "upstream", row.status = "disabled"
               PROVE  keyLifted \/ \E q \in Reqs : req[q].pc = "key"
    BY DEF vars
  <2>1. req \in [Reqs -> ReqTypes] /\ TypeOK
    BY TypeParts DEF AccountInv
  <2>2. Check(r)
    <3>1. ASSUME NEW o \in Reqs, o # r, Proceed(o) PROVE req'[r] = req[r]
      BY <2>1, <3>1
      DEF Proceed, Fill, Check, ClientError, Succeed, Fail, MarkWrite, MarkKey, ClearKeys,
          ClearWrite
    <3>2. ASSUME NEW o \in Reqs, o # r, NEW m \in Models, ReadCandidates(o, m)
          PROVE  req'[r] = req[r]
      BY <2>1, <3>2 DEF ReadCandidates
    <3>3. req' # req
      OBVIOUS
    <3>4. Proceed(r) \/ \E m \in Models : ReadCandidates(r, m)
      BY <3>1, <3>2, <3>3
      DEF Next, Tick, AutoRecover, DeleteKeys, Admin, AdminReset, AdminDisable, AdminEnable
    <3> QED
      BY <3>4 DEF Proceed, ReadCandidates, Fill, ClientError, Succeed, Fail, MarkWrite, MarkKey,
                  ClearKeys, ClearWrite
  <2>3. ~CoolingDown(req[r].model)
    BY <2>1, <2>2, IdleFields DEF Check
  <2>4. connUntil # BanEnd
    BY <2>1, <2>3, InstantsHaveZero DEF CoolingDown, Live, BanEnd, TypeOK, Instants
  <2> QED
    BY <2>4 DEF AccountInv, BanInv
<1> QED
  BY <1>1, AccountInvariant, PTL DEF Spec, BannedNotRouted
=============================================================================
