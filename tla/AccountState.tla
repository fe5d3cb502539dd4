---------------------------- MODULE AccountState ----------------------------
(***************************************************************************)
(* The health of one provider account: the row of provider_connections, the*)
(* cooldown keys of the speed layer, the cached list of candidates, and the*)
(* requests, the sweeper and the administrator that change them.           *)
(*                                                                         *)
(* Source: src/src/sse/services/auth.js (selection, markAccountUnavailable,*)
(* clearAccountError), src/src/lib/db/repos/connectionsRepo.js (the row),  *)
(* src/src/lib/cache/client.js (keys and cached lists, Valkey reachable).  *)
(*                                                                         *)
(* Times are instants 1..LastInstant; 0 is "no time".  A lock is live while*)
(* its instant is in the future.  The key modelLock___all always carries   *)
(* the instant of lockedAllUntil.  One provider has this one account, and  *)
(* rateLimitedUntil, which nothing sets, is left out.  The invalidation of *)
(* the cached lists goes with the write that sends it; a list that was read*)
(* before may still be stored after it (Fill).                             *)
(***************************************************************************)
EXTENDS Naturals

CONSTANTS Reqs,         \* requests being served
          Models,       \* models the account serves
          Listed,       \* models whose candidate list is stored
          All,          \* the lock key of the whole account ("__all")
          NoRow,        \* no cached copy
          NoModel,      \* no model chosen
          LastInstant,  \* bound: failures are timed up to this instant
          MaxFails,     \* bound: failures
          MaxAdmin      \* bound: interventions of the administrator

ASSUME ConstantsAssumption ==
  /\ LastInstant \in Nat \ {0}
  /\ MaxFails \in Nat
  /\ MaxAdmin \in Nat
  /\ Listed \subseteq Models
  /\ All \notin Models
  /\ NoModel \notin Models

LockKeys == Models \cup {All}
Instants == 0 .. LastInstant

\* BanEnd: seven days, beyond every other instant.
BanEnd == LastInstant + 1

Statuses == {"active", "unavailable", "exhausted", "disabled"}
Timed == {"unavailable", "exhausted"}

\* A failure counts against one model, against the whole account for lack of
\* capacity or of credit, or against a credential that is dead for good; a lack of
\* credit that names the model ("credit") or a gateway timeout counts against the
\* model only.
Kinds == {"model", "credit", "timeout", "unavailable", "exhausted", "fatal"}

\* lastError: none, a text, or a text that keeps the account out ("forbidden",
\* "unauthorized", "revoked" and the like).
Texts == {"none", "plain", "barring"}

VARIABLES
  now,          \* the time
  row,          \* the row of the account
  cached,       \* model -> the cached candidate list's copy of the row, or NoRow
  connUntil,    \* end of the key cooldown:conn:<id>
  modelUntil,   \* model -> end of the key cooldown:model:<id>:<model>
  req,          \* request -> its place, model, copy of the row, status and error it read, kind
  unkeying,     \* the sweeper or an administrator has yet to delete the keys
  fails,        \* failures so far
  admins,       \* interventions so far
  cause,        \* for the properties: how the row got the status it has
  keyLifted     \* for the properties: the ban's key was deleted before its time

vars == <<now, row, cached, connUntil, modelUntil, req, unkeying, fails, admins, cause, keyLifted>>

Live(t) == t > now

(* rowToConnection: a disabled marker counts as inactive whatever is_active
   says. *)
IsActive(c) == c.active /\ ~c.mark /\ c.status # "disabled"

CleanRow == [active |-> TRUE, mark |-> FALSE, status |-> "active", prev |-> "active",
             window |-> 0, locks |-> [k \in LockKeys |-> 0], err |-> "none"]

\* What a candidate's copy is used for.
CopyOf(c) == [status |-> c.status, window |-> c.window, locks |-> c.locks, err |-> c.err]

Idle == [pc |-> "idle", model |-> NoModel, copy |-> NoRow, seen |-> "active",
         told |-> "none", kind |-> "model"]

Init ==
  /\ now = 0
  /\ row = CleanRow
  /\ cached = [m \in Listed |-> NoRow]
  /\ connUntil = 0
  /\ modelUntil = [m \in Models |-> 0]
  /\ req = [r \in Reqs |-> Idle]
  /\ unkeying = FALSE
  /\ cause = "fresh"
  /\ keyLifted = FALSE
  /\ fails = 0
  /\ admins = 0

\* The last instant comes once the failures in progress are written: nothing
\* but a ban outlives it.
Tick ==
  /\ now < LastInstant
  /\ now + 1 = LastInstant => \A r \in Reqs : req[r].pc \notin {"mark", "key"}
  /\ now' = now + 1
  /\ UNCHANGED <<row, cached, connUntil, modelUntil, req, unkeying, fails, admins, cause, keyLifted>>

---------------------------------------------------------------------------
(* Writes of the row: a patch is a record with some of the row's fields, and*)
(* its locks are a function of some of the lock keys.                       *)

\* {...g, ...f}
Merge(f, g) == [x \in DOMAIN f \cup DOMAIN g |-> IF x \in DOMAIN f THEN f[x] ELSE g[x]]

\* The fields that an activation resets, whatever the patch says of them.
Cleared(patch) ==
  [window |-> 0, mark |-> FALSE,
   locks |-> Merge([k \in {l \in LockKeys : row.locks[l] # 0} |-> 0], patch.locks)]

\* Variant for the mutation runs: an activation also sets is_active.
ResetAndEnable(patch) ==
  IF "status" \in DOMAIN patch /\ patch.status = "active"
    THEN Merge(Merge(Cleared(patch), [active |-> TRUE]), Merge(patch, [err |-> "none"]))
    ELSE patch

\* resetHealthStateOnActivation: a patch that says "active" clears the account
\* lock, the disabled marker and every model lock the row holds.
ResetHealthState(patch) ==
  IF "status" \in DOMAIN patch /\ patch.status = "active"
    THEN Merge(Cleared(patch), Merge(patch, [err |-> "none"]))
    ELSE patch

\* Variant for the mutation runs: is_active is not derived from the marker and
\* the status.
UpdateUnsynced(patch) ==
  LET normal == ResetHealthState(patch)
  IN  /\ row' = Merge([normal EXCEPT !.locks = Merge(normal.locks, row.locks)], row)
      /\ cached' = [m \in Listed |-> NoRow]

\* updateProviderConnection: read, merge and write under the row's lock; the
\* lists of the provider are invalidated.
UpdateRow(patch) ==
  LET existing == [row EXCEPT !.active = IsActive(row)]
      normal   == ResetHealthState(patch)
      merged   == Merge([normal EXCEPT !.locks = Merge(normal.locks, row.locks)], existing)
  IN  /\ row' = [merged EXCEPT !.active = IsActive(merged)]
      /\ cached' = [m \in Listed |-> NoRow]

---------------------------------------------------------------------------
(* A request selects the account.                                           *)

\* The routing query: active rows without a live lock for the model.
Eligible(m) ==
  /\ row.active
  /\ ~Live(row.window)
  /\ ~Live(row.locks[m])

\* isConnectionRoutable, on the copy.
Routable(c, m) ==
  /\ c.status \in Timed => c.window # 0
  /\ c.status # "disabled"
  /\ c.err # "barring"
  /\ ~Live(c.window)
  /\ \A k \in {m, All} : ~Live(c.locks[k])

\* The candidates come from the cached list of the model or else from the
\* database; a first window read without exclusions is stored ("fill"), save for
\* providers that start at a random window.
ReadCandidates(r, m) ==
  /\ req[r].pc = "idle"
  /\ \/ /\ m \in Listed /\ cached[m] # NoRow
        /\ req' = [req EXCEPT ![r] = [Idle EXCEPT !.pc = "check", !.model = m,
                                                  !.copy = cached[m]]]
     \/ /\ m \in Listed => cached[m] = NoRow
        /\ Eligible(m)
        /\ \E next \in {"check"} \cup {"fill" : x \in Listed \cap {m}} :
             req' = [req EXCEPT ![r] = [Idle EXCEPT !.pc = next, !.model = m,
                                                    !.copy = CopyOf(row)]]
  /\ UNCHANGED <<now, row, cached, connUntil, modelUntil, unkeying, fails, admins, cause, keyLifted>>

\* setCachedConnections of what was read, however old.
Fill(r) ==
  /\ req[r].pc = "fill"
  /\ cached' = [cached EXCEPT ![req[r].model] = req[r].copy]
  /\ req' = [req EXCEPT ![r].pc = "check"]
  /\ UNCHANGED <<now, row, connUntil, modelUntil, unkeying, fails, admins, cause, keyLifted>>

CoolingDown(m) == Live(connUntil) \/ Live(modelUntil[m])

\* getBatchCooldowns, then the filter: the request goes upstream or finds nothing.
Check(r) ==
  /\ req[r].pc = "check"
  /\ req' = [req EXCEPT ![r] =
               IF Routable(req[r].copy, req[r].model) /\ ~CoolingDown(req[r].model)
                 THEN [req[r] EXCEPT !.pc = "upstream"]
                 ELSE Idle]
  /\ UNCHANGED <<now, row, cached, connUntil, modelUntil, unkeying, fails, admins, cause, keyLifted>>

---------------------------------------------------------------------------
(* The upstream refuses: markAccountUnavailable.                            *)

\* An error the client caused changes nothing.
ClientError(r) ==
  /\ req[r].pc = "upstream"
  /\ req' = [req EXCEPT ![r] = Idle]
  /\ UNCHANGED <<now, row, cached, connUntil, modelUntil, unkeying, fails, admins, cause, keyLifted>>

Fail(r, k) ==
  /\ req[r].pc = "upstream"
  /\ now < LastInstant
  /\ fails < MaxFails
  /\ fails' = fails + 1
  /\ req' = [req EXCEPT ![r] = [req[r] EXCEPT !.pc = "mark", !.kind = k, !.copy = NoRow,
                                              !.seen = row.status, !.told = row.err]]
  /\ UNCHANGED <<now, row, cached, connUntil, modelUntil, unkeying, admins, cause, keyLifted>>

\* Variant for the mutation runs: the lock of the whole account without the time
\* that goes with the status.
MarkPatchNoWindow(r, text) ==
  LET q == req[r]
      until == now + 1
  IN  CASE q.kind = "fatal" ->
             [active |-> FALSE, mark |-> TRUE, status |-> "disabled", prev |-> q.seen,
              window |-> 0, locks |-> [k \in {All} |-> 0]]
        [] q.kind \in Timed ->
             [status |-> q.kind, locks |-> [k \in {All} |-> until], err |-> text]
        [] q.kind = "credit" ->
             [status |-> "exhausted", locks |-> [k \in {q.model} |-> until], err |-> text]
        [] q.kind = "model" ->
             [status |-> q.seen, locks |-> [k \in {q.model} |-> until], err |-> text]
        [] OTHER ->
             [status |-> q.seen, locks |-> [k \in {q.model} |-> now], err |-> q.told]

\* The patch of a failure with an error text; the status it carries is the one read
\* beforehand, unless the failure is the whole account's or a lack of credit.  A
\* lack of credit that names the model locks the model and sets no window.  A
\* gateway timeout writes back the error read beforehand, and a lock of no length.
MarkPatch(r, text) ==
  LET q == req[r]
      until == now + 1
  IN  CASE q.kind = "fatal" ->
             [active |-> FALSE, mark |-> TRUE, status |-> "disabled", prev |-> q.seen,
              window |-> 0, locks |-> [k \in {All} |-> 0]]
        [] q.kind \in Timed ->
             [status |-> q.kind, window |-> until, locks |-> [k \in {All} |-> until], err |-> text]
        [] q.kind = "credit" ->
             [status |-> "exhausted", locks |-> [k \in {q.model} |-> until], err |-> text]
        [] q.kind = "model" ->
             [status |-> q.seen, locks |-> [k \in {q.model} |-> until], err |-> text]
        [] OTHER ->
             [status |-> q.seen, locks |-> [k \in {q.model} |-> now], err |-> q.told]

\* How the row gets its status by the failure of r.
CauseOf(r) ==
  CASE req[r].kind = "credit" -> "credit"
    [] req[r].kind \in {"model", "timeout"} ->
         IF req[r].seen = row.status THEN cause ELSE "stale"
    [] OTHER -> "fresh"

MarkWrite(r) ==
  /\ req[r].pc = "mark"
  /\ \E text \in Texts \ {"none"} : UpdateRow(MarkPatch(r, text))
  /\ req' = [req EXCEPT ![r].pc = "key"]
  /\ cause' = CauseOf(r)
  /\ UNCHANGED <<now, connUntil, modelUntil, unkeying, fails, admins, keyLifted>>

\* Variant for the mutation runs: a ban is keyed to the model that met it.
BanOfModel(r) ==
  /\ req[r].pc = "key"
  /\ CASE req[r].kind = "fatal"  -> /\ modelUntil' = [modelUntil EXCEPT ![req[r].model] = BanEnd]
                                    /\ UNCHANGED <<connUntil, keyLifted>>
       [] req[r].kind \in Timed -> connUntil' = now + 1 /\ UNCHANGED <<modelUntil, keyLifted>>
       [] req[r].kind = "timeout" -> UNCHANGED <<connUntil, modelUntil, keyLifted>>
       [] OTHER -> /\ modelUntil' = [modelUntil EXCEPT ![req[r].model] = now + 1]
                   /\ UNCHANGED <<connUntil, keyLifted>>
  /\ req' = [req EXCEPT ![r] = Idle]
  /\ UNCHANGED <<now, row, cached, unkeying, fails, admins, cause>>

\* The key of the speed layer, once the row is written; a lock of no length has none.
MarkKey(r) ==
  /\ req[r].pc = "key"
  /\ CASE req[r].kind = "fatal"  -> /\ connUntil' = BanEnd
                                    /\ keyLifted' = FALSE
                                    /\ UNCHANGED modelUntil
       [] req[r].kind \in Timed -> /\ connUntil' = now + 1
                                    /\ keyLifted' = (keyLifted \/ connUntil = BanEnd)
                                    /\ UNCHANGED modelUntil
       [] req[r].kind = "timeout" -> UNCHANGED <<connUntil, modelUntil, keyLifted>>
       [] OTHER -> /\ modelUntil' = [modelUntil EXCEPT ![req[r].model] = now + 1]
                   /\ UNCHANGED <<connUntil, keyLifted>>
  /\ req' = [req EXCEPT ![r] = Idle]
  /\ UNCHANGED <<now, row, cached, unkeying, fails, admins, cause>>

---------------------------------------------------------------------------
(* The upstream answers: clearAccountError, on the selection's copy.         *)

\* Lock keys of the copy that the success clears: its model's and lapsed ones.
KeysToClear(r) ==
  {k \in LockKeys : /\ req[r].copy.locks[k] # 0
                    /\ k = req[r].model \/ ~Live(req[r].copy.locks[k])}

Succeed(r) ==
  /\ req[r].pc = "upstream"
  /\ req' = [req EXCEPT ![r] =
               IF KeysToClear(r) # {} \/ req[r].copy.status = "unavailable" \/ req[r].copy.err # "none"
                 THEN [req[r] EXCEPT !.pc = "unkey"]
                 ELSE Idle]
  /\ UNCHANGED <<now, row, cached, connUntil, modelUntil, unkeying, fails, admins, cause, keyLifted>>

\* The copy has no live account-wide lock.
AccountFree(r) == ~Live(req[r].copy.window) /\ ~Live(req[r].copy.locks[All])

\* The keys go first, the row is written afterwards.
ClearKeys(r) ==
  /\ req[r].pc = "unkey"
  /\ IF AccountFree(r)
       THEN /\ connUntil' = 0
            /\ keyLifted' = (keyLifted \/ connUntil = BanEnd)
       ELSE UNCHANGED <<connUntil, keyLifted>>
  /\ modelUntil' = [modelUntil EXCEPT ![req[r].model] = 0]
  /\ req' = [req EXCEPT ![r].pc = "clear"]
  /\ UNCHANGED <<now, row, cached, unkeying, fails, admins, cause>>

\* An account without a live account-wide lock becomes active, which resets
\* the rest of its health (ResetHealthState).
ClearPatch(r) ==
  LET cleared == [locks |-> [k \in KeysToClear(r) |-> 0]]
  IN  IF AccountFree(r) THEN Merge([status |-> "active"], cleared) ELSE cleared

ClearWrite(r) ==
  /\ req[r].pc = "clear"
  /\ UpdateRow(ClearPatch(r))
  /\ cause' = IF AccountFree(r) THEN "fresh" ELSE cause
  /\ req' = [req EXCEPT ![r] = Idle]
  /\ UNCHANGED <<now, connUntil, modelUntil, unkeying, fails, admins, keyLifted>>

---------------------------------------------------------------------------
(* The sweeper and the administrator.                                        *)

\* autoRecoverExpiredExhaustedConnections: one UPDATE; the model locks stay.  Only
\* the state sweeper calls it, which nothing in the repository starts, so that
\* this may happen or not.
AutoRecover ==
  /\ row.active
  /\ row.status \in Timed
  /\ row.window # 0 /\ ~Live(row.window)
  /\ row' = [row EXCEPT !.status = "active", !.window = 0, !.err = "none"]
  /\ cached' = [m \in Listed |-> NoRow]
  /\ cause' = "fresh"
  /\ unkeying' = TRUE
  /\ UNCHANGED <<now, connUntil, modelUntil, req, fails, admins, keyLifted>>

\* bulkResetProviderConnectionsStatus.
AdminReset ==
  /\ admins < MaxAdmin
  /\ admins' = admins + 1
  /\ row' = [CleanRow EXCEPT !.prev = row.prev]
  /\ cached' = [m \in Listed |-> NoRow]
  /\ cause' = "fresh"
  /\ unkeying' = TRUE
  /\ UNCHANGED <<now, connUntil, modelUntil, req, fails, keyLifted>>

\* setConnectionsActiveByIds and setProviderConnectionsActive, off and on.
AdminDisable ==
  /\ admins < MaxAdmin
  /\ admins' = admins + 1
  /\ row' = [row EXCEPT !.active = FALSE, !.mark = TRUE, !.prev = row.status]
  /\ cached' = [m \in Listed |-> NoRow]
  /\ UNCHANGED <<now, connUntil, modelUntil, req, unkeying, fails, cause, keyLifted>>

AdminEnable ==
  /\ admins < MaxAdmin
  /\ admins' = admins + 1
  /\ row' = [row EXCEPT !.active = TRUE, !.mark = FALSE,
                        !.status = IF row.status = "disabled" THEN row.prev ELSE row.status]
  /\ cached' = [m \in Listed |-> NoRow]
  /\ cause' = IF row.status = "disabled" THEN "restored" ELSE cause
  /\ UNCHANGED <<now, connUntil, modelUntil, req, unkeying, fails, keyLifted>>

\* clearBatchAccountCooldown, which the sweeper and the reset start and leave.
DeleteKeys ==
  /\ unkeying
  /\ connUntil' = 0
  /\ modelUntil' = [m \in Models |-> 0]
  /\ keyLifted' = (keyLifted \/ connUntil = BanEnd)
  /\ unkeying' = FALSE
  /\ UNCHANGED <<now, row, cached, req, fails, admins, cause>>

---------------------------------------------------------------------------
Admin == AdminReset \/ AdminDisable \/ AdminEnable

Proceed(r) ==
  \/ Fill(r) \/ Check(r)
  \/ ClientError(r) \/ Succeed(r) \/ \E k \in Kinds : Fail(r, k)
  \/ MarkWrite(r) \/ MarkKey(r)
  \/ ClearKeys(r) \/ ClearWrite(r)

Next ==
  \/ Tick
  \/ \E r \in Reqs : (\E m \in Models : ReadCandidates(r, m)) \/ Proceed(r)
  \/ AutoRecover \/ DeleteKeys
  \/ Admin

Spec == Init /\ [][Next]_vars

---------------------------------------------------------------------------
(* Properties.                                                               *)

Places == {"idle", "fill", "check", "upstream", "mark", "key", "unkey", "clear"}
Copies == [status : Statuses, window : Instants, locks : [LockKeys -> Instants],
           err : Texts]

\* Types of the state.
TypeOK ==
  /\ now \in Instants
  /\ row \in [active : BOOLEAN, mark : BOOLEAN, status : Statuses, prev : Statuses,
              window : Instants, locks : [LockKeys -> Instants], err : Texts]
  /\ cached \in [Listed -> Copies \cup {NoRow}]
  /\ connUntil \in Instants \cup {BanEnd}
  /\ modelUntil \in [Models -> Instants]
  /\ req \in [Reqs -> [pc : Places, model : Models \cup {NoModel}, copy : Copies \cup {NoRow},
                       seen : Statuses, told : Texts, kind : Kinds]]
  /\ unkeying \in BOOLEAN
  /\ cause \in {"fresh", "stale", "credit", "restored"}
  /\ keyLifted \in BOOLEAN
  /\ fails \in 0 .. MaxFails
  /\ admins \in 0 .. MaxAdmin

\* The disabled marker and is_active move together (connectionsRepo.js:231),
\* whoever writes the row and in whatever order; the one exception is enabling
\* an account whose remembered status is itself "disabled".
BucketComplete ==
  row.active /\ (row.mark \/ row.status = "disabled") => cause = "restored"

\* Only an administrator brings a disabled account back: no late success, no
\* stale status and no sweep does.
DisabledStaysOut ==
  [][~IsActive(row) /\ IsActive(row') => AdminReset \/ AdminEnable]_vars

\* Once the ban of a dead credential is complete, no request goes upstream with
\* the account, however old the list it was chosen from, unless a late success or a
\* sweep deleted the ban's key.
BannedNotRouted ==
  [][\A r \in Reqs :
       req[r].pc = "check" /\ req'[r].pc = "upstream"
         => row.active \/ row.status # "disabled" \/ keyLifted
            \/ \E q \in Reqs : req[q].pc = "key"]_vars

\* A failure of one model leaves the locks of the other models alone
\* (connectionsRepo.js:1180).
LocksSurvive ==
  [][\A r \in Reqs : MarkWrite(r) /\ req[r].kind = "model" =>
       \A m \in Models \ {req[r].model} :
         Live(row.locks[m]) => row'.locks[m] = row.locks[m]]_vars

\* Usable for a model: chosen by the next selection that looks for it.
Usable(m) == Eligible(m) /\ Routable(CopyOf(row), m) /\ ~CoolingDown(m)

\* auth.js:256-258: "once the lock window (...) lapses the account must become
\* routable again".  When every lock's time has come and nothing is in progress the
\* account is usable for all its models, unless it is disabled, or kept out by the
\* key of a ban that its enabling left behind, or by the text of its last error,
\* or has a timed status without a time, which no time lapses.  That last comes
\* only of a lack of credit that named a model, of a failure that wrote back a status
\* it had read before somebody else changed it, or of an administrator who restored
\* the status of before a ban: no interleaving of failures, successes, sweeps and
\* interventions loses an account in another way.
AtRest == now = LastInstant /\ ~unkeying /\ \A r \in Reqs : req[r].pc = "idle"

TimedWithoutTime == row.status \in Timed /\ row.window = 0

ComesBack ==
  AtRest => \/ \A m \in Models : Usable(m)
            \/ ~IsActive(row)
            \/ row.err = "barring"
            \/ TimedWithoutTime /\ cause \in {"stale", "credit", "restored"}
            \/ connUntil = BanEnd
=============================================================================
