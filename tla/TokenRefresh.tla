---------------------------- MODULE TokenRefresh ----------------------------
(***************************************************************************)
(* OAuth token refresh of one connection in a cluster of gateway workers:  *)
(* checkAndRefreshToken (src/sse/services/tokenRefresh.js), the lock and   *)
(* merge of open-sse/services/oauthCredentialManager.js, the single-flight *)
(* cache of open-sse/services/tokenRefresh/dedup.js, and the background    *)
(* tick of src/sse/services/backgroundTokenRefresh.js.                     *)
(*                                                                         *)
(* The provider rotates refresh tokens: each refresh issues a new pair and *)
(* ends the token it was given.  Token pairs are numbered in the order of  *)
(* issue.  A call is one run of checkAndRefreshToken (by a request or by   *)
(* the tick) or one refresh of chatCore's 401/403 path, which asks up to   *)
(* three times; most executors answer that path without lock, lease and    *)
(* merge (Bare).  A step is one run of the event loop up to the next await.*)
(***************************************************************************)
EXTENDS Naturals, FiniteSets

CONSTANTS
  Workers, Calls, WorkerOf,
  Background,   \* the calls of the tick (refreshOne)
  Forced,       \* calls made whatever the expiry, after an upstream 401
  Direct,       \* calls of chatCore's 401/403 path: no re-read of the row
  Bare,         \* those whose executor goes straight to the token endpoint
  RefreshTries, \* requests of a Direct call at most (3 in the code)
  NoCall,
  MaxPairs,     \* bound on the pairs the provider issues after pair 0
  LeaseTries,   \* attempts to take the cluster lease (1 and 3 more in the code)
  ReturnsData,  \* the provider's answer carries providerSpecificData
  Transient,    \* upstream calls may fail without an answer
  Crashes,      \* workers may crash
  Revocable,    \* the user may take the grant back at the provider
  Prompt        \* time bounds hold: see Written, Quiet and LeaseExpires

ASSUME CallsAssumption ==
  /\ WorkerOf \in [Calls -> Workers] /\ NoCall \notin Calls
  /\ Background \subseteq Calls /\ Forced \subseteq Calls /\ Direct \subseteq Calls
  /\ Bare \subseteq Direct /\ Background \cap Direct = {}
ASSUME BoundsAssumption ==
  MaxPairs \in Nat /\ LeaseTries \in Nat \ {0} /\ RefreshTries \in Nat \ {0}
ASSUME SwitchAssumption ==
  {ReturnsData, Transient, Crashes, Revocable, Prompt} \subseteq BOOLEAN

Pairs == 0..MaxPairs
NoPair == MaxPairs + 1
Levels == {"outer", "inner"}
NoLease == <<NoCall, "inner">>
Outcomes == {"renewed", "rejected", "failed"}

VARIABLES
  row,        \* the connection's row: present, its token pair, refreshBlocked
  access,     \* age of each pair's access token
  issued,     \* the provider: the newest pair
  revoked,    \* the provider: the user took the grant back
  lost,       \* history: the newest pair was issued and reached nobody
  lease,      \* the Valkey lease "refresh:<id>": holder and level
  pending,    \* refreshLocks of each worker
  recent,     \* refreshDedupCache of each worker: settled results by pair sent
  backoff,    \* transientFailures of each worker holds the connection back
  markers,    \* calls whose refreshBlocked write is under way
  doomed,     \* the sweep of a tick has selected the row for deletion
  pc, token,  \* of each call: where it is, the pair it holds
  loaded,     \* the pair of the row the call started from
  tries, attempts, retried, follows, got,
  fired       \* history: the pairs each call has sent to the provider

envVars == <<access, issued, revoked, lost>>
sharedVars == <<row, lease, markers, doomed>>
workerVars == <<pending, recent, backoff>>
callVars == <<pc, token, loaded, tries, attempts, retried, follows, got, fired>>
vars == <<envVars, sharedVars, workerVars, callVars>>

PCs == {"idle", "outer", "adopt", "check", "lease", "start", "upstream", "follow",
        "bare", "grace", "persist", "mark", "judge", "finish", "release", "done", "dead"}
Resting == {"idle", "done", "dead"}

Init ==
  /\ row = [present |-> TRUE, token |-> 0, blocked |-> FALSE]
  /\ access = [p \in Pairs |-> IF p = 0 THEN "due" ELSE "new"]
  /\ issued = 0 /\ revoked = FALSE /\ lost = FALSE
  /\ lease = NoLease
  /\ pending = [w \in Workers |-> NoCall]
  /\ recent = [w \in Workers |-> [p \in Pairs |-> "none"]]
  /\ backoff = [w \in Workers |-> FALSE]
  /\ markers = {} /\ doomed = FALSE
  /\ pc = [c \in Calls |-> "idle"]
  /\ token = [c \in Calls |-> 0] /\ loaded = [c \in Calls |-> 0]
  /\ tries = [c \in Calls |-> 0] /\ attempts = [c \in Calls |-> 0]
  /\ retried = [c \in Calls |-> FALSE]
  /\ follows = [c \in Calls |-> NoCall] /\ got = [c \in Calls |-> NoPair]
  /\ fired = [c \in Calls |-> {}]

Goto(c, s) == pc' = [pc EXCEPT ![c] = s]
Ending(c) == IF c \in Background THEN "finish" ELSE "done"
Due(p) == access[p] \in {"due", "expired"}

----------------------------------------------------------------------------
(* Where calls come from.                                                  *)

\* A request picked the connection: routing skips blocked rows, and the proper
\* path refreshes only inside the expiry lead.
LoadRequest(c) ==
  /\ pc[c] = "idle" /\ c \notin Background
  /\ row.present /\ ~row.blocked
  /\ c \in Forced \cup Direct \/ Due(row.token)
  /\ token' = [token EXCEPT ![c] = row.token]
  /\ loaded' = [loaded EXCEPT ![c] = row.token]
  /\ Goto(c, IF c \in Direct THEN "check" ELSE "adopt")
  /\ UNCHANGED <<envVars, sharedVars, workerVars, tries, attempts, retried, follows, got, fired>>

\* The tick loads and selects the connection; ticks of a worker do not overlap.
LoadTick(c) ==
  /\ pc[c] = "idle" /\ c \in Background
  /\ \A b \in Background : WorkerOf[b] = WorkerOf[c] => pc[b] \in Resting
  /\ row.present /\ ~row.blocked /\ Due(row.token)
  /\ ~backoff[WorkerOf[c]]
  /\ token' = [token EXCEPT ![c] = row.token]
  /\ loaded' = [loaded EXCEPT ![c] = row.token]
  /\ Goto(c, "outer")
  /\ UNCHANGED <<envVars, sharedVars, workerVars, tries, attempts, retried, follows, got, fired>>

\* refreshOne takes the lease or skips the connection.
OuterLease(c) ==
  /\ pc[c] = "outer"
  /\ \/ lease = NoLease /\ lease' = <<c, "outer">> /\ Goto(c, "adopt")
     \/ lease # NoLease /\ UNCHANGED lease /\ Goto(c, "done")
  /\ UNCHANGED <<envVars, row, markers, doomed, workerVars,
                 token, loaded, tries, attempts, retried, follows, got, fired>>

\* adoptFreshRowTokens: another pair in the row replaces the call's copy.
Fresher(c) == row.present /\ row.token # token[c]

Adopt(c) ==
  /\ pc[c] = "adopt"
  /\ token' = [token EXCEPT ![c] = IF Fresher(c) THEN row.token ELSE @]
  /\ Goto(c, "check")
  /\ UNCHANGED <<envVars, sharedVars, workerVars, loaded, tries, attempts, retried, follows, got, fired>>

----------------------------------------------------------------------------
(* withCredentialRefreshLock and dedupRefresh.                             *)

\* The call whose upstream request a call's result will come from.
Root(c) == IF follows[c] = NoCall THEN c ELSE follows[c]

\* refreshLocks.get: join the refresh under way in this worker, or go on.
CheckLock(c) ==
  LET p == pending[WorkerOf[c]] IN
  /\ pc[c] = "check" /\ c \notin Bare
  /\ \/ /\ p # NoCall
        /\ follows' = [follows EXCEPT ![c] = Root(p)]
        /\ Goto(c, "follow")
        /\ UNCHANGED tries
     \/ /\ p = NoCall
        /\ tries' = [tries EXCEPT ![c] = 0]
        /\ Goto(c, "lease")
        /\ UNCHANGED follows
  /\ UNCHANGED <<envVars, sharedVars, workerVars, token, loaded, attempts, retried, got, fired>>

\* Variants for the mutation runs: an attempt too many; a wait without end.
TryLeaseOffByOne(c) ==
  /\ pc[c] = "lease"
  /\ \/ /\ lease = NoLease
        /\ lease' = <<c, "inner">>
        /\ Goto(c, "start")
        /\ UNCHANGED tries
     \/ /\ lease # NoLease
        /\ tries' = [tries EXCEPT ![c] = @ + 1]
        /\ Goto(c, IF tries[c] = LeaseTries THEN "start" ELSE "lease")
        /\ UNCHANGED lease
  /\ UNCHANGED <<envVars, row, markers, doomed, workerVars,
                 token, loaded, attempts, retried, follows, got, fired>>

TryLeaseBlocking(c) ==
  /\ pc[c] = "lease" /\ lease = NoLease
  /\ lease' = <<c, "inner">>
  /\ Goto(c, "start")
  /\ UNCHANGED <<envVars, row, markers, doomed, workerVars,
                 token, loaded, tries, attempts, retried, follows, got, fired>>

\* One attempt to take the lease; after the last the call goes on without it.
TryLease(c) ==
  /\ pc[c] = "lease"
  /\ \/ /\ lease = NoLease
        /\ lease' = <<c, "inner">>
        /\ Goto(c, "start")
        /\ UNCHANGED tries
     \/ /\ lease # NoLease
        /\ tries' = [tries EXCEPT ![c] = @ + 1]
        /\ Goto(c, IF tries[c] + 1 = LeaseTries THEN "start" ELSE "lease")
        /\ UNCHANGED lease
  /\ UNCHANGED <<envVars, row, markers, doomed, workerVars,
                 token, loaded, attempts, retried, follows, got, fired>>

\* refreshWithRetry: a Direct call without a result asks again, with the same
\* token, after 1 s and after 2 s.
Repeats(c, outcome) ==
  c \in Direct /\ outcome = "failed" /\ attempts[c] + 1 < RefreshTries

\* Where a result takes a call.  A result that brought no pair ends the first
\* try of a call; on the retry it leaves the first try's error standing.
AfterResult(c, outcome) ==
  CASE outcome = "renewed" -> "persist"
    [] Repeats(c, outcome) -> "check"
    [] c \in Direct /\ outcome # "renewed" /\ ~Repeats(c, outcome) -> "done"
    [] c \notin Direct /\ retried[c] /\ outcome # "renewed" -> "mark"
    [] c \notin Direct /\ ~retried[c] /\ outcome = "rejected" -> "grace"
    [] c \notin Direct /\ ~retried[c] /\ outcome = "failed" -> Ending(c)

\* The attempts of refreshWithRetry that a result of the calls in group uses up.
Counted(group, outcome) ==
  attempts' = [c \in Calls |->
    IF c \in group /\ Repeats(c, outcome) THEN attempts[c] + 1 ELSE attempts[c]]

\* The promise of pair p settles for the calls in group, all of one worker:
\* each learns the result, refreshLocks.delete runs, their lease is returned.
Settle(w, group, p, outcome) ==
  /\ pc' = [c \in Calls |-> IF c \in group THEN AfterResult(c, outcome) ELSE pc[c]]
  /\ got' = [c \in Calls |->
       IF c \in group /\ outcome = "renewed" THEN p + 1 ELSE got[c]]
  /\ follows' = [c \in Calls |-> IF c \in group THEN NoCall ELSE follows[c]]
  /\ Counted(group, outcome)
  /\ pending' = [pending EXCEPT ![w] = NoCall]
  /\ lease' = IF lease[1] \in group /\ lease[2] = "inner" THEN NoLease ELSE lease

\* Variant for the mutation runs: refreshFn without dedupRefresh.
StartNoDedup(c) ==
  LET w == WorkerOf[c] IN
  /\ pc[c] = "start"
  /\ Goto(c, "upstream")
  /\ pending' = [pending EXCEPT ![w] = c]
  /\ fired' = [fired EXCEPT ![c] = @ \cup {token[c]}]
  /\ UNCHANGED <<envVars, sharedVars, recent, backoff,
                 token, loaded, tries, attempts, retried, got, follows>>

\* refreshLocks.set and refreshFn: dedupRefresh answers from its cache, joins a
\* request of this worker with the same token, or sends the token upstream.
Start(c) ==
  LET w == WorkerOf[c]
      same == {q \in Calls : WorkerOf[q] = w /\ pc[q] = "upstream" /\ token[q] = token[c]}
  IN
  /\ pc[c] = "start"
  /\ \/ /\ recent[w][token[c]] # "none"
        /\ Settle(w, {c}, token[c], recent[w][token[c]])
        /\ UNCHANGED fired
     \/ /\ recent[w][token[c]] = "none"
        /\ \E q \in same : follows' = [follows EXCEPT ![c] = q]
        /\ Goto(c, "follow")
        /\ pending' = [pending EXCEPT ![w] = c]
        /\ UNCHANGED <<lease, got, attempts, fired>>
     \/ /\ recent[w][token[c]] = "none"
        /\ same = {}
        /\ Goto(c, "upstream")
        /\ pending' = [pending EXCEPT ![w] = c]
        /\ fired' = [fired EXCEPT ![c] = @ \cup {token[c]}]
        /\ UNCHANGED <<lease, got, attempts, follows>>
  /\ UNCHANGED <<envVars, row, markers, doomed, recent, backoff, token, loaded, tries, retried>>

\* Prompt: a result is written before the next round trip to the provider ends.
Written == \A q \in Calls : pc[q] # "persist"

\* The upstream request of call c ends with this outcome.
Answer(c, outcome) ==
  LET w == WorkerOf[c]
      group == {c} \cup {q \in Calls : pc[q] = "follow" /\ follows[q] = c}
  IN
  /\ pc[c] = "upstream"
  /\ Prompt => Written
  /\ recent' = [recent EXCEPT ![w][token[c]] = outcome]
  /\ Settle(w, group, token[c], outcome)
  /\ UNCHANGED <<row, markers, doomed, access, revoked,
                 backoff, token, loaded, tries, retried, fired>>

\* refreshCredentials of default.js, github.js and most others: a request of the
\* call's own, whatever else is under way.
Send(c) ==
  /\ pc[c] = "check" /\ c \in Bare
  /\ fired' = [fired EXCEPT ![c] = @ \cup {token[c]}]
  /\ Goto(c, "bare")
  /\ UNCHANGED <<envVars, sharedVars, workerVars,
                 token, loaded, tries, attempts, retried, follows, got>>

\* It ends, and only the call itself learns how.
BareAnswer(c, outcome) ==
  /\ pc[c] = "bare"
  /\ Prompt => Written
  /\ Goto(c, AfterResult(c, outcome))
  /\ got' = [got EXCEPT ![c] = IF outcome = "renewed" THEN token[c] + 1 ELSE @]
  /\ Counted({c}, outcome)
  /\ UNCHANGED <<sharedVars, workerVars, access, revoked,
                 token, loaded, tries, retried, follows, fired>>

Current(c) == token[c] = issued /\ ~revoked /\ issued < MaxPairs

Renewed(c) ==
  /\ Current(c)
  /\ issued' = issued + 1
  /\ Answer(c, "renewed") \/ BareAnswer(c, "renewed")
  /\ UNCHANGED lost

\* invalid_grant: the token was used before, or the grant is gone.  A bare
\* request makes nothing of it but a failure.
Rejected(c) ==
  /\ token[c] # issued \/ revoked
  /\ Answer(c, "rejected") \/ BareAnswer(c, "failed")
  /\ UNCHANGED <<issued, lost>>

\* A network error, a timeout or a 5xx; the provider may have rotated.
Failed(c) ==
  /\ Transient
  /\ \/ UNCHANGED <<issued, lost>>
     \/ Current(c) /\ issued' = issued + 1 /\ lost' = TRUE
  /\ Answer(c, "failed") \/ BareAnswer(c, "failed")

----------------------------------------------------------------------------
(* checkAndRefreshToken after the result.                                  *)

\* Variant for the mutation runs: the retry without a different token.
GraceBlind(c) ==
  /\ pc[c] = "grace"
  /\ token' = [token EXCEPT ![c] = IF Fresher(c) THEN row.token ELSE @]
  /\ retried' = [retried EXCEPT ![c] = TRUE]
  /\ Goto(c, "check")
  /\ UNCHANGED <<envVars, sharedVars, workerVars,
                 loaded, tries, attempts, follows, got, fired>>

\* Variant for the mutation runs: a rejected token is taken for dead at once.
GraceSkipped(c) ==
  /\ pc[c] = "grace"
  /\ Goto(c, "mark")
  /\ UNCHANGED <<envVars, sharedVars, workerVars,
                 token, loaded, tries, attempts, retried, follows, got, fired>>

\* 1.5 s after the rejection the row is read again: one retry with another
\* pair.  Prompt: the winner of a rotation has written its pair by then.
Grace(c) ==
  /\ pc[c] = "grace"
  /\ Prompt => Written
  /\ \/ /\ Fresher(c)
        /\ token' = [token EXCEPT ![c] = row.token]
        /\ retried' = [retried EXCEPT ![c] = TRUE]
        /\ Goto(c, "check")
     \/ /\ ~Fresher(c)
        /\ Goto(c, "mark")
        /\ UNCHANGED <<token, retried>>
  /\ UNCHANGED <<envVars, sharedVars, workerVars,
                 loaded, tries, attempts, follows, got, fired>>

\* Variant for the mutation runs: the answer's refresh token is not written.
PersistAccessOnly(c) ==
  /\ pc[c] = "persist"
  /\ Goto(c, Ending(c))
  /\ UNCHANGED <<envVars, sharedVars, workerVars,
                 token, loaded, tries, attempts, retried, follows, got, fired>>

\* updateProviderCredentials with the new pair.  Only an answer that carries
\* providerSpecificData rewrites it, from the copy loaded before.
Persist(c) ==
  /\ pc[c] = "persist"
  /\ row' = [row EXCEPT !.token = IF row.present THEN got[c] ELSE @,
                        !.blocked = IF row.present /\ ReturnsData THEN FALSE ELSE @]
  /\ Goto(c, Ending(c))
  /\ UNCHANGED <<envVars, lease, markers, doomed, workerVars,
                 token, loaded, tries, attempts, retried, follows, got, fired>>

\* The refreshBlocked write is started and not awaited.
Mark(c) ==
  /\ pc[c] = "mark"
  /\ markers' = markers \cup {c}
  /\ Goto(c, IF c \in Background THEN "judge" ELSE "done")
  /\ UNCHANGED <<envVars, row, lease, doomed, workerVars,
                 token, loaded, tries, attempts, retried, follows, got, fired>>

MarkLands(c) ==
  /\ c \in markers
  /\ markers' = markers \ {c}
  /\ row' = [row EXCEPT !.blocked = IF row.present THEN TRUE ELSE @]
  /\ UNCHANGED <<envVars, lease, doomed, workerVars, callVars>>

----------------------------------------------------------------------------
(* refreshOne after checkAndRefreshToken, and the sweep of the tick.       *)

\* No refreshError: the backoff entry is deleted.
Finish(c) ==
  /\ pc[c] = "finish"
  /\ backoff' = [backoff EXCEPT ![WorkerOf[c]] = FALSE]
  /\ Goto(c, "release")
  /\ UNCHANGED <<envVars, sharedVars, pending, recent,
                 token, loaded, tries, attempts, retried, follows, got, fired>>

\* refreshError: backoff, and the row is deleted unless the access token it was
\* loaded with is still valid.
Judge(c) ==
  /\ pc[c] = "judge"
  /\ backoff' = [backoff EXCEPT ![WorkerOf[c]] = TRUE]
  /\ row' = [row EXCEPT !.present = @ /\ access[loaded[c]] # "expired"]
  /\ Goto(c, "release")
  /\ UNCHANGED <<envVars, lease, markers, doomed, pending, recent,
                 token, loaded, tries, attempts, retried, follows, got, fired>>

\* Variant for the mutation runs: refreshOne without its finally block.
ReleaseForgotten(c) ==
  /\ pc[c] = "release"
  /\ Goto(c, "done")
  /\ UNCHANGED <<envVars, sharedVars, workerVars,
                 token, loaded, tries, attempts, retried, follows, got, fired>>

Release(c) ==
  /\ pc[c] = "release"
  /\ lease' = IF lease = <<c, "outer">> THEN NoLease ELSE lease
  /\ Goto(c, "done")
  /\ UNCHANGED <<envVars, row, markers, doomed, workerVars,
                 token, loaded, tries, attempts, retried, follows, got, fired>>

\* loadActiveConnections selects blocked rows whose access token has expired ...
SweepSelects ==
  /\ Background # {} /\ row.present
  /\ row.blocked /\ access[row.token] = "expired" /\ ~doomed
  /\ doomed' = TRUE
  /\ UNCHANGED <<envVars, row, lease, markers, workerVars, callVars>>

\* ... and deletes them by id.
SweepDeletes ==
  /\ doomed
  /\ doomed' = FALSE
  /\ row' = [row EXCEPT !.present = FALSE]
  /\ UNCHANGED <<envVars, lease, markers, workerVars, callVars>>

----------------------------------------------------------------------------
(* Time, the provider and crashes.                                         *)

\* Prompt: a new access token outlives every call that is under way.
Quiet == markers = {} /\ \A c \in Calls : pc[c] \in Resting

Age(p) ==
  /\ p <= issued
  /\ \/ /\ access[p] = "new"
        /\ Prompt => Quiet
        /\ access' = [access EXCEPT ![p] = "due"]
     \/ access[p] = "due" /\ access' = [access EXCEPT ![p] = "expired"]
  /\ UNCHANGED <<issued, revoked, lost, sharedVars, workerVars, callVars>>

Revoke ==
  /\ Revocable /\ ~revoked
  /\ revoked' = TRUE
  /\ UNCHANGED <<access, issued, lost, sharedVars, workerVars, callVars>>

\* The 45 s lease.  Prompt: no call holds it that long, only a dead one.
LeaseExpires ==
  /\ lease # NoLease
  /\ Prompt => pc[lease[1]] = "dead"
  /\ lease' = NoLease
  /\ UNCHANGED <<envVars, row, markers, doomed, workerVars, callVars>>

\* The 10 s of a cached result are over.
Forget(w, p) ==
  /\ recent[w][p] # "none"
  /\ Prompt => Written
  /\ recent' = [recent EXCEPT ![w][p] = "none"]
  /\ UNCHANGED <<envVars, sharedVars, pending, backoff, callVars>>

BackoffElapses(w) ==
  /\ backoff[w]
  /\ backoff' = [backoff EXCEPT ![w] = FALSE]
  /\ UNCHANGED <<envVars, sharedVars, pending, recent, callVars>>

\* A worker dies with its calls and its memory; a renewed pair it had not
\* written is gone.
Crash(w) ==
  LET dying == {c \in Calls : WorkerOf[c] = w /\ pc[c] \notin Resting} IN
  /\ Crashes /\ dying # {}
  /\ pc' = [c \in Calls |-> IF c \in dying THEN "dead" ELSE pc[c]]
  /\ follows' = [c \in Calls |-> IF c \in dying THEN NoCall ELSE follows[c]]
  /\ markers' = {c \in markers : WorkerOf[c] # w}
  /\ pending' = [pending EXCEPT ![w] = NoCall]
  /\ recent' = [recent EXCEPT ![w] = [p \in Pairs |-> "none"]]
  /\ backoff' = [backoff EXCEPT ![w] = FALSE]
  /\ lost' = (lost \/ (row.token # issued
                       /\ \E c \in dying : pc[c] = "persist" /\ got[c] = issued))
  /\ UNCHANGED <<row, lease, doomed, access, issued, revoked,
                 token, loaded, tries, attempts, retried, got, fired>>

----------------------------------------------------------------------------
Load(c) == LoadRequest(c) \/ LoadTick(c)

Run(c) ==
  \/ OuterLease(c) \/ Adopt(c) \/ CheckLock(c) \/ TryLease(c) \/ Start(c) \/ Send(c)
  \/ Renewed(c) \/ Rejected(c) \/ Failed(c)
  \/ Grace(c) \/ Persist(c) \/ Mark(c) \/ Finish(c) \/ Judge(c) \/ Release(c)

Environment ==
  \/ \E p \in Pairs : Age(p)
  \/ Revoke \/ LeaseExpires \/ SweepSelects \/ SweepDeletes
  \/ \E w \in Workers : BackoffElapses(w) \/ Crash(w) \/ \E p \in Pairs : Forget(w, p)

Next == Environment \/ \E c \in Calls : Load(c) \/ Run(c) \/ MarkLands(c)

Spec == Init /\ [][Next]_vars

\* The event loop continues every call that can go on (timers fire, upstream
\* requests are answered or time out), and the server drops expired keys.
\* Nobody need load the row again, and nothing need age or be revoked.
Fairness == WF_vars(LeaseExpires) /\ \A c \in Calls : WF_vars(Run(c))

FairSpec == Spec /\ Fairness
----------------------------------------------------------------------------
(* Properties.                                                             *)

TypeOK ==
  /\ row \in [present : BOOLEAN, token : Pairs, blocked : BOOLEAN]
  /\ access \in [Pairs -> {"new", "due", "expired"}]
  /\ issued \in Pairs /\ revoked \in BOOLEAN /\ lost \in BOOLEAN
  /\ lease \in (Calls \X Levels) \cup {NoLease}
  /\ pending \in [Workers -> Calls \cup {NoCall}]
  /\ recent \in [Workers -> [Pairs -> Outcomes \cup {"none"}]]
  /\ backoff \in [Workers -> BOOLEAN]
  /\ markers \subseteq Calls /\ doomed \in BOOLEAN
  /\ pc \in [Calls -> PCs]
  /\ token \in [Calls -> Pairs] /\ loaded \in [Calls -> Pairs]
  /\ tries \in [Calls -> 0..LeaseTries]
  /\ attempts \in [Calls -> 0..(RefreshTries - 1)] /\ retried \in [Calls -> BOOLEAN]
  /\ follows \in [Calls -> Calls \cup {NoCall}]
  /\ got \in [Calls -> Pairs \cup {NoPair}]
  /\ fired \in [Calls -> SUBSET Pairs]

\* No rotation is dropped on the way to the row: unless the newest pair was
\* lost with a crash or an answer, the row has it or a call is about to write
\* it.  A late write of an older pair over a newer one would break this.
NewestPairKept ==
  row.present /\ ~lost =>
    \/ row.token = issued
    \/ \E c \in Calls : pc[c] = "persist" /\ got[c] = issued

\* backgroundTokenRefresh.js:202: "Dead grant (revoked/expired/access_denied):
\* DELETE the connection outright", and tokenRefresh.js:398: "Refresh token is
\* dead": a connection is blocked or deleted only when its grant is dead,
\* whoever lost a rotation race on the way.
OnlyDeadGrantsRetired == row.blocked \/ ~row.present => revoked \/ lost

\* At the provider, with the token it holds.
Asking(c) == pc[c] \in {"upstream", "bare"}

\* tokenRefresh.js:377-378: "Retry ONLY with a different token": a run of
\* checkAndRefreshToken never sends the same token twice, across its retry, the
\* lock and the cache.  The repeats of refreshWithRetry do, by design.
RetryUsesAnotherToken ==
  [][\A c \in Calls \ Direct : ~Asking(c) /\ Asking(c)' => token[c] \notin fired[c]]_vars

\* One worker has two requests with one token under way only where one of them
\* is bare, although two of its calls can pass the refreshLocks check together
\* and the 401 path repeats its own.
SingleFlight ==
  \A c, d \in Calls :
    /\ Asking(c) /\ Asking(d)
    /\ WorkerOf[c] = WorkerOf[d] /\ token[c] = token[d]
    => c = d \/ c \in Bare \/ d \in Bare

\* oauthCredentialManager.js:144-145: "the in-process lock below still serializes
\* this worker".  It does not serialize the bare requests (refresh_bare.cfg).
WorkerSerialized ==
  \A c, d \in Calls :
    Asking(c) /\ Asking(d) /\ WorkerOf[c] = WorkerOf[d] /\ token[c] = token[d] => c = d

\* Every call ends: waiting for the lease, for another call's refresh, or for
\* the grace period never becomes waiting for good.
EveryCallEnds == \A c \in Calls : pc[c] # "idle" ~> pc[c] \in Resting

\* The lease of a call that ended or died comes back.
LeaseComesBack == lease # NoLease ~> lease = NoLease
=============================================================================
