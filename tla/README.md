# AxonRouter: a TLA+ verification development

AxonRouter is a gateway for LLM requests. A client sends one chat request; the
gateway picks a provider, a model and one of many accounts, sends the request
upstream, streams the answer back, and falls over to other accounts and models
when something fails. It runs as a cluster of Node.js workers that share a
PostgreSQL database and a Valkey cache. All the interesting state is touched by
callbacks: a client that disconnects, timers, upstream answers, the background
tick of another worker.

This directory holds TLA+ models of the parts of it where the order of those
callbacks matters, configurations that check them with TLC, and theorems about
them proved with TLAPS. Paths below are relative to the root of the repository;
`PROJECT.json` repeats them with a leading `src/`.

## Contents

| Module | Models | Runs | Proved in |
|---|---|---|---|
| `UpstreamSlots` | the upstream concurrency gate | `slots` | `UpstreamSlotsProofs` |
| `SlotPool` | what the gate promises: a pool of slots, first come, first served (abstract) | through `UpstreamSlots` | |
| `Lease` | what a distributed mutex promises (abstract) | through `LeaseLock` | |
| `LeaseLock` | `acquireLock` / `releaseLock` over Valkey and the local fallback | `lease_safety` | `LeaseLockProofs` |
| `TokenRefresh` | OAuth token refresh of one connection in a cluster | `refresh_safety`, `refresh_pair` | `TokenRefreshProofs` |
| `ComboRouting` | one request through a fallback combo: loop, account rotation, budget | `combo_safety`, `combo_liveness` | `ComboRoutingProofs` |
| `AccountState` | the health of one account: row, cooldown keys, cached candidate lists | `accounts`, `accounts_wipe` | `AccountStateProofs` |
| `FusionPanel` | one request to a fusion combo: panel, quorum and grace, judges, budget | `fusion` | `FusionPanelProofs` |
| `ProxyHealth` | the health of one proxy pool: row, failure counter, probes, operator | `proxies` | `ProxyHealthProofs` |
| `ProxySweep` | the health sweep as a singleton and the tally of one zone | `zones`, `zones_stuck` | `ProxySweepProofs` |

`MC<module>` gives each module its instances. Every run `<name>` uses
`<name>.cfg`. Twelve more configurations reproduce observations of section 6 and
end with the violation described there: `slots_leak`, `lease_local`,
`refresh_joiner`, `refresh_regress`, `refresh_bare`, `refresh_first_error`,
`combo_refresh401`, `combo_pin`, `combo_client_error`, `proxies_off`,
`proxies_stuck` and `zones_open`. `zones_workers` checks the safety of `zones` with
two workers in each pass and two pools, where liveness takes too long.

To run: `tlc -workers 2 -config slots.cfg MCUpstreamSlots.tla`, and
`tlapm UpstreamSlotsProofs.tla`.

## 1. Inventory of the system

### Modelled

**Upstream concurrency gate** (`open-sse/utils/upstreamSemaphore.js`,
`open-sse/utils/streamHandler.js`, `open-sse/handlers/chatCore.js`).
*State*: the counter and FIFO queue of a process-wide semaphore; per attempt a
slot holder (three flags) and a stream controller (a latch, a 500 ms abort
timer, an AbortController).
*Operations*: acquire, hand-off, queue timeout; disconnect, error, completion,
stall, cancel; the endings of a JSON and of a streaming answer.
*Interactions*: the controller's callbacks call the holder's `release()`, which
calls the semaphore's.
*Hard*: several endings fire for one attempt in any order, and an abort can
come before the slot it should give back.
*Correct when*: the counter is the number of slots in use, slots circulate
through the queue, and an attempt that ended owns none.

**Distributed mutex** (`src/lib/cache/client.js:669-728`).
*State*: a Valkey key with a TTL, a process-local map with deletion timers.
*Operations*: `SET NX EX`, compare-and-delete, the fallback of both.
*Interactions*: token refresh, health sweep and background tick rest on it.
*Hard*: answers are lost after the server acted, ioredis repeats commands,
Valkey comes and goes between acquire and release, processes crash.
*Correct when*: two tasks are inside together only if one overran its TTL, a
release takes the lease from nobody else, and every lease ends.

**OAuth token refresh** (`src/sse/services/tokenRefresh.js`,
`open-sse/services/oauthCredentialManager.js`,
`open-sse/services/tokenRefresh/dedup.js`,
`src/sse/services/backgroundTokenRefresh.js`).
*State*: the connection's row; the cluster lease; per worker a map of pending
refreshes, a 10 s result cache and a backoff; a refresh token that the provider
rotates with every use.
*Operations*: adopt, lock, refresh, retry after a lost race, persist, mark
blocked; repeat on the 401 path; select, judge and delete by the tick.
*Interactions*: requests (proper path and 401 path, the latter mostly without any
lock), the tick, the provider.
*Hard*: using a superseded token gets a rejection that looks like a dead grant;
results are cached, shared and written by whoever waited.
*Correct when*: the newest pair reaches the row, only dead grants are retired,
one token goes upstream once at a time per worker that uses the lock, calls end
and the lease comes back.

**Combo loop and account rotation** (`open-sse/services/combo.js`
`handleComboChat`, `src/sse/handlers/chat.js` `handleSingleModelChat`, the
selection and marking functions of `src/sse/services/auth.js`).
*State*: the loop's position; the shared rotation budget; per member run its
exclusions, attempts, share, pin; abort signals; account locks, member fail
counters and last-known-good pointers in the shared cache.
*Operations*: start, time out and leave a member; select, try, refresh after a
401, mark and exclude an account; succeed.
*Interactions*: a run that timed out goes on beside the next member's; other
requests move pointers and verdicts.
*Hard*: two runs share budget and locks; `memberIndex` is read late; a hung
upstream.
*Correct when*: the budget holds, the tail keeps its share, no failed account is
tried again, slowness is not counted as failure, every request is answered and
no run is left behind.

**Account state** (`auth.js` selection, `markAccountUnavailable`,
`clearAccountError`; `src/lib/db/repos/connectionsRepo.js`; cooldown keys and
cached lists of `src/lib/cache/client.js`).
*State*: the row of a connection (is_active, disabled marker, status, previous
status, lock of the account, locks of models, error); the cooldown keys; the
cached candidate lists, which hold copies of the row.
*Operations*: select from the list or the database, fill the list, mark a
failure of a model, of the account or of the credential, clear after a success,
recover what has lapsed, reset, disable and enable.
*Interactions*: concurrent requests, the recovery and the dashboard write
the same row from what they read earlier, and the keys in separate steps.
*Hard*: every decision is taken on a copy, and a patch that says "active"
resets more than it names.
*Correct when*: a disabled account stays out, a ban is obeyed through old lists,
and an account whose locks have lapsed is used again.

**Fusion panel** (`combo.js:2042-2329`: `withTimeout`, `collectPanel`,
`handleFusionChat`).
*State*: the array of results, the quorum's grace timer, the shared budget, the
position in the chain of judges.
*Operations*: ask all members, end by quorum and grace, by the hard timeout or
when all have settled, abort the rest, read the answers, judge, time a judge
out, fall back to an answer.
*Hard*: stragglers go on writing the array that is being read, and all runs
spend one budget.
*Correct when*: nothing runs on unaborted, nothing paid for is dropped, a judge
can still be asked, the request is answered.

**Proxy pool health** (`src/lib/network/proxyHealth.js`,
`proxyAutoRecovery.js`, `src/lib/db/repos/proxyPoolsRepo.js`, the proxy-pool
routes).
*State*: is_active, test status and consecutive failures of the row; the shared
counter of runtime failures with its TTL.
*Operations*: count a failure (INCR, then EXPIRE), disable at the threshold,
clear after a success, recover, sweep, test, switch off and on.
*Hard*: two counts of failures that delete and overwrite each other; verdicts
computed on a copy; a crash between two commands.
*Correct when*: each counter ends, and only an answer or the operator enables a
pool.

**Health sweep and zone tally** (`src/lib/network/proxyHealthSweep.js`,
`proxyZoneHealth.js`).
*State*: a flag per process, Valkey's lease and a lock per process, the cursor; the
tally of a zone in Valkey and a copy in each process.
*Operations*: start, take the lock or fall open, probe, fold and write the tally,
finish, release.
*Hard*: the flag is tested before the await of the lock and set after it; the
tally is read, changed and written by parallel workers; a call of Valkey that
fails turns to the memory of the process.
*Correct when*: one sweep runs at a time under each lock, a zone is condemned only
for failures it had, and one that works again is forgiven.

### Not modelled yet, in the order of the plan

| Component | State and hard behaviour | Correct when |
|---|---|---|
| Pool fitness and picking (`proxyPoolFitness.js`, `connectionProxy.js`) | per-process marks, broadcast, hydration from settings | a cleared mark stays cleared, a new one is not lost |
| Combo order (`combo.js:130-195`) | rotation position per process | every member gets its turns while the list changes |
| Quota cache (`domain/quotaCache.js`) | cached quotas and their reset times, single-flight refresh | an expired exhaustion does not block |
| Login limiter, graceful drain (`loginLimiter.js`, `gracefulDrain.js`) | progressive lockout; in-flight counter and shutdown | |

### Not modelled, and why

Executors and providers (35 adapters: outcomes only), translators and stream
transforms (pure text), media handlers (the chat handler's account loop without
budget and stream), OAuth login flows and sessions, the database layer (an
atomic step), usage records (no decision reads them), model catalogue and
benchmark runner, dashboard, documentation site. `PROJECT.json` lists each with
its reason, and lists the hazards with their lines.

## 2. The models

A step is one run of the JavaScript event loop up to the next `await`: between
awaits nothing else of the process runs, at an await everything may. Where a
model takes two awaits as one step, nothing another actor does lies between
them.

### SlotPool and UpstreamSlots

`SlotPool` is what the callers of the gate expect: an attempt takes a free slot
if nobody waits, or queues; it gives up, or gets the slot that another returns;
it returns its own at most once. `UpstreamSlots` is the code.

| State | Code |
|---|---|
| `active`, `waiters`, `granted` | `active`, `waiters`; `granted` holds attempts whose promise resolved while `slot = await ...` has not continued |
| `slot`, `released`, `aborted` | the closure of `createSlotHolder` |
| `disconnected`, `abortTimer`, `signalled` | `createStreamController` |
| `stage` | the position in `handleChatCore` and in the response stream |

The actions are the acquire site, its continuation, the queue timer, the
external abort, the abort timer, the ways the upstream call ends (throws or
fails, JSON, stream, a rejected conversion), and the stream's pull, chunk, end,
error, stall and cancel. `handleStreamingResponse` is returned without an `await`:
when it throws, nothing releases the slot (`StreamThrows`). The attempt is then
"thrown", if the stall watchdog was armed before and will fire, or "unwatched". The hand-off is the two-step one of the code: `release`
grants, the waiter's continuation assigns, and anything may run in between.
`ImplementsPool` maps the free slots to `Limit - active`, the holders to the
attempts that own a slot (in their closure, or granted and not yet continued),
the queue to `waiters`, and the attempts that returned theirs to `released`.
Data, chunk contents and the translation are left out, and so are requests of
tests, which take no slot; the branches for an `AbortError` and for a closed
controller are taken as the error they handle. `Limit` stands for the
module's `limit`, which the code never sets from the configuration (see 6).

### Lease and LeaseLock

`Lease` is what callers expect: grant, enter, return, expire, and nothing else.
`LeaseLock` is the code: one task per critical section, its name standing for
the random token. `ServerSets` and the answers are separate steps so that an
answer can be lost after the command ran; `Resend` is ioredis's repeat;
`FallOpen` is the `catch` of `acquireLock`; `ReleaseSharedFails` that of
`releaseLock`. Timers of the local map are a queue of callbacks, because the
code never clears one. Expiry may happen at any time: the model knows no clock,
and the history variables `overran` and `outlived` remember whose TTL ran out,
which is what the properties are relative to. `ImplementsLease` maps the Valkey
key to `owner`, the tasks that act on server tokens to `inside` and `overran`
to `late`.

### TokenRefresh

One connection, several workers, one call per run of `checkAndRefreshToken`
(requests, forced requests, the tick) or per refresh of chatCore's 401 path
(`Direct`). That path is `refreshWithRetry`: up to `RefreshTries` requests with the
same token. Only the executors of Codex and Grok CLI send them through the lock and
the merge; all others go to the token endpoint without lock, lease and
de-duplication (`Bare`: `Send`, `BareAnswer`). Token pairs are numbered in the order the provider issued them, so "superseded" is
`token # issued`. The two locks (`refreshLocks` of the worker, the Valkey lease)
and the dedup cache are the code's, with their keys: the first by connection,
the last by token. The lease is taken from the abstract one: its local fallback
is LeaseLock's subject, and a call that could not get it goes on without, as the
code does. Switches turn the environment on and off: `Transient`, `Crashes`,
`Revocable`, `ReturnsData`. `Prompt` states the time bounds the code relies on
(a database write is faster than a round trip to the provider plus 1.5 s, a
call is shorter than the 45 s lease, a new access token outlives the calls under
way); every run sets it, so each result is relative to those bounds.

### ComboRouting

One request, `N` members in the order the loop sees them. The loop's variables
are those of `handleComboChat`; each member's run is one
`handleSingleModelChat`. `used` and `index` are the fields of the shared
`rotationBudget`. `Routable` stands for `isConnectionRoutable` and the scan;
which of the routable accounts a strategy takes is left open. An upstream
attempt succeeds, answers empty, fails, is unauthorised or is a client error, or
the run throws. The loop classifies what a run returned anew, by its text, so that
any error may end the loop or make it fall back, and falling back counts a failure
of the member, a client error's too (`MemberReturns`, `EndsWithoutFallback`). What an
attempt leaves behind is any lock that `markAccountUnavailable` may write, or
any subset that `clearAccountError` may clear. `OtherRequests` lets the rest of
the fleet move last-known-good pointers and availability verdicts at any time.
Left out: the reordering of members, the strategies, antigravity quotas, freebuff
locks, keyless providers (their early return is for probes only), and the words
of the errors.

### AccountState

| State | Code |
|---|---|
| `row` | the connection: `isActive`, the disabled marker, `testStatus`, `previousTestStatus`, `lockedAllUntil`, `modelLock_*`, `lastError` and its kin as `err` |
| `connUntil`, `modelUntil` | the keys `cooldown:conn:<id>` and `cooldown:model:<id>:<model>` |
| `cached` | the candidate lists of `getCachedConnections`, for the models in `Listed` |
| `req` | one request from the selection to its mark or its clear, with the copy of the row it was given |
| `unkeying` | a `clearBatchAccountCooldown` that was started and not awaited |

Selection is three steps (read, fill the list, check the cooldown keys), a
failure three (read the status, write the row, write the key), a success three
(decide on the copy, delete the keys, write the row). `UpdateRow` is
`updateProviderConnection` with `resetHealthStateOnActivation`, so that a
patch's activation clears what the code clears. Failures have the scopes of
`markAccountUnavailable`: a model, a model for lack of credit (status "exhausted",
the model's lock and no window), a gateway timeout (a lock of no length, the error
as it was), the account for capacity or for credit, a dead credential. The text of
a failure may be one of those that keep an account out of routing ("barring").
Time is a few instants; a lock lasts one, a ban longer than all. Left out:
`rateLimitedUntil` (nothing sets it), `refreshBlocked` (TokenRefresh has the block),
the statuses "error", "expired" and "invalid", the path by a last-known-good pointer
(ComboRouting has it), the model key of a whole provider, the in-memory fallback of
the keys, the quota snapshots of antigravity and freebuff, and the text that
freebuff's bans add. `AutoRecover` may happen or not: only the state sweeper
calls it, which nothing starts (section 6).

### FusionPanel

A run is a call of `handleSingleModel` reduced to its share of the rotation
budget; runs `1..N` are the panel, then the chain of judges, then the one that
answers once more as a stream. `out` is `collectPanel`'s array, `place` the run
behind it: `withTimeout` settles the entry and leaves the run going, and a run
that ends later does not replace the entry. `Read` is the loop of
`handleFusionChat`, one iteration of which lasts up to the next answer it awaits
the text of; the array it reads goes on being filled. `JudgeTimeout` is the
judge's own `withTimeout`, whose run is not aborted. An aborted run may still try
another account before it ends. Prompts, texts and the
availability check before the panel are left out.

### ProxyHealth and ProxySweep

`ProxyHealth` is one pool. A failure of a request is INCR, EXPIRE if it was the
first, a read of the (cached) row and a write at the threshold, each its own
step, with a crash between the first two. `probe` holds the copy a prober took
before its connection attempt; `EndProbe` writes `computeProxyTestHealth` of that
copy, or, for the sweep, the verdict alone. `age` is the time since the last
test as the two schedulers see it: too fresh, past the recovery's cooldown, due
for the sweep. `Recover` is the recover route: the state sweeper would do the same
but is never started, and no fairness is assumed of it. `UpdateRow` starts the deletion of the counter that
`updateProxyPool` starts and does not await.

`ProxySweep` is the pass: test of the flag, lock, flag, workers over a cursor,
flag down, release, with crashes. Each call of Valkey may fail (`Answered`): the lock
is then one of the process (`FallOpen`), a read of the tally finds the copy that
the process keeps in memory, a write reaches that copy alone, and a release leaves
the lease to its time to live. A `SET` may have been done though its answer was
lost. `Fold` is `recordZoneProbe` without the
state "good" and the streak, which have no effect in the code (section 6).
`SampleCap` stands for the 1000 where `samples` stops. Left out: which pools a
pass takes, and the readers' cached copies of the verdict.

## 3. What the runs show

| Run | Instance | Properties |
|---|---|---|
| `slots` | 3 attempts, 2 abortable, limit 1 | `TypeOK`, `SlotsAccounted`, `NoIdleSlot`, `OnlyNamedLeaks`, `ImplementsPool`, `EveryWaiterServed`, `SlotsComeBack` |
| `lease_safety` | 3 tasks, 2 of them in one process, 1 repeat | `TypeOK`, `SharedExclusion`, `ReleasesOnlyOwn`, `ImplementsLease` |
| `refresh_safety` | a request and a 401 call through the lock in one worker, a bare 401 call in another, 3 tries each, 2 rotations, crashes, transient failures | `TypeOK`, `SingleFlight`, `RetryUsesAnotherToken` |
| `refresh_pair` | a forced request and the tick in two workers, 3 rotations, revocation, crashes | `NewestPairKept`, `OnlyDeadGrantsRetired`, `EveryCallEnds`, `LeaseComesBack` |
| `combo_safety` | 2 members over one provider's 3 accounts, budget 3, one account that can refresh | `TypeOK`, `TailHasShare`, `SlowIsNotDead`, `ExcludedStaysOut` |
| `combo_liveness` | 2 members, one account that can refresh, budget 2, other requests | `RequestAnswered`, `RunsEnd` |
| `accounts` | 2 requests, 2 models, 1 of them with a list, 2 failures, 2 instants, 1 intervention | `TypeOK`, `BucketComplete`, `ComesBack`, `DisabledStaysOut`, `BannedNotRouted` |
| `accounts_wipe` | same | violates `LocksSurvive` |
| `fusion` | panel of 3 who are the judges, quorum 2, budget 5 | `TypeOK`, `StragglersAborted`, `AnswerNotLost`, `JudgeHasShare`, `FusionAnswered` |
| `proxies` | 2 workers, thresholds 2 and 3, 3 failures, 1 intervention | `TypeOK`, `CounterEnds`, `EnabledByAnswer` |
| `zones` | 2 passes at once, 2 processes, 1 failed call of Valkey or crash, cap 2, 1 failure | `OneSweep`, `VerdictEarned`, `ZoneForgiven` |
| `zones_stuck` | 2 workers a pass, 2 pools, Valkey without a failure, cap 2, 2 failures | violates `ZoneForgiven` |

**Why the bounds are enough to be interesting.** *Slots*: with limit 1 and three
attempts one owns, one waits at the head and one behind it, which is what FIFO,
hand-off and timeout need; one attempt that cannot be aborted shows that
others' aborts do not cost it its slot. *Lease*: two tasks in one process and
one in another contend for both stores; one repeat is enough for the repeated
command to meet its own first run. *Refresh*: three calls are a joiner, a leader
and a rival worker; two rotations are enough for a pair to be superseded while
its result is still cached, and three tries are the code's. *Combo*: two members are the least for an overtaken
run beside the loop's, a budget of 3 makes the shares unequal (one and then
two), and three accounts let a greedy first member spend it all; `Threshold` 2
separates one failure from the threshold. *Accounts*: two requests, interchangeable, are one that
writes late and one it overwrites; two models separate a model's lock from the
account's and a listed model from one read from the database; failures are timed
at instants 0 and 1, so that one has lapsed while the other holds. *Fusion*:
three members with a quorum of two leave a straggler, and the budget of five is
the code's; a chain of four judges (a judge outside the panel) was checked once
and holds. *Proxies*: two workers interleave INCR, EXPIRE and deletions; the
thresholds are the least that differ, and three failures reach the upper one.
*Zones*: two passes in two processes, or in one, contend for locks and flag and,
where both run, lose each other's probes; passes follow each other without a bound,
so that a cap of two is reached, and the share of 0.8 lies above one failure in two
samples. One failed call is a lock that falls open, a lost answer, a stale copy read
or a write that stays in one process; `zones_workers` adds the workers of one pass.

**Deadlock** is not checked: attempts, tasks, calls and requests are one-shot, and
failures and interventions are bounded, so each system stops when all are used.
The liveness properties say what deadlock freedom would.

**Fairness.** `slots`: the event loop runs what is ready; every upstream call
ends (connect timeout); every stream ends, by the upstream or by the stall
watchdog, strongly fair because pull and chunk alternate. The queue timer is
*not* assumed to fire. `refresh_pair`: calls that can go on do, the server drops
expired keys; nobody need load the row again. `combo_liveness`: the event loop
runs ready steps and target timers fire; the upstream need never answer and the
loop's safety timeout is not relied on. `fusion`: the handler's continuations run
and its timers fire; an aborted run ends (the abort reaches `fetch`) and so does
a lone stream (connect timeout and stall watchdog); panel and judges need never
answer. `zones`: the timers go on starting passes (the gateway starts
them, `gateway/server.js:168-174`), what a pass awaits has a timeout, a key with a
TTL ends.

**Relative properties.** `EveryWaiterServed` holds unless an attempt stranded a slot,
aborted early or thrown without a watchdog, and `SlotsComeBack` but for those
(section 6). `SingleFlight` is about requests that go through the lock, and
`RetryUsesAnotherToken` about runs of `checkAndRefreshToken`; the 401 path keeps
neither (section 6). `TailHasShare` does not count attempts exempted
after a 401 nor those of a run that fixed its share after the loop had left it.
`SharedExclusion` excuses tasks that outlived their TTL, which is all a lease can
promise, and `OneSweep` excuses a lock that ended under its pass and compares
passes under one lock: two under different locks do run at once (section 6). `CounterEnds`
excuses a worker that died between INCR and EXPIRE: nothing repairs that key.
`JudgeHasShare` is about panels with an attempt for each sharer (up to four
members at the code's budget) and does not count exempted retries.
`SlowIsNotDead` is about runs that got no error. `BannedNotRouted` excuses a ban
whose key a late success, a later failure or a sweep took away; the row keeps the
account out of later lists. `ComesBack` names the ways in which an account does stay
out (section 6): disabled, barred by the text of its last error, left with the key
of a ban, or with a timed status without a time, for one of three causes. What it
shows is that no interleaving of what is modelled loses an account in another way. `ZoneForgiven` holds for a zone with few failures behind
it; `zones_stuck` is the same formula with one more.

## 4. What is proved

For every number of attempts and every limit (`UpstreamSlotsProofs`, from
`RequestsAssumption`: finitely many attempts, and `LimitAssumption`: a positive
limit):

- `SlotsInvariant`: the inductive invariant `SlotsInv`;
- `TypeCorrect`: the types, in particular `active \in 0..Limit`;
- `SlotConservation`: `SlotsAccounted`;
- `NoSlotIdles`: `NoIdleSlot`;
- `NoOtherLeak`: `OnlyNamedLeaks`;
- `PoolRefinement`: `Spec => ImplementsPool`, the refinement of `SlotPool`.

`SlotsAccounted` is not inductive: a release might find a waiter that already
owns a slot, and the hand-off would then count one owner twice. `SlotsInv` adds
that waiters are distinct, that nobody is waiting and granted at once, that both
are still at the acquire site and have no slot, that a released holder had one,
and, for the leaks, that an attempt whose controller is latched, and one that has
ended, has run its holder's `release()`: it is released or marked dead. A streaming
handler that threw has done neither, and is the one place where an attempt may own
a slot that nothing gives back. The proof has a lemma for
what `release()` does to each part, one for each action that changes the queue,
and one step per remaining action. For the refinement an arrival is `Grant` or
`Wait`, the queue timer `GiveUp`, and whatever runs a holder's `release()` first,
be it an ending, an error or a disconnect, is `Return`; all other steps
stutter. That an arrival which finds a slot free overtakes nobody is `NoIdleSlot`;
that a hand-off adds a new owner, and never an attempt that owns a slot or has
returned one, is `SlotsInv`.

For every set of tasks and processes and any number of repeats
(`LeaseLockProofs`, from `TasksAssumption`, `WorkersAssumption`,
`ResendsAssumption`):

- `LeaseInvariant` and `TypeCorrect`;
- `MutualExclusion`: `SharedExclusion`;
- `LeaseRefinement`: `Spec => ImplementsLease`, the refinement of `Lease`;
- `ReleaseIsOwn`: `ReleasesOnlyOwn`, an action property.

The invariant says what a token is worth: a task that was told "OK", or will be,
is the value of the key or has seen its TTL run out. Exclusion follows because
the key has one value. For the refinement each action is mapped to a step of
`Lease` or to a stutter: a command that sets the key is `Grant`, its answer
`Enter`, the expiry `Expire`, a release that finds its token `Return`, and a
failed release, a crash or the release of an expired token `Abandon`.

For any number of members and accounts, any budget, share, limits and modes of
the request (`ComboRoutingProofs`, from `MembersAssumption` and
`LimitsAssumption`):

- `ComboInvariant`: the inductive invariant `ComboInv`;
- `TypeCorrect`: the types, in particular `used \in 0..Budget`, which is that
  all runs together, the overtaken ones too, stay within the budget;
- `SlownessNotPenalised`: `SlowIsNotDead`;
- `NoAccountTwice`: `ExcludedStaysOut`, an action property;
- `TailShareUntilOvertaken`: `TailHasShare`, as long as the loop has left no run
  that was still under way, for any budget;
- `TailShareOfFive`: `TailHasShare` without that condition, for any number of
  members and any budget up to the code's, which is the constant 5
  (`errorConfig.js`, `MAX_TOTAL_ROTATION_ATTEMPTS`).

`SlowIsNotDead` is about the fail counters and says nothing of where a run is,
so it is not inductive. `ComboInv` adds which runs the loop has not started
(`LoopInv`), what the place of a run says of its counters and its account
(`RunInv`), and who may be blamed (`BlameInv`): a run that is back at the
selection after an attempt, that is about to mark an account, or that returned
anything but a success or an abort, has got an error, has thrown or has found no
account; and for a probe no counter moves. A client error is such an error, since
the loop may count it. The step that needs
most care is a run that gives up because its share is spent: its share is at
least one attempt (`CapBound`), so it has made one, came back, and saw it fail.

`TailHasShare` says that the budget still holds an attempt for each member to
come. Two invariants carry it. `SeqInv`: while no run has been overtaken, the
budget covers what the running member's share still allows and one attempt for
each member after it. `FiveInv` admits overtaken runs, which keep shares fixed
when more was left: it counts what was spent in units of shares, and with a budget
of five only the last two members can be given more than one attempt. The bound
on the budget is not an artefact of the proof alone: the property was computed to
hold for all budgets up to ten, and at eleven, with five members, runs overtaken
one after the other with shares of 2, 2, 3 and 4 can take everything and starve
the last.

For any calls, workers and bounds and every setting of the switches, `Prompt` off
included (`TokenRefreshProofs`, from `CallsAssumption` and `BoundsAssumption`):

- `RefreshInvariant` and `TypeCorrect`: a call writes to the row only
  a pair that some answer brought, and no call tries the lease, and no call of the
  401 path the provider, more often than allowed;
- `OneRefreshPerToken`: `SingleFlight`, the repeats of the 401 path included, bare
  requests excepted;
- `RetriesDiffer`: `RetryUsesAnotherToken`, an action property of the runs of
  `checkAndRefreshToken`;
- `NewestPairReachesRow`: `NewestPairKept`, in every behaviour with `NoReplay`
  (`Prompt` on);
- `ApartCallsKeepNewestPair`: `NewestPairKept`, `NoReplay` and `JoinsOwn`, in every
  behaviour in which the calls of one worker come one after the other (`Apart`),
  whatever the switches;
- `OneCallPerWorker`: `NewestPairKept` outright, if each worker has one call, as in
  `refresh_pair`;
- `DeadGrantsOnly`: `OnlyDeadGrantsRetired`, in every behaviour with `NoReplay`,
  `JoinsOwn` and `OneRotation` (`Prompt` on, no transient failures);
- `ApartDeadGrantsOnly`: the same with `Apart` in place of the first two.

`CallInv` says what the place of a run of `checkAndRefreshToken` means: where it may
still send its token it has not sent it, on the first try it has sent nothing at all, and the retry begins
with a pair that differs from the one it sent. A call of the 401 path may have sent
its token before, and `CallInv` says nothing of that. `CacheInv` (a cached renewal has a
successor) is what types the pair that a cached result brings.

The last five are conditional because the code does not keep the two properties in
every behaviour (section 6), and the conditions say exactly which behaviours
are meant. `NoReplay`: no call is about to be served a cached renewal.
`JoinsOwn`: whoever joins a pending refresh holds the pair it sends.
`OneRotation`: while a call tries, the provider rotates at most once past the
pair it loaded. Dropping one breaks the property: `refresh_regress` shows it for
`NoReplay`, `refresh_joiner` for `JoinsOwn`, and three workers that each rotate
for `OneRotation`. None of the three is vacuous: every behaviour of
`refresh_pair` satisfies all of them, and the invariants were checked with TLC on
three calls in two and in three workers before they were proved. `WriterInv`
(whoever is about to write the row holds the newest pair) does for the first
theorem. `PairInv` does for the second: there is at most one writer, nobody joins,
and a cached renewal is of a pair that the row and every call on its way are past.
`RetireInv` follows what was refused: a call that tries again holds a newer pair
than it loaded, and what it was refused, itself or through the cache, was
superseded or revoked.

For any requests, models, listed models and bounds (`AccountStateProofs`, from
`ConstantsAssumption`):

- `AccountInvariant` and `TypeCorrect`;
- `BucketsComplete`: `BucketComplete`; `AccountComesBack`: `ComesBack`;
- `DisabledStay`: `DisabledStaysOut`; `BannedNotChosen`: `BannedNotRouted`, action
  properties.

The proof is about copies. `BanInv` follows every trace of a ban (the row's
status, its remembered status, what a failure read and will write back) and ties
it to the ban's key: the key is there, or a request is about to write it, or it was
deleted before its time. `WindowInv` follows the three ways in which a status gets to
be timed without a time: a lack of credit that names a model, a stale write, an
enabling. The lemmas `ResetFields` and `UpdateFields` say what
`updateProviderConnection` leaves of any patch, field by field; the rest rests on
them.

For any panel, quorum, budget and chain of judges (`FusionPanelProofs`, from
`ConstantsAssumption`): `FusionInvariant`, `TypeCorrect` (the budget),
`NoStraggler` (`StragglersAborted`), `NoAnswerDropped` (`AnswerNotLost`) and
`JudgeGetsShare` (`JudgeHasShare`).
`ReadInv` says that an answer of the array at the decision is still in it or has
been read already. `JudgeHasShare` is about the sum of what the members spend, which
would need an induction over the panel; `ShareInv` counts instead the set of
pairs of a member and one of its attempts (`Units`), which has at most as many
elements as the panel's shares, and those leave the judge one by
`SharesLeaveRest`.

For any workers, thresholds and bounds (`ProxyHealthProofs`): `HealthInvariant`,
`TypeCorrect`, `CountersEnd` (`CounterEnds`) and `OnlyAnswersEnable`
(`EnabledByAnswer`). Typing the row's count needs `CountInv`: a request writes the
shared counter, which never exceeds the failures so far; a probe of the recovery
adds one to a count below the dead threshold; one of the operator's adds one for
his intervention.

For any passes, processes, workers and failed calls of Valkey, at least one process
(`ProxySweepProofs`): `SweepInvariant`, `TypeCorrect`, `SweepIsSingleton` (`OneSweep`),
`VerdictHasFailures` (`VerdictEarned`) and `CondemnedStays`. `LockInv` says that a pass
from its grant to its release has the lock it was granted, Valkey's or its
process's, unless one ended early; `TallyInv` that no tally, no copy in memory and
none that a worker is about to write counts more failures than there were.

`VerdictHasFailures` is the good half of the tally: workers that overwrite each
other lose probes, and processes read copies of before an outage, and still they never
condemn a zone with fewer failures than the rule asks for. `CondemnedStays` is the bad half, the finding of `zones_stuck` for
every instance: once the failures have outgrown the cap of the samples, in the
tally and in what workers are about to write back, no answer takes the verdict
back, and only the loss of the whole entry does, or an older copy that is read while
Valkey fails.

Every invariant and action property of a passing run is proved, those of
`TokenRefresh` and `TailHasShare` under the conditions named. Only model-checked
are the liveness properties, which the prover cannot reach: `EveryWaiterServed`,
`SlotsComeBack`, `EveryCallEnds`, `LeaseComesBack`, `RequestAnswered`, `RunsEnd`,
`FusionAnswered` and `ZoneForgiven`.

## 5. Disagreements with what the repository says

Each is a run that ends with the violation; `PROJECT.json` quotes the lines.

1. `accounts_wipe`: a failure of one model writes the status back as it was read,
   usually "active", and the write of "active" clears every model lock of the
   row (`auth.js:1852`, `connectionsRepo.js:76-102`), against the comment at
   `connectionsRepo.js:1181-1182`.
2. `zones_stuck`: `samples` stops at 1000 and `fails` does not, and neither is
   ever taken back; a zone that has failed long enough stays condemned although
   it answers again (`proxyZoneHealth.js:94-95` against `:18-20`).

## 6. Other observations made while modelling

With the configuration that reproduces the run, where there is one; the others
were seen while reading or with a one-off TLC run.

- *Slots.* `slots_leak`: an abort while `acquire()` is pending marks the holder
  dead and uses up the controller's latch; the slot that then arrives is never
  returned if the answer comes within the 500 ms abort delay
  (`upstreamSemaphore.js:91-99`). A streaming handler that throws skips the catch that
  releases the slot, because its promise is returned without an `await`
  (`chatCore.js:821-830`), against "Always released via finally by the holder"
  (`upstreamSemaphore.js:8-9`). A throw after the stall watchdog was armed (an answer
  without a body, `streamHandler.js:241`) keeps the slot until the watchdog fires; one
  before it, or with the watchdog already cleared, keeps it for good. The slot is returned at the disconnect and the
  upstream request is aborted 500 ms later, so more than `Limit` requests can be
  in flight (`streamHandler.js:41-52` against `upstreamSemaphore.js:3`). The
  configured cap is read (`chatCore.js:13`, `runtimeConfig.js:39-40`) and never
  handed to the semaphore (`upstreamSemaphore.js:15`).
- *Lease.* `lease_local`: the deletion timer of a released local lease deletes
  the next holder's entry (`cache/client.js:694`).
- *Refresh.* `refresh_bare`: on the 401 path most executors ask the token endpoint
  themselves (`open-sse/executors/default.js:230-262`, `github.js:395`), so that one
  worker can have two requests with one token under way, against
  `oauthCredentialManager.js:144-145`; only `codex.js:237-240` and `grok-cli.js:353-356`
  go through the lock. `refreshWithRetry` (`tokenRefresh.js:275-293`) sends the same
  token up to three times: after an answer that was lost the repeat is the use of a
  superseded token, and a bare rejection is repeated too, against the comment at
  `chatCore.js:693-697`. `refresh_joiner`: a call with a fresh token joins the pending refresh
  of an older one and inherits its rejection; a live grant is blocked
  (`oauthCredentialManager.js:138`). `refresh_regress`: a result served from the
  10 s cache overwrites the newer pair in the row (`tokenRefresh.js:434`). The row
  is re-read before the wait for the lease, so a stale token may be sent after it
  (`tokenRefresh.js:365-368`). A renewal whose answer has no
  `providerSpecificData` leaves `refreshBlocked` set (`:423-425`). A failure
  without an answer clears the backoff it should set
  (`backgroundTokenRefresh.js:12-14, 179`). If the retry after a lost race fails
  transiently, the first rejection decides and a live grant is retired
  (`refresh_first_error`; `tokenRefresh.js:390`); the same if the provider rotates twice while one call
  tries, as with three workers. `NewestPairKept` and `OnlyDeadGrantsRetired`
  therefore hold in the behaviours that section 4 delimits and not beyond;
  transient failures endanger the second only.
- *Combo.* `combo_client_error`: the loop classifies a member's client error anew by
  its text and may count a failure of the member (`combo.js:436-457`), against "a
  400-class client error must never penalize a healthy model" (`chat.js:1097-1098`).
  `combo_refresh401`: the flag that limits the 401 retry to one does not
  survive the next selection (`chat.js:911`). `combo_pin`: the last-known-good
  account is returned before a strict pin is looked at (`auth.js:617`). With four
  members and a budget of five, two runs overtaken before their first attempt
  read later members' `memberIndex`, take larger shares, and the last member
  finds the budget spent, against `chat.js:579-582`; this is why `TailHasShare`
  keeps the history `late`. One request can push a member to the failover
  threshold by itself, one count per account plus the loop's (`chat.js:1101`;
  `errorConfig.js:80-84` says "across requests"). For one
  provider (tokenharbor) `chat.js:666` reads `effectiveStatus` before its declaration
  at line 929, which throws.
- *Accounts.* The ways to stay out with every lock lapsed, the exceptions of
  `ComesBack`. A timed status without a time is neither routable
  (`auth.js:259-271`) nor recovered. A lack of credit that names the model writes one
  at once: `lockAll` is taken back and `isExhausted` is not (`auth.js:1647-1650`,
  `1849-1861`), and so the account is "exhausted" for all its models, though only one
  was locked. A failure of one model writes back the status it read although the
  window went meanwhile. A last error with "forbidden", "unauthorized", "revoked" and
  the like keeps an account out until a success or an administrator clears it
  (`auth.js:253-255`, `accountFallback.js:218-221`): an OAuth account whose 401 was taken
  for transient is such a one. Enabling after a ban restores the status of before it,
  "exhausted" perhaps, without its time, and leaves the seven-day key of the ban.
  Nothing calls `autoRecoverExpiredExhaustedConnections` but the state sweeper, which is
  never started; the model lets it happen or not. A second ban or disabling stores
  "disabled" as the previous status, so that enabling yields an active row with a
  disabled status
  (the exception of `BucketComplete`). A late success deletes the key of a ban
  (`auth.js:1924`). A model that fails again while its old lock is still in the
  row loses its new lock in the same reset. `modelLocks: {}` in the patch of a ban
  clears nothing, since the patch is merged.
- *Fusion.* With five or more members at the budget of five, the panel can spend
  it all and no judge can be asked, against `combo.js:2155-2159`; exempted 401
  retries can do the same to smaller panels. A judge that timed out is not
  aborted and goes on spending. A straggler aborted after the decision may put
  its failure into the array before the loop reads it and is then counted as a
  failure of the member.
- *Proxies.* `proxies_off`: a pool that the operator switched off is a candidate
  of the recovery of "degraded or unhealthy" pools and is enabled by the next
  answer (`proxyAutoRecovery.js:8-11, 27`). A failing probe that read the pool
  while it was active writes `isActive: true` over a disabling of meanwhile
  (`proxyHealth.js:42`). The sweep's late verdict overwrites "dead" or "unhealthy"
  with "active" or "failed" and leaves the row inactive; runtime writes out of
  order make a dead pool unhealthy. Switching a pool on without resetting the
  count leaves a count past the threshold, which routing and recovery skip.
  `proxies_stuck`: a disabled pool stays disabled until the operator asks for a
  recovery. `autoRecoverUnhealthyProxyPools` "Periodically probes degraded or unhealthy
  proxy pools" (`proxyAutoRecovery.js:8-10`), but its timer is started by
  `initializeApp.js` alone, which only `bootstrap.js` reaches, which nothing imports
  (`gateway/server.js:163-165`). A pass takes the first twenty candidates and has no
  cursor.
- *Zones.* `zones_open`: when a call of Valkey fails, `acquireLock` falls open to a
  lock of the process (`cache/client.js:684-699`), and a second pass sweeps beside the
  one that holds the lease, against "The lock is what makes it a singleton"
  (`proxyHealthSweep.js:45`). `isCacheAvailable` is always true (`cache/client.js:40-42`),
  so that the sweep without a lock (`proxyHealthSweep.js:115-120`) never happens.
  `next` never has the previous state when it is compared with "bad", so
  the state "good" and its streak have no effect (`proxyZoneHealth.js:104-117`);
  the test of freshness in `recordZoneProbe` is always true. Probes of one zone
  in one pass overwrite each other, against `proxyHealthSweep.js:41-45`.
- *Shutdown.* `trackRequest` has no caller outside its test, so the drain never
  waits (`gracefulDrain.js:12`, `webServer.mjs:452`).

## 7. Plan

In this order.

1. `PoolFitness`: marks, clears, broadcast and hydration of two processes.
2. An abstract "collect once" specification for `FusionPanel`, and its refinement.
3. `ComboRotation`, `QuotaCache`, `LoginLimiter`, `GracefulDrain`: small modules,
   the pure parts checked against reference definitions.
4. Proofs: the bound of `TailShareOfFive` raised to ten; `OnlyDeadGrantsRetired`
   under a condition on the calls alone instead of `OneRotation`.

The number of runs is kept small: a run whose question another answers better is
replaced, not kept beside it.
