---------------------------- MODULE ComboRouting ----------------------------
(***************************************************************************)
(* One client request through a fallback combo: the loop of                *)
(* handleComboChat (open-sse/services/combo.js) over the members, and one  *)
(* run of handleSingleModelChat (src/sse/handlers/chat.js) per member,     *)
(* which rotates over the member's accounts.  All runs of the request      *)
(* share the rotation budget.  A member that exceeds its time is aborted   *)
(* and the loop goes on, but its run goes on too until it notices.         *)
(*                                                                         *)
(* Members are numbered in the order of the loop.  A step is one run of    *)
(* the event loop up to the next await.                                    *)
(***************************************************************************)
EXTENDS Naturals, FiniteSets

CONSTANTS
  N,              \* number of members
  Accounts, NoAccount,
  AccountsOf,     \* the accounts of each member's provider
  Refreshable,    \* accounts with a refresh token
  Budget,         \* MAX_TOTAL_ROTATION_ATTEMPTS
  MaxFallback,    \* MAX_FALLBACK_ATTEMPTS
  Threshold,      \* MODEL_FAILOVER_THRESHOLD
  Probe,          \* x-axonrouter-test-request
  Pin,            \* x-connection-id, or NoAccount
  Strict,         \* x-connection-pin: strict
  OtherRequests   \* other requests move last-known-good pointers and verdicts

Members == 1..N

ASSUME MembersAssumption ==
  /\ N \in Nat \ {0} /\ NoAccount \notin Accounts
  /\ AccountsOf \in [Members -> SUBSET Accounts] /\ IsFiniteSet(Accounts)
  /\ Refreshable \subseteq Accounts
ASSUME LimitsAssumption == {Budget, MaxFallback, Threshold} \subseteq Nat \ {0}
ASSUME ModeAssumption ==
  /\ {Probe, Strict, OtherRequests} \subseteq BOOLEAN
  /\ Pin \in Accounts \cup {NoAccount}

VARIABLES
  at, phase,      \* the loop: the member it is at, and what it does there
  answer,         \* what the client got
  dead,           \* members whose fail count was at the threshold at the start
  gone,           \* the client disconnected
  used,           \* rotationBudget.used
  index,          \* rotationBudget.memberIndex
  pc, current, excluded, attempts, cap, exempt, pinned,   \* the run of each member
  result,         \* what the run of each member returned
  settled,        \* members whose run the loop no longer waits for: target timeout
  aborted,        \* members whose abort signal fired
  locked,         \* member and account: the account is not routable for the model
  failCount,      \* the member's failure counter in the shared cache
  lkg,            \* the member's last-known-good account
  late,           \* history: members whose share was fixed after the loop had left them
  waived,         \* history: attempts outside the shares: exempt, or of a late member
  faulted         \* history: members that got an error or had nothing to try

loopVars == <<at, phase, answer, dead, gone>>
budgetVars == <<used, index>>
runVars == <<pc, current, excluded, attempts, cap, exempt, pinned, result>>
signalVars == <<settled, aborted>>
routingVars == <<locked, failCount, lkg>>
historyVars == <<late, waived, faulted>>
vars == <<loopVars, budgetVars, runVars, signalVars, routingVars, historyVars>>

Phases == {"top", "available", "wait", "done"}
PCs == {"idle", "select", "upstream", "refresh", "mark", "returned"}
Outcomes == {"ok", "empty", "fail", "unauth", "client"}
Results == {"none", "ok", "empty", "fail", "client", "abort", "thrown"}
Answers == {"none", "ok", "error", "gone", "timeout", "budget", "failed"}

Running(m) == pc[m] \notin {"idle", "returned"}

Init ==
  /\ at = 1 /\ phase = "top" /\ answer = "none" /\ gone = FALSE
  /\ dead \in SUBSET Members
  /\ used = 0 /\ index = 1
  /\ pc = [m \in Members |-> "idle"]
  /\ current = [m \in Members |-> NoAccount]
  /\ excluded = [m \in Members |-> {}]
  /\ attempts = [m \in Members |-> 0] /\ cap = [m \in Members |-> 0]
  /\ exempt = [m \in Members |-> FALSE]
  /\ pinned = [m \in Members |-> NoAccount]
  /\ result = [m \in Members |-> "none"]
  /\ settled = {} /\ aborted = {}
  /\ locked = {}
  /\ failCount = [m \in Members |-> IF m \in dead THEN Threshold ELSE 0]
  /\ lkg = [m \in Members |-> NoAccount]
  /\ late = {} /\ waived = 0 /\ faulted = {}

Goto(m, s) == pc' = [pc EXCEPT ![m] = s]

----------------------------------------------------------------------------
(* The loop of handleComboChat.                                            *)

Answer(s) == phase' = "done" /\ answer' = s
Advance == at' = at + 1 /\ phase' = "top"

\* The checks at the top of the loop, in their order.
LoopTop ==
  /\ phase = "top" /\ at <= N
  /\ \/ gone /\ Answer("gone") /\ UNCHANGED at
     \/ ~gone /\ used >= Budget /\ Answer("budget") /\ UNCHANGED at
     \/ /\ ~gone /\ used < Budget
        /\ dead # Members /\ at \in dead
        /\ Advance /\ UNCHANGED answer
     \/ /\ ~gone /\ used < Budget
        /\ dead = Members \/ at \notin dead
        /\ phase' = "available" /\ UNCHANGED <<at, answer>>
  /\ UNCHANGED <<dead, gone, budgetVars, runVars, signalVars, routingVars, historyVars>>

Routable(m) == {a \in AccountsOf[m] : a \notin excluded[m] /\ <<m, a>> \notin locked}

\* checkAvailability says no: the member's accounts are all out, as far as this
\* worker's memo knows.
SkipUnavailable ==
  /\ phase = "available"
  /\ Routable(at) = {} \/ OtherRequests
  /\ Advance
  /\ UNCHANGED <<answer, dead, gone, budgetVars, runVars, signalVars, routingVars, historyVars>>

\* The member's run starts; an abort signal that is already set is passed on.
StartMember ==
  /\ phase = "available"
  /\ phase' = "wait"
  /\ index' = at
  /\ Goto(at, "select")
  /\ aborted' = IF gone THEN aborted \cup {at} ELSE aborted
  /\ UNCHANGED <<at, answer, dead, gone, used, current, excluded, attempts, cap,
                 exempt, pinned, result, settled, routingVars, historyVars>>

Penalise(m) ==
  failCount' = [failCount EXCEPT ![m] = IF @ < Threshold THEN @ + 1 ELSE @]

\* The run the loop waits for has returned.  Whether an error ends the request
\* the loop decides anew from its status and text, by rules that differ from the
\* run's own: a client error may go on to the next member and count as a failure,
\* and a failure may be the answer.  Only an abort never falls back.
MemberReturns ==
  /\ phase = "wait" /\ pc[at] = "returned"
  /\ \/ /\ result[at] = "ok" /\ Answer("ok") /\ UNCHANGED at
        /\ failCount' = IF Probe THEN failCount ELSE [failCount EXCEPT ![at] = 0]
     \/ result[at] = "empty" /\ Advance /\ UNCHANGED <<answer, failCount>>
     \/ /\ result[at] \in {"fail", "client", "abort"}
        /\ Answer("error") /\ UNCHANGED <<at, failCount>>
     \/ /\ result[at] \in {"fail", "client", "thrown"} /\ Advance /\ UNCHANGED answer
        /\ IF Probe THEN UNCHANGED failCount ELSE Penalise(at)
  /\ UNCHANGED <<dead, gone, budgetVars, runVars, signalVars, locked, lkg, historyVars>>

\* Variants for the mutation runs: the timeout counts as a failure of the
\* member; it does not abort the run; the last member has none.
TargetTimeoutPenalises(m) ==
  /\ Running(m) /\ m \notin settled
  /\ settled' = settled \cup {m} /\ aborted' = aborted \cup {m}
  /\ IF phase = "wait" /\ at = m THEN Advance /\ Penalise(m)
                                 ELSE UNCHANGED <<at, phase, failCount>>
  /\ UNCHANGED <<answer, dead, gone, budgetVars, runVars, locked, lkg, historyVars>>

TargetTimeoutNoAbort(m) ==
  /\ Running(m) /\ m \notin settled
  /\ settled' = settled \cup {m}
  /\ IF phase = "wait" /\ at = m THEN Advance ELSE UNCHANGED <<at, phase>>
  /\ UNCHANGED <<answer, dead, gone, budgetVars, runVars, aborted, routingVars, historyVars>>

TargetTimeoutNotLast(m) ==
  /\ Running(m) /\ m \notin settled /\ m < N
  /\ settled' = settled \cup {m} /\ aborted' = aborted \cup {m}
  /\ IF phase = "wait" /\ at = m THEN Advance ELSE UNCHANGED <<at, phase>>
  /\ UNCHANGED <<answer, dead, gone, budgetVars, runVars, routingVars, historyVars>>

\* The target timeout: the run is aborted, and the loop goes on if it waits for
\* it.  After a loop timeout nobody waits, but the timer still runs.
TargetTimeout(m) ==
  /\ Running(m) /\ m \notin settled
  /\ settled' = settled \cup {m} /\ aborted' = aborted \cup {m}
  /\ IF phase = "wait" /\ at = m THEN Advance ELSE UNCHANGED <<at, phase>>
  /\ UNCHANGED <<answer, dead, gone, budgetVars, runVars, routingVars, historyVars>>

\* The loop safety timeout races the member and is checked at the top.
LoopTimeout ==
  /\ \/ phase = "wait"
     \/ phase = "top" /\ at <= N /\ ~gone
  /\ Answer("timeout")
  /\ UNCHANGED <<at, dead, gone, budgetVars, runVars, signalVars, routingVars, historyVars>>

AllFailed ==
  /\ phase = "top" /\ at = N + 1
  /\ Answer("failed")
  /\ UNCHANGED <<at, dead, gone, budgetVars, runVars, signalVars, routingVars, historyVars>>

\* The client disconnects: every run that has not timed out is aborted.
ClientGone ==
  /\ ~gone
  /\ gone' = TRUE
  /\ aborted' = aborted \cup {m \in Members : Running(m) /\ m \notin settled}
  /\ UNCHANGED <<at, phase, answer, dead, budgetVars, runVars, settled, routingVars, historyVars>>

----------------------------------------------------------------------------
(* The account loop of handleSingleModelChat.                              *)

Return(m, r) == Goto(m, "returned") /\ result' = [result EXCEPT ![m] = r]

\* The top of the loop: with an account behind it, a run whose budget is spent
\* returns at once; otherwise it asks for credentials.
Again(m, excl) ==
  IF used >= Budget /\ excl # {} THEN Return(m, "fail")
                                 ELSE Goto(m, "select") /\ UNCHANGED result

\* Variant for the mutation runs: no division by the members that remain.
CapGreedy(m) == IF cap[m] # 0 THEN cap[m] ELSE Budget - used

\* The share of the remaining budget, fixed when it is first asked for.
Cap(m) ==
  LET left == IF index > N THEN 1 ELSE N - (index - 1)
      share == (Budget - used) \div left
  IN IF cap[m] # 0 THEN cap[m] ELSE IF share < 1 THEN 1 ELSE share

\* Account a is tried: it costs one attempt of the request's budget.
Attempt(m, a) ==
  /\ used' = used + 1
  /\ attempts' = [attempts EXCEPT ![m] = @ + 1]
  /\ cap' = [cap EXCEPT ![m] = IF exempt[m] THEN @ ELSE Cap(m)]
  /\ exempt' = [exempt EXCEPT ![m] = FALSE]
  /\ late' = IF ~exempt[m] /\ cap[m] = 0 /\ index # m THEN late \cup {m} ELSE late
  /\ waived' = IF exempt[m] \/ m \in late' THEN waived + 1 ELSE waived
  /\ current' = [current EXCEPT ![m] = a]
  /\ Goto(m, "upstream")
  /\ UNCHANGED <<result, faulted>>

\* Variant for the mutation runs: the budget is checked by the loop only.
TakeUnchecked(m, a) ==
  IF ~exempt[m] /\ attempts[m] >= Cap(m)
  THEN Return(m, "fail")
       /\ UNCHANGED <<used, attempts, cap, exempt, current, late, waived, faulted>>
  ELSE Attempt(m, a)

\* Account a was selected: it is tried if budget and share allow.
Take(m, a) ==
  IF used >= Budget
  THEN /\ Return(m, "fail")
       /\ faulted' = faulted \cup {m}
       /\ UNCHANGED <<used, attempts, cap, exempt, current, late, waived>>
  ELSE IF ~exempt[m] /\ attempts[m] >= Cap(m)
  THEN Return(m, "fail")
       /\ UNCHANGED <<used, attempts, cap, exempt, current, late, waived, faulted>>
  ELSE Attempt(m, a)

PinOf(m) == IF pinned[m] # NoAccount THEN pinned[m] ELSE Pin

\* Variant for the mutation runs: the pin is used whether it is routable or not.
CandidatesPinFirst(m) ==
  IF PinOf(m) # NoAccount THEN {PinOf(m)} ELSE Routable(m)

LastKnownGood(m) == {lkg[m]} \cap Routable(m)

\* getProviderCredentials: the last-known-good account first, then the pin,
\* then any routable account (by the provider's rotation strategy).
Candidates(m) ==
  IF LastKnownGood(m) # {} THEN LastKnownGood(m)
  ELSE IF PinOf(m) \in Routable(m) THEN {PinOf(m)}
  ELSE IF Strict /\ PinOf(m) # NoAccount THEN {}
  ELSE Routable(m)

Select(m) ==
  /\ pc[m] = "select"
  /\ \E a \in Candidates(m) : Take(m, a)
  /\ UNCHANGED <<loopVars, index, excluded, pinned, signalVars, routingVars>>

\* No account is left, as far as the worker's memo and the shared circuit know, or
\* the strict pin was missed.  A selection that found the whole fleet out sets
\* the fail counter to the threshold, and for one provider throws after that.
SelectNone(m) ==
  /\ pc[m] = "select"
  /\ Candidates(m) = {} \/ OtherRequests
  /\ \E r \in {"fail", "thrown"} : Return(m, r)
  /\ faulted' = faulted \cup {m}
  /\ \/ /\ Probe \/ excluded[m] # {} \/ (Strict /\ PinOf(m) # NoAccount)
        /\ UNCHANGED failCount
     \/ /\ ~Probe
        /\ Routable(m) = {} \/ OtherRequests
        /\ failCount' = [failCount EXCEPT ![m] = Threshold]
  /\ UNCHANGED <<loopVars, budgetVars, current, excluded, attempts, cap, exempt, pinned,
                 signalVars, locked, lkg, late, waived>>

\* What may be locked or cleared for account a of member m: nothing, the model or
\* the whole account.
Locks(m, a) == {{}, {<<m, a>>}, {<<n, a>> : n \in Members}}

\* The upstream answered; onRequestSuccess clears what the selection's copy of
\* the connection says against the account.
Succeeds(m) ==
  /\ pc[m] = "upstream"
  /\ \E o \in {"ok", "empty"} : Return(m, o)
  /\ IF Probe THEN UNCHANGED routingVars
     ELSE /\ failCount' = [failCount EXCEPT ![m] = 0]
          /\ lkg' = [lkg EXCEPT ![m] = current[m]]
          /\ \E l \in Locks(m, current[m]) : locked' = locked \ l
  /\ UNCHANGED <<loopVars, budgetVars, current, excluded, attempts, cap, exempt, pinned,
                 signalVars, historyVars>>

\* A client error, or the abort that reached the upstream request: no other account
\* is tried.  A probe takes it for any other failure.
EndsWithoutFallback(m, r) ==
  /\ pc[m] = "upstream"
  /\ IF Probe /\ ~(Strict /\ Pin # NoAccount)
     THEN Goto(m, "mark") /\ UNCHANGED result
     ELSE Return(m, r)
  /\ UNCHANGED <<loopVars, budgetVars, current, excluded, attempts, cap, exempt, pinned,
                 signalVars, routingVars, late, waived>>

AbortLands(m) ==
  m \in aborted /\ EndsWithoutFallback(m, "abort") /\ UNCHANGED faulted

ClientError(m) ==
  m \notin aborted /\ EndsWithoutFallback(m, "client") /\ faulted' = faulted \cup {m}

\* A failure of the account goes on to markAccountUnavailable, except for a
\* strict probe, which reports it.
Blame(m) ==
  IF Strict /\ Pin # NoAccount THEN Return(m, "fail")
                               ELSE Goto(m, "mark") /\ UNCHANGED result

Fails(m) ==
  /\ pc[m] = "upstream"
  /\ Blame(m)
  /\ faulted' = faulted \cup {m}
  /\ UNCHANGED <<loopVars, budgetVars, current, excluded, attempts, cap, exempt, pinned,
                 signalVars, routingVars, late, waived>>

\* A read of settings, accounts or tokens rejects, and nothing catches it in the run.
Throws(m) ==
  /\ Running(m)
  /\ Return(m, "thrown")
  /\ faulted' = faulted \cup {m}
  /\ UNCHANGED <<loopVars, budgetVars, current, excluded, attempts, cap, exempt, pinned,
                 signalVars, routingVars, late, waived>>

\* A 401 for an account with a refresh token: one forced refresh.  The flag that
\* should limit it to one is set on the selection's own copy of the credentials.
Unauthorized(m) ==
  /\ pc[m] = "upstream" /\ current[m] \in Refreshable
  /\ Goto(m, "refresh")
  /\ faulted' = faulted \cup {m}
  /\ UNCHANGED <<loopVars, budgetVars, current, excluded, attempts, cap, exempt, pinned, result,
                 signalVars, routingVars, late, waived>>

\* The forced refresh ends: with a new token the run tries the account again,
\* pinned and exempt from the share; without, the account is to blame.
Refreshed(m) ==
  /\ pc[m] = "refresh"
  /\ \/ /\ Again(m, excluded[m])
        /\ exempt' = [exempt EXCEPT ![m] = TRUE]
        /\ pinned' = [pinned EXCEPT ![m] = current[m]]
     \/ Blame(m) /\ UNCHANGED <<exempt, pinned>>
  /\ UNCHANGED <<loopVars, budgetVars, current, excluded, attempts, cap,
                 signalVars, routingVars, historyVars>>

\* markAccountUnavailable: the failure is the proxy's, or it locks the account for
\* the model or altogether, or the model for every account, and drops the
\* last-known-good pointer.
MarkUnavailable(m, a) ==
  \/ UNCHANGED <<locked, lkg>>
  \/ /\ \E l \in Locks(m, a) \cup {{<<m, b>> : b \in AccountsOf[m]}} : locked' = locked \cup l
     /\ lkg' = [lkg EXCEPT ![m] = NoAccount]

\* The failed account is marked and excluded; the run goes to the next one.
Mark(m) ==
  LET excl == excluded[m] \cup {current[m]} IN
  /\ pc[m] = "mark"
  /\ IF Probe THEN UNCHANGED <<locked, lkg, failCount>>
     ELSE MarkUnavailable(m, current[m]) /\ Penalise(m)
  /\ excluded' = [excluded EXCEPT ![m] = excl]
  /\ IF Cardinality(excl) >= MaxFallback THEN Return(m, "fail") ELSE Again(m, excl)
  /\ UNCHANGED <<loopVars, budgetVars, current, attempts, cap, exempt, pinned,
                 signalVars, historyVars>>

\* Another request of the fleet succeeds with account a, or the pointer expires.
LkgMoves(m) ==
  /\ OtherRequests
  /\ \E a \in AccountsOf[m] \cup {NoAccount} : lkg' = [lkg EXCEPT ![m] = a]
  /\ UNCHANGED <<loopVars, budgetVars, runVars, signalVars, locked, failCount, historyVars>>

----------------------------------------------------------------------------
Loop == LoopTop \/ SkipUnavailable \/ StartMember \/ MemberReturns \/ AllFailed

\* What the process does by itself, without an answer from the upstream.
Own(m) == Select(m) \/ SelectNone(m) \/ AbortLands(m) \/ Refreshed(m) \/ Mark(m)

Upstream(m) == Succeeds(m) \/ ClientError(m) \/ Fails(m) \/ Unauthorized(m) \/ Throws(m)

Next ==
  \/ Loop \/ LoopTimeout \/ ClientGone
  \/ \E m \in Members : Own(m) \/ Upstream(m) \/ TargetTimeout(m) \/ LkgMoves(m)

Spec == Init /\ [][Next]_vars

\* The event loop runs ready steps and the target timers fire.  The upstream
\* need never answer, and the loop safety timer is not relied on.
Fairness ==
  /\ WF_vars(Loop)
  /\ \A m \in Members : WF_vars(Own(m)) /\ WF_vars(TargetTimeout(m))

FairSpec == Spec /\ Fairness

----------------------------------------------------------------------------
(* Properties.                                                             *)

TypeOK ==
  /\ at \in 1..(N + 1) /\ phase \in Phases /\ answer \in Answers
  /\ dead \subseteq Members /\ gone \in BOOLEAN
  /\ used \in 0..Budget /\ index \in Members
  /\ pc \in [Members -> PCs] /\ current \in [Members -> Accounts \cup {NoAccount}]
  /\ excluded \in [Members -> SUBSET Accounts]
  /\ attempts \in [Members -> 0..Budget] /\ cap \in [Members -> 0..Budget]
  /\ exempt \in [Members -> BOOLEAN] /\ pinned \in [Members -> Accounts \cup {NoAccount}]
  /\ result \in [Members -> Results]
  /\ settled \subseteq Members /\ aborted \subseteq Members
  /\ faulted \subseteq Members /\ late \subseteq Members
  /\ locked \subseteq Members \X Accounts
  /\ failCount \in [Members -> 0..Threshold]
  /\ lkg \in [Members -> Accounts \cup {NoAccount}]
  /\ waived \in 0..Budget

\* chat.js:579-582: "early members can't starve the tail": when the loop reaches
\* a member, the budget holds an attempt for it and for each one after it,
\* but for the attempts that a token refresh exempted.
TailHasShare ==
  N <= Budget /\ phase = "top" /\ at <= N => used - waived + (N + 1 - at) <= Budget

\* A run never tries an account again that failed it.
ExcludedStaysOut ==
  [][\A m \in Members : pc[m] = "select" /\ pc'[m] = "upstream" => current'[m] \notin excluded[m]]_vars

\* combo.js:387-389: "A slow member is not a dead account": the fail counter of a
\* member rises only when its run got an error from the upstream, threw, or had
\* no account left to try; exceeding its time and being aborted do not count.
SlowIsNotDead ==
  \A m \in Members \ faulted :
    failCount[m] <= IF m \in dead THEN Threshold ELSE 0

\* Every request is answered though the upstream may hang for good.
RequestAnswered == <>(phase = "done")

\* No run is left behind: a run that timed out, lost its client or was overtaken
\* by the loop timeout stops.
RunsEnd == \A m \in Members : Running(m) ~> ~Running(m)

\* chat.js:908: "attempt one immediate forced refresh before locking account".
\* A run pinned to an account has refreshed it already.
OneForcedRefresh ==
  [][\A m \in Members :
       pc[m] = "upstream" /\ pc'[m] = "refresh" => pinned[m] # current[m]]_vars

\* chat.js:1097-1098: "a 400-class client error must never penalize a healthy
\* model": the loop counts no failure for a run that ended with a client error.
ClientErrorSpares ==
  [][phase = "wait" /\ result[at] = "client" => failCount'[at] <= failCount[at]]_vars

\* auth.js:931-934: "a missed pin is an honest error, never a silent fallback to
\* a sibling account".
StrictPinHonest ==
  [][\A m \in Members :
       Strict /\ Pin # NoAccount /\ pc[m] = "select" /\ pc'[m] = "upstream"
         => current'[m] = Pin]_vars
=============================================================================
