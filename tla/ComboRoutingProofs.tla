------------------------ MODULE ComboRoutingProofs ------------------------
(***************************************************************************)
(* Theorems about ComboRouting, for any number of members and accounts,    *)
(* any budget, limits and modes of the request.                            *)
(*                                                                         *)
(* The inductive invariant has three parts besides the types.  LoopInv     *)
(* says which runs the loop has not started.  RunInv ties a run's counters *)
(* and its account to its place in the account loop.  BlameInv says who    *)
(* may be counted as failed: a run that comes back to the selection, or    *)
(* ends other than by a success or an abort, has got an error or found no  *)
(* account, so that a member whose run was only slow is never penalised.   *)
(*                                                                         *)
(* The share of the combo's tail has two invariants of its own.  SeqInv    *)
(* holds for every budget: while no run has been overtaken by the loop,    *)
(* the budget covers what the running member may still spend and one       *)
(* attempt for each member after it.  FiveInv admits overtaken runs, and   *)
(* counts what has been spent in units of the shares; it needs the code's  *)
(* budget of five, with which only the last two members can be given more  *)
(* than one attempt.                                                       *)
(***************************************************************************)
EXTENDS ComboRouting, Integers, FiniteSetTheorems, TLAPS

LoopInv ==
  /\ phase \in {"available", "wait"} => at <= N
  /\ \A m \in Members :
       m > at \/ (m = at /\ phase \in {"top", "available"}) => pc[m] = "idle"

RunInv ==
  /\ waived <= used
  /\ \A m \in Members :
       /\ attempts[m] <= used
       /\ pc[m] = "idle" => attempts[m] = 0
       /\ pc[m] \in {"upstream", "refresh", "mark"} => current[m] \in Accounts

StartCount(m) == IF m \in dead THEN Threshold ELSE 0

Blamed(m) ==
  /\ pc[m] \in {"refresh", "mark"} => m \in faulted
  /\ pc[m] = "select" /\ attempts[m] > 0 => m \in faulted
  /\ pc[m] = "returned" /\ result[m] \in {"fail", "client", "thrown"} => m \in faulted

BlameInv ==
  /\ Probe => \A m \in Members : failCount[m] = StartCount(m)
  /\ ~Probe => \A m \in Members : Blamed(m)
  /\ SlowIsNotDead

ComboInv == TypeOK /\ LoopInv /\ RunInv /\ BlameInv

----------------------------------------------------------------------------
(* The constants, and the operators of the account loop.                   *)

\* The limits are positive numbers, and the members are numbers up to N.
LEMMA Constants ==
  /\ N \in Nat \ {0} /\ Budget \in Nat \ {0} /\ Threshold \in Nat \ {0}
  /\ \A m \in Members : m \in 1..N
  /\ \A m \in 1..N : m \in Members
  /\ \A m \in Members : AccountsOf[m] \subseteq Accounts
BY MembersAssumption, LimitsAssumption DEF Members

\* A quotient by a positive number is at most its dividend.
LEMMA QuotientBound ==
  ASSUME NEW x \in Nat, NEW d \in Nat \ {0}
  PROVE  x \div d \in 0..x
OBVIOUS

\* A member's share is at least one attempt and at most the whole budget.
LEMMA CapBound ==
  ASSUME TypeOK, NEW m \in Members
  PROVE  Cap(m) \in 1..Budget
<1> DEFINE left == IF index > N THEN 1 ELSE N - (index - 1)
           share == (Budget - used) \div left
<1>1. left \in Nat \ {0} /\ Budget - used \in Nat /\ Budget \in Nat \ {0}
  BY MembersAssumption, LimitsAssumption DEF TypeOK, Members
<1>2. share \in 0..(Budget - used)
  <2> HIDE DEF left
  <2> QED
    BY <1>1, QuotientBound
<1>3. cap[m] \in 0..Budget /\ used \in 0..Budget
  BY DEF TypeOK
<1>4. Cap(m) = IF cap[m] # 0 THEN cap[m] ELSE IF share < 1 THEN 1 ELSE share
  BY DEF Cap
<1> HIDE DEF share, left
<1> QED
  BY <1>1, <1>2, <1>3, <1>4

\* Only routable accounts are selected: accounts of the member that this run has
\* not excluded.
LEMMA CandidatesRoutable ==
  ASSUME NEW m \in Members, NEW a \in Candidates(m)
  PROVE  /\ a \in AccountsOf[m] /\ a \in Accounts
         /\ a \notin excluded[m]
<1>1. a \in Routable(m)
  BY DEF Candidates, LastKnownGood
<1> QED
  BY <1>1, MembersAssumption DEF Routable

----------------------------------------------------------------------------
(* The invariant.                                                          *)

\* A request arrives: no run has started.
LEMMA InitComboInv == Init => ComboInv
<1> SUFFICES ASSUME Init PROVE ComboInv
  OBVIOUS
<1> USE Constants DEF Init
<1>1. TypeOK
  <2>1. at \in 1..(N + 1) /\ index \in Members /\ used \in 0..Budget /\ waived \in 0..Budget
    OBVIOUS
  <2>2. phase \in Phases /\ answer \in Answers
    BY DEF Phases, Answers
  <2>3. pc \in [Members -> PCs] /\ result \in [Members -> Results]
    BY DEF PCs, Results
  <2>4. attempts \in [Members -> 0..Budget] /\ cap \in [Members -> 0..Budget]
    OBVIOUS
  <2>5. failCount \in [Members -> 0..Threshold]
    OBVIOUS
  <2> QED
    BY <2>1, <2>2, <2>3, <2>4, <2>5 DEF TypeOK
<1>2. LoopInv /\ RunInv
  BY DEF LoopInv, RunInv
<1>3. BlameInv
  BY DEF BlameInv, Blamed, StartCount, SlowIsNotDead
<1> QED
  BY <1>1, <1>2, <1>3 DEF ComboInv

\* The steps of the loop of handleComboChat.
LEMMA LoopKeepsInv ==
  ASSUME ComboInv, Loop \/ LoopTimeout \/ ClientGone
  PROVE  ComboInv'
<1> USE Constants
    DEF ComboInv, TypeOK, loopVars, budgetVars, runVars, signalVars, routingVars, historyVars
<1>1. CASE LoopTop
  <2>1. TypeOK'
    BY <1>1 DEF LoopTop, Advance, Answer, Phases, Answers, PCs, Results
  <2>2. LoopInv'
    BY <1>1 DEF LoopTop, Advance, Answer, LoopInv
  <2>3. RunInv'
    BY <1>1 DEF LoopTop, Advance, Answer, LoopInv, RunInv
  <2>4. BlameInv'
    BY <1>1 DEF LoopTop, Advance, Answer, LoopInv, RunInv, BlameInv, Blamed, StartCount, SlowIsNotDead
  <2> QED
    BY <2>1, <2>2, <2>3, <2>4
<1>2. CASE SkipUnavailable
  <2>1. TypeOK'
    BY <1>2 DEF SkipUnavailable, Advance, LoopInv, Phases, Answers, PCs, Results
  <2>2. LoopInv'
    BY <1>2 DEF SkipUnavailable, Advance, LoopInv
  <2>3. RunInv'
    BY <1>2 DEF SkipUnavailable, Advance, LoopInv, RunInv
  <2>4. BlameInv'
    BY <1>2 DEF SkipUnavailable, Advance, LoopInv, RunInv, BlameInv, Blamed, StartCount, SlowIsNotDead
  <2> QED
    BY <2>1, <2>2, <2>3, <2>4
<1>3. CASE StartMember
  <2>1. TypeOK'
    BY <1>3 DEF StartMember, Goto, LoopInv, Phases, Answers, PCs, Results
  <2>2. LoopInv'
    BY <1>3 DEF StartMember, Goto, LoopInv
  <2>3. RunInv'
    BY <1>3 DEF StartMember, Goto, LoopInv, RunInv
  <2>4. BlameInv'
    BY <1>3 DEF StartMember, Goto, LoopInv, RunInv, BlameInv, Blamed, StartCount, SlowIsNotDead
  <2> QED
    BY <2>1, <2>2, <2>3, <2>4
<1>4. CASE MemberReturns
  <2>1. TypeOK'
    BY <1>4 DEF MemberReturns, Advance, Answer, Penalise, LoopInv, Phases, Answers, PCs, Results
  <2>2. LoopInv'
    BY <1>4 DEF MemberReturns, Advance, Answer, Penalise, LoopInv
  <2>3. RunInv'
    BY <1>4 DEF MemberReturns, Advance, Answer, Penalise, LoopInv, RunInv
  <2>4. BlameInv'
    BY <1>4 DEF MemberReturns, Advance, Answer, Penalise, LoopInv, RunInv, BlameInv, Blamed, StartCount, SlowIsNotDead
  <2> QED
    BY <2>1, <2>2, <2>3, <2>4
<1>5. CASE LoopTimeout
  <2>1. TypeOK'
    BY <1>5 DEF LoopTimeout, Answer, Phases, Answers, PCs, Results
  <2>2. LoopInv'
    BY <1>5 DEF LoopTimeout, Answer, LoopInv
  <2>3. RunInv'
    BY <1>5 DEF LoopTimeout, Answer, LoopInv, RunInv
  <2>4. BlameInv'
    BY <1>5 DEF LoopTimeout, Answer, LoopInv, RunInv, BlameInv, Blamed, StartCount, SlowIsNotDead
  <2> QED
    BY <2>1, <2>2, <2>3, <2>4
<1>6. CASE AllFailed
  <2>1. TypeOK'
    BY <1>6 DEF AllFailed, Answer, Phases, Answers, PCs, Results
  <2>2. LoopInv'
    BY <1>6 DEF AllFailed, Answer, LoopInv
  <2>3. RunInv'
    BY <1>6 DEF AllFailed, Answer, LoopInv, RunInv
  <2>4. BlameInv'
    BY <1>6 DEF AllFailed, Answer, LoopInv, RunInv, BlameInv, Blamed, StartCount, SlowIsNotDead
  <2> QED
    BY <2>1, <2>2, <2>3, <2>4
<1>7. CASE ClientGone
  <2>1. TypeOK'
    BY <1>7 DEF ClientGone, Phases, Answers, PCs, Results
  <2>2. LoopInv'
    BY <1>7 DEF ClientGone, LoopInv
  <2>3. RunInv'
    BY <1>7 DEF ClientGone, LoopInv, RunInv
  <2>4. BlameInv'
    BY <1>7 DEF ClientGone, LoopInv, RunInv, BlameInv, Blamed, StartCount, SlowIsNotDead
  <2> QED
    BY <2>1, <2>2, <2>3, <2>4
<1> QED
  BY <1>1, <1>2, <1>3, <1>4, <1>5, <1>6, <1>7 DEF Loop

\* The steps of a member's run, and what may happen to it from outside.
LEMMA RunKeepsInv ==
  ASSUME ComboInv, NEW m \in Members, Own(m) \/ Upstream(m) \/ TargetTimeout(m) \/ LkgMoves(m)
  PROVE  ComboInv'
<1> USE Constants
    DEF ComboInv, TypeOK, loopVars, budgetVars, runVars, signalVars, routingVars, historyVars
<1>1. CASE Select(m)
  <2>1. PICK a \in Candidates(m) : Take(m, a)
    BY <1>1 DEF Select
  <2>2. a \in Accounts /\ Cap(m) \in 1..Budget
    BY CapBound, CandidatesRoutable
  <2>3. pc[m] = "select" /\ UNCHANGED <<loopVars, index, excluded, pinned, signalVars, routingVars>>
    BY <1>1 DEF Select
  <2>4. CASE used < Budget /\ Attempt(m, a)
    <3>1. TypeOK'
      BY <2>2, <2>3, <2>4 DEF Attempt, Goto, PCs, RunInv
    <3>2. LoopInv'
      BY <2>3, <2>4 DEF Attempt, Goto, LoopInv
    <3>3. RunInv'
      BY <2>2, <2>3, <2>4 DEF Attempt, Goto, RunInv
    <3>4. BlameInv'
      BY <2>3, <2>4 DEF Attempt, Goto, BlameInv, Blamed, StartCount, SlowIsNotDead
    <3> QED
      BY <3>1, <3>2, <3>3, <3>4
  <2>5. CASE /\ Return(m, "fail")
             /\ faulted' = faulted \cup {m}
             /\ UNCHANGED <<used, attempts, cap, exempt, current, late, waived>>
    <3>1. TypeOK'
      BY <2>3, <2>5 DEF Return, Goto, PCs, Results
    <3>2. LoopInv' /\ RunInv'
      BY <2>3, <2>5 DEF Return, Goto, LoopInv, RunInv
    <3>3. BlameInv'
      BY <2>3, <2>5 DEF Return, Goto, BlameInv, Blamed, StartCount, SlowIsNotDead
    <3> QED
      BY <3>1, <3>2, <3>3
  <2>6. CASE /\ attempts[m] >= Cap(m)
             /\ Return(m, "fail")
             /\ UNCHANGED <<used, attempts, cap, exempt, current, late, waived, faulted>>
    <3>1. TypeOK'
      BY <2>3, <2>6 DEF Return, Goto, PCs, Results
    <3>2. LoopInv' /\ RunInv'
      BY <2>3, <2>6 DEF Return, Goto, LoopInv, RunInv
    <3>3. attempts[m] > 0
      BY <2>2, <2>6
    <3>4. BlameInv'
      BY <2>3, <2>6, <3>3 DEF Return, Goto, BlameInv, Blamed, StartCount, SlowIsNotDead
    <3> QED
      BY <3>1, <3>2, <3>4
  <2> QED
    BY <2>1, <2>4, <2>5, <2>6 DEF Take
<1>2. CASE SelectNone(m)
  <2>1. TypeOK'
    BY <1>2 DEF SelectNone, Return, Goto, Phases, Answers, PCs, Results
  <2>2. LoopInv'
    BY <1>2 DEF SelectNone, Return, Goto, LoopInv
  <2>3. RunInv'
    BY <1>2 DEF SelectNone, Return, Goto, LoopInv, RunInv
  <2>4. BlameInv'
    BY <1>2 DEF SelectNone, Return, Goto, LoopInv, RunInv, BlameInv, Blamed, StartCount, SlowIsNotDead
  <2> QED
    BY <2>1, <2>2, <2>3, <2>4
<1>3. CASE AbortLands(m)
  <2>1. TypeOK'
    BY <1>3 DEF AbortLands, EndsWithoutFallback, Return, Goto, Phases, Answers, PCs, Results
  <2>2. LoopInv'
    BY <1>3 DEF AbortLands, EndsWithoutFallback, Return, Goto, LoopInv
  <2>3. RunInv'
    BY <1>3 DEF AbortLands, EndsWithoutFallback, Return, Goto, LoopInv, RunInv
  <2>4. BlameInv'
    BY <1>3 DEF AbortLands, EndsWithoutFallback, Return, Goto, LoopInv, RunInv, BlameInv, Blamed, StartCount, SlowIsNotDead
  <2> QED
    BY <2>1, <2>2, <2>3, <2>4
<1>4. CASE Refreshed(m)
  <2>1. TypeOK'
    BY <1>4 DEF Refreshed, Again, Blame, Return, Goto, Phases, Answers, PCs, Results
  <2>2. LoopInv'
    BY <1>4 DEF Refreshed, Again, Blame, Return, Goto, LoopInv
  <2>3. RunInv'
    BY <1>4 DEF Refreshed, Again, Blame, Return, Goto, LoopInv, RunInv
  <2>4. BlameInv'
    BY <1>4 DEF Refreshed, Again, Blame, Return, Goto, LoopInv, RunInv, BlameInv, Blamed, StartCount, SlowIsNotDead
  <2> QED
    BY <2>1, <2>2, <2>3, <2>4
<1>5. CASE Mark(m)
  <2>1. TypeOK'
    <3>1. current[m] \in Accounts
      BY <1>5 DEF Mark, RunInv
    <3>2. locked' \subseteq Members \X Accounts /\ lkg' \in [Members -> Accounts \cup {NoAccount}]
      <4>1. \A l \in Locks(m, current[m]) \cup {{<<m, b>> : b \in AccountsOf[m]}} :
              l \subseteq Members \X Accounts
        BY <3>1 DEF Locks
      <4> QED
        BY <1>5, <4>1 DEF Mark, MarkUnavailable
    <3>3. failCount' \in [Members -> 0..Threshold]
      BY <1>5 DEF Mark, Penalise
    <3>4. pc' \in [Members -> PCs] /\ result' \in [Members -> Results]
      BY <1>5 DEF Mark, Again, Return, Goto, PCs, Results
    <3>5. excluded' \in [Members -> SUBSET Accounts]
      BY <1>5, <3>1 DEF Mark
    <3> QED
      BY <1>5, <3>2, <3>3, <3>4, <3>5 DEF Mark
  <2>2. LoopInv'
    BY <1>5 DEF Mark, MarkUnavailable, Locks, Penalise, Again, Return, Goto, LoopInv
  <2>3. RunInv'
    BY <1>5 DEF Mark, MarkUnavailable, Locks, Penalise, Again, Return, Goto, LoopInv, RunInv
  <2>4. BlameInv'
    BY <1>5 DEF Mark, MarkUnavailable, Locks, Penalise, Again, Return, Goto, LoopInv, RunInv, BlameInv, Blamed, StartCount, SlowIsNotDead
  <2> QED
    BY <2>1, <2>2, <2>3, <2>4
<1>6. CASE Succeeds(m)
  <2>1. TypeOK'
    BY <1>6 DEF Succeeds, Return, Goto, Locks, Phases, Answers, PCs, Results
  <2>2. LoopInv'
    BY <1>6 DEF Succeeds, Return, Goto, Locks, LoopInv
  <2>3. RunInv'
    BY <1>6 DEF Succeeds, Return, Goto, Locks, LoopInv, RunInv
  <2>4. BlameInv'
    BY <1>6 DEF Succeeds, Return, Goto, Locks, LoopInv, RunInv, BlameInv, Blamed, StartCount, SlowIsNotDead
  <2> QED
    BY <2>1, <2>2, <2>3, <2>4
<1>7. CASE ClientError(m)
  <2>1. TypeOK'
    BY <1>7 DEF ClientError, EndsWithoutFallback, Return, Goto, Phases, Answers, PCs, Results
  <2>2. LoopInv'
    BY <1>7 DEF ClientError, EndsWithoutFallback, Return, Goto, LoopInv
  <2>3. RunInv'
    BY <1>7 DEF ClientError, EndsWithoutFallback, Return, Goto, LoopInv, RunInv
  <2>4. BlameInv'
    BY <1>7 DEF ClientError, EndsWithoutFallback, Return, Goto, LoopInv, RunInv, BlameInv, Blamed, StartCount, SlowIsNotDead
  <2> QED
    BY <2>1, <2>2, <2>3, <2>4
<1>8. CASE Fails(m)
  <2>1. TypeOK'
    BY <1>8 DEF Fails, Blame, Return, Goto, Phases, Answers, PCs, Results
  <2>2. LoopInv'
    BY <1>8 DEF Fails, Blame, Return, Goto, LoopInv
  <2>3. RunInv'
    BY <1>8 DEF Fails, Blame, Return, Goto, LoopInv, RunInv
  <2>4. BlameInv'
    BY <1>8 DEF Fails, Blame, Return, Goto, LoopInv, RunInv, BlameInv, Blamed, StartCount, SlowIsNotDead
  <2> QED
    BY <2>1, <2>2, <2>3, <2>4
<1>9. CASE Unauthorized(m)
  <2>1. TypeOK'
    BY <1>9 DEF Unauthorized, Goto, Phases, Answers, PCs, Results
  <2>2. LoopInv'
    BY <1>9 DEF Unauthorized, Goto, LoopInv
  <2>3. RunInv'
    BY <1>9 DEF Unauthorized, Goto, LoopInv, RunInv
  <2>4. BlameInv'
    BY <1>9 DEF Unauthorized, Goto, LoopInv, RunInv, BlameInv, Blamed, StartCount, SlowIsNotDead
  <2> QED
    BY <2>1, <2>2, <2>3, <2>4
<1>10. CASE TargetTimeout(m)
  <2>1. TypeOK'
    BY <1>10 DEF TargetTimeout, Advance, Running, Phases, Answers, PCs, Results
  <2>2. LoopInv'
    BY <1>10 DEF TargetTimeout, Advance, Running, LoopInv
  <2>3. RunInv'
    BY <1>10 DEF TargetTimeout, Advance, Running, LoopInv, RunInv
  <2>4. BlameInv'
    BY <1>10 DEF TargetTimeout, Advance, Running, LoopInv, RunInv, BlameInv, Blamed, StartCount, SlowIsNotDead
  <2> QED
    BY <2>1, <2>2, <2>3, <2>4
<1>11. CASE LkgMoves(m)
  <2>1. TypeOK'
    BY <1>11 DEF LkgMoves, Phases, Answers, PCs, Results
  <2>2. LoopInv'
    BY <1>11 DEF LkgMoves, LoopInv
  <2>3. RunInv'
    BY <1>11 DEF LkgMoves, LoopInv, RunInv
  <2>4. BlameInv'
    BY <1>11 DEF LkgMoves, LoopInv, RunInv, BlameInv, Blamed, StartCount, SlowIsNotDead
  <2> QED
    BY <2>1, <2>2, <2>3, <2>4
<1>12. CASE Throws(m)
  <2>1. TypeOK'
    BY <1>12 DEF Throws, Return, Goto, Phases, Answers, PCs, Results
  <2>2. LoopInv'
    BY <1>12 DEF Throws, Running, Return, Goto, LoopInv
  <2>3. RunInv'
    BY <1>12 DEF Throws, Return, Goto, LoopInv, RunInv
  <2>4. BlameInv'
    BY <1>12 DEF Throws, Return, Goto, LoopInv, RunInv, BlameInv, Blamed, StartCount, SlowIsNotDead
  <2> QED
    BY <2>1, <2>2, <2>3, <2>4
<1> QED
  BY <1>1, <1>2, <1>3, <1>4, <1>5, <1>6, <1>7, <1>8, <1>9, <1>10, <1>11, <1>12 DEF Own, Upstream

\* Doing nothing keeps the invariant.
LEMMA StutterKeepsInv ==
  ASSUME ComboInv, UNCHANGED vars
  PROVE  ComboInv'
BY DEF ComboInv, TypeOK, LoopInv, RunInv, BlameInv, Blamed, StartCount, SlowIsNotDead,
       vars, loopVars, budgetVars, runVars, signalVars, routingVars, historyVars

\* The invariant of one request holds in every state it reaches.
THEOREM ComboInvariant == Spec => []ComboInv
<1>1. ASSUME ComboInv, [Next]_vars PROVE ComboInv'
  BY <1>1, LoopKeepsInv, RunKeepsInv, StutterKeepsInv DEF Next
<1> QED
  BY InitComboInv, <1>1, PTL DEF Spec

\* Type correctness: in particular the attempts of all runs together stay within
\* the rotation budget (errorConfig.js:45-48).
THEOREM TypeCorrect == Spec => []TypeOK
<1>1. ComboInv => TypeOK
  BY DEF ComboInv
<1> QED
  BY <1>1, ComboInvariant, PTL

\* A member whose run got no error keeps its fail counter, whatever its
\* timeouts and those of the loop did (combo.js:376-392).
THEOREM SlownessNotPenalised == Spec => []SlowIsNotDead
<1>1. ComboInv => SlowIsNotDead
  BY DEF ComboInv, BlameInv
<1> QED
  BY <1>1, ComboInvariant, PTL

\* A run goes upstream from the selection only with an account that has not
\* failed it, whatever pin or last-known-good account it meets (auth.js:616-640).
THEOREM NoAccountTwice == Spec => ExcludedStaysOut
<1> DEFINE Fresh ==
      \A m \in Members : pc[m] = "select" /\ pc'[m] = "upstream" => current'[m] \notin excluded[m]
<1>1. ASSUME ComboInv, [Next]_vars PROVE Fresh
  <2> SUFFICES ASSUME NEW m \in Members, pc[m] = "select", pc'[m] = "upstream"
               PROVE  current'[m] \notin excluded[m]
    OBVIOUS
  <2>1. pc \in [Members -> PCs] /\ current \in [Members -> Accounts \cup {NoAccount}]
        /\ at \in 1..(N + 1) /\ (phase \in {"available", "wait"} => at <= N)
    BY <1>1 DEF ComboInv, TypeOK, LoopInv
  <2>2. Select(m)
    <3>1. ~UNCHANGED vars
      BY DEF vars, runVars
    <3>2. ~(Loop \/ LoopTimeout \/ ClientGone)
      BY <2>1, Constants DEF Loop, LoopTop, SkipUnavailable, StartMember, MemberReturns, AllFailed,
         LoopTimeout, ClientGone, Goto, runVars
    <3>3. PICK n \in Members : Own(n) \/ Upstream(n) \/ TargetTimeout(n) \/ LkgMoves(n)
      BY <1>1, <3>1, <3>2 DEF Next
    <3>4. ~(TargetTimeout(n) \/ LkgMoves(n) \/ Upstream(n))
      BY <2>1, <3>3 DEF TargetTimeout, LkgMoves, Upstream, Succeeds, ClientError, Fails, Unauthorized,
         Throws, EndsWithoutFallback, Blame, Return, Goto, runVars
    <3>5. ~(SelectNone(n) \/ AbortLands(n) \/ Refreshed(n) \/ Mark(n))
      BY <2>1, <3>3 DEF SelectNone, AbortLands, Refreshed, Mark, EndsWithoutFallback, Again, Blame,
         Return, Goto
    <3>6. Select(n)
      BY <3>3, <3>4, <3>5 DEF Own
    <3>7. pc' = pc \/ \E s \in PCs : pc' = [pc EXCEPT ![n] = s]
      BY <3>6 DEF Select, Take, Attempt, Return, Goto, PCs
    <3> QED
      BY <2>1, <3>6, <3>7
  <2>3. PICK a \in Candidates(m) : Take(m, a)
    BY <2>2 DEF Select
  <2>4. current' = [current EXCEPT ![m] = a]
    BY <2>1, <2>3 DEF Take, Attempt, Return, Goto
  <2> QED
    BY <2>1, <2>3, <2>4, CandidatesRoutable
<1>2. ComboInv /\ [Next]_vars => [Fresh]_vars
  BY <1>1
<1> QED
  BY ComboInvariant, <1>2, PTL DEF Spec, ExcludedStaysOut

----------------------------------------------------------------------------
(* The tail of the combo keeps its share: TailHasShare.                    *)

\* What a run still has of its share; a run that has not asked yet is owed one
\* attempt.  An exempted attempt uses the share up as well.
Spent(m) == IF attempts[m] < cap[m] THEN attempts[m] ELSE cap[m]
Owed(m) == IF cap[m] = 0 THEN 1 ELSE cap[m] - Spent(m)

\* A run that has not started has no share, and the loop has not gone back.
PlaceInv ==
  /\ \A m \in Members : pc[m] = "idle" => cap[m] = 0
  /\ \A m \in Members : pc[m] # "idle" => m <= index
  /\ index <= at

\* Until a run is overtaken the members run one after the other, and the budget
\* holds the share of the one that runs and an attempt for each one after it.
SeqInv ==
  settled = {} =>
    /\ late = {}
    /\ \A m \in Members : Running(m) => m = at /\ index = m /\ phase \in {"wait", "done"}
    /\ N <= Budget =>
         /\ phase \in {"top", "available"} /\ at <= N => used - waived + (N + 1 - at) <= Budget
         /\ phase = "wait" => used - waived + Owed(at) + (N - at) <= Budget

\* Account a is tried by the run of member m, which budget and share allow.
Tries(m, a) ==
  /\ pc[m] = "select" /\ used < Budget
  /\ exempt[m] \/ attempts[m] < Cap(m)
  /\ Attempt(m, a)

SharesKept == UNCHANGED <<used, attempts, cap, late, waived>>

\* A run stays where the loop has put it, and only an attempt touches the shares.
LEMMA RunSteps ==
  ASSUME ComboInv, NEW m \in Members, Own(m) \/ Upstream(m) \/ LkgMoves(m)
  PROVE  /\ UNCHANGED <<at, phase, index, settled>>
         /\ \A n \in Members : (pc'[n] = "idle" <=> pc[n] = "idle") /\ (Running(n)' => Running(n))
         /\ SharesKept \/ \E a \in Candidates(m) : Tries(m, a)
<1> USE DEF SharesKept, loopVars, budgetVars, runVars, signalVars, routingVars, historyVars
<1>0. pc \in [Members -> PCs]
  BY DEF ComboInv, TypeOK
<1>1. CASE Select(m)
  <2>1. PICK a \in Candidates(m) : Take(m, a)
    BY <1>1 DEF Select
  <2>2. pc[m] = "select" /\ UNCHANGED <<at, phase, index, settled>>
    BY <1>1 DEF Select
  <2>3. Tries(m, a) \/ (SharesKept /\ Return(m, "fail"))
    BY <2>1, <2>2, CapBound, LimitsAssumption DEF Take, Tries, ComboInv, TypeOK
  <2>4. \E s \in {"upstream", "returned"} : pc' = [pc EXCEPT ![m] = s]
    BY <2>3 DEF Tries, Attempt, Return, Goto
  <2>5. \A n \in Members : (pc'[n] = "idle" <=> pc[n] = "idle") /\ (Running(n)' => Running(n))
    BY <1>0, <2>2, <2>4 DEF Running
  <2> QED
    BY <2>2, <2>3, <2>5
<1>2. CASE SelectNone(m)
  BY <1>0, <1>2 DEF SelectNone, Return, Goto, Running
<1>3. CASE AbortLands(m) \/ ClientError(m)
  BY <1>0, <1>3 DEF AbortLands, ClientError, EndsWithoutFallback, Return, Goto, Running
<1>4. CASE Refreshed(m)
  BY <1>0, <1>4 DEF Refreshed, Again, Blame, Return, Goto, Running
<1>5. CASE Mark(m)
  BY <1>0, <1>5 DEF Mark, Again, Return, Goto, Running
<1>6. CASE Succeeds(m)
  BY <1>0, <1>6 DEF Succeeds, Return, Goto, Running
<1>7. CASE Fails(m) \/ Unauthorized(m)
  BY <1>0, <1>7 DEF Fails, Unauthorized, Blame, Return, Goto, Running
<1>8. CASE LkgMoves(m)
  BY <1>0, <1>8 DEF LkgMoves, Running
<1>9. CASE Throws(m)
  BY <1>0, <1>9 DEF Throws, Return, Goto, Running
<1> QED
  BY <1>1, <1>2, <1>3, <1>4, <1>5, <1>6, <1>7, <1>8, <1>9 DEF Own, Upstream

\* The steps of the loop, the timeouts and the client touch no share.
LEMMA LoopKeepsShares ==
  ASSUME \/ Loop \/ LoopTimeout \/ ClientGone
         \/ \E m \in Members : TargetTimeout(m)
         \/ UNCHANGED vars
  PROVE  SharesKept
BY DEF SharesKept, Loop, LoopTop, SkipUnavailable, StartMember, MemberReturns, LoopTimeout, AllFailed,
       ClientGone, TargetTimeout, vars, loopVars, budgetVars, runVars, signalVars, routingVars,
       historyVars

\* What an attempt does to the counters.
LEMMA AttemptFacts ==
  ASSUME ComboInv, NEW m \in Members, NEW a \in Candidates(m), Tries(m, a)
  PROVE  /\ used' = used + 1
         /\ attempts' = [attempts EXCEPT ![m] = attempts[m] + 1]
         /\ cap' = [cap EXCEPT ![m] = IF exempt[m] THEN cap[m] ELSE Cap(m)]
         /\ late' = IF ~exempt[m] /\ cap[m] = 0 /\ index # m THEN late \cup {m} ELSE late
         /\ waived' = IF exempt[m] \/ m \in late' THEN waived + 1 ELSE waived
         /\ pc[m] = "select" /\ pc'[m] # "idle"
BY DEF Tries, Attempt, Goto, ComboInv, TypeOK, PCs

LEMMA PlaceKept ==
  ASSUME ComboInv, PlaceInv, [Next]_vars
  PROVE  PlaceInv'
<1> USE DEF PlaceInv
<1>0. /\ at \in 1..(N + 1) /\ index \in Members /\ pc \in [Members -> PCs]
      /\ cap \in [Members -> 0..Budget] /\ N \in Nat
      /\ \A m \in Members : m \in 1..N
      /\ \A m \in 1..N : m \in Members
      /\ \A m \in Members : m > at => pc[m] = "idle"
      /\ phase \in {"available", "wait"} => at <= N
  BY Constants DEF ComboInv, TypeOK, LoopInv
<1>1. CASE StartMember
  BY <1>0, <1>1 DEF StartMember, Goto
<1>2. CASE \/ LoopTop \/ SkipUnavailable \/ MemberReturns \/ AllFailed
           \/ LoopTimeout \/ ClientGone \/ UNCHANGED vars
           \/ \E m \in Members : TargetTimeout(m)
  <2>1. UNCHANGED <<pc, cap, index>> /\ (at' = at \/ at' = at + 1)
    BY <1>2 DEF LoopTop, SkipUnavailable, MemberReturns, AllFailed, LoopTimeout, ClientGone,
       TargetTimeout, Advance, Answer, vars, loopVars, budgetVars, runVars
  <2> QED
    BY <1>0, <2>1
<1>3. ASSUME NEW m \in Members, Own(m) \/ Upstream(m) \/ LkgMoves(m)
      PROVE  PlaceInv'
  <2>1. /\ UNCHANGED <<at, index>>
        /\ \A n \in Members : pc'[n] = "idle" <=> pc[n] = "idle"
    BY <1>3, RunSteps
  <2>2. CASE SharesKept
    BY <2>1, <2>2 DEF SharesKept
  <2>3. CASE \E a \in Candidates(m) : Tries(m, a)
    <3>1. pc'[m] # "idle" /\ \A n \in Members \ {m} : cap'[n] = cap[n]
      BY <1>0, <2>3, AttemptFacts
    <3> QED
      BY <2>1, <3>1
  <2> QED
    BY <1>3, <2>2, <2>3, RunSteps
<1> QED
  BY <1>1, <1>2, <1>3 DEF Next, Loop

----------------------------------------------------------------------------
(* Until a run is overtaken: any number of members, any budget.            *)

\* A share of what is left, and an attempt for each of the n - 1 members after
\* it, fit in the budget b when an attempt for each of the n did; u of the spent
\* attempts are charged to the shares.
LEMMA ShareFits ==
  ASSUME NEW b \in Nat, NEW spent \in 0..b, NEW u \in Int, u <= spent,
         NEW n \in Nat \ {0}, u + n <= b,
         NEW x, x = IF (b - spent) \div n < 1 THEN 1 ELSE (b - spent) \div n
  PROVE  /\ x \in Nat /\ x >= 1 /\ u + x + (n - 1) <= b
         /\ x > 1 => n * x <= b - spent
<1> DEFINE q == (b - spent) \div n
<1>1. q \in Int /\ n * q <= b - spent
  OBVIOUS
<1> HIDE DEF q
<1>2. CASE q < 1
  BY <1>2 DEF q
<1>3. CASE q >= 1
  <2>1. (n - 1) * (q - 1) >= 0
    <3>1. n - 1 \in Nat /\ q - 1 \in Nat
      BY <1>1, <1>3
    <3>2. \A i, j \in Nat : i * j >= 0
      OBVIOUS
    <3> QED
      BY <3>1, <3>2
  <2>2. (n - 1) * (q - 1) = n * q - n - q + 1
    BY <1>1
  <2>3. q + n - 1 <= n * q
    BY <1>1, <2>1, <2>2
  <2>4. x = q
    BY <1>3 DEF q
  <2> QED
    BY <1>1, <1>3, <2>3, <2>4
<1> QED
  BY <1>1, <1>2, <1>3

\* The share of a member that asks in its turn.
LEMMA CapInTurn ==
  ASSUME ComboInv, NEW m \in Members, cap[m] = 0, index = m
  PROVE  /\ Budget - used \in Nat /\ N + 1 - m \in Nat \ {0}
         /\ Cap(m) = IF (Budget - used) \div (N + 1 - m) < 1 THEN 1
                     ELSE (Budget - used) \div (N + 1 - m)
<1>1. m \in 1..N /\ N \in Nat /\ Budget \in Nat /\ used \in 0..Budget
  BY Constants DEF ComboInv, TypeOK
<1>2. ~(m > N) /\ N - (m - 1) = N + 1 - m
  BY <1>1
<1> QED
  BY <1>1, <1>2 DEF Cap

LEMMA InitSeqInv == Init => PlaceInv /\ SeqInv
BY Constants DEF Init, PlaceInv, SeqInv, Running

LEMMA SeqKept ==
  ASSUME ComboInv, PlaceInv, SeqInv, [Next]_vars
  PROVE  SeqInv'
<1> SUFFICES ASSUME settled' = {} PROVE SeqInv'
  BY DEF SeqInv
<1>0. /\ at \in 1..(N + 1) /\ phase \in Phases /\ index \in Members /\ pc \in [Members -> PCs]
      /\ used \in 0..Budget /\ waived \in 0..Budget /\ waived <= used
      /\ attempts \in [Members -> 0..Budget] /\ cap \in [Members -> 0..Budget]
      /\ N \in Nat \ {0} /\ Budget \in Nat \ {0}
      /\ \A m \in Members : m \in 1..N
      /\ \A m \in 1..N : m \in Members
      /\ phase \in {"available", "wait"} => at <= N
      /\ phase = "available" => pc[at] = "idle"
  BY Constants DEF ComboInv, TypeOK, LoopInv, RunInv
<1>1. \A i \in Members : Owed(i) \in Nat
  BY <1>0 DEF Owed, Spent
<1>2. ~\E m \in Members : TargetTimeout(m)
  BY DEF TargetTimeout
<1>3. CASE LoopTop \/ SkipUnavailable \/ AllFailed
  <2>1. /\ settled = {} /\ SharesKept /\ UNCHANGED pc
        /\ phase \in {"top", "available"} /\ phase' \in {"top", "available", "done"}
        /\ at' = at \/ at' = at + 1
    BY <1>3, LoopKeepsShares DEF Loop, LoopTop, SkipUnavailable, AllFailed, Advance, Answer,
       runVars, signalVars
  <2> QED
    BY <1>0, <2>1 DEF SeqInv, SharesKept, Running
<1>4. CASE StartMember
  <2>1. /\ settled = {} /\ SharesKept /\ at' = at /\ index' = at /\ phase' = "wait"
        /\ phase = "available" /\ pc' = [pc EXCEPT ![at] = "select"]
    BY <1>4, LoopKeepsShares DEF Loop, StartMember, Goto
  <2>2. at \in Members /\ cap[at] = 0
    BY <1>0, <2>1 DEF PlaceInv
  <2>3. Owed(at)' = 1
    BY <2>1, <2>2 DEF Owed, SharesKept
  <2>4. \A m \in Members : Running(m)' => m = at
    BY <1>0, <2>1 DEF SeqInv, Running
  <2> QED
    BY <1>0, <2>1, <2>3, <2>4 DEF SeqInv, SharesKept
<1>5. CASE MemberReturns
  <2>1. /\ settled = {} /\ SharesKept /\ UNCHANGED <<pc, index>>
        /\ phase = "wait" /\ pc[at] = "returned"
        /\ (phase' = "top" /\ at' = at + 1) \/ (phase' = "done" /\ at' = at)
    BY <1>5, LoopKeepsShares DEF Loop, MemberReturns, Advance, Answer, runVars, signalVars, budgetVars
  <2>2. \A m \in Members : ~Running(m)
    BY <1>0, <2>1 DEF SeqInv, Running
  <2>3. \A m \in Members : ~Running(m)'
    BY <2>1, <2>2 DEF Running
  <2>4. at \in Members /\ Owed(at) \in Nat
    BY <1>0, <1>1, <2>1
  <2>5. late' = {}
    BY <2>1 DEF SeqInv, SharesKept
  <2>6. ASSUME N <= Budget, phase' = "top", at' <= N
        PROVE  used' - waived' + (N + 1 - at') <= Budget
    <3>1. used - waived + Owed(at) + (N - at) <= Budget
      BY <2>1, <2>6 DEF SeqInv
    <3> QED
      BY <1>0, <2>1, <2>4, <2>6, <3>1 DEF SharesKept
  <2> QED
    BY <2>1, <2>3, <2>5, <2>6 DEF SeqInv
<1>6. CASE LoopTimeout
  <2>1. /\ settled = {} /\ SharesKept /\ UNCHANGED <<pc, index, at>> /\ phase' = "done"
    BY <1>6, LoopKeepsShares DEF LoopTimeout, Answer, runVars, signalVars, budgetVars
  <2> QED
    BY <2>1 DEF SeqInv, SharesKept, Running
<1>7. CASE ClientGone \/ UNCHANGED vars
  <2>1. SharesKept /\ UNCHANGED <<settled, pc, index, at, phase>>
    BY <1>7, LoopKeepsShares DEF ClientGone, vars, loopVars, runVars, signalVars, budgetVars
  <2> QED
    BY <2>1 DEF SeqInv, SharesKept, Running, Owed, Spent
<1>8. ASSUME NEW m \in Members, Own(m) \/ Upstream(m) \/ LkgMoves(m)
      PROVE  SeqInv'
  <2>1. /\ UNCHANGED <<at, phase, index, settled>>
        /\ \A n \in Members : Running(n)' => Running(n)
    BY <1>8, RunSteps
  <2>2. CASE SharesKept
    <3>1. Owed(at)' = Owed(at)
      BY <2>1, <2>2 DEF SharesKept, Owed, Spent
    <3> QED
      BY <2>1, <2>2, <3>1 DEF SeqInv, SharesKept
  <2>3. CASE \E a \in Candidates(m) : Tries(m, a)
    <3>1. PICK a \in Candidates(m) : Tries(m, a)
      BY <2>3
    <3>2. /\ used' = used + 1
          /\ attempts' = [attempts EXCEPT ![m] = attempts[m] + 1]
          /\ cap' = [cap EXCEPT ![m] = IF exempt[m] THEN cap[m] ELSE Cap(m)]
          /\ late' = IF ~exempt[m] /\ cap[m] = 0 /\ index # m THEN late \cup {m} ELSE late
          /\ waived' = IF exempt[m] \/ m \in late' THEN waived + 1 ELSE waived
          /\ pc[m] = "select"
      BY <3>1, AttemptFacts
    <3>3. settled = {} /\ late = {} /\ m = at /\ index = m /\ phase \in {"wait", "done"}
      BY <2>1, <3>2 DEF SeqInv, Running
    <3>4. late' = {}
      BY <3>2, <3>3
    <3>5. ASSUME N <= Budget, phase = "wait"
          PROVE  used' - waived' + Owed(at)' + (N - at) <= Budget
      <4>1. used - waived + Owed(at) + (N - at) <= Budget
        BY <3>3, <3>5 DEF SeqInv
      <4>2. /\ attempts[at] \in Nat /\ cap[at] \in Nat /\ Cap(at) \in Nat
            /\ attempts'[at] = attempts[at] + 1
            /\ cap'[at] = IF exempt[at] THEN cap[at] ELSE Cap(at)
        BY <1>0, <3>2, <3>3, CapBound DEF ComboInv
      <4>3. Owed(at)' = IF cap'[at] = 0 THEN 1
                        ELSE cap'[at] - (IF attempts'[at] < cap'[at] THEN attempts'[at] ELSE cap'[at])
        BY <2>1 DEF Owed, Spent
      <4>4. CASE exempt[at]
        <5>1. used' - waived' = used - waived
          BY <1>0, <3>2, <3>3, <4>4
        <5>2. Owed(at)' <= Owed(at) /\ Owed(at)' \in Int /\ Owed(at) \in Int
          BY <4>2, <4>3, <4>4 DEF Owed, Spent
        <5> QED
          BY <1>0, <4>1, <5>1, <5>2
      <4>5. CASE ~exempt[at]
        <5>1. used' - waived' = used - waived + 1 /\ attempts[at] < Cap(at)
          BY <1>0, <3>1, <3>2, <3>3, <3>4, <4>5 DEF Tries
        <5>2. CASE cap[at] # 0
          <6>1. Cap(at) = cap[at]
            BY <5>2 DEF Cap
          <6>2. Owed(at)' = Owed(at) - 1 /\ Owed(at) \in Int
            BY <4>2, <4>3, <4>5, <5>1, <5>2, <6>1 DEF Owed, Spent
          <6> QED
            BY <1>0, <4>1, <5>1, <6>2
        <5>3. CASE cap[at] = 0
          <6>1. Owed(at) = 1
            BY <5>3 DEF Owed
          <6>2. Owed(at)' = Cap(at) - (attempts[at] + 1)
            BY <4>2, <4>3, <4>5, <5>1
          <6>3. used - waived \in Int /\ used - waived <= used
                /\ used - waived + (N + 1 - at) <= Budget
            BY <1>0, <4>1, <6>1
          <6>4. /\ N + 1 - at \in Nat \ {0}
                /\ Cap(at) = IF (Budget - used) \div (N + 1 - at) < 1 THEN 1
                             ELSE (Budget - used) \div (N + 1 - at)
            BY <3>3, <5>3, CapInTurn
          <6>5. used - waived + Cap(at) + ((N + 1 - at) - 1) <= Budget
            <7> DEFINE n == N + 1 - at
                       u == used - waived
                       x == Cap(at)
            <7>1. /\ Budget \in Nat /\ used \in 0..Budget /\ u \in Int /\ u <= used
                  /\ n \in Nat \ {0} /\ u + n <= Budget
                  /\ x = IF (Budget - used) \div n < 1 THEN 1 ELSE (Budget - used) \div n
              BY <1>0, <6>3, <6>4
            <7> HIDE DEF n, u, x
            <7>2. u + x + (n - 1) <= Budget
              BY <7>1, ShareFits
            <7> QED
              BY <7>2, Zenon DEF n, u, x
          <6> QED
            BY <1>0, <4>2, <5>1, <6>2, <6>5
        <5> QED
          BY <5>2, <5>3
      <4> QED
        BY <4>4, <4>5
    <3>6. \A n \in Members : Running(n)' => n = at' /\ index' = n /\ phase' \in {"wait", "done"}
      BY <2>1, <3>3 DEF SeqInv
    <3> QED
      BY <2>1, <3>3, <3>4, <3>5, <3>6 DEF SeqInv
  <2> QED
    BY <1>8, <2>2, <2>3, RunSteps
<1> QED
  BY <1>2, <1>3, <1>4, <1>5, <1>6, <1>7, <1>8 DEF Next, Loop

\* chat.js:579-582: as long as no member has exceeded its time, the budget holds
\* an attempt for the member the loop reaches and for each one after it, however
\* many members the combo has and whatever the budget is.
THEOREM TailShareUntilOvertaken == Spec => [](settled = {} => TailHasShare)
<1>1. ComboInv /\ PlaceInv /\ SeqInv /\ [Next]_vars => PlaceInv' /\ SeqInv'
  BY PlaceKept, SeqKept
<1>2. SeqInv => (settled = {} => TailHasShare)
  BY DEF SeqInv, TailHasShare
<1> QED
  BY InitSeqInv, ComboInvariant, <1>1, <1>2, PTL DEF Spec

----------------------------------------------------------------------------
(* Overtaken runs too: the code's budget of five attempts.                 *)

\* The attempts charged to the shares, one by one: unit k of member m is spent
\* once m has made k attempts and its share holds k.  The run of a late member
\* has no unit, its attempts are waived.
Units(l, t, c) ==
  {x \in Members \X (1..Budget) : x[1] \notin l /\ x[2] <= t[x[1]] /\ x[2] <= c[x[1]]}

Sharers(l, c) == {m \in Members : m \notin l /\ c[m] # 0}

Before(l, c, m) == {k \in Sharers(l, c) : k < m}

\* With at most five attempts only the last member but one and the last can have a
\* share of two or more, the first of them only if those before it have left it.
FiveInv ==
  N <= Budget =>
    /\ used - waived <= Cardinality(Units(late, attempts, cap))
    /\ Cardinality(Sharers(late, cap)) <= used
    /\ \A m \in Sharers(late, cap) :
         /\ m + 1 < N => cap[m] = 1
         /\ m + 1 = N /\ cap[m] > 1 => Cardinality(Before(late, cap, m)) + cap[m] < Budget

LEMMA IntervalSize ==
  ASSUME NEW i \in Int, NEW j \in Int, i <= j + 1
  PROVE  IsFiniteSet(i..j) /\ Cardinality(i..j) = j - i + 1
<1>1. i > j => j - i + 1 = 0
  OBVIOUS
<1> QED
  BY <1>1, FS_Interval

LEMMA ProductSize ==
  ASSUME NEW A, NEW B, IsFiniteSet(A), IsFiniteSet(B),
         NEW p, NEW q, Cardinality(A) = p, Cardinality(B) = q
  PROVE  IsFiniteSet(A \X B) /\ Cardinality(A \X B) = p * q
BY FS_Product

LEMMA UnitsFinite ==
  ASSUME NEW l, NEW t, NEW c
  PROVE  IsFiniteSet(Units(l, t, c)) /\ Cardinality(Units(l, t, c)) \in Nat
<1>1. IsFiniteSet(Members) /\ IsFiniteSet(1..Budget)
  BY FS_Interval, Constants DEF Members
<1>2. IsFiniteSet(Members \X (1..Budget))
  BY <1>1, FS_Product
<1>3. Units(l, t, c) \in SUBSET (Members \X (1..Budget))
  BY DEF Units
<1>4. IsFiniteSet(Units(l, t, c))
  BY <1>2, <1>3, FS_Subset
<1> QED
  BY <1>4, FS_CardinalityType

LEMMA SharersFinite ==
  ASSUME NEW l, NEW c
  PROVE  /\ IsFiniteSet(Sharers(l, c)) /\ Cardinality(Sharers(l, c)) \in Nat
         /\ \A m \in Members : /\ IsFiniteSet(Before(l, c, m))
                               /\ Cardinality(Before(l, c, m)) \in Nat
                               /\ Cardinality(Before(l, c, m)) <= Cardinality(Sharers(l, c))
<1>1. IsFiniteSet(Members)
  BY FS_Interval, Constants DEF Members
<1>2. Sharers(l, c) \in SUBSET Members
  BY DEF Sharers
<1>3. IsFiniteSet(Sharers(l, c))
  BY <1>1, <1>2, FS_Subset
<1>4. \A m \in Members : Before(l, c, m) \in SUBSET Sharers(l, c)
  BY DEF Before
<1>5. \A m \in Members : IsFiniteSet(Before(l, c, m))
                         /\ Cardinality(Before(l, c, m)) <= Cardinality(Sharers(l, c))
  BY <1>3, <1>4, FS_Subset
<1> QED
  BY <1>3, <1>5, FS_CardinalityType

\* An attempt within a share is a unit more.
LEMMA UnitsAdd ==
  ASSUME NEW l, NEW t, NEW c, NEW t2, NEW c2,
         Units(l, t, c) \in SUBSET Units(l, t2, c2),
         NEW m \in Members, m \notin l, t[m] \in Nat,
         t2[m] = t[m] + 1, c2[m] \in Nat, t2[m] <= c2[m], c2[m] <= Budget
  PROVE  Cardinality(Units(l, t, c)) + 1 <= Cardinality(Units(l, t2, c2))
<1> DEFINE u == <<m, t2[m]>>
<1>1. t2[m] \in Nat /\ t2[m] \in 1..Budget
  BY Constants
<1>2. u \in Units(l, t2, c2) /\ u \notin Units(l, t, c)
  BY <1>1 DEF Units
<1>3. (Units(l, t, c) \cup {u}) \in SUBSET Units(l, t2, c2)
  BY <1>2
<1> HIDE DEF u
<1>4. Cardinality(Units(l, t, c) \cup {u}) = Cardinality(Units(l, t, c)) + 1
  BY <1>2, UnitsFinite, FS_AddElement
<1>5. Cardinality(Units(l, t, c) \cup {u}) <= Cardinality(Units(l, t2, c2))
  BY <1>3, UnitsFinite, FS_Subset
<1> QED
  BY <1>4, <1>5

LEMMA InitFiveInv == Init => FiveInv
<1> SUFFICES ASSUME Init PROVE FiveInv
  OBVIOUS
<1>1. Sharers(late, cap) = {}
  BY DEF Init, Sharers
<1>2. Cardinality(Sharers(late, cap)) = 0
  BY <1>1, FS_EmptySet
<1>3. used = 0 /\ waived = 0
  BY DEF Init
<1>4. used - waived <= Cardinality(Units(late, attempts, cap))
  BY <1>3, UnitsFinite
<1> QED
  BY <1>1, <1>2, <1>3, <1>4 DEF FiveInv

\* What a member that asks in its turn gets of a budget of five.
LEMMA CapOfFive ==
  ASSUME ComboInv, Budget <= 5, NEW m \in Members, cap[m] = 0, index = m
  PROVE  /\ Cap(m) \in 1..Budget
         /\ m + 1 < N => Cap(m) = 1
         /\ m + 1 = N /\ Cap(m) > 1 => used + Cap(m) < Budget
<1> DEFINE n == N + 1 - m
           x == Cap(m)
           q == (Budget - used) \div n
<1>1. /\ Budget \in Nat /\ used \in 0..Budget /\ n \in Nat \ {0} /\ m \in 1..N /\ N \in Nat
      /\ x = IF q < 1 THEN 1 ELSE q
  BY Constants, CapInTurn DEF ComboInv, TypeOK
<1>2. Cap(m) \in 1..Budget
  BY CapBound DEF ComboInv
<1>3. q \in Int /\ n * q <= Budget - used
  BY <1>1
<1> HIDE DEF x, q
<1>4. ASSUME m + 1 < N PROVE x = 1
  <2>1. n >= 3
    BY <1>1, <1>4
  <2>2. ASSUME q >= 2 PROVE FALSE
    <3>1. n * q >= 3 * 2
      <4>1. \A i, j \in Nat : i >= 3 /\ j >= 2 => i * j >= 3 * 2
        <5> SUFFICES ASSUME NEW i \in Nat, NEW j \in Nat, i >= 3, j >= 2 PROVE i * j >= 6
          OBVIOUS
        <5>1. (i - 3) * (j - 2) >= 0
          <6>1. i - 3 \in Nat /\ j - 2 \in Nat
            OBVIOUS
          <6>2. \A k, l \in Nat : k * l >= 0
            OBVIOUS
          <6> QED
            BY <6>1, <6>2
        <5>2. (i - 3) * (j - 2) = i * j - 2 * i - 3 * j + 6
          OBVIOUS
        <5> QED
          BY <5>1, <5>2
      <4> HIDE DEF n
      <4> QED
        BY <1>1, <1>3, <2>1, <2>2, <4>1
    <3> HIDE DEF n
    <3> QED
      BY <1>1, <1>3, <3>1
  <2> QED
    BY <1>1, <1>3, <2>2
<1>5. ASSUME m + 1 = N, x > 1 PROVE used + x < Budget
  <2>1. n = 2 /\ q >= 2 /\ x = q
    BY <1>1, <1>3, <1>5
  <2>2. 2 * q <= Budget - used
    BY <1>3, <2>1
  <2> QED
    BY <1>1, <1>3, <2>1, <2>2
<1> QED
  BY <1>2, <1>4, <1>5 DEF x

LEMMA AttemptKeepsFive ==
  ASSUME ComboInv, PlaceInv, FiveInv, Budget <= 5, N <= Budget,
         NEW m \in Members, NEW a \in Candidates(m), Tries(m, a)
  PROVE  FiveInv'
<1>1. /\ used' = used + 1
      /\ attempts' = [attempts EXCEPT ![m] = attempts[m] + 1]
      /\ cap' = [cap EXCEPT ![m] = IF exempt[m] THEN cap[m] ELSE Cap(m)]
      /\ late' = IF ~exempt[m] /\ cap[m] = 0 /\ index # m THEN late \cup {m} ELSE late
      /\ waived' = IF exempt[m] \/ m \in late' THEN waived + 1 ELSE waived
  BY AttemptFacts
<1>2. /\ used \in 0..Budget /\ waived \in 0..Budget /\ late \subseteq Members /\ index \in Members
      /\ attempts \in [Members -> 0..Budget] /\ cap \in [Members -> 0..Budget]
      /\ N \in Nat \ {0} /\ Budget \in Nat \ {0} /\ \A k \in Members : k \in 1..N
  BY Constants DEF ComboInv, TypeOK
<1>3. Cap(m) \in 1..Budget /\ (exempt[m] \/ attempts[m] < Cap(m))
  BY CapBound DEF ComboInv, Tries
<1>4. /\ used - waived <= Cardinality(Units(late, attempts, cap))
      /\ Cardinality(Sharers(late, cap)) <= used
      /\ \A k \in Sharers(late, cap) :
           /\ k + 1 < N => cap[k] = 1
           /\ k + 1 = N /\ cap[k] > 1 => Cardinality(Before(late, cap, k)) + cap[k] < Budget
  BY DEF FiveInv
<1>5. \A k \in Members : k # m => cap'[k] = cap[k] /\ attempts'[k] = attempts[k]
  BY <1>1, <1>2
<1>6. cap'[m] = (IF exempt[m] THEN cap[m] ELSE Cap(m)) /\ attempts'[m] = attempts[m] + 1
  BY <1>1, <1>2
<1>7. Cap(m) = cap[m] \/ cap[m] = 0
  BY DEF Cap
<1>8. CASE exempt[m] \/ m \in late'
  <2>1. used' - waived' = used - waived
    BY <1>1, <1>2, <1>8
  <2>2. \A k \in Members : k \notin late /\ cap[k] # 0 <=> k \notin late' /\ cap'[k] # 0
    BY <1>1, <1>2, <1>5, <1>6, <1>8
  <2>3. Sharers(late', cap') = Sharers(late, cap)
    BY <2>2 DEF Sharers
  <2>4. \A k \in Sharers(late, cap) : cap'[k] = cap[k] /\ Before(late', cap', k) = Before(late, cap, k)
    <3>1. \A k \in Sharers(late, cap) : cap'[k] = cap[k]
      BY <1>1, <1>5, <1>6, <1>8 DEF Sharers
    <3> QED
      BY <2>3, <3>1 DEF Before
  <2>5. Units(late, attempts, cap) \in SUBSET Units(late', attempts', cap')
    <3> SUFFICES ASSUME NEW x \in Members \X (1..Budget), x[1] \notin late,
                        x[2] <= attempts[x[1]], x[2] <= cap[x[1]]
                 PROVE  x[1] \notin late' /\ x[2] <= attempts'[x[1]] /\ x[2] <= cap'[x[1]]
      BY DEF Units
    <3>1. x[1] \in Members /\ x[2] \in 1..Budget
      OBVIOUS
    <3>2. CASE x[1] # m
      BY <1>1, <1>5, <3>1, <3>2
    <3>3. CASE x[1] = m
      <4>1. x[2] \in Nat /\ attempts[m] \in Nat /\ cap[m] \in Nat /\ cap[m] # 0
        BY <1>2, <3>1, <3>3
      <4>2. m \notin late' /\ cap'[m] = cap[m]
        BY <1>1, <1>6, <1>8, <3>3, <4>1
      <4> QED
        BY <1>6, <3>3, <4>1, <4>2
    <3> QED
      BY <3>2, <3>3
  <2>6. Cardinality(Units(late, attempts, cap)) <= Cardinality(Units(late', attempts', cap'))
    BY <2>5, UnitsFinite, FS_Subset
  <2>7. used' - waived' <= Cardinality(Units(late', attempts', cap'))
    BY <1>2, <1>4, <2>1, <2>6, UnitsFinite
  <2>8. Cardinality(Sharers(late', cap')) <= used'
    BY <1>1, <1>2, <1>4, <2>3, SharersFinite
  <2> QED
    BY <1>4, <2>3, <2>4, <2>7, <2>8 DEF FiveInv
<1>9. CASE ~exempt[m] /\ m \notin late'
  <2>1. late' = late /\ m \notin late /\ waived' = waived /\ cap'[m] = Cap(m)
    BY <1>1, <1>6, <1>9
  <2>2. Units(late, attempts, cap) \in SUBSET Units(late, attempts', cap')
    <3> SUFFICES ASSUME NEW x \in Members \X (1..Budget), x[1] \notin late,
                        x[2] <= attempts[x[1]], x[2] <= cap[x[1]]
                 PROVE  x[2] <= attempts'[x[1]] /\ x[2] <= cap'[x[1]]
      BY DEF Units
    <3>1. x[1] \in Members /\ x[2] \in 1..Budget
      OBVIOUS
    <3>2. CASE x[1] # m
      BY <1>5, <3>1, <3>2
    <3>3. CASE x[1] = m
      <4>1. x[2] \in Nat /\ x[2] >= 1 /\ attempts[m] \in Nat /\ cap[m] \in Nat
        BY <1>2, <3>1
      <4> QED
        BY <1>3, <1>6, <1>7, <2>1, <3>3, <4>1
    <3> QED
      BY <3>2, <3>3
  <2>3. Cardinality(Units(late, attempts, cap)) + 1 <= Cardinality(Units(late, attempts', cap'))
    <3>1. /\ attempts[m] \in Nat /\ attempts'[m] = attempts[m] + 1
          /\ cap'[m] \in Nat /\ attempts'[m] <= cap'[m] /\ cap'[m] <= Budget
      BY <1>2, <1>3, <1>6, <1>9, <2>1
    <3> QED
      BY <2>1, <2>2, <3>1, UnitsAdd
  <2>4. used' - waived' <= Cardinality(Units(late', attempts', cap'))
    BY <1>1, <1>2, <1>4, <2>1, <2>3, UnitsFinite
  <2>5. CASE cap[m] # 0
    <3>1. cap' = cap
      BY <1>1, <1>2, <1>7, <1>9, <2>5
    <3>2. Cardinality(Sharers(late', cap')) <= used'
      <4>1. Cardinality(Sharers(late, cap)) \in Nat
        BY SharersFinite
      <4>2. Cardinality(Sharers(late, cap)) <= used /\ used \in Nat /\ used' = used + 1
        BY <1>1, <1>2, <1>4
      <4>3. Cardinality(Sharers(late, cap)) <= used'
        BY <4>1, <4>2
      <4> QED
        BY <2>1, <3>1, <4>3
    <3> QED
      BY <1>4, <2>1, <2>4, <3>1, <3>2 DEF FiveInv
  <2>6. CASE cap[m] = 0
    <3>1. index = m
      BY <1>1, <1>9, <2>6
    <3>2. /\ m + 1 < N => Cap(m) = 1
          /\ m + 1 = N /\ Cap(m) > 1 => used + Cap(m) < Budget
      BY <2>6, <3>1, CapOfFive
    <3>3. Sharers(late', cap') = Sharers(late, cap) \cup {m}
      BY <1>3, <1>5, <2>1 DEF Sharers
    <3>4. m \notin Sharers(late, cap)
      BY <2>6 DEF Sharers
    <3>5. Cardinality(Sharers(late', cap')) <= used'
      <4>1. Cardinality(Sharers(late, cap) \cup {m}) = Cardinality(Sharers(late, cap)) + 1
        BY <3>4, SharersFinite, FS_AddElement
      <4>2. Cardinality(Sharers(late, cap)) \in Nat
        BY SharersFinite
      <4>3. Cardinality(Sharers(late, cap)) <= used /\ used \in Nat /\ used' = used + 1
        BY <1>1, <1>2, <1>4
      <4>4. Cardinality(Sharers(late, cap)) + 1 <= used'
        BY <4>2, <4>3
      <4> QED
        BY <3>3, <4>1, <4>4
    <3>6. \A k \in Sharers(late, cap) : k \in Members /\ k < m
      <4> SUFFICES ASSUME NEW k \in Sharers(late, cap) PROVE k \in Members /\ k < m
        OBVIOUS
      <4>1. k \in Members /\ k # m /\ cap[k] # 0
        BY <3>4 DEF Sharers
      <4>2. k <= index
        BY <4>1 DEF PlaceInv
      <4> QED
        BY <1>2, <3>1, <4>1, <4>2
    <3>7. \A k \in Members : k <= m => Before(late', cap', k) = Before(late, cap, k)
      BY <1>2, <3>3 DEF Before
    <3>8. ASSUME NEW k \in Sharers(late', cap')
          PROVE  /\ k + 1 < N => cap'[k] = 1
                 /\ k + 1 = N /\ cap'[k] > 1 => Cardinality(Before(late', cap', k)) + cap'[k] < Budget
      <4>1. CASE k = m
        <5>1. Before(late', cap', m) = Before(late, cap, m)
          BY <1>2, <3>7
        <5>2. Cardinality(Before(late, cap, m)) \in Nat /\ Cardinality(Before(late, cap, m)) <= used
          BY <1>2, <1>4, SharersFinite
        <5> QED
          BY <1>2, <1>3, <2>1, <3>2, <4>1, <5>1, <5>2
      <4>2. CASE k # m
        <5>1. k \in Sharers(late, cap)
          BY <3>3, <4>2
        <5>2. k \in Members /\ k < m
          BY <3>6, <5>1
        <5>3. cap'[k] = cap[k] /\ Before(late', cap', k) = Before(late, cap, k)
          BY <1>2, <1>5, <3>7, <4>2, <5>2
        <5> QED
          BY <1>4, <5>1, <5>3
      <4> QED
        BY <4>1, <4>2
    <3> QED
      BY <2>4, <3>5, <3>8 DEF FiveInv
  <2> QED
    BY <2>5, <2>6
<1> QED
  BY <1>8, <1>9

LEMMA FiveKept ==
  ASSUME ComboInv, PlaceInv, FiveInv, Budget <= 5, [Next]_vars
  PROVE  FiveInv'
<1>1. CASE SharesKept
  BY <1>1 DEF SharesKept, FiveInv, Units, Sharers, Before
<1>2. ASSUME NEW m \in Members, NEW a \in Candidates(m), Tries(m, a)
      PROVE  FiveInv'
  <2>1. CASE N <= Budget
    BY <1>2, <2>1, AttemptKeepsFive
  <2>2. CASE ~(N <= Budget)
    BY <2>2 DEF FiveInv
  <2> QED
    BY <2>1, <2>2
<1>3. SharesKept \/ \E m \in Members : \E a \in Candidates(m) : Tries(m, a)
  BY RunSteps, LoopKeepsShares DEF Next
<1> QED
  BY <1>1, <1>2, <1>3

\* What has been charged to the shares leaves an attempt for each member that the
\* loop has not passed.
LEMMA FiveLeavesTail ==
  ASSUME ComboInv, PlaceInv, FiveInv, Budget <= 5
  PROVE  TailHasShare
<1> SUFFICES ASSUME N <= Budget, phase = "top", at <= N
             PROVE  used - waived + (N + 1 - at) <= Budget
  BY DEF TailHasShare
<1> DEFINE U == Units(late, attempts, cap)
           S == Sharers(late, cap)
<1>1. /\ at \in 1..N /\ used \in 0..Budget /\ waived \in 0..Budget
      /\ cap \in [Members -> 0..Budget]
      /\ N \in Nat \ {0} /\ Budget \in Nat \ {0}
      /\ \A m \in Members : m \in 1..N
      /\ \A m \in 1..N : m \in Members
  BY Constants DEF ComboInv, TypeOK
<1>2. \A m \in S : m \in 1..(at - 1) /\ m \in Members
  <2> SUFFICES ASSUME NEW m \in S PROVE m \in 1..(at - 1) /\ m \in Members
    OBVIOUS
  <2>1. m \in Members /\ cap[m] # 0
    BY DEF Sharers
  <2>2. pc[m] # "idle"
    BY <2>1 DEF PlaceInv
  <2>3. ~(m > at) /\ m # at
    BY <2>1, <2>2 DEF ComboInv, LoopInv
  <2> QED
    BY <1>1, <2>1, <2>3
<1>3. \A x \in U : x = <<x[1], x[2]>> /\ x[1] \in S /\ x[2] \in 1..Budget /\ x[2] <= cap[x[1]]
  <2> SUFFICES ASSUME NEW x \in U
               PROVE  x = <<x[1], x[2]>> /\ x[1] \in S /\ x[2] \in 1..Budget /\ x[2] <= cap[x[1]]
    OBVIOUS
  <2>1. x \in Members \X (1..Budget) /\ x[1] \notin late /\ x[2] <= cap[x[1]]
    BY DEF Units
  <2>2. x = <<x[1], x[2]>> /\ x[1] \in Members /\ x[2] \in 1..Budget
    BY <2>1
  <2>3. cap[x[1]] # 0
    BY <1>1, <2>1, <2>2
  <2> QED
    BY <2>1, <2>2, <2>3 DEF Sharers
<1>4. used - waived <= Cardinality(U) /\ Cardinality(U) \in Nat
  BY UnitsFinite DEF FiveInv
<1>5. \A m \in S : /\ m + 1 < N => cap[m] = 1
                   /\ m + 1 = N /\ cap[m] > 1 => Cardinality(Before(late, cap, m)) + cap[m] < Budget
  BY DEF FiveInv
<1> HIDE DEF U, S
<1>6. CASE \A m \in S : cap[m] = 1
  <2> DEFINE A == 1..(at - 1)
             B == 1..1
  <2>1. IsFiniteSet(A) /\ Cardinality(A) = at - 1
    BY <1>1, IntervalSize
  <2>2. IsFiniteSet(B) /\ Cardinality(B) = 1
    <3>1. 1 \in Int /\ 1 <= 1 + 1 /\ 1 - 1 + 1 = 1
      OBVIOUS
    <3> QED
      BY <3>1, IntervalSize
  <2>3. IsFiniteSet(A \X B) /\ Cardinality(A \X B) = (at - 1) * 1
    <3> HIDE DEF A, B
    <3> QED
      BY <2>1, <2>2, ProductSize
  <2>4. U \in SUBSET (A \X B)
    <3> SUFFICES ASSUME NEW x \in U PROVE x \in A \X B
      OBVIOUS
    <3>1. x = <<x[1], x[2]>> /\ x[1] \in S /\ x[2] \in 1..Budget /\ x[2] <= 1
      BY <1>3, <1>6
    <3>2. x[1] \in A /\ x[2] \in B
      BY <1>1, <1>2, <3>1
    <3> HIDE DEF A, B
    <3> QED
      BY <3>1, <3>2
  <2> HIDE DEF A, B
  <2>5. Cardinality(U) <= (at - 1) * 1
    BY <2>3, <2>4, FS_Subset
  <2> QED
    BY <1>1, <1>4, <2>5
<1>7. CASE ~\A m \in S : cap[m] = 1
  <2>1. PICK m \in S : cap[m] # 1
    BY <1>7
  <2>2. m \in Members /\ m \in 1..(at - 1) /\ cap[m] \in 0..Budget
    BY <1>1, <1>2, <2>1
  <2>3. m + 1 = N /\ at = N
    BY <1>1, <1>5, <2>1, <2>2
  <2>4. cap[m] # 0
    BY <2>1 DEF S, Sharers
  <2>5. Cardinality(Before(late, cap, m)) + cap[m] < Budget
    BY <1>5, <2>1, <2>2, <2>3, <2>4
  <2> DEFINE P == Before(late, cap, m) \X (1..1)
             Q == (m..m) \X (1..cap[m])
  <2>6. U \in SUBSET (P \cup Q)
    <3> SUFFICES ASSUME NEW x \in U PROVE x \in P \cup Q
      OBVIOUS
    <3>1. x = <<x[1], x[2]>> /\ x[1] \in S /\ x[2] \in 1..Budget /\ x[2] <= cap[x[1]]
      BY <1>3
    <3>2. x[1] \in 1..m
      BY <1>1, <1>2, <2>3, <3>1
    <3>3. CASE x[1] = m
      <4>1. x[1] \in m..m /\ x[2] \in 1..cap[m]
        BY <2>2, <3>1, <3>3
      <4> QED
        BY <3>1, <4>1
    <3>4. CASE x[1] # m
      <4>1. x[1] < m /\ x[1] + 1 < N
        BY <1>1, <2>2, <2>3, <3>2, <3>4
      <4>2. x[1] \in Before(late, cap, m)
        BY <3>1, <4>1 DEF Before, S
      <4>3. x[2] \in 1..1
        BY <1>1, <1>5, <3>1, <4>1
      <4> QED
        BY <3>1, <4>2, <4>3
    <3> QED
      BY <3>3, <3>4
  <2>7. /\ IsFiniteSet(P) /\ Cardinality(P) = Cardinality(Before(late, cap, m)) * 1
        /\ IsFiniteSet(Q) /\ Cardinality(Q) = 1 * cap[m]
    <3> DEFINE K == Before(late, cap, m)
               A == 1..1
               B == m..m
               C == 1..cap[m]
    <3>1. IsFiniteSet(A) /\ Cardinality(A) = 1
      <4>1. 1 \in Int /\ 1 <= 1 + 1 /\ 1 - 1 + 1 = 1
        OBVIOUS
      <4> QED
        BY <4>1, IntervalSize
    <3>2. IsFiniteSet(B) /\ Cardinality(B) = 1
      <4>1. m \in Int /\ m <= m + 1 /\ m - m + 1 = 1
        BY <2>2
      <4> QED
        BY <4>1, IntervalSize
    <3>3. IsFiniteSet(C) /\ Cardinality(C) = cap[m]
      <4>1. 1 \in Int /\ cap[m] \in Int /\ 1 <= cap[m] + 1 /\ cap[m] - 1 + 1 = cap[m]
        BY <2>2
      <4> QED
        BY <4>1, IntervalSize
    <3>4. IsFiniteSet(K)
      BY <2>2, SharersFinite
    <3> HIDE DEF A, B, C, K
    <3>5. IsFiniteSet(K \X A) /\ Cardinality(K \X A) = Cardinality(K) * 1
      BY <3>1, <3>4, ProductSize
    <3>6. IsFiniteSet(B \X C) /\ Cardinality(B \X C) = 1 * cap[m]
      BY <3>2, <3>3, ProductSize
    <3> QED
      BY <3>5, <3>6 DEF A, B, C, K
  <2> HIDE DEF P, Q
  <2>8. /\ IsFiniteSet(P \cup Q)
        /\ Cardinality(P \cup Q) = Cardinality(P) + Cardinality(Q) - Cardinality(P \cap Q)
    BY <2>7, FS_Union
  <2>9. Cardinality(U) <= Cardinality(P \cup Q)
    BY <2>6, <2>8, FS_Subset
  <2>10. Cardinality(P \cap Q) \in Nat
    <3>1. (P \cap Q) \in SUBSET P
      OBVIOUS
    <3> QED
      BY <2>7, <3>1, FS_Subset, FS_CardinalityType
  <2>11. Cardinality(Before(late, cap, m)) \in Nat
    BY <2>2, SharersFinite
  <2>12. Cardinality(U) < Budget
    BY <1>1, <1>4, <2>2, <2>5, <2>7, <2>8, <2>9, <2>10, <2>11
  <2> QED
    BY <1>1, <1>4, <2>3, <2>12
<1> QED
  BY <1>6, <1>7

\* chat.js:579-582, for the budget the code has (errorConfig.js:49): early members
\* do not starve the tail, though overtaken runs go on spending while the loop has
\* moved on, however many members the combo has.
THEOREM TailShareOfFive ==
  ASSUME Budget <= 5
  PROVE  Spec => []TailHasShare
<1>1. ComboInv /\ PlaceInv /\ FiveInv /\ [Next]_vars => PlaceInv' /\ FiveInv'
  BY PlaceKept, FiveKept
<1>2. ComboInv /\ PlaceInv /\ FiveInv => TailHasShare
  BY FiveLeavesTail
<1> QED
  BY InitSeqInv, InitFiveInv, ComboInvariant, <1>1, <1>2, PTL DEF Spec
=============================================================================
