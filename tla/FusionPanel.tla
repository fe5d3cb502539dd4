---------------------------- MODULE FusionPanel ----------------------------
(***************************************************************************)
(* One request to a fusion combo: every panel member is asked in parallel, *)
(* the collection ends by quorum and grace, by the hard timeout or when    *)
(* all have settled, the stragglers are aborted, the answers are read, and *)
(* a chain of judges writes the final answer.  All the runs draw from one  *)
(* rotation budget.                                                        *)
(*                                                                         *)
(* Source: src/open-sse/services/combo.js, handleFusionChat, collectPanel, *)
(* withTimeout; the runs are src/src/sse/handlers/chat.js,                 *)
(* handleSingleModelChat, reduced to its budget (ComboRouting has the rest).*)
(* The panel is the one that the availability check left, of at least two. *)
(***************************************************************************)
EXTENDS Naturals, FiniteSets, Sequences

CONSTANTS N,             \* members of the panel
          ChainLength,   \* judges to try: the panel, and the judge if it is none of it
          MinPanel,      \* answers that make a quorum
          Budget,        \* upstream attempts of the request (MAX_TOTAL_ROTATION_ATTEMPTS)
          MaxTries       \* bound: attempts of one run, the exempted ones included

ASSUME ConstantsAssumption ==
  /\ N \in Nat /\ N >= 2
  /\ ChainLength \in {N, N + 1}
  /\ MinPanel \in 1 .. N
  /\ Budget \in Nat
  /\ MaxTries \in Nat

Panel == 1 .. N
Judges == N + 1 .. N + ChainLength
Reanswer == N + ChainLength + 1     \* the run that answers again as a stream
Runs == 1 .. Reanswer

VARIABLES
  stream,      \* the client asked for a stream
  phase,       \* what the handler waits for
  place,       \* run -> where it is
  result,      \* run -> what it came to ("none" while it runs)
  aborted,     \* panel members whose signal was aborted
  out,         \* the collection's array, which goes on being filled
  grace,       \* the grace timer runs
  readAt,      \* the next index to read
  answers,     \* members whose answer was read, in order
  blamed,      \* members whose failure was counted (memberHealth.onFailure)
  judge,       \* the judge the chain is at
  gone,        \* the client has disconnected
  response,    \* what the client got
  used,        \* attempts spent
  tries,       \* run -> attempts it made
  cap,         \* run -> its share, 0 before it is asked for
  waived,      \* attempts that a token refresh exempted from a share
  paid         \* for the properties: members that had answered when the panel ended

vars == <<stream, phase, place, result, aborted, out, grace, readAt, answers, blamed, judge,
          gone, response, used, tries, cap, waived, paid>>

budgetVars == <<used, tries, cap, waived>>
readVars == <<readAt, answers, blamed>>

Init ==
  /\ stream \in BOOLEAN
  /\ phase = "panel"
  /\ place = [r \in Runs |-> IF r \in Panel THEN "select" ELSE "idle"]
  /\ result = [r \in Runs |-> "none"]
  /\ aborted = {}
  /\ out = [i \in Panel |-> "none"]
  /\ grace = FALSE
  /\ readAt = 1
  /\ answers = <<>>
  /\ blamed = {}
  /\ judge = 1
  /\ gone = FALSE
  /\ response = "none"
  /\ used = 0
  /\ tries = [r \in Runs |-> 0]
  /\ cap = [r \in Runs |-> 0]
  /\ waived = 0
  /\ paid = {}

---------------------------------------------------------------------------
(* The runs: account attempts within the shared budget.                     *)

\* Variant for the mutation runs: the share is the whole remainder, as for a
\* request whose sharers are not known.
WholeShare ==
  IF Budget - used < 1 THEN 1 ELSE Budget - used

\* The share of the remaining budget over panel and judges, fixed when it is
\* first asked for; memberIndex is not set by a fusion.
Share ==
  LET s == (Budget - used) \div (N + 1)
  IN  IF s < 1 THEN 1 ELSE s

\* The array holds what a member came to unless its own timeout was first.
\* finally() counts it: the grace timer starts at the quorum.
Settle(r, v) ==
  /\ place' = [place EXCEPT ![r] = "settled"]
  /\ result' = [result EXCEPT ![r] = v]
  /\ IF r \in Panel /\ out[r] = "none"
       THEN /\ out' = [out EXCEPT ![r] = v]
            /\ grace' = (grace \/ Cardinality({i \in Panel : out'[i] \in {"ok", "empty"}}) >= MinPanel)
       ELSE UNCHANGED <<out, grace>>

\* Variant for the mutation runs: the budget is tested off by one.
AttemptOver(r) ==
  /\ place[r] = "select"
  /\ LET c == IF cap[r] = 0 THEN Share ELSE cap[r]
     IN IF used > Budget \/ tries[r] >= c
        THEN /\ Settle(r, "failed")
             /\ UNCHANGED budgetVars
        ELSE /\ cap' = [cap EXCEPT ![r] = c]
             /\ used' = used + 1
             /\ tries' = [tries EXCEPT ![r] = @ + 1]
             /\ place' = [place EXCEPT ![r] = "upstream"]
             /\ UNCHANGED <<result, out, grace, waived>>
  /\ UNCHANGED <<stream, phase, aborted, readVars, judge, gone, response, paid>>

\* Before an upstream call: budget and share are tested, one attempt is spent.
Attempt(r) ==
  /\ place[r] = "select"
  /\ LET c == IF cap[r] = 0 THEN Share ELSE cap[r]
     IN IF used >= Budget
        THEN /\ Settle(r, "failed")
             /\ UNCHANGED budgetVars
        ELSE /\ cap' = [cap EXCEPT ![r] = c]
             /\ IF tries[r] >= c
                  THEN /\ Settle(r, "failed")
                       /\ UNCHANGED <<used, tries>>
                  ELSE /\ used' = used + 1
                       /\ tries' = [tries EXCEPT ![r] = @ + 1]
                       /\ place' = [place EXCEPT ![r] = "upstream"]
                       /\ UNCHANGED <<result, out, grace>>
             /\ UNCHANGED waived
  /\ UNCHANGED <<stream, phase, aborted, readVars, judge, gone, response, paid>>

\* The upstream's answer, or the run's failure without another attempt; an
\* aborted run may end either way.
Answered(r) ==
  /\ place[r] = "upstream"
  /\ \E v \in {"ok", "empty", "failed"} : Settle(r, v)
  /\ UNCHANGED <<stream, phase, aborted, readVars, judge, gone, response, budgetVars, paid>>

\* The account failed and the next one is tried.  The signal reaches a run's
\* fetch only after a delay, and the account loop does not look at it.
NextAccount(r) ==
  /\ place[r] = "upstream"
  /\ place' = [place EXCEPT ![r] = "select"]
  /\ UNCHANGED <<stream, phase, result, aborted, out, grace, readVars, judge, gone, response,
                 budgetVars, paid>>

\* A 401 whose token could be refreshed: the retry spends budget, not share.
RefreshedRetry(r) ==
  /\ place[r] = "upstream"
  /\ used < Budget
  /\ tries[r] < MaxTries
  /\ used' = used + 1
  /\ tries' = [tries EXCEPT ![r] = @ + 1]
  /\ waived' = waived + 1
  /\ UNCHANGED <<stream, phase, place, result, aborted, out, grace, readVars, judge, gone,
                 response, cap, paid>>

Run(r) == Attempt(r) \/ Answered(r) \/ NextAccount(r) \/ RefreshedRetry(r)

---------------------------------------------------------------------------
(* The panel: collectPanel and what follows it.                             *)

Running(r) == place[r] \notin {"idle", "settled"}

\* Variant for the mutation runs: who is aborted is read off the array, where a
\* member that timed out has an entry although its run goes on.
DecideByArray ==
  /\ phase' = "read"
  /\ aborted' = {i \in Panel : out'[i] = "none"}
  /\ paid' = {i \in Panel : out[i] = "ok"}
  /\ UNCHANGED <<stream, place, result, readVars, judge, gone, response, budgetVars>>

\* The collection ends; every member that has not settled is aborted.
Decide ==
  /\ phase' = "read"
  /\ aborted' = {i \in Panel : Running(i)}
  /\ paid' = {i \in Panel : out[i] = "ok"}
  /\ UNCHANGED <<stream, place, result, readVars, judge, gone, response, budgetVars>>

AllSettled ==
  /\ phase = "panel"
  /\ \A i \in Panel : out[i] # "none"
  /\ UNCHANGED <<out, grace>>
  /\ Decide

GraceOver ==
  /\ phase = "panel"
  /\ grace
  /\ UNCHANGED <<out, grace>>
  /\ Decide

\* The calls' own timers fire just before the collection's.
HardTimeout ==
  /\ phase = "panel"
  /\ out' = [i \in Panel |-> IF out[i] = "none" THEN "timeout" ELSE out[i]]
  /\ UNCHANGED grace
  /\ Decide

\* Variant for the mutation runs: the first failure ends the reading.
ReadToFailure ==
  /\ phase = "read"
  /\ readAt <= N
  /\ answers' = IF out[readAt] = "ok" THEN Append(answers, readAt) ELSE answers
  /\ blamed' = blamed
  /\ readAt' = IF out[readAt] \in {"failed", "timeout"} THEN N + 1 ELSE readAt + 1
  /\ UNCHANGED <<stream, phase, place, result, aborted, out, grace, judge, gone, response,
                 budgetVars, paid>>

\* The loop over the array stops at each ok response to await its text; what
\* stragglers put into the array meanwhile is read as well.
Read ==
  /\ phase = "read"
  /\ readAt <= N
  /\ \E stop \in readAt .. N :
       /\ \A i \in readAt .. stop - 1 : out[i] \notin {"ok", "empty"}
       /\ out[stop] \in {"ok", "empty"} \/ stop = N
       /\ blamed' = blamed \cup {i \in readAt .. stop : out[i] \in {"failed", "timeout"}}
       /\ answers' = IF out[stop] = "ok" THEN Append(answers, stop) ELSE answers
       /\ readAt' = stop + 1
  /\ UNCHANGED <<stream, phase, place, result, aborted, out, grace, judge, gone, response,
                 budgetVars, paid>>

Respond(v) == phase' = "done" /\ response' = v

\* None, one or more answers.
Degrade ==
  /\ phase = "read"
  /\ readAt > N
  /\ CASE Len(answers) = 0 -> Respond("unavailable") /\ UNCHANGED place
       [] Len(answers) = 1 /\ ~stream -> Respond("panel") /\ UNCHANGED place
       [] Len(answers) = 1 /\ stream ->
            /\ phase' = "reanswer"
            /\ place' = [place EXCEPT ![Reanswer] = "select"]
            /\ UNCHANGED response
       [] OTHER -> phase' = "judge" /\ UNCHANGED <<place, response>>
  /\ UNCHANGED <<stream, result, aborted, out, grace, readVars, judge, gone, budgetVars, paid>>

---------------------------------------------------------------------------
(* The chain of judges.                                                      *)

JudgeRun == N + judge

StartJudge ==
  /\ phase = "judge"
  /\ judge <= ChainLength
  /\ IF gone
       THEN Respond("gone") /\ UNCHANGED place
       ELSE /\ phase' = "judging"
            /\ place' = [place EXCEPT ![JudgeRun] = "select"]
            /\ UNCHANGED response
  /\ UNCHANGED <<stream, result, aborted, out, grace, readVars, judge, gone, budgetVars, paid>>

\* Any response that is ok is the answer; a failure moves to the next judge.
JudgeDone ==
  /\ phase = "judging"
  /\ result[JudgeRun] # "none"
  /\ IF result[JudgeRun] = "failed"
       THEN /\ phase' = "judge"
            /\ judge' = judge + 1
            /\ UNCHANGED response
       ELSE Respond("judge") /\ UNCHANGED judge
  /\ UNCHANGED <<stream, place, result, aborted, out, grace, readVars, gone, budgetVars, paid>>

\* Variant for the mutation runs: a judge that timed out is asked again.
JudgeAskedAgain ==
  /\ phase = "judging"
  /\ result[JudgeRun] = "none"
  /\ phase' = "judge"
  /\ UNCHANGED <<stream, place, result, aborted, out, grace, readVars, judge, gone, response,
                 budgetVars, paid>>

\* The judge's own timeout; its run is not aborted.
JudgeTimeout ==
  /\ phase = "judging"
  /\ result[JudgeRun] = "none"
  /\ phase' = "judge"
  /\ judge' = judge + 1
  /\ UNCHANGED <<stream, place, result, aborted, out, grace, readVars, gone, response,
                 budgetVars, paid>>

\* Every judge failed: the first answer, or that model once more as a stream.
JudgesFailed ==
  /\ phase = "judge"
  /\ judge > ChainLength
  /\ IF stream
       THEN /\ phase' = "reanswer"
            /\ place' = [place EXCEPT ![Reanswer] = "select"]
            /\ UNCHANGED response
       ELSE Respond("panel") /\ UNCHANGED place
  /\ UNCHANGED <<stream, result, aborted, out, grace, readVars, judge, gone, budgetVars, paid>>

ReanswerDone ==
  /\ phase = "reanswer"
  /\ result[Reanswer] # "none"
  /\ Respond(IF result[Reanswer] = "failed" THEN "failed" ELSE "stream")
  /\ UNCHANGED <<stream, place, result, aborted, out, grace, readVars, judge, gone, budgetVars,
                 paid>>

ClientGone ==
  /\ ~gone
  /\ phase # "done"
  /\ gone' = TRUE
  /\ UNCHANGED <<stream, phase, place, result, aborted, out, grace, readVars, judge, response,
                 budgetVars, paid>>

Timers == HardTimeout \/ JudgeTimeout
Handler == AllSettled \/ Read \/ Degrade \/ StartJudge \/ JudgeDone \/ JudgesFailed \/ ReanswerDone

Next ==
  \/ \E r \in Runs : Run(r)
  \/ Handler
  \/ GraceOver \/ Timers
  \/ ClientGone

Spec == Init /\ [][Next]_vars

\* The handler's continuations and the timers run; an upstream may never answer,
\* save that an abort and the time limits of a lone stream end a run.
FairSpec ==
  /\ Spec
  /\ WF_vars(Handler)
  /\ WF_vars(Timers)
  /\ WF_vars(Attempt(Reanswer)) /\ WF_vars(Answered(Reanswer))
  /\ \A i \in Panel : WF_vars(i \in aborted /\ Run(i))

---------------------------------------------------------------------------
(* Properties.                                                              *)

\* Types; the attempts of the whole request stay within the rotation budget,
\* whatever panel members, abandoned judges and refreshed retries do together.
TypeOK ==
  /\ stream \in BOOLEAN
  /\ phase \in {"panel", "read", "judge", "judging", "reanswer", "done"}
  /\ place \in [Runs -> {"idle", "select", "upstream", "settled"}]
  /\ result \in [Runs -> {"none", "ok", "empty", "failed"}]
  /\ aborted \subseteq Panel
  /\ out \in [Panel -> {"none", "ok", "empty", "failed", "timeout"}]
  /\ grace \in BOOLEAN
  /\ readAt \in 1 .. N + 1
  /\ answers \in Seq(Panel)
  /\ blamed \subseteq Panel
  /\ judge \in 1 .. ChainLength + 1
  /\ gone \in BOOLEAN
  /\ response \in {"none", "unavailable", "panel", "judge", "stream", "failed", "gone"}
  /\ used \in 0 .. Budget
  /\ tries \in [Runs -> Nat]
  /\ cap \in [Runs -> Nat]
  /\ waived \in 0 .. Budget
  /\ paid \subseteq Panel

\* Once the panel is decided no member's upstream runs on without its signal
\* aborted, a member that only its timeout settled included (combo.js: "instead
\* of billing orphaned generations").
StragglersAborted ==
  phase # "panel" => \A i \in Panel : Running(i) => i \in aborted

\* An answer that was there when the panel was decided reaches a client that
\* does not stream: it is judged or returned, never dropped for a 503 (combo.js:
\* "instead of a 503 that discards already-paid work").
AnswerNotLost ==
  (phase = "done" /\ paid # {} /\ ~gone) =>
     \/ response \in {"panel", "judge"}
     \/ stream /\ response \in {"stream", "failed"}

\* With an attempt for every sharer the panel cannot eat the judges' part: the
\* first judge finds the budget unspent, the exempted retries not counted.
JudgeHasShare ==
  (N + 1 <= Budget /\ phase = "judge" /\ judge = 1) => used - waived < Budget

\* Whatever hangs, the request is answered: panel, judges and the last stream
\* are each bounded.
FusionAnswered == <>(phase = "done")
=============================================================================
