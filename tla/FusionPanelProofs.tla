-------------------------- MODULE FusionPanelProofs -------------------------
(***************************************************************************)
(* Proofs about FusionPanel, for any size of the panel, chain of judges,   *)
(* quorum and budget: the types with the budget, that no straggler runs on *)
(* unaborted, that no answer that was there is dropped, and that the panel *)
(* leaves the first judge an attempt.                                      *)
(***************************************************************************)
EXTENDS FusionPanel, Integers, FiniteSetTheorems, TLAPS

\* Exempted attempts are attempts; the judge asked is one of the chain.
CountInv ==
  /\ waived <= used
  /\ phase = "judging" => judge <= ChainLength

\* The reading starts at the first index with what the panel left; an answer that
\* was there is still in the array, or has been read.
ReadInv ==
  /\ phase = "panel" => readAt = 1
  /\ phase = "read" => \A i \in paid : out[i] = "ok" /\ (i < readAt => Len(answers) > 0)
  /\ phase = "reanswer" => stream

\* The inductive invariant.
FusionInv == TypeOK /\ CountInv /\ StragglersAborted /\ ReadInv /\ AnswerNotLost

---------------------------------------------------------------------------
LEMMA Constants ==
  /\ N \in Nat /\ ChainLength \in Nat /\ Budget \in Nat /\ N >= 2
  /\ Panel \subseteq Runs /\ Reanswer \in Runs /\ Reanswer \notin Panel
  /\ \A i \in Panel : i \in Nat
<1>1. N \in Nat /\ N >= 2 /\ Budget \in Nat
  BY ConstantsAssumption
<1>2. ChainLength \in Nat
  BY <1>1, ConstantsAssumption
<1> QED
  BY <1>1, <1>2 DEF Panel, Runs, Reanswer

LEMMA InitFusionInv == Init => FusionInv
<1> SUFFICES ASSUME Init PROVE FusionInv
  OBVIOUS
<1>1. place \in [Runs -> {"idle", "select", "upstream", "settled"}]
  BY DEF Init
<1>2. grace \in BOOLEAN /\ gone \in BOOLEAN /\ stream \in BOOLEAN
  BY DEF Init
<1>3. /\ result \in [Runs -> {"none", "ok", "empty", "failed"}]
      /\ out \in [Panel -> {"none", "ok", "empty", "failed", "timeout"}]
      /\ tries \in [Runs -> Nat] /\ cap \in [Runs -> Nat]
  BY DEF Init
<1>4. TypeOK
  BY <1>1, <1>2, <1>3, Constants DEF Init, TypeOK
<1> QED
  BY <1>4, Constants DEF Init, FusionInv, CountInv, StragglersAborted, ReadInv, AnswerNotLost

---------------------------------------------------------------------------
(* The runs.                                                                *)

LEMMA ShareTyped ==
  ASSUME used \in 0 .. Budget
  PROVE  Share \in Nat
<1>1. (Budget - used) \div (N + 1) \in Int
  BY Constants
<1> QED
  BY <1>1 DEF Share

\* withTimeout and collectPanel: what a settled run leaves.
LEMMA SettleKeeps ==
  ASSUME NEW r \in Runs, NEW v \in {"ok", "empty", "failed"}, TypeOK, Settle(r, v)
  PROVE  /\ place' = [place EXCEPT ![r] = "settled"]
         /\ result' \in [Runs -> {"none", "ok", "empty", "failed"}]
         /\ out' \in [Panel -> {"none", "ok", "empty", "failed", "timeout"}]
         /\ \A i \in Panel : out[i] = "ok" => out'[i] = "ok"
         /\ grace' \in BOOLEAN
<1>1. place' = [place EXCEPT ![r] = "settled"]
  BY DEF Settle
<1>2. result' \in [Runs -> {"none", "ok", "empty", "failed"}]
  BY DEF Settle, TypeOK
<1>3. CASE r \in Panel /\ out[r] = "none"
  <2>1. out' = [out EXCEPT ![r] = v]
    BY <1>3 DEF Settle
  <2>2. grace' \in BOOLEAN
    BY <1>3 DEF Settle
  <2> QED
    BY <1>1, <1>2, <1>3, <2>1, <2>2 DEF TypeOK
<1>4. CASE ~(r \in Panel /\ out[r] = "none")
  BY <1>1, <1>2, <1>4 DEF Settle, TypeOK
<1> QED
  BY <1>3, <1>4

\* What a step of a run changes: one place that was running, its budget, its
\* entry of the array.
RunChange(r) ==
  /\ UNCHANGED <<stream, phase, aborted, readAt, answers, blamed, judge, gone, response, paid>>
  /\ place[r] \in {"select", "upstream"}
  /\ \A q \in Runs \ {r} : place'[q] = place[q]
  /\ place' \in [Runs -> {"idle", "select", "upstream", "settled"}]
  /\ result' \in [Runs -> {"none", "ok", "empty", "failed"}]
  /\ out' \in [Panel -> {"none", "ok", "empty", "failed", "timeout"}]
  /\ \A i \in Panel : out[i] = "ok" => out'[i] = "ok"
  /\ grace' \in BOOLEAN
  /\ used' \in 0 .. Budget /\ waived' \in 0 .. Budget /\ waived' <= used'
  /\ tries' \in [Runs -> Nat] /\ cap' \in [Runs -> Nat]

LEMMA AttemptChanges ==
  ASSUME NEW r \in Runs, FusionInv, Attempt(r)
  PROVE  RunChange(r)
<1> DEFINE c == IF cap[r] = 0 THEN Share ELSE cap[r]
<1>1. c \in Nat /\ used \in Nat /\ used <= Budget /\ used \in 0 .. Budget
  BY ShareTyped, Constants DEF FusionInv, TypeOK
<1>2. /\ UNCHANGED <<stream, phase, aborted, readAt, answers, blamed, judge, gone, response, paid>>
      /\ place[r] = "select"
  BY DEF Attempt, readVars
<1>3. CASE used >= Budget
  <2>1. Settle(r, "failed") /\ UNCHANGED <<used, tries, cap, waived>>
    BY <1>3 DEF Attempt, budgetVars
  <2> QED
    BY <1>2, <2>1, SettleKeeps DEF RunChange, FusionInv, TypeOK, CountInv
<1>4. CASE ~(used >= Budget) /\ tries[r] >= c
  <2>1. Settle(r, "failed") /\ cap' = [cap EXCEPT ![r] = c] /\ UNCHANGED <<used, tries, waived>>
    BY <1>4 DEF Attempt
  <2>2. cap' \in [Runs -> Nat]
    BY <1>1, <2>1 DEF FusionInv, TypeOK
  <2> HIDE DEF c
  <2> QED
    BY <1>2, <2>1, <2>2, SettleKeeps DEF RunChange, FusionInv, TypeOK, CountInv
<1>5. CASE ~(used >= Budget) /\ ~(tries[r] >= c)
  <2>1. /\ cap' = [cap EXCEPT ![r] = c]
        /\ used' = used + 1
        /\ tries' = [tries EXCEPT ![r] = @ + 1]
        /\ place' = [place EXCEPT ![r] = "upstream"]
        /\ UNCHANGED <<result, out, grace, waived>>
    BY <1>5 DEF Attempt
  <2>2. cap' \in [Runs -> Nat] /\ tries' \in [Runs -> Nat]
    BY <1>1, <2>1 DEF FusionInv, TypeOK
  <2>3. used' \in 0 .. Budget /\ waived' <= used' /\ waived' \in 0 .. Budget
    BY <1>1, <1>5, <2>1, Constants DEF FusionInv, TypeOK, CountInv
  <2> HIDE DEF c
  <2> QED
    BY <1>2, <2>1, <2>2, <2>3 DEF RunChange, FusionInv, TypeOK
<1> QED
  BY <1>3, <1>4, <1>5

LEMMA RunChanges ==
  ASSUME NEW r \in Runs, FusionInv, Run(r)
  PROVE  RunChange(r)
<1>1. CASE Attempt(r)
  BY <1>1, AttemptChanges
<1>2. CASE Answered(r)
  <2>1. PICK v \in {"ok", "empty", "failed"} : Settle(r, v)
    BY <1>2 DEF Answered
  <2> QED
    BY <1>2, <2>1, SettleKeeps
       DEF Answered, RunChange, FusionInv, TypeOK, CountInv, readVars, budgetVars
<1>3. CASE NextAccount(r)
  BY <1>3 DEF NextAccount, RunChange, FusionInv, TypeOK, CountInv, readVars, budgetVars
<1>4. CASE RefreshedRetry(r)
  <2>1. used' = used + 1 /\ waived' = waived + 1 /\ used < Budget
    BY <1>4 DEF RefreshedRetry
  <2>2. used' \in 0 .. Budget /\ waived' <= used' /\ waived' \in 0 .. Budget
    BY <2>1, Constants DEF FusionInv, TypeOK, CountInv
  <2> QED
    BY <1>4, <2>2 DEF RefreshedRetry, RunChange, FusionInv, TypeOK, readVars
<1> QED
  BY <1>1, <1>2, <1>3, <1>4 DEF Run

\* A step of a run disturbs neither the aborts nor the answers.
LEMMA RunKeepsInv ==
  ASSUME NEW r \in Runs, FusionInv, Run(r)
  PROVE  FusionInv'
<1>1. RunChange(r)
  BY RunChanges
<1>2. TypeOK'
  BY <1>1 DEF RunChange, FusionInv, TypeOK
<1>3. CountInv'
  BY <1>1 DEF RunChange, FusionInv, CountInv
<1>4. StragglersAborted'
  <2>1. \A i \in Panel : Running(i)' => Running(i)
    BY <1>1, Constants DEF RunChange, Running
  <2> QED
    BY <1>1, <2>1 DEF RunChange, FusionInv, StragglersAborted
<1>5. ReadInv'
  BY <1>1 DEF RunChange, FusionInv, ReadInv, TypeOK
<1>6. AnswerNotLost'
  BY <1>1 DEF RunChange, FusionInv, AnswerNotLost
<1> QED
  BY <1>2, <1>3, <1>4, <1>5, <1>6 DEF FusionInv

---------------------------------------------------------------------------
(* The panel ends and is read.                                              *)

\* The end of the collection aborts exactly who is still running.
LEMMA DecideKeepsInv ==
  ASSUME FusionInv, AllSettled \/ GraceOver \/ HardTimeout
  PROVE  FusionInv'
<1>1. phase = "panel" /\ phase' = "read" /\ Decide
  BY DEF AllSettled, GraceOver, HardTimeout, Decide
<1>2. /\ out' \in [Panel -> {"none", "ok", "empty", "failed", "timeout"}] /\ grace' = grace
      /\ \A i \in Panel : out[i] = "ok" => out'[i] = "ok"
  <2>1. CASE AllSettled \/ GraceOver
    BY <2>1 DEF AllSettled, GraceOver, FusionInv, TypeOK
  <2>2. CASE HardTimeout
    BY <2>2 DEF HardTimeout, FusionInv, TypeOK
  <2> QED
    BY <2>1, <2>2
<1>3. /\ aborted' = {i \in Panel : Running(i)}
      /\ paid' = {i \in Panel : out[i] = "ok"}
      /\ UNCHANGED <<stream, place, result, readAt, answers, blamed, judge, gone, response,
                     used, tries, cap, waived>>
  BY <1>1 DEF Decide, readVars, budgetVars
<1>4. TypeOK'
  BY <1>1, <1>2, <1>3 DEF FusionInv, TypeOK
<1>5. CountInv'
  BY <1>1, <1>3 DEF FusionInv, CountInv
<1>6. StragglersAborted'
  BY <1>3 DEF StragglersAborted, Running
<1>7. ReadInv'
  BY <1>1, <1>2, <1>3, Constants DEF FusionInv, ReadInv
<1>8. AnswerNotLost'
  BY <1>1 DEF AnswerNotLost
<1> QED
  BY <1>4, <1>5, <1>6, <1>7, <1>8 DEF FusionInv

LEMMA ReadKeepsInv ==
  ASSUME FusionInv, Read
  PROVE  FusionInv'
<1>1. PICK stop \in readAt .. N :
        /\ \A i \in readAt .. stop - 1 : out[i] \notin {"ok", "empty"}
        /\ blamed' = blamed \cup {i \in readAt .. stop : out[i] \in {"failed", "timeout"}}
        /\ answers' = IF out[stop] = "ok" THEN Append(answers, stop) ELSE answers
        /\ readAt' = stop + 1
  BY DEF Read
<1>2. /\ phase = "read"
      /\ UNCHANGED <<stream, phase, place, result, aborted, out, grace, judge, gone, response,
                     used, tries, cap, waived, paid>>
  BY DEF Read, budgetVars
<1>3. readAt \in 1 .. N + 1 /\ stop \in 1 .. N /\ stop \in Nat /\ readAt \in Nat
  BY <1>1, Constants DEF FusionInv, TypeOK
<1>4. readAt' \in 1 .. N + 1
  BY <1>1, <1>3, Constants
<1>5. blamed' \subseteq Panel
  <2>1. \A i \in readAt .. stop : i \in Panel
    BY <1>3, Constants DEF Panel
  <2> QED
    BY <1>1, <2>1 DEF FusionInv, TypeOK
<1>6. answers' \in Seq(Panel) /\ Len(answers') >= Len(answers) /\ Len(answers) \in Nat
        /\ (out[stop] = "ok" => Len(answers') > 0)
  <2>1. answers \in Seq(Panel) /\ Len(answers) \in Nat /\ stop \in Panel
    BY <1>3 DEF FusionInv, TypeOK, Panel
  <2>2. CASE out[stop] = "ok"
    <3>1. answers' = Append(answers, stop)
      BY <1>1, <2>2
    <3>2. answers' \in Seq(Panel) /\ Len(answers') = Len(answers) + 1
      BY <2>1, <3>1
    <3> QED
      BY <2>1, <3>2
  <2>3. CASE out[stop] # "ok"
    BY <1>1, <2>1, <2>3
  <2> QED
    BY <2>2, <2>3
<1>7. TypeOK'
  BY <1>2, <1>4, <1>5, <1>6 DEF FusionInv, TypeOK
<1>8. CountInv' /\ StragglersAborted' /\ AnswerNotLost'
  BY <1>2 DEF FusionInv, CountInv, StragglersAborted, AnswerNotLost, Running
<1>9. ASSUME NEW i \in paid PROVE out[i] = "ok" /\ (i < stop + 1 => Len(answers') > 0)
  <2>1. i \in Panel /\ i \in Nat /\ out[i] = "ok" /\ (i < readAt => Len(answers) > 0)
    BY <1>2, Constants DEF FusionInv, TypeOK, ReadInv
  <2>2. CASE i < readAt
    <3>1. Len(answers) > 0
      BY <2>1, <2>2
    <3>2. Len(answers') \in Nat
      BY <1>6
    <3> QED
      BY <1>6, <2>1, <3>1, <3>2
  <2>3. CASE ~(i < readAt) /\ i < stop + 1
    <3>1. i \notin readAt .. stop - 1
      BY <1>1, <2>1
    <3>2. i = stop
      BY <1>3, <2>1, <2>3, <3>1
    <3> QED
      BY <1>6, <2>1, <3>2
  <2> QED
    BY <2>1, <2>2, <2>3
<1>10. ReadInv'
  BY <1>1, <1>2, <1>9 DEF ReadInv
<1> QED
  BY <1>7, <1>8, <1>10 DEF FusionInv

---------------------------------------------------------------------------
(* The chain of judges and the response.                                    *)

\* What happens after the panel starts no member's run again.
LEMMA LaterKeepsAborts ==
  ASSUME FusionInv, phase # "panel", aborted' = aborted,
         \A i \in Panel : place'[i] = place[i]
  PROVE  StragglersAborted'
  BY DEF FusionInv, StragglersAborted, Running

LEMMA StartsOther ==
  ASSUME FusionInv, NEW r \in Runs, r \notin Panel, place' = [place EXCEPT ![r] = "select"]
  PROVE  /\ place' \in [Runs -> {"idle", "select", "upstream", "settled"}]
         /\ \A i \in Panel : place'[i] = place[i]
  BY Constants DEF FusionInv, TypeOK

LEMMA DegradeKeepsInv ==
  ASSUME FusionInv, Degrade
  PROVE  FusionInv'
<1>1. /\ phase = "read" /\ readAt > N
      /\ UNCHANGED <<stream, result, aborted, out, grace, readAt, answers, blamed, judge, gone,
                     used, tries, cap, waived, paid>>
  BY DEF Degrade, readVars, budgetVars
<1>2. Len(answers) \in Nat
  BY DEF FusionInv, TypeOK
<1>3. paid # {} => Len(answers) > 0
  <2> SUFFICES ASSUME NEW i \in paid PROVE Len(answers) > 0
    OBVIOUS
  <2>1. i \in Panel /\ i \in Nat /\ i <= N
    BY Constants DEF FusionInv, TypeOK, Panel
  <2>2. i < readAt
    BY <1>1, <2>1, Constants DEF FusionInv, TypeOK
  <2> QED
    BY <1>1, <2>2 DEF FusionInv, ReadInv
<1>4. /\ place' \in [Runs -> {"idle", "select", "upstream", "settled"}]
      /\ \A i \in Panel : place'[i] = place[i]
  <2>1. place' = place \/ place' = [place EXCEPT ![Reanswer] = "select"]
    BY DEF Degrade
  <2> QED
    BY <2>1, StartsOther, Constants DEF FusionInv, TypeOK
<1>5. \/ phase' = "done" /\ response' = "unavailable" /\ Len(answers) = 0
      \/ phase' = "done" /\ response' = "panel"
      \/ phase' = "reanswer" /\ stream /\ response' = response
      \/ phase' = "judge" /\ response' = response
  BY DEF Degrade, Respond
<1>6. TypeOK'
  BY <1>1, <1>4, <1>5 DEF FusionInv, TypeOK
<1>7. CountInv' /\ ReadInv'
  BY <1>1, <1>5 DEF FusionInv, CountInv, ReadInv
<1>8. StragglersAborted'
  BY <1>1, <1>4, LaterKeepsAborts
<1>9. AnswerNotLost'
  BY <1>1, <1>2, <1>3, <1>5 DEF AnswerNotLost
<1> QED
  BY <1>6, <1>7, <1>8, <1>9 DEF FusionInv

LEMMA JudgeRuns ==
  ASSUME FusionInv, judge <= ChainLength
  PROVE  JudgeRun \in Runs /\ JudgeRun \notin Panel
  BY Constants DEF FusionInv, TypeOK, JudgeRun, Runs, Reanswer, Panel

LEMMA JudgesKeepInv ==
  ASSUME FusionInv, StartJudge \/ JudgeDone \/ JudgeTimeout \/ JudgesFailed \/ ReanswerDone
  PROVE  FusionInv'
<1>1. /\ phase \in {"judge", "judging", "reanswer"}
      /\ UNCHANGED <<stream, result, aborted, out, grace, readAt, answers, blamed, gone,
                     used, tries, cap, waived, paid>>
  BY DEF StartJudge, JudgeDone, JudgeTimeout, JudgesFailed, ReanswerDone, readVars, budgetVars
<1>2. /\ place' \in [Runs -> {"idle", "select", "upstream", "settled"}]
      /\ \A i \in Panel : place'[i] = place[i]
  <2>1. \/ place' = place
        \/ judge <= ChainLength /\ place' = [place EXCEPT ![JudgeRun] = "select"]
        \/ place' = [place EXCEPT ![Reanswer] = "select"]
    BY DEF StartJudge, JudgeDone, JudgeTimeout, JudgesFailed, ReanswerDone
  <2> QED
    BY <2>1, StartsOther, JudgeRuns, Constants DEF FusionInv, TypeOK
<1>3. \/ phase' = "judging" /\ response' = response /\ judge' = judge /\ judge <= ChainLength
      \/ phase' = "judge" /\ response' = response /\ judge' = judge + 1 /\ judge <= ChainLength
      \/ phase' = "reanswer" /\ response' = response /\ judge' = judge /\ stream
      \/ phase' = "done" /\ judge' = judge /\ response' \in {"judge", "panel"}
      \/ phase' = "done" /\ judge' = judge /\ response' = "gone" /\ gone
      \/ phase' = "done" /\ judge' = judge /\ response' \in {"stream", "failed"} /\ stream
  BY DEF StartJudge, JudgeDone, JudgeTimeout, JudgesFailed, ReanswerDone, Respond,
         FusionInv, CountInv, ReadInv
<1>4. judge' \in 1 .. ChainLength + 1
  BY <1>3, Constants DEF FusionInv, TypeOK
<1>5. TypeOK'
  BY <1>1, <1>2, <1>3, <1>4 DEF FusionInv, TypeOK
<1>6. CountInv' /\ ReadInv'
  BY <1>1, <1>3 DEF FusionInv, CountInv, ReadInv
<1>7. StragglersAborted'
  BY <1>1, <1>2, LaterKeepsAborts
<1>8. AnswerNotLost'
  BY <1>1, <1>3 DEF AnswerNotLost
<1> QED
  BY <1>5, <1>6, <1>7, <1>8 DEF FusionInv

LEMMA GoneKeepsInv ==
  ASSUME FusionInv, ClientGone
  PROVE  FusionInv'
  BY DEF ClientGone, FusionInv, TypeOK, CountInv, StragglersAborted, ReadInv, AnswerNotLost,
         Running, readVars, budgetVars

---------------------------------------------------------------------------
(* The judges' share of the budget.                                         *)

\* What the handler charges to the shares, in units: unit k of member i is spent
\* once i has made k attempts and its share holds k.  An exempted retry beyond the
\* share adds no unit.
Units(t, c) == {x \in Panel \X (1 .. Budget) : x[2] <= t[x[1]] /\ x[2] <= c[x[1]]}

\* The share of the first to ask; later shares are of a smaller remainder.
FirstShare == Budget \div (N + 1)

\* The panel is under way or has just been read: no judge has started.
BeforeJudges == phase \in {"panel", "read"} \/ (phase = "judge" /\ judge = 1)

\* No share exceeds the first one, and what was spent before the judges, but for
\* the exempted retries, is covered by units of the members' shares.
ShareInv ==
  N + 1 <= Budget =>
    /\ \A i \in Panel : cap[i] <= FirstShare
    /\ BeforeJudges =>
         /\ \A r \in Runs \ Panel : place[r] = "idle"
         /\ used - waived <= Cardinality(Units(tries, cap))

LEMMA DivMonotone ==
  ASSUME NEW a \in Nat, NEW b \in Nat, NEW n \in Nat \ {0}, a <= b
  PROVE  a \div n <= b \div n /\ a \div n \in Nat
<1> DEFINE p == a \div n
           q == b \div n
<1>1. p \in Int /\ q \in Int /\ n * p <= a /\ a < n * p + n /\ n * q <= b /\ b < n * q + n
  OBVIOUS
<1> HIDE DEF p, q
<1>2. p < q + 1
  <2> SUFFICES ASSUME p >= q + 1 PROVE FALSE
    BY <1>1
  <2>1. n * p >= n * (q + 1)
    BY <1>1
  <2>2. n * (q + 1) = n * q + n
    BY <1>1
  <2> QED
    BY <1>1, <2>1, <2>2
<1>3. p >= 0
  <2> SUFFICES ASSUME p <= -1 PROVE FALSE
    BY <1>1
  <2>1. n * p <= n * (-1)
    BY <1>1
  <2> QED
    BY <1>1, <2>1
<1> QED
  BY <1>1, <1>2, <1>3 DEF p, q

\* n equal shares of n + 1 leave something over.
LEMMA SharesLeaveRest ==
  ASSUME NEW b \in Nat, NEW n \in Nat, n + 1 <= b
  PROVE  /\ b \div (n + 1) \in Nat /\ b \div (n + 1) >= 1 /\ b \div (n + 1) <= b
         /\ n * (b \div (n + 1)) < b
<1> DEFINE q == b \div (n + 1)
<1>1. q \in Int /\ (n + 1) * q <= b /\ b < (n + 1) * q + (n + 1)
  OBVIOUS
<1> HIDE DEF q
<1>2. (n + 1) * q = n * q + q
  BY <1>1
<1>3. q >= 1
  <2> SUFFICES ASSUME q <= 0 PROVE FALSE
    BY <1>1
  <2>1. (n + 1) * q <= (n + 1) * 0
    BY <1>1
  <2> QED
    BY <1>1, <2>1
<1>4. n * q >= n * 0
  BY <1>1, <1>3
<1> QED
  BY <1>1, <1>2, <1>3, <1>4 DEF q

LEMMA UnitsFinite ==
  ASSUME NEW t, NEW c
  PROVE  IsFiniteSet(Units(t, c)) /\ Cardinality(Units(t, c)) \in Nat
<1>1. IsFiniteSet(Panel) /\ IsFiniteSet(1 .. Budget)
  BY FS_Interval, Constants DEF Panel
<1>2. IsFiniteSet(Panel \X (1 .. Budget))
  BY <1>1, FS_Product
<1>3. Units(t, c) \in SUBSET (Panel \X (1 .. Budget))
  BY DEF Units
<1>4. IsFiniteSet(Units(t, c))
  BY <1>2, <1>3, FS_Subset
<1> QED
  BY <1>4, FS_CardinalityType

\* Attempts and shares that grow take no unit away.
LEMMA UnitsGrow ==
  ASSUME NEW t \in [Runs -> Nat], NEW c \in [Runs -> Nat],
         NEW t2 \in [Runs -> Nat], NEW c2 \in [Runs -> Nat],
         \A i \in Panel : t[i] <= t2[i] /\ c[i] <= c2[i]
  PROVE  Units(t, c) \in SUBSET Units(t2, c2) /\ Cardinality(Units(t, c)) <= Cardinality(Units(t2, c2))
<1>1. ASSUME NEW x \in Units(t, c) PROVE x \in Units(t2, c2)
  <2>1. x \in Panel \X (1 .. Budget) /\ x[1] \in Panel /\ x[2] \in Nat
        /\ x[2] <= t[x[1]] /\ x[2] <= c[x[1]]
    BY Constants DEF Units
  <2>2. x[1] \in Runs
    BY <2>1, Constants
  <2>3. /\ t[x[1]] \in Nat /\ t2[x[1]] \in Nat /\ c[x[1]] \in Nat /\ c2[x[1]] \in Nat
        /\ t[x[1]] <= t2[x[1]] /\ c[x[1]] <= c2[x[1]]
    BY <2>1, <2>2
  <2>4. x[2] <= t2[x[1]] /\ x[2] <= c2[x[1]]
    BY <2>1, <2>3
  <2> QED
    BY <2>1, <2>4 DEF Units
<1>2. Units(t, c) \in SUBSET Units(t2, c2)
  BY <1>1
<1> QED
  BY <1>2, UnitsFinite, FS_Subset

\* An attempt within the share is a unit more.
LEMMA UnitsAdd ==
  ASSUME NEW t \in [Runs -> Nat], NEW c \in [Runs -> Nat],
         NEW t2 \in [Runs -> Nat], NEW c2 \in [Runs -> Nat],
         \A i \in Panel : t[i] <= t2[i] /\ c[i] <= c2[i],
         NEW r \in Panel, t2[r] = t[r] + 1, t2[r] <= c2[r], t2[r] <= Budget
  PROVE  Cardinality(Units(t, c)) + 1 <= Cardinality(Units(t2, c2))
<1> DEFINE u == <<r, t2[r]>>
<1>1. r \in Runs /\ t[r] \in Nat /\ t2[r] \in Nat /\ t2[r] \in 1 .. Budget
  BY Constants
<1>2. u \in Units(t2, c2) /\ u \notin Units(t, c)
  BY <1>1 DEF Units
<1>3. Units(t, c) \in SUBSET Units(t2, c2)
  BY UnitsGrow
<1>4. (Units(t, c) \cup {u}) \in SUBSET Units(t2, c2)
  BY <1>2, <1>3
<1> HIDE DEF u
<1>5. Cardinality(Units(t, c) \cup {u}) = Cardinality(Units(t, c)) + 1
  BY <1>2, UnitsFinite, FS_AddElement
<1>6. Cardinality(Units(t, c) \cup {u}) <= Cardinality(Units(t2, c2))
  BY <1>4, UnitsFinite, FS_Subset
<1> QED
  BY <1>5, <1>6

\* All units together are less than the budget, for each member has at most the
\* first share.
LEMMA UnitsLeaveRest ==
  ASSUME FusionInv, N + 1 <= Budget, \A i \in Panel : cap[i] <= FirstShare
  PROVE  Cardinality(Units(tries, cap)) < Budget
<1>1. FirstShare \in Nat /\ FirstShare >= 1 /\ N * FirstShare < Budget
  BY Constants, SharesLeaveRest DEF FirstShare
<1>2. IsFiniteSet(Panel) /\ Cardinality(Panel) = N
  BY FS_Interval, Constants DEF Panel
<1>3. IsFiniteSet(1 .. FirstShare) /\ Cardinality(1 .. FirstShare) = FirstShare
  BY <1>1, FS_Interval
<1>4. IsFiniteSet(Panel \X (1 .. FirstShare))
      /\ Cardinality(Panel \X (1 .. FirstShare)) = N * FirstShare
  BY <1>2, <1>3, FS_Product
<1>5. Units(tries, cap) \in SUBSET (Panel \X (1 .. FirstShare))
  <2> SUFFICES ASSUME NEW x \in Units(tries, cap) PROVE x \in Panel \X (1 .. FirstShare)
    OBVIOUS
  <2>1. x \in Panel \X (1 .. Budget) /\ x[1] \in Panel /\ x[2] \in 1 .. Budget
        /\ x[2] <= cap[x[1]]
    BY DEF Units
  <2>2. cap[x[1]] \in Nat /\ cap[x[1]] <= FirstShare
    BY <2>1, Constants DEF FusionInv, TypeOK
  <2>3. x[2] \in 1 .. FirstShare
    BY <1>1, <2>1, <2>2, Constants
  <2> QED
    BY <2>1, <2>3
<1>6. Cardinality(Units(tries, cap)) <= N * FirstShare
  BY <1>4, <1>5, FS_Subset
<1> QED
  BY <1>1, <1>6, UnitsFinite, Constants

LEMMA InitShareInv == Init => ShareInv
<1> SUFFICES ASSUME Init, N + 1 <= Budget PROVE ShareInv
  BY DEF ShareInv
<1>1. FirstShare \in Nat
  BY Constants, SharesLeaveRest DEF FirstShare
<1>2. \A i \in Panel : cap[i] <= FirstShare
  BY <1>1, Constants DEF Init
<1>3. \A r \in Runs \ Panel : place[r] = "idle"
  BY DEF Init
<1>4. used - waived <= Cardinality(Units(tries, cap))
  BY UnitsFinite DEF Init
<1> QED
  BY <1>2, <1>3, <1>4 DEF ShareInv

\* A member's share is at most the first.
LEMMA ShareBound ==
  ASSUME used \in 0 .. Budget, N + 1 <= Budget
  PROVE  Share \in Nat /\ Share <= FirstShare
<1>1. Budget - used \in Nat /\ Budget - used <= Budget /\ N + 1 \in Nat \ {0} /\ Budget \in Nat
  BY Constants
<1>2. (Budget - used) \div (N + 1) <= FirstShare
  BY <1>1, DivMonotone DEF FirstShare
<1>3. FirstShare >= 1 /\ FirstShare \in Nat
  BY Constants, SharesLeaveRest DEF FirstShare
<1>4. (Budget - used) \div (N + 1) \in Nat
  BY <1>1, DivMonotone
<1> QED
  BY <1>2, <1>3, <1>4 DEF Share

\* A step of a panel member charges a unit for what it spends.
LEMMA RunKeepsShare ==
  ASSUME NEW r \in Runs, FusionInv, FusionInv', ShareInv, N + 1 <= Budget, Run(r)
  PROVE  ShareInv'
<1> DEFINE c == IF cap[r] = 0 THEN Share ELSE cap[r]
<1>1. RunChange(r)
  BY RunChanges
<1>2. /\ tries \in [Runs -> Nat] /\ cap \in [Runs -> Nat] /\ used \in 0 .. Budget
      /\ tries' \in [Runs -> Nat] /\ cap' \in [Runs -> Nat] /\ used \in Nat /\ waived \in Nat
      /\ used' \in Nat /\ waived' \in Nat
  BY Constants DEF FusionInv, TypeOK
<1>3. Share \in Nat /\ Share <= FirstShare /\ FirstShare \in Nat /\ FirstShare <= Budget
  BY <1>2, ShareBound, SharesLeaveRest, Constants DEF FirstShare
<1>4. BeforeJudges' = BeforeJudges /\ phase' = phase
  BY <1>1 DEF RunChange, BeforeJudges
<1>5. c \in Nat /\ (r \in Panel => c <= FirstShare) /\ cap[r] <= c
  BY <1>2, <1>3 DEF ShareInv
<1>6. /\ cap' = cap \/ cap' = [cap EXCEPT ![r] = c]
      /\ \/ UNCHANGED <<used, tries, waived>>
         \/ /\ used' = used + 1 /\ UNCHANGED waived
            /\ tries' = [tries EXCEPT ![r] = @ + 1] /\ tries[r] < c
            /\ cap' = [cap EXCEPT ![r] = c]
         \/ used' = used + 1 /\ waived' = waived + 1 /\ tries' = [tries EXCEPT ![r] = @ + 1]
  <2>1. CASE Attempt(r)
    <3>1. CASE used >= Budget
      BY <2>1, <3>1 DEF Attempt, budgetVars
    <3>2. CASE ~(used >= Budget) /\ tries[r] >= c
      BY <2>1, <3>2 DEF Attempt
    <3>3. CASE ~(used >= Budget) /\ ~(tries[r] >= c)
      <4>1. tries[r] < c
        BY <1>2, <1>5, <3>3
      <4> QED
        BY <2>1, <3>3, <4>1 DEF Attempt
    <3> QED
      BY <3>1, <3>2, <3>3
  <2>2. CASE Answered(r)
    BY <2>2 DEF Answered, budgetVars
  <2>3. CASE NextAccount(r)
    BY <2>3 DEF NextAccount, budgetVars
  <2>4. CASE RefreshedRetry(r)
    BY <2>4 DEF RefreshedRetry
  <2> QED
    BY <2>1, <2>2, <2>3, <2>4 DEF Run
<1> HIDE DEF c
<1>7. \A i \in Panel : cap'[i] <= FirstShare
  BY <1>2, <1>5, <1>6, Constants DEF ShareInv
<1>8. ASSUME BeforeJudges PROVE \A q \in Runs \ Panel : place'[q] = "idle"
  BY <1>1, <1>8 DEF ShareInv, RunChange
<1>9. ASSUME BeforeJudges PROVE used' - waived' <= Cardinality(Units(tries', cap'))
  <2>1. r \in Panel
    BY <1>1, <1>9 DEF ShareInv, RunChange
  <2>2. /\ used - waived <= Cardinality(Units(tries, cap))
        /\ Cardinality(Units(tries, cap)) \in Nat /\ Cardinality(Units(tries', cap')) \in Nat
    BY <1>9, UnitsFinite DEF ShareInv
  <2>3. \A i \in Panel : tries[i] <= tries'[i] /\ cap[i] <= cap'[i]
    BY <1>2, <1>5, <1>6, Constants
  <2>4. CASE UNCHANGED <<used, tries, waived>>
    BY <1>2, <2>2, <2>3, <2>4, UnitsGrow
  <2>5. CASE /\ used' = used + 1 /\ UNCHANGED waived
             /\ tries' = [tries EXCEPT ![r] = @ + 1] /\ tries[r] < c
             /\ cap' = [cap EXCEPT ![r] = c]
    <3>1. tries'[r] = tries[r] + 1 /\ tries'[r] <= cap'[r] /\ tries'[r] <= Budget
      BY <1>2, <1>3, <1>5, <2>1, <2>5, Constants
    <3>2. Cardinality(Units(tries, cap)) + 1 <= Cardinality(Units(tries', cap'))
      BY <1>2, <2>1, <2>3, <3>1, UnitsAdd
    <3> QED
      BY <1>2, <2>2, <2>5, <3>2
  <2>6. CASE used' = used + 1 /\ waived' = waived + 1 /\ tries' = [tries EXCEPT ![r] = @ + 1]
    <3>1. Cardinality(Units(tries, cap)) <= Cardinality(Units(tries', cap'))
      BY <1>2, <2>3, UnitsGrow
    <3>2. used' - waived' = used - waived /\ used - waived \in Int
      BY <1>2, <2>6
    <3> QED
      BY <2>2, <3>1, <3>2
  <2> QED
    BY <1>6, <2>4, <2>5, <2>6
<1> QED
  BY <1>4, <1>7, <1>8, <1>9 DEF ShareInv

\* Nothing else spends, and no judge starts before the first one's turn is over.
LEMMA OthersKeepShare ==
  ASSUME FusionInv, ShareInv, N + 1 <= Budget,
         \/ AllSettled \/ GraceOver \/ HardTimeout \/ Read \/ Degrade \/ StartJudge \/ JudgeDone
         \/ JudgeTimeout \/ JudgesFailed \/ ReanswerDone \/ ClientGone \/ UNCHANGED vars
  PROVE  ShareInv'
<1>1. UNCHANGED <<used, tries, cap, waived>>
  BY DEF AllSettled, GraceOver, HardTimeout, Decide, Read, Degrade, StartJudge, JudgeDone,
         JudgeTimeout, JudgesFailed, ReanswerDone, ClientGone, vars, budgetVars
<1>2. judge \in Nat /\ judge >= 1
  BY Constants DEF FusionInv, TypeOK
<1>3. BeforeJudges' => BeforeJudges /\ place' = place
  <2>1. CASE AllSettled \/ GraceOver \/ HardTimeout
    BY <2>1 DEF AllSettled, GraceOver, HardTimeout, Decide, BeforeJudges
  <2>2. CASE Read \/ ClientGone
    BY <2>2 DEF Read, ClientGone, BeforeJudges
  <2>3. CASE UNCHANGED vars
    BY <2>3 DEF vars, BeforeJudges
  <2>4. CASE Degrade
    BY <2>4 DEF Degrade, Respond, BeforeJudges
  <2>5. CASE StartJudge \/ JudgesFailed \/ ReanswerDone
    BY <2>5 DEF StartJudge, JudgesFailed, ReanswerDone, Respond, BeforeJudges
  <2>6. CASE JudgeDone \/ JudgeTimeout
    BY <1>2, <2>6 DEF JudgeDone, JudgeTimeout, Respond, BeforeJudges
  <2> QED
    BY <2>1, <2>2, <2>3, <2>4, <2>5, <2>6
<1> QED
  BY <1>1, <1>3 DEF ShareInv

---------------------------------------------------------------------------
(* The theorems.                                                            *)

\* The whole invariant holds in every reachable state.
THEOREM FusionInvariant == Spec => []FusionInv
<1>1. FusionInv /\ [Next]_vars => FusionInv'
  <2> SUFFICES ASSUME FusionInv, [Next]_vars PROVE FusionInv'
    OBVIOUS
  <2>1. ASSUME NEW r \in Runs, Run(r) PROVE FusionInv'
    BY <2>1, RunKeepsInv
  <2>2. CASE AllSettled \/ GraceOver \/ HardTimeout
    BY <2>2, DecideKeepsInv
  <2>3. CASE Read
    BY <2>3, ReadKeepsInv
  <2>4. CASE Degrade
    BY <2>4, DegradeKeepsInv
  <2>5. CASE StartJudge \/ JudgeDone \/ JudgeTimeout \/ JudgesFailed \/ ReanswerDone
    BY <2>5, JudgesKeepInv
  <2>6. CASE ClientGone
    BY <2>6, GoneKeepsInv
  <2>7. CASE UNCHANGED vars
    BY <2>7 DEF vars, FusionInv, TypeOK, CountInv, StragglersAborted, ReadInv, AnswerNotLost,
                Running
  <2> QED
    BY <2>1, <2>2, <2>3, <2>4, <2>5, <2>6, <2>7 DEF Next, Handler, Timers
<1> QED
  BY InitFusionInv, <1>1, PTL DEF Spec

\* Types; in particular the attempts of panel, judges and retries together never
\* exceed the rotation budget (combo.js, handleFusionChat).
THEOREM TypeCorrect == Spec => []TypeOK
<1>1. FusionInv => TypeOK
  BY DEF FusionInv
<1> QED
  BY <1>1, FusionInvariant, PTL

\* combo.js, handleFusionChat: from the decision on, every member whose upstream
\* still runs has its signal aborted.
THEOREM NoStraggler == Spec => []StragglersAborted
<1>1. FusionInv => StragglersAborted
  BY DEF FusionInv
<1> QED
  BY <1>1, FusionInvariant, PTL

\* combo.js, handleFusionChat: an answer that was there at the decision is judged
\* or returned.
THEOREM NoAnswerDropped == Spec => []AnswerNotLost
<1>1. FusionInv => AnswerNotLost
  BY DEF FusionInv
<1> QED
  BY <1>1, FusionInvariant, PTL

\* chat.js:579-582 and combo.js, handleFusionChat: with an attempt for every
\* sharer the panel leaves the first judge an attempt, whatever the size of the
\* panel and the budget, in whatever order members, retries and timeouts spend.
THEOREM JudgeGetsShare == Spec => []JudgeHasShare
<1>1. FusionInv /\ FusionInv' /\ ShareInv /\ [Next]_vars => ShareInv'
  <2> SUFFICES ASSUME FusionInv, FusionInv', ShareInv, [Next]_vars, N + 1 <= Budget
               PROVE  ShareInv'
    BY DEF ShareInv
  <2>1. ASSUME NEW r \in Runs, Run(r) PROVE ShareInv'
    BY <2>1, RunKeepsShare
  <2>2. CASE ~(\E r \in Runs : Run(r))
    BY <2>2, OthersKeepShare DEF Next, Handler, Timers
  <2> QED
    BY <2>1, <2>2
<1>2. FusionInv /\ ShareInv => JudgeHasShare
  <2> SUFFICES ASSUME FusionInv, ShareInv, N + 1 <= Budget, phase = "judge", judge = 1
               PROVE  used - waived < Budget
    BY DEF JudgeHasShare
  <2>1. used - waived <= Cardinality(Units(tries, cap)) /\ \A i \in Panel : cap[i] <= FirstShare
    BY DEF ShareInv, BeforeJudges
  <2>2. Cardinality(Units(tries, cap)) < Budget
    BY <2>1, UnitsLeaveRest
  <2>3. used \in Nat /\ waived \in Nat /\ Budget \in Nat
    BY Constants DEF FusionInv, TypeOK
  <2> QED
    BY <2>1, <2>2, <2>3, UnitsFinite
<1> QED
  BY InitShareInv, <1>1, <1>2, FusionInvariant, PTL DEF Spec
=============================================================================
