----------------------------- MODULE ArenaProofs -----------------------------
(***************************************************************************)
(* What holds of every AI/ML round, for any workers and any timing: its    *)
(* rows are well formed, the verdict and the evaluation agree, a blank     *)
(* answer never wins, and two fresh judges never work at the same time.    *)
(***************************************************************************)
EXTENDS Arena, TLAPS

(* The parameters, in the form the leaves use.                             *)
LEMMA TimesAreNatural ==
  /\ StartsAt \in Nat /\ AnswerBy \in Nat /\ StaleClaim \in Nat
  /\ RetryDelay \in Nat /\ BudgetDelay \in Nat
BY TimesAssumption

-----------------------------------------------------------------------------
(* Type correctness.                                                       *)

(* Ending a round leaves well-formed match and record rows.                *)
LEMMA FinishIsTyped ==
  ASSUME TypeOK, NEW reason \in EndReason, NEW winner \in Players \cup {None},
         Finish(reason, winner)
  PROVE  match' \in MatchRow /\ records' \in [Players -> [wins : Nat, losses : Nat]]
<1>1. match' \in MatchRow
  BY DEF Finish, MatchRow, MatchState
<1>2. \A u \in Players :
        /\ [records[u] EXCEPT !.wins = @ + 1] \in [wins : Nat, losses : Nat]
        /\ [records[u] EXCEPT !.losses = @ + 1] \in [wins : Nat, losses : Nat]
        /\ records[u] \in [wins : Nat, losses : Nat]
  BY DEF TypeOK
<1>3. records' \in [Players -> [wins : Nat, losses : Nat]]
  BY <1>2 DEF Finish, Booked
<1> QED BY <1>1, <1>3

(* Outcomes of every kind of ending are outcomes.                          *)
LEMMA OutcomesAreTyped ==
  ASSUME NEW u \in Players, NEW winner, NEW reason
  PROVE  /\ OutcomeOf(reason, winner, u) \in
              {"NONE", "WIN", "LOSS", "DRAW", "NO_CONTEST", "CANCELLED"}
         /\ JudgedOutcome(winner, u) \in
              {"NONE", "WIN", "LOSS", "DRAW", "NO_CONTEST", "CANCELLED"}
BY DEF OutcomeOf, JudgedOutcome

(* Creating the evaluation keeps the types.                                *)
LEMMA PrepareIsTyped ==
  ASSUME TypeOK, NEW w \in Workers, NEW ans \in [Players -> Answers],
         NEW call \in BOOLEAN, PrepareEvaluation(w, ans, call), UNCHANGED now
  PROVE  TypeOK'
<1>1. /\ now \in Nat /\ match \in MatchRow /\ eval \in EvalRow
      /\ worker \in [Workers -> WorkerRow]
      /\ outcome \in [Players -> {"NONE", "WIN", "LOSS", "DRAW", "NO_CONTEST", "CANCELLED"}]
      /\ records \in [Players -> [wins : Nat, losses : Nat]]
  BY DEF TypeOK
<1>2. answers' \in [Players -> Answers] /\ now' \in Nat
  BY <1>1 DEF PrepareEvaluation
<1>3. CASE \E u \in Players : ans[u] = "NONE" /\ UNCHANGED <<match, eval, worker, outcome, records>>
  BY <1>1, <1>2, <1>3 DEF TypeOK
<1>4. CASE /\ \E a \in Players : eval' = [eval EXCEPT !.status = "SKIPPED", !.answerA = a]
           /\ Finish(IF \E u \in Players : ans[u] = "MISSED"
                       THEN "ANSWER_TIMEOUT" ELSE "NO_CONTEST", None)
           /\ outcome' = [u \in Players |-> "NO_CONTEST"]
           /\ UNCHANGED worker
  <2>1. eval' \in EvalRow
    BY <1>1, <1>4 DEF EvalRow, EvalStatus
  <2>2. PICK reason \in EndReason : Finish(reason, None)
    BY <1>4 DEF EndReason
  <2>3. match' \in MatchRow /\ records' \in [Players -> [wins : Nat, losses : Nat]]
    BY <2>2, FinishIsTyped
  <2> QED BY <1>1, <1>2, <1>4, <2>1, <2>3 DEF TypeOK
<1>5. CASE /\ \E a \in Players : eval' = [eval EXCEPT !.status = "PENDING", !.answerA = a]
           /\ match' = [match EXCEPT !.state = "JUDGING"]
           /\ worker' = IF call THEN [worker EXCEPT ![w] = Called] ELSE worker
           /\ UNCHANGED <<outcome, records>>
  <2>1. eval' \in EvalRow
    BY <1>1, <1>5 DEF EvalRow, EvalStatus
  <2>2. match' \in MatchRow
    BY <1>1, <1>5 DEF MatchRow, MatchState
  <2>3. worker' \in [Workers -> WorkerRow]
    BY <1>1, <1>5 DEF WorkerRow, Called, Idle
  <2> QED BY <1>1, <1>2, <1>5, <2>1, <2>2, <2>3 DEF TypeOK
<1> QED BY <1>3, <1>4, <1>5 DEF PrepareEvaluation

(* The initial rows are well formed.                                       *)
LEMMA InitIsTyped == Init => TypeOK
BY DEF Init, TypeOK, MatchRow, MatchState, EvalRow, EvalStatus, WorkerRow, Idle, Answers

(* Every step keeps every row well formed.                                 *)
LEMMA NextKeepsTypes == TypeOK /\ [Next]_vars => TypeOK'
<1> SUFFICES ASSUME TypeOK, [Next]_vars PROVE TypeOK'
  OBVIOUS
<1>r. /\ now \in Nat /\ match \in MatchRow /\ eval \in EvalRow
      /\ answers \in [Players -> Answers]
      /\ worker \in [Workers -> WorkerRow]
      /\ outcome \in [Players -> {"NONE", "WIN", "LOSS", "DRAW", "NO_CONTEST", "CANCELLED"}]
      /\ records \in [Players -> [wins : Nat, losses : Nat]]
  BY DEF TypeOK
<1>i. Idle \in WorkerRow /\ Called \in WorkerRow
  BY DEF Idle, Called, WorkerRow
<1>1. CASE Activate
  <2>1. match' \in MatchRow
    BY <1>r, <1>1 DEF Activate, MatchRow, MatchState
  <2> QED BY <1>r, <1>1, <2>1 DEF Activate, TypeOK
<1>2. ASSUME NEW w \in Workers, NEW u \in Players, NEW a \in {"TEXT", "BLANK"},
             SubmitAnswer(w, u, a)
      PROVE  TypeOK'
  <2>1. [answers EXCEPT ![u] = a] \in [Players -> Answers]
    BY <1>r DEF Answers
  <2> QED BY <1>2, <2>1, PrepareIsTyped DEF SubmitAnswer
<1>3. ASSUME NEW w \in Workers, ProcessAnswerDeadline(w)
      PROVE  TypeOK'
  <2> DEFINE filled == [u \in Players |-> IF answers[u] = "NONE" THEN "MISSED" ELSE answers[u]]
  <2>1. filled \in [Players -> Answers]
    BY <1>r DEF Answers
  <2>2. PICK call \in BOOLEAN : PrepareEvaluation(w, filled, call) /\ UNCHANGED now
    BY <1>3 DEF ProcessAnswerDeadline
  <2> HIDE DEF filled
  <2> QED BY <2>1, <2>2, PrepareIsTyped
<1>4. ASSUME NEW reason \in EndReason, NEW winner \in Players \cup {None},
             EngineEnds(reason, winner)
      PROVE  TypeOK'
  <2>1. match' \in MatchRow /\ records' \in [Players -> [wins : Nat, losses : Nat]]
    BY <1>4, FinishIsTyped DEF EngineEnds
  <2>2. outcome' \in [Players -> {"NONE", "WIN", "LOSS", "DRAW", "NO_CONTEST", "CANCELLED"}]
    BY <1>4, OutcomesAreTyped DEF EngineEnds
  <2> QED BY <1>r, <1>4, <2>1, <2>2 DEF EngineEnds, TypeOK
<1>5. ASSUME NEW w \in Workers,
             RecoverEvaluation(w) \/ RetryEvaluation(w) \/ CrashWorker(w)
      PROVE  TypeOK'
  <2>1. worker' \in [Workers -> WorkerRow]
    BY <1>r, <1>i, <1>5 DEF RecoverEvaluation, RetryEvaluation, CrashWorker
  <2> QED BY <1>r, <1>5, <2>1 DEF RecoverEvaluation, RetryEvaluation, CrashWorker, TypeOK
<1>6. ASSUME NEW w \in Workers, ClaimEvaluation(w)
      PROVE  TypeOK'
  <2>1. eval.claim \in Nat /\ eval.claim + 1 \in Nat
    BY <1>r DEF EvalRow
  <2>2. worker' \in [Workers -> WorkerRow]
    BY <1>r, <1>i, <1>6, <2>1 DEF ClaimEvaluation, WorkerRow
  <2>3. eval' \in EvalRow
    BY <1>r, <1>6, <2>1 DEF ClaimEvaluation, EvalRow, EvalStatus
  <2> QED BY <1>r, <1>6, <2>2, <2>3 DEF ClaimEvaluation, TypeOK
<1>7. ASSUME NEW w \in Workers, PersistSuccess(w)
      PROVE  TypeOK'
  <2>1. worker' \in [Workers -> WorkerRow]
    BY <1>r, <1>i, <1>7 DEF PersistSuccess
  <2>2. CASE Holds(w)
    <3>1. PICK winner \in JudgedWinners :
            /\ eval' = [eval EXCEPT !.status = "COMPLETED", !.winner = winner]
            /\ Finish(JudgedReason, winner)
            /\ outcome' = [u \in Players |-> JudgedOutcome(winner, u)]
      BY <1>7, <2>2 DEF PersistSuccess
    <3>2. winner \in Players \cup {None} /\ JudgedReason \in EndReason
      BY DEF JudgedWinners, JudgedReason, EndReason
    <3>3. match' \in MatchRow /\ records' \in [Players -> [wins : Nat, losses : Nat]]
      BY <3>1, <3>2, FinishIsTyped
    <3>4. eval' \in EvalRow
      BY <1>r, <3>1, <3>2 DEF EvalRow, EvalStatus
    <3>5. outcome' \in [Players -> {"NONE", "WIN", "LOSS", "DRAW", "NO_CONTEST", "CANCELLED"}]
      BY <3>1, OutcomesAreTyped
    <3> QED BY <1>r, <1>7, <2>1, <3>3, <3>4, <3>5 DEF PersistSuccess, TypeOK
  <2>3. CASE ~Holds(w)
    BY <1>r, <1>7, <2>1, <2>3 DEF PersistSuccess, TypeOK
  <2> QED BY <2>2, <2>3
<1>8. ASSUME NEW w \in Workers, NEW kind \in {"RETRYABLE", "BUDGET", "PERMANENT"},
             PersistFailure(w, kind)
      PROVE  TypeOK'
  <2>1. worker' \in [Workers -> WorkerRow]
    BY <1>r, <1>i, <1>8 DEF PersistFailure
  <2>2. CASE Holds(w)
    <3>1. now + BudgetDelay \in Nat /\ now + RetryDelay \in Nat
      BY <1>r, TimesAreNatural
    <3>2. eval' \in EvalRow
      BY <1>r, <1>8, <2>2, <3>1 DEF PersistFailure, EvalRow, EvalStatus
    <3>3. CASE EndsRound(kind)
      <4>1. Finish("JUDGE_FAILED", None) /\ outcome' = [u \in Players |-> "NO_CONTEST"]
        BY <1>8, <2>2, <3>3 DEF PersistFailure
      <4>2. "JUDGE_FAILED" \in EndReason
        BY DEF EndReason
      <4>3. match' \in MatchRow /\ records' \in [Players -> [wins : Nat, losses : Nat]]
        BY <4>1, <4>2, FinishIsTyped
      <4> QED BY <1>r, <1>8, <2>1, <3>2, <4>1, <4>3 DEF PersistFailure, TypeOK
    <3>4. CASE ~EndsRound(kind)
      BY <1>r, <1>8, <2>1, <2>2, <3>2, <3>4 DEF PersistFailure, TypeOK
    <3> QED BY <3>3, <3>4
  <2>3. CASE ~Holds(w)
    BY <1>r, <1>8, <2>1, <2>3 DEF PersistFailure, TypeOK
  <2> QED BY <2>2, <2>3
<1>9. CASE Tick
  BY <1>r, <1>9 DEF Tick, TypeOK
<1>10. CASE UNCHANGED vars
  BY <1>r, <1>10 DEF vars, TypeOK
<1> QED BY <1>1, <1>2, <1>3, <1>4, <1>5, <1>6, <1>7, <1>8, <1>9, <1>10 DEF Next

(* Every row the arena writes is well formed.                              *)
THEOREM ArenaTypeCorrect == Spec => []TypeOK
<1>1. Init => TypeOK
  BY InitIsTyped
<1>2. TypeOK /\ [Next]_vars => TypeOK'
  BY NextKeepsTypes
<1> QED BY <1>1, <1>2, PTL DEF Spec
-----------------------------------------------------------------------------
(* The verdict.                                                            *)

(* Before the answers are complete there is no evaluation, and while the   *)
(* round is open there is no verdict.                                      *)
OpenRound ==
  /\ match.state \in {"COUNTDOWN", "ACTIVE"} => eval.status = "NONE"
  /\ match.state \in {"COUNTDOWN", "ACTIVE", "JUDGING"} =>
       match.endReason = NoReason /\ match.winner = None

(* An evaluation has every answer before it.                               *)
EvaluationHasAnswers ==
  eval.status # "NONE" => \A u \in Players : answers[u] # "NONE"

VerdictInv ==
  /\ OpenRound
  /\ EvaluationHasAnswers
  /\ VerdictMatchesEvaluation
  /\ TimeoutMeansMissed
  /\ BlankNeverWins

(* The verdict depends on the match, the answers and on what the evaluation*)
(* says; a step that keeps those keeps the invariant.                      *)
LEMMA UntouchedRoundKeepsVerdict ==
  ASSUME VerdictInv, UNCHANGED <<match, answers>>,
         eval'.winner = eval.winner,
         \/ eval'.status = eval.status /\ eval'.retryable = eval.retryable
         \/ /\ \/ eval.status \in {"PENDING", "IN_PROGRESS"}
               \/ eval.status = "FAILED" /\ eval.retryable
            /\ \/ eval'.status = "IN_PROGRESS"
               \/ eval'.status = "FAILED" /\ eval'.retryable
  PROVE  VerdictInv'
<1>1. OpenRound'
  BY DEF VerdictInv, OpenRound, VerdictMatchesEvaluation
<1>2. EvaluationHasAnswers'
  BY DEF VerdictInv, EvaluationHasAnswers
<1>3. VerdictMatchesEvaluation'
  BY DEF VerdictInv, VerdictMatchesEvaluation, OpenRound, NoReason
<1>4. TimeoutMeansMissed'
  BY DEF VerdictInv, TimeoutMeansMissed, NobodyWrote
<1>5. BlankNeverWins'
  BY DEF VerdictInv, BlankNeverWins
<1> QED BY <1>1, <1>2, <1>3, <1>4, <1>5 DEF VerdictInv

(* Completing the answers keeps the invariant: a round of blanks is over   *)
(* with nobody's victory, any other is now being judged.                   *)
LEMMA PrepareKeepsVerdict ==
  ASSUME TypeOK, VerdictInv, match.state = "ACTIVE",
         NEW w \in Workers, NEW ans \in [Players -> Answers], NEW call \in BOOLEAN,
         PrepareEvaluation(w, ans, call)
  PROVE  VerdictInv'
<1>1. /\ eval.status = "NONE" /\ match.endReason = NoReason /\ match.winner = None
      /\ match \in MatchRow /\ eval \in EvalRow
  BY DEF VerdictInv, OpenRound, TypeOK
<1>2. CASE UNCHANGED <<match, eval, worker, outcome, records>>
  BY <1>1, <1>2 DEF PrepareEvaluation, VerdictInv, OpenRound, EvaluationHasAnswers,
     VerdictMatchesEvaluation, TimeoutMeansMissed, NobodyWrote, BlankNeverWins
<1>3. CASE /\ \A u \in Players : Blank(ans[u])
           /\ \E a \in Players : eval' = [eval EXCEPT !.status = "SKIPPED", !.answerA = a]
           /\ Finish(IF \E u \in Players : ans[u] = "MISSED"
                       THEN "ANSWER_TIMEOUT" ELSE "NO_CONTEST", None)
  <2>1. eval'.status = "SKIPPED" /\ answers' = ans
    BY <1>1, <1>3 DEF PrepareEvaluation, EvalRow
  <2>2. /\ match'.state \in {"REMATCH_PENDING", "FINISHED"}
        /\ match'.winner = None
        /\ match'.endReason = IF \E u \in Players : ans[u] = "MISSED"
                                THEN "ANSWER_TIMEOUT" ELSE "NO_CONTEST"
    BY <1>3 DEF Finish
  <2>3. \A u \in Players : ans[u] # "NONE"
    BY <1>3 DEF Blank
  <2>4. OpenRound' /\ EvaluationHasAnswers' /\ VerdictMatchesEvaluation'
    BY <2>1, <2>2, <2>3 DEF OpenRound, EvaluationHasAnswers, VerdictMatchesEvaluation
  <2>5. TimeoutMeansMissed'
    <3>1. Mode = "PRACTICE" \/ Mode = "DUEL"
      BY RoundAssumption
    <3> QED
      BY <1>3, <2>1, <2>2, <3>1 DEF TimeoutMeansMissed, NobodyWrote, Blank
  <2>6. BlankNeverWins'
    BY <2>2, NullAssumption DEF BlankNeverWins
  <2> QED BY <2>4, <2>5, <2>6 DEF VerdictInv
<1>4. CASE /\ \A u \in Players : ans[u] # "NONE"
           /\ \E a \in Players : eval' = [eval EXCEPT !.status = "PENDING", !.answerA = a]
           /\ match' = [match EXCEPT !.state = "JUDGING"]
  <2>1. eval'.status = "PENDING" /\ answers' = ans
    BY <1>1, <1>4 DEF PrepareEvaluation, EvalRow
  <2>2. match'.state = "JUDGING" /\ match'.endReason = NoReason /\ match'.winner = None
    BY <1>1, <1>4 DEF MatchRow
  <2>3. OpenRound' /\ EvaluationHasAnswers' /\ VerdictMatchesEvaluation'
    BY <1>4, <2>1, <2>2 DEF OpenRound, EvaluationHasAnswers, VerdictMatchesEvaluation, NoReason
  <2>4. TimeoutMeansMissed' /\ BlankNeverWins'
    BY <2>2, NullAssumption DEF TimeoutMeansMissed, BlankNeverWins, NoReason
  <2> QED BY <2>3, <2>4 DEF VerdictInv
<1> QED BY <1>2, <1>3, <1>4 DEF PrepareEvaluation

(* A valid judgement of the holder ends the round with the evaluation's    *)
(* winner, who wrote something.                                            *)
LEMMA SuccessKeepsVerdict ==
  ASSUME TypeOK, VerdictInv, NEW w \in Workers, Holds(w), PersistSuccess(w)
  PROVE  VerdictInv'
<1>1. PICK winner \in JudgedWinners :
        /\ eval' = [eval EXCEPT !.status = "COMPLETED", !.winner = winner]
        /\ Finish(JudgedReason, winner)
        /\ answers' = answers
  BY DEF PersistSuccess
<1>2. eval \in EvalRow /\ answers \in [Players -> Answers]
  BY DEF TypeOK
<1>3. eval'.status = "COMPLETED" /\ eval'.winner = winner
  BY <1>1, <1>2 DEF EvalRow
<1>4. /\ match'.state \in {"REMATCH_PENDING", "FINISHED"}
      /\ match'.winner = winner /\ match'.endReason = JudgedReason
  BY <1>1 DEF Finish
<1>5. \A u \in Players : answers[u] # "NONE"
  BY DEF VerdictInv, EvaluationHasAnswers, Holds
<1>6. \A u \in Players : winner = u => answers[u] = "TEXT"
  BY <1>2, <1>5, NullAssumption DEF JudgedWinners, Blank, Answers
<1>7. OpenRound' /\ EvaluationHasAnswers' /\ VerdictMatchesEvaluation'
  BY <1>1, <1>3, <1>4, <1>5 DEF OpenRound, EvaluationHasAnswers,
     VerdictMatchesEvaluation, JudgedReason
<1>8. TimeoutMeansMissed' /\ BlankNeverWins'
  BY <1>1, <1>4, <1>6 DEF TimeoutMeansMissed, BlankNeverWins, JudgedReason
<1> QED BY <1>7, <1>8 DEF VerdictInv

(* A permanent failure ends the round without a winner.                    *)
LEMMA FailureKeepsVerdict ==
  ASSUME TypeOK, VerdictInv, NEW w \in Workers,
         NEW kind \in {"RETRYABLE", "BUDGET", "PERMANENT"},
         Holds(w), PersistFailure(w, kind)
  PROVE  VerdictInv'
<1>1. eval \in EvalRow
  BY DEF TypeOK
<1>2. /\ eval'.status = "FAILED" /\ eval'.retryable = (kind # "PERMANENT")
      /\ eval'.winner = eval.winner /\ answers' = answers
  BY <1>1 DEF PersistFailure, EvalRow
<1>3. CASE EndsRound(kind)
  <2>1. /\ match'.state \in {"REMATCH_PENDING", "FINISHED"}
        /\ match'.winner = None /\ match'.endReason = "JUDGE_FAILED"
    BY <1>3 DEF PersistFailure, Finish
  <2>2. ~eval'.retryable
    BY <1>2, <1>3 DEF EndsRound
  <2>3. \A u \in Players : answers[u] # "NONE"
    BY DEF VerdictInv, EvaluationHasAnswers, Holds
  <2>4. OpenRound' /\ EvaluationHasAnswers' /\ VerdictMatchesEvaluation'
    BY <1>2, <2>1, <2>2, <2>3 DEF OpenRound, EvaluationHasAnswers, VerdictMatchesEvaluation
  <2>5. TimeoutMeansMissed' /\ BlankNeverWins'
    BY <2>1, NullAssumption DEF TimeoutMeansMissed, BlankNeverWins
  <2> QED BY <2>4, <2>5 DEF VerdictInv
<1>4. CASE ~EndsRound(kind)
  <2>1. UNCHANGED <<match, answers>>
    BY <1>4 DEF PersistFailure
  <2>2. eval.status = "IN_PROGRESS" /\ eval'.retryable
    BY <1>2, <1>4 DEF Holds, EndsRound
  <2> QED BY <1>2, <2>1, <2>2, UntouchedRoundKeepsVerdict
<1> QED BY <1>3, <1>4

LEMMA InitHasNoVerdict == Init => VerdictInv
BY NullAssumption DEF Init, VerdictInv, OpenRound, EvaluationHasAnswers,
   VerdictMatchesEvaluation, TimeoutMeansMissed, NobodyWrote, BlankNeverWins, NoReason

(* Every step keeps the verdict and the evaluation in agreement.           *)
LEMMA NextKeepsVerdict == TypeOK /\ VerdictInv /\ [Next]_vars => VerdictInv'
<1> SUFFICES ASSUME TypeOK, VerdictInv, [Next]_vars PROVE VerdictInv'
  OBVIOUS
<1>r. match \in MatchRow /\ eval \in EvalRow /\ answers \in [Players -> Answers]
  BY DEF TypeOK
<1>1. CASE Activate
  <2>1. /\ match'.state = "ACTIVE" /\ match'.endReason = match.endReason
        /\ match'.winner = match.winner
        /\ match.state = "COUNTDOWN" /\ UNCHANGED <<answers, eval>>
    BY <1>r, <1>1 DEF Activate, MatchRow
  <2> QED BY <2>1 DEF VerdictInv, OpenRound, EvaluationHasAnswers,
         VerdictMatchesEvaluation, TimeoutMeansMissed, NobodyWrote, BlankNeverWins
<1>2. ASSUME NEW w \in Workers, NEW u \in Players, NEW a \in {"TEXT", "BLANK"},
             SubmitAnswer(w, u, a)
      PROVE  VerdictInv'
  <2>1. [answers EXCEPT ![u] = a] \in [Players -> Answers]
    BY <1>r DEF Answers
  <2> QED BY <1>2, <2>1, PrepareKeepsVerdict DEF SubmitAnswer, MayAnswer
<1>3. ASSUME NEW w \in Workers, ProcessAnswerDeadline(w)
      PROVE  VerdictInv'
  <2> DEFINE filled == [u \in Players |-> IF answers[u] = "NONE" THEN "MISSED" ELSE answers[u]]
  <2>1. filled \in [Players -> Answers]
    BY <1>r DEF Answers
  <2>2. PICK call \in BOOLEAN : PrepareEvaluation(w, filled, call)
    BY <1>3 DEF ProcessAnswerDeadline
  <2>3. match.state = "ACTIVE"
    BY <1>3 DEF ProcessAnswerDeadline, AnswersDue
  <2> HIDE DEF filled
  <2> QED BY <2>1, <2>2, <2>3, PrepareKeepsVerdict
<1>4. ASSUME NEW reason \in EndReason, NEW winner \in Players \cup {None},
             EngineEnds(reason, winner)
      PROVE  VerdictInv'
  <2>1. /\ match'.state \in {"REMATCH_PENDING", "FINISHED"}
        /\ match'.endReason \in {"FORFEIT", "NO_CONTEST", "CANCELLED"}
        /\ eval.status = "NONE" /\ UNCHANGED <<answers, eval>>
    BY <1>4 DEF EngineEnds, Finish, VerdictInv, OpenRound
  <2> QED BY <2>1 DEF VerdictInv, OpenRound, EvaluationHasAnswers,
         VerdictMatchesEvaluation, TimeoutMeansMissed, NobodyWrote, BlankNeverWins
<1>5. ASSUME NEW w \in Workers,
             RecoverEvaluation(w) \/ RetryEvaluation(w) \/ CrashWorker(w)
      PROVE  VerdictInv'
  BY <1>5, UntouchedRoundKeepsVerdict DEF RecoverEvaluation, RetryEvaluation, CrashWorker
<1>6. ASSUME NEW w \in Workers, ClaimEvaluation(w)
      PROVE  VerdictInv'
  <2>1. CASE Claimable
    <3>1. eval'.status = "IN_PROGRESS" /\ eval'.winner = eval.winner
      BY <1>r, <1>6, <2>1 DEF ClaimEvaluation, EvalRow
    <3>2. \/ eval.status \in {"PENDING", "IN_PROGRESS"}
          \/ eval.status = "FAILED" /\ eval.retryable
      BY <2>1 DEF Claimable, Stale
    <3> QED BY <1>6, <3>1, <3>2, UntouchedRoundKeepsVerdict DEF ClaimEvaluation
  <2>2. CASE ~Claimable
    BY <1>6, <2>2, UntouchedRoundKeepsVerdict DEF ClaimEvaluation
  <2> QED BY <2>1, <2>2
<1>7. ASSUME NEW w \in Workers, PersistSuccess(w)
      PROVE  VerdictInv'
  <2>1. CASE Holds(w)
    BY <1>7, <2>1, SuccessKeepsVerdict
  <2>2. CASE ~Holds(w)
    BY <1>7, <2>2, UntouchedRoundKeepsVerdict DEF PersistSuccess
  <2> QED BY <2>1, <2>2
<1>8. ASSUME NEW w \in Workers, NEW kind \in {"RETRYABLE", "BUDGET", "PERMANENT"},
             PersistFailure(w, kind)
      PROVE  VerdictInv'
  <2>1. CASE Holds(w)
    BY <1>8, <2>1, FailureKeepsVerdict
  <2>2. CASE ~Holds(w)
    BY <1>8, <2>2, UntouchedRoundKeepsVerdict DEF PersistFailure
  <2> QED BY <2>1, <2>2
<1>9. CASE Tick
  BY <1>9, UntouchedRoundKeepsVerdict DEF Tick
<1>10. CASE UNCHANGED vars
  BY <1>10, UntouchedRoundKeepsVerdict DEF vars
<1> QED BY <1>1, <1>2, <1>3, <1>4, <1>5, <1>6, <1>7, <1>8, <1>9, <1>10 DEF Next

(* TypeOK and VerdictInv hold in every reachable state.                    *)
LEMMA VerdictIsInvariant == Spec => [](TypeOK /\ VerdictInv)
<1>1. Init => TypeOK /\ VerdictInv
  BY InitIsTyped, InitHasNoVerdict
<1>2. (TypeOK /\ VerdictInv) /\ [Next]_vars => (TypeOK /\ VerdictInv)'
  BY NextKeepsTypes, NextKeepsVerdict
<1> QED BY <1>1, <1>2, PTL DEF Spec

(* The match row and the evaluation tell the same story in every state.    *)
THEOREM VerdictsAreGrounded == Spec => []VerdictMatchesEvaluation
<1>1. VerdictInv => VerdictMatchesEvaluation
  BY DEF VerdictInv
<1> QED BY <1>1, VerdictIsInvariant, PTL

-----------------------------------------------------------------------------
(* Claims.                                                                 *)

Judging(w) == worker[w].pc = "JUDGING"

(* A judge at work either holds the row's claim, which is then in progress *)
(* since it began, or it had gone stale when the present claim was drawn.  *)
JudgeIsKnown(w) ==
  /\ worker[w].claim <= eval.claim
  /\ worker[w].claim = eval.claim =>
       eval.status = "IN_PROGRESS" /\ worker[w].since = eval.claimedAt
  /\ worker[w].claim < eval.claim => worker[w].since + StaleClaim <= eval.claimedAt

ClaimInv ==
  /\ eval.claimedAt <= now
  /\ eval.status = "NONE" => \A w \in Workers : ~Judging(w)
  /\ \A w \in Workers : Judging(w) => JudgeIsKnown(w)
  /\ \A w, v \in Workers :
       w # v /\ Judging(w) /\ Judging(v) => worker[w].claim # worker[v].claim
  /\ OneFreshJudge

(* A step after which no more judges are at work, and which leaves the     *)
(* claim in place, keeps the invariant as long as the judge that holds the *)
(* claim is still judging a claim in progress.                             *)
LEMMA FewerJudgesKeepClaims ==
  ASSUME TypeOK, ClaimInv, TypeOK', now <= now',
         \A w \in Workers : Judging(w)' => Judging(w) /\ worker'[w] = worker[w],
         eval'.claim = eval.claim, eval'.claimedAt = eval.claimedAt,
         eval'.status = "NONE" => eval.status = "NONE",
         \A w \in Workers :
           Judging(w)' /\ worker[w].claim = eval.claim => eval'.status = "IN_PROGRESS"
  PROVE  ClaimInv'
<1>1. (eval.claimedAt <= now)'
  BY DEF ClaimInv, TypeOK, EvalRow
<1>2. (eval.status = "NONE" => \A w \in Workers : ~Judging(w))'
  BY DEF ClaimInv
<1>3. (\A w \in Workers : Judging(w) => JudgeIsKnown(w))'
  BY DEF ClaimInv, JudgeIsKnown
<1>4. (\A w, v \in Workers :
        w # v /\ Judging(w) /\ Judging(v) => worker[w].claim # worker[v].claim)'
  BY DEF ClaimInv
<1>5. OneFreshJudge'
  BY DEF ClaimInv, OneFreshJudge, Judging
<1> QED BY <1>1, <1>2, <1>3, <1>4, <1>5 DEF ClaimInv

(* Drawing a claim: whoever held the last one has gone stale by now.       *)
LEMMA NewClaimKeepsClaims ==
  ASSUME TypeOK, ClaimInv, TypeOK', NEW w \in Workers, ClaimEvaluation(w), Claimable
  PROVE  ClaimInv'
<1>1. /\ now \in Nat /\ StaleClaim \in Nat
      /\ eval \in EvalRow /\ worker \in [Workers -> WorkerRow]
      /\ eval.claim \in Nat /\ eval.claimedAt \in Nat /\ now' = now
  BY TimesAreNatural DEF TypeOK, EvalRow, ClaimEvaluation
<1>2. /\ eval'.status = "IN_PROGRESS" /\ eval'.claim = eval.claim + 1
      /\ eval'.claimedAt = now
      /\ worker'[w] = [pc |-> "JUDGING", claim |-> eval.claim + 1, since |-> now]
      /\ \A v \in Workers : v # w => worker'[v] = worker[v]
  BY <1>1 DEF ClaimEvaluation, EvalRow
<1>3. \A v \in Workers : worker[v].claim \in Nat /\ worker[v].since \in Nat
  BY <1>1 DEF WorkerRow
<1>4. ASSUME NEW v \in Workers, v # w, Judging(v)
      PROVE  worker[v].claim < eval.claim + 1 /\ worker[v].since + StaleClaim <= now
  <2>1. JudgeIsKnown(v) /\ eval.claimedAt <= now
    BY <1>4 DEF ClaimInv
  <2>2. CASE worker[v].claim = eval.claim
    <3>1. eval.status = "IN_PROGRESS" /\ worker[v].since = eval.claimedAt
      BY <2>1, <2>2 DEF JudgeIsKnown
    <3>2. eval.claimedAt + StaleClaim <= now
      BY <3>1 DEF Claimable, Stale
    <3> QED BY <1>1, <1>3, <2>2, <3>1, <3>2
  <2>3. CASE worker[v].claim < eval.claim
    <3>1. worker[v].since + StaleClaim <= eval.claimedAt
      BY <2>1, <2>3 DEF JudgeIsKnown
    <3> QED BY <1>1, <1>3, <2>1, <2>3, <3>1
  <2> QED BY <1>1, <1>3, <2>1, <2>2, <2>3 DEF JudgeIsKnown
<1>5. (eval.claimedAt <= now)' /\ eval'.status # "NONE"
  BY <1>1, <1>2
<1>6. (\A v \in Workers : Judging(v) => JudgeIsKnown(v))'
  <2> SUFFICES ASSUME NEW v \in Workers, Judging(v)' PROVE JudgeIsKnown(v)'
    OBVIOUS
  <2>1. CASE v = w
    BY <1>1, <1>2, <2>1 DEF JudgeIsKnown
  <2>2. CASE v # w
    BY <1>1, <1>2, <1>3, <1>4, <2>2 DEF JudgeIsKnown, Judging
  <2> QED BY <2>1, <2>2
<1>7. (\A u, v \in Workers :
        u # v /\ Judging(u) /\ Judging(v) => worker[u].claim # worker[v].claim)'
  BY <1>1, <1>2, <1>3, <1>4 DEF ClaimInv, Judging
<1>8. OneFreshJudge'
  <2> SUFFICES ASSUME NEW u \in Workers, NEW v \in Workers, u # v,
                      Judging(u)', Judging(v)', worker'[u].claim < worker'[v].claim
               PROVE  worker'[u].since + StaleClaim <= worker'[v].since
    BY DEF OneFreshJudge, Judging
  <2>1. CASE v = w
    BY <1>2, <1>4, <2>1 DEF Judging
  <2>2. CASE u = w
    BY <1>1, <1>2, <1>3, <1>4, <2>2 DEF Judging
  <2>3. CASE u # w /\ v # w
    BY <1>2, <2>3 DEF ClaimInv, OneFreshJudge, Judging
  <2> QED BY <2>1, <2>2, <2>3
<1> QED BY <1>5, <1>6, <1>7, <1>8 DEF ClaimInv

LEMMA InitHasNoClaims == Init => ClaimInv
BY DEF Init, ClaimInv, Judging, OneFreshJudge, Idle

(* Every step keeps the claims in order.                                   *)
LEMMA NextKeepsClaims ==
  TypeOK /\ VerdictInv /\ ClaimInv /\ [Next]_vars => ClaimInv'
<1> SUFFICES ASSUME TypeOK, VerdictInv, ClaimInv, [Next]_vars PROVE ClaimInv'
  OBVIOUS
<1>r. /\ now \in Nat /\ eval \in EvalRow /\ worker \in [Workers -> WorkerRow]
      /\ match \in MatchRow /\ TypeOK'
  BY NextKeepsTypes DEF TypeOK
<1>i. Idle.pc # "JUDGING" /\ Called.pc # "JUDGING"
  BY DEF Idle, Called
<1>k. \A w \in Workers :
        Judging(w) /\ worker[w].claim = eval.claim => eval.status = "IN_PROGRESS"
  BY DEF ClaimInv, JudgeIsKnown
<1>p. ASSUME NEW w \in Workers, NEW ans, NEW call \in BOOLEAN, now' = now,
             match.state = "ACTIVE", PrepareEvaluation(w, ans, call)
      PROVE  ClaimInv'
  <2>1. eval.status = "NONE" /\ \A v \in Workers : ~Judging(v)
    BY <1>p DEF VerdictInv, OpenRound, ClaimInv
  <2>2. \A v \in Workers : ~Judging(v)'
    BY <1>r, <1>i, <1>p, <2>1 DEF PrepareEvaluation, Judging
  <2>3. eval'.claim = eval.claim /\ eval'.claimedAt = eval.claimedAt
    BY <1>r, <1>p DEF PrepareEvaluation, EvalRow
  <2> QED BY <1>r, <1>p, <2>1, <2>2, <2>3, FewerJudgesKeepClaims
<1>1. CASE Activate
  BY <1>r, <1>k, <1>1, FewerJudgesKeepClaims DEF Activate, Judging
<1>2. ASSUME NEW w \in Workers, NEW u \in Players, NEW a \in {"TEXT", "BLANK"},
             SubmitAnswer(w, u, a)
      PROVE  ClaimInv'
  BY <1>2, <1>p DEF SubmitAnswer, MayAnswer
<1>3. ASSUME NEW w \in Workers, ProcessAnswerDeadline(w)
      PROVE  ClaimInv'
  BY <1>3, <1>p DEF ProcessAnswerDeadline, AnswersDue
<1>4. ASSUME NEW reason \in EndReason, NEW winner \in Players \cup {None},
             EngineEnds(reason, winner)
      PROVE  ClaimInv'
  BY <1>r, <1>k, <1>4, FewerJudgesKeepClaims DEF EngineEnds, Judging
<1>5. ASSUME NEW w \in Workers,
             RecoverEvaluation(w) \/ RetryEvaluation(w) \/ CrashWorker(w)
      PROVE  ClaimInv'
  <2>1. now' = now /\ eval' = eval
    BY <1>5 DEF RecoverEvaluation, RetryEvaluation, CrashWorker
  <2>2. \A v \in Workers : Judging(v)' => Judging(v) /\ worker'[v] = worker[v]
    BY <1>r, <1>i, <1>5 DEF RecoverEvaluation, RetryEvaluation, CrashWorker, Judging
  <2> QED BY <1>r, <1>k, <2>1, <2>2, FewerJudgesKeepClaims
<1>6. ASSUME NEW w \in Workers, ClaimEvaluation(w)
      PROVE  ClaimInv'
  <2>1. CASE Claimable
    BY <1>r, <1>6, <2>1, NewClaimKeepsClaims
  <2>2. CASE ~Claimable
    <3>1. now' = now /\ eval' = eval
      BY <1>6, <2>2 DEF ClaimEvaluation
    <3>2. \A v \in Workers : Judging(v)' => Judging(v) /\ worker'[v] = worker[v]
      BY <1>r, <1>i, <1>6, <2>2 DEF ClaimEvaluation, Judging
    <3> QED BY <1>r, <1>k, <3>1, <3>2, FewerJudgesKeepClaims
  <2> QED BY <2>1, <2>2
<1>7. ASSUME NEW w \in Workers,
             \/ PersistSuccess(w)
             \/ \E kind \in {"RETRYABLE", "BUDGET", "PERMANENT"} : PersistFailure(w, kind)
      PROVE  ClaimInv'
  <2>1. now' = now /\ Judging(w) /\ worker' = [worker EXCEPT ![w] = Idle]
    BY <1>7 DEF PersistSuccess, PersistFailure, Judging
  <2>2. \A v \in Workers : Judging(v)' => v # w /\ Judging(v) /\ worker'[v] = worker[v]
    BY <1>r, <1>i, <2>1 DEF Judging
  <2>3. CASE Holds(w)
    <3>1. /\ eval'.claim = eval.claim /\ eval'.claimedAt = eval.claimedAt
          /\ eval'.status # "NONE"
      BY <1>r, <1>7, <2>3 DEF PersistSuccess, PersistFailure, EvalRow
    <3>2. \A v \in Workers : Judging(v)' => worker[v].claim # eval.claim
      BY <2>1, <2>2, <2>3 DEF ClaimInv, Holds
    <3> QED BY <1>r, <2>1, <2>2, <3>1, <3>2, FewerJudgesKeepClaims
  <2>4. CASE ~Holds(w)
    <3>1. eval' = eval
      BY <1>7, <2>4 DEF PersistSuccess, PersistFailure
    <3> QED BY <1>r, <1>k, <2>1, <2>2, <3>1, FewerJudgesKeepClaims
  <2> QED BY <2>3, <2>4
<1>8. CASE Tick
  BY <1>r, <1>k, <1>8, FewerJudgesKeepClaims DEF Tick, Judging
<1>9. CASE UNCHANGED vars
  BY <1>r, <1>k, <1>9, FewerJudgesKeepClaims DEF vars, Judging
<1> QED BY <1>1, <1>2, <1>3, <1>4, <1>5, <1>6, <1>7, <1>8, <1>9 DEF Next

(* Two judges work on one evaluation only when the first one's claim had   *)
(* gone stale before the second was drawn.                                 *)
THEOREM JudgesDoNotOverlap == Spec => []OneFreshJudge
<1>1. Init => ClaimInv
  BY InitHasNoClaims
<1>2. TypeOK /\ VerdictInv /\ ClaimInv /\ [Next]_vars => ClaimInv'
  BY NextKeepsClaims
<1>3. ClaimInv => OneFreshJudge
  BY DEF ClaimInv
<1> QED BY <1>1, <1>2, <1>3, VerdictIsInvariant, PTL DEF Spec
(* A judge's answer to a claim that was taken over changes nothing: only   *)
(* the worker that holds the claim the row carries ends the evaluation.    *)
THEOREM LateJudgesAreSilent == Spec => TakenOverClaimsAreSilent
<1> DEFINE Ends == eval.status = "IN_PROGRESS" /\ eval'.status \in {"COMPLETED", "FAILED"}
           Held == \E w \in Workers : worker[w].claim = eval.claim /\ worker'[w].pc = "IDLE"
<1>1. TypeOK /\ VerdictInv /\ [Next]_vars => [Ends => Held]_vars
  <2> SUFFICES ASSUME TypeOK, VerdictInv, [Next]_vars, Ends
               PROVE  Held
    OBVIOUS
  <2>r. eval \in EvalRow /\ worker \in [Workers -> WorkerRow]
    BY DEF TypeOK
  <2>1. ASSUME NEW w \in Workers, Holds(w), worker' = [worker EXCEPT ![w] = Idle]
        PROVE  Held
    BY <2>r, <2>1 DEF Holds, Idle
  <2>2. ASSUME NEW w \in Workers, PersistSuccess(w)
        PROVE  Held
    BY <2>1, <2>2 DEF PersistSuccess
  <2>3. ASSUME NEW w \in Workers, NEW kind \in {"RETRYABLE", "BUDGET", "PERMANENT"},
               PersistFailure(w, kind)
        PROVE  Held
    BY <2>1, <2>3 DEF PersistFailure
  <2>4. match.state = "JUDGING"
    BY DEF VerdictInv, VerdictMatchesEvaluation
  <2>5. ASSUME NEW w \in Workers, ClaimEvaluation(w)
        PROVE  FALSE
    <3>1. eval' = eval \/ eval'.status = "IN_PROGRESS"
      BY <2>r, <2>5 DEF ClaimEvaluation, EvalRow
    <3> QED
      BY <3>1
  <2>6. eval' # eval
    OBVIOUS
  <2> QED
    BY <2>2, <2>3, <2>4, <2>5, <2>6
       DEF Next, vars, Activate, SubmitAnswer, MayAnswer, ProcessAnswerDeadline,
           AnswersDue, EngineEnds, RecoverEvaluation, RetryEvaluation, CrashWorker, Tick
<1> QED
  BY <1>1, VerdictIsInvariant, PTL DEF Spec, TakenOverClaimsAreSilent

-----------------------------------------------------------------------------
(* The arena keeps the promises of ArenaContract.                          *)

Zero == [u \in Players |-> [wins |-> 0, losses |-> 0]]

(* Nothing is booked before the verdict.                                   *)
NothingBooked ==
  match.state \in {"COUNTDOWN", "ACTIVE", "JUDGING"} => records = Zero

ArenaVerdict(reason, winner) == [reason |-> reason, winner |-> winner]

(* What a step does to the match row and to the records.                   *)
RoundStep ==
  \/ UNCHANGED <<match, records>>
  \/ /\ \/ match.state = "COUNTDOWN" /\ match' = [match EXCEPT !.state = "ACTIVE"]
        \/ match.state = "ACTIVE" /\ match' = [match EXCEPT !.state = "JUDGING"]
     /\ UNCHANGED records
  \/ \E reason \in EndReason, winner \in Players \cup {None} :
       /\ \/ /\ match.state = "ACTIVE"
             /\ Contract!UnjudgedVerdict(ArenaVerdict(reason, winner))
          \/ /\ match.state = "JUDGING"
             /\ Contract!JudgedVerdict(ArenaVerdict(reason, winner))
       /\ Finish(reason, winner)

LEMMA AnswersLeadOn ==
  ASSUME match.state = "ACTIVE", NEW w, NEW ans, NEW call,
         PrepareEvaluation(w, ans, call)
  PROVE  RoundStep
<1>1. CASE UNCHANGED <<match, eval, worker, outcome, records>>
  BY <1>1 DEF RoundStep
<1>2. CASE \/ Finish("ANSWER_TIMEOUT", None)
           \/ Finish("NO_CONTEST", None)
  BY <1>2 DEF RoundStep, EndReason, Contract!UnjudgedVerdict, ArenaVerdict
<1>3. CASE match' = [match EXCEPT !.state = "JUDGING"] /\ UNCHANGED records
  BY <1>3 DEF RoundStep
<1> QED
  BY <1>1, <1>2, <1>3 DEF PrepareEvaluation

(* The winners a judgement can name are those the contract allows.         *)
LEMMA JudgementsAreLegal ==
  ASSUME TypeOK, NEW winner \in JudgedWinners
  PROVE  /\ winner \in Players \cup {None}
         /\ JudgedReason \in EndReason
         /\ Contract!JudgedVerdict(ArenaVerdict(JudgedReason, winner))
<1>1. JudgedReason \in {"JUDGED", "ANSWER_TIMEOUT"}
  BY DEF JudgedReason
<1>2. CASE Mode = "PRACTICE"
  BY <1>1, <1>2 DEF JudgedWinners, EndReason, Contract!JudgedVerdict, ArenaVerdict
<1>3. CASE Mode = "DUEL"
  <2>1. winner \in Players
    BY <1>3 DEF JudgedWinners
  <2> QED
    BY <1>1, <1>3, <2>1 DEF EndReason, Contract!JudgedVerdict, ArenaVerdict
<1> QED
  BY <1>2, <1>3, RoundAssumption

LEMMA EveryStepIsARoundStep == TypeOK /\ [Next]_vars => RoundStep
<1> SUFFICES ASSUME TypeOK, [Next]_vars
             PROVE  RoundStep
  OBVIOUS
<1>1. CASE UNCHANGED <<match, records>>
  BY <1>1 DEF RoundStep
<1>2. CASE Activate
  BY <1>2 DEF Activate, RoundStep
<1>3. ASSUME NEW w \in Workers, NEW u \in Players, NEW a \in {"TEXT", "BLANK"},
             SubmitAnswer(w, u, a)
      PROVE  RoundStep
  BY <1>3, AnswersLeadOn DEF SubmitAnswer, MayAnswer
<1>4. ASSUME NEW w \in Workers, ProcessAnswerDeadline(w)
      PROVE  RoundStep
  BY <1>4, AnswersLeadOn DEF ProcessAnswerDeadline, AnswersDue
<1>5. ASSUME NEW reason \in EndReason, NEW winner \in Players \cup {None},
             EngineEnds(reason, winner)
      PROVE  RoundStep
  <2>1. Contract!UnjudgedVerdict(ArenaVerdict(reason, winner))
    BY <1>5 DEF EngineEnds, Contract!UnjudgedVerdict, ArenaVerdict
  <2> QED
    BY <1>5, <2>1 DEF EngineEnds, RoundStep
<1>6. ASSUME NEW w \in Workers, PersistSuccess(w)
      PROVE  RoundStep
  <2>1. CASE Holds(w)
    <3>1. PICK winner \in JudgedWinners : Finish(JudgedReason, winner)
      BY <1>6, <2>1 DEF PersistSuccess
    <3> QED
      BY <2>1, <3>1, JudgementsAreLegal DEF Holds, RoundStep
  <2>2. CASE ~Holds(w)
    BY <1>6, <2>2 DEF PersistSuccess, RoundStep
  <2> QED
    BY <2>1, <2>2
<1>7. ASSUME NEW w \in Workers, NEW kind \in {"RETRYABLE", "BUDGET", "PERMANENT"},
             PersistFailure(w, kind)
      PROVE  RoundStep
  <2>1. CASE Holds(w) /\ EndsRound(kind)
    <3>1. /\ Finish("JUDGE_FAILED", None) /\ match.state = "JUDGING"
      BY <1>7, <2>1 DEF PersistFailure, Holds
    <3>2. Contract!JudgedVerdict(ArenaVerdict("JUDGE_FAILED", None))
      BY DEF Contract!JudgedVerdict, ArenaVerdict
    <3> QED
      BY <3>1, <3>2 DEF RoundStep, EndReason
  <2>2. CASE ~(Holds(w) /\ EndsRound(kind))
    BY <1>7, <2>2 DEF PersistFailure, RoundStep
  <2> QED
    BY <2>1, <2>2
<1> QED
  BY <1>1, <1>2, <1>3, <1>4, <1>5, <1>6, <1>7
     DEF Next, vars, RecoverEvaluation, RetryEvaluation, ClaimEvaluation, CrashWorker, Tick

(* Finishing books the contract's delta in records that were empty.        *)
LEMMA FinishBooksTheDelta ==
  ASSUME records = Zero, NEW reason, NEW winner \in Players \cup {None},
         Finish(reason, winner),
         winner \in Players => Contract!ShouldApplyRecord(reason)
  PROVE  records' = Contract!Delta(ArenaVerdict(reason, winner))
<1>1. records' = Booked(winner)
  BY DEF Finish
<1>2. \A u \in Players :
        /\ [Zero[u] EXCEPT !.wins = @ + 1] = [wins |-> 1, losses |-> 0]
        /\ [Zero[u] EXCEPT !.losses = @ + 1] = [wins |-> 0, losses |-> 1]
  BY DEF Zero
<1>3. CASE Mode = "DUEL" /\ winner \in Players
  BY <1>1, <1>2, <1>3 DEF Booked, Contract!Delta, ArenaVerdict
<1>4. CASE ~(Mode = "DUEL" /\ winner \in Players)
  BY <1>1, <1>4 DEF Booked, Zero, Contract!Delta, ArenaVerdict
<1> QED
  BY <1>3, <1>4

LEMMA RoundStepsImplementContract ==
  ASSUME TypeOK, VerdictInv, NothingBooked, RoundStep
  PROVE  NothingBooked' /\ [Contract!ArenaNext]_Contract!vars
<1>r. match \in MatchRow
  BY DEF TypeOK
<1>1. CASE UNCHANGED <<match, records>>
  BY <1>1 DEF NothingBooked, Contract!vars
<1>2. CASE /\ \/ match.state = "COUNTDOWN" /\ match' = [match EXCEPT !.state = "ACTIVE"]
              \/ match.state = "ACTIVE" /\ match' = [match EXCEPT !.state = "JUDGING"]
           /\ UNCHANGED records
  <2>1. /\ \/ match.state = "COUNTDOWN" /\ match'.state = "ACTIVE"
           \/ match.state = "ACTIVE" /\ match'.state = "JUDGING"
        /\ match'.endReason = match.endReason /\ match'.winner = match.winner
    BY <1>r, <1>2 DEF MatchRow
  <2>2. Contract!CanTransition(match.state, match'.state)
    BY <2>1 DEF Contract!CanTransition, Contract!Transitions
  <2>3. Contract!ArenaAdvance
    BY <1>2, <2>1, <2>2 DEF Contract!ArenaAdvance
  <2> QED
    BY <1>2, <2>1, <2>3 DEF NothingBooked, Contract!ArenaNext
<1>3. ASSUME NEW reason \in EndReason, NEW winner \in Players \cup {None},
             \/ /\ match.state = "ACTIVE"
                /\ Contract!UnjudgedVerdict(ArenaVerdict(reason, winner))
             \/ /\ match.state = "JUDGING"
                /\ Contract!JudgedVerdict(ArenaVerdict(reason, winner)),
             Finish(reason, winner)
      PROVE  NothingBooked' /\ [Contract!ArenaNext]_Contract!vars
  <2> DEFINE v == ArenaVerdict(reason, winner)
  <2>1. /\ match'.state = Contract!Rest
        /\ match'.state \in {"REMATCH_PENDING", "FINISHED"}
        /\ [reason |-> match'.endReason, winner |-> match'.winner] = v
    BY <1>3 DEF Finish, Contract!Rest, ArenaVerdict
  <2>2. winner \in Players => Contract!ShouldApplyRecord(reason)
    BY <1>3, NullAssumption
       DEF Contract!UnjudgedVerdict, Contract!JudgedVerdict, ArenaVerdict,
           Contract!ShouldApplyRecord
  <2>3. records' = Contract!Delta(v)
    BY <1>3, <2>2, FinishBooksTheDelta DEF NothingBooked
  <2>4. /\ Contract!CanTransition("ACTIVE", "FINISHED")
        /\ Contract!CanTransition("JUDGING", "FINISHED")
    BY DEF Contract!CanTransition, Contract!Transitions
  <2>5. v \in [reason : Contract!EndReason, winner : Players \cup {None}]
    BY DEF ArenaVerdict, EndReason, Contract!EndReason
  <2> HIDE DEF v
  <2>6. Contract!ArenaResolve(v)
    BY <1>3, <2>1, <2>3, <2>4 DEF Contract!ArenaResolve, v
  <2> QED
    BY <2>1, <2>5, <2>6 DEF NothingBooked, Contract!ArenaNext
<1> QED
  BY <1>1, <1>2, <1>3 DEF RoundStep

LEMMA InitImplementsContract == Init => NothingBooked /\ Contract!ArenaInit
<1> SUFFICES ASSUME Init
             PROVE  NothingBooked /\ Contract!ArenaInit
  OBVIOUS
<1>1. Contract!Delta(Contract!NoVerdict) = Zero
  BY DEF Contract!Delta, Contract!NoVerdict, Zero, Contract!ShouldApplyRecord,
         Contract!NoReason
<1> QED
  BY <1>1 DEF Init, Contract!ArenaInit, Contract!NoVerdict, Contract!NoReason, NoReason,
              Zero, NothingBooked

(* The arena implements ArenaContract under the refinement mapping of      *)
(* Arena: however many workers are called, overtaken, die or answer late,  *)
(* a round gets one verdict, a legal one and from the right state, and the *)
(* records move in that very step and never again.                         *)
THEOREM ArenaImplementsContract == Spec => ImplementsContract
<1>1. Init => NothingBooked /\ Contract!ArenaInit
  BY InitImplementsContract
<1>2. (TypeOK /\ VerdictInv) /\ NothingBooked /\ [Next]_vars =>
        NothingBooked' /\ [Contract!ArenaNext]_Contract!vars
  BY EveryStepIsARoundStep, RoundStepsImplementContract
<1> QED
  BY <1>1, <1>2, VerdictIsInvariant, PTL
     DEF Spec, ImplementsContract, Contract!ArenaSpec

-----------------------------------------------------------------------------
(* Rounds in which nobody wrote.                                           *)

LEMMA NothingIsBooked == Spec => []NothingBooked
<1>1. Init => NothingBooked
  BY InitImplementsContract
<1>2. (TypeOK /\ VerdictInv) /\ NothingBooked /\ [Next]_vars => NothingBooked'
  BY EveryStepIsARoundStep, RoundStepsImplementContract
<1> QED
  BY <1>1, <1>2, VerdictIsInvariant, PTL DEF Spec

(* No judge is at work before there is an evaluation.                      *)
JudgesComeLater ==
  eval.status = "NONE" => \A w \in Workers : worker[w].pc # "JUDGING"

BlankInv == JudgesComeLater /\ BlanksAreNotJudged

(* What the steps on a round's evaluation have in common: they leave the   *)
(* answers and a skipped evaluation with all that belongs to it alone.     *)
LEMMA EvaluatedRoundsKeepBlanks ==
  ASSUME BlankInv, UNCHANGED answers,
         eval.status = "NONE" <=> eval'.status = "NONE",
         eval.status = "SKIPPED" <=> eval'.status = "SKIPPED",
         eval.status = "SKIPPED" => UNCHANGED <<match, outcome, records>>,
         eval.status \in {"NONE", "SKIPPED"} =>
           \A w \in Workers : worker'[w].pc = "JUDGING" => worker[w].pc = "JUDGING"
  PROVE  BlankInv'
<1>1. JudgesComeLater'
  BY DEF BlankInv, JudgesComeLater
<1>2. BlanksAreNotJudged'
  BY DEF BlankInv, BlanksAreNotJudged, NobodyWrote
<1> QED
  BY <1>1, <1>2 DEF BlankInv

(* The last answer skips the round exactly if nobody wrote.                *)
LEMMA PrepareKeepsBlanks ==
  ASSUME TypeOK, VerdictInv, NothingBooked, BlankInv, match.state = "ACTIVE",
         NEW w \in Workers, NEW ans \in [Players -> Answers], NEW call \in BOOLEAN,
         PrepareEvaluation(w, ans, call)
  PROVE  BlankInv'
<1>1. /\ eval.status = "NONE" /\ eval \in EvalRow /\ records = Zero
      /\ \A v \in Workers : worker[v].pc # "JUDGING"
      /\ worker \in [Workers -> WorkerRow]
  BY DEF VerdictInv, OpenRound, TypeOK, NothingBooked, BlankInv, JudgesComeLater
<1>2. CASE UNCHANGED <<match, eval, worker, outcome, records>>
  BY <1>1, <1>2 DEF BlankInv, JudgesComeLater, BlanksAreNotJudged
<1>3. CASE /\ \A u \in Players : Blank(ans[u])
           /\ \E a \in Players : eval' = [eval EXCEPT !.status = "SKIPPED", !.answerA = a]
           /\ Finish(IF \E u \in Players : ans[u] = "MISSED"
                       THEN "ANSWER_TIMEOUT" ELSE "NO_CONTEST", None)
           /\ outcome' = [u \in Players |-> "NO_CONTEST"]
           /\ UNCHANGED worker
  <2>1. eval'.status = "SKIPPED" /\ answers' = ans
    BY <1>1, <1>3 DEF PrepareEvaluation, EvalRow
  <2>2. match'.winner = None /\ records' = Booked(None)
    BY <1>3 DEF Finish
  <2>3. \A u \in Players : records'[u] = [wins |-> 0, losses |-> 0]
    BY <1>1, <2>2, NullAssumption DEF Booked, Zero
  <2> QED
    BY <1>1, <1>3, <2>1, <2>2, <2>3
       DEF BlankInv, JudgesComeLater, BlanksAreNotJudged, NobodyWrote
<1>4. CASE /\ \E u \in Players : ~Blank(ans[u])
           /\ \E a \in Players : eval' = [eval EXCEPT !.status = "PENDING", !.answerA = a]
  <2>1. eval'.status = "PENDING" /\ answers' = ans
    BY <1>1, <1>4 DEF PrepareEvaluation, EvalRow
  <2> QED
    BY <1>4, <2>1 DEF BlankInv, JudgesComeLater, BlanksAreNotJudged, NobodyWrote
<1> QED
  BY <1>2, <1>3, <1>4 DEF PrepareEvaluation

LEMMA NextKeepsBlanks ==
  TypeOK /\ VerdictInv /\ NothingBooked /\ BlankInv /\ [Next]_vars => BlankInv'
<1> SUFFICES ASSUME TypeOK, VerdictInv, NothingBooked, BlankInv, [Next]_vars
             PROVE  BlankInv'
  OBVIOUS
<1>r. /\ match \in MatchRow /\ eval \in EvalRow /\ answers \in [Players -> Answers]
      /\ worker \in [Workers -> WorkerRow]
  BY DEF TypeOK
<1>i. Idle.pc = "IDLE" /\ Called.pc = "CALLED"
  BY DEF Idle, Called
<1>1. CASE Activate
  BY <1>1, <1>r, EvaluatedRoundsKeepBlanks DEF Activate, VerdictInv, OpenRound
<1>2. ASSUME NEW w \in Workers, NEW u \in Players, NEW a \in {"TEXT", "BLANK"},
             SubmitAnswer(w, u, a)
      PROVE  BlankInv'
  <2>1. [answers EXCEPT ![u] = a] \in [Players -> Answers]
    BY <1>r DEF Answers
  <2> QED
    BY <1>2, <2>1, PrepareKeepsBlanks DEF SubmitAnswer, MayAnswer
<1>3. ASSUME NEW w \in Workers, ProcessAnswerDeadline(w)
      PROVE  BlankInv'
  <2> DEFINE filled == [u \in Players |-> IF answers[u] = "NONE" THEN "MISSED" ELSE answers[u]]
  <2>1. filled \in [Players -> Answers]
    BY <1>r DEF Answers
  <2>2. PICK call \in BOOLEAN : PrepareEvaluation(w, filled, call)
    BY <1>3 DEF ProcessAnswerDeadline
  <2>3. match.state = "ACTIVE"
    BY <1>3 DEF ProcessAnswerDeadline, AnswersDue
  <2> HIDE DEF filled
  <2> QED
    BY <2>1, <2>2, <2>3, PrepareKeepsBlanks
<1>4. ASSUME NEW reason \in EndReason, NEW winner \in Players \cup {None},
             EngineEnds(reason, winner)
      PROVE  BlankInv'
  BY <1>4, EvaluatedRoundsKeepBlanks DEF EngineEnds, VerdictInv, OpenRound
<1>5. ASSUME NEW w \in Workers,
             RecoverEvaluation(w) \/ RetryEvaluation(w) \/ CrashWorker(w)
      PROVE  BlankInv'
  <2>1. \A v \in Workers : worker'[v].pc = "JUDGING" => worker[v].pc = "JUDGING"
    BY <1>5, <1>r, <1>i DEF RecoverEvaluation, RetryEvaluation, CrashWorker
  <2>2. UNCHANGED <<match, answers, eval, outcome, records>>
    BY <1>5 DEF RecoverEvaluation, RetryEvaluation, CrashWorker
  <2> QED
    BY <2>1, <2>2, EvaluatedRoundsKeepBlanks
<1>6. ASSUME NEW w \in Workers, ClaimEvaluation(w)
      PROVE  BlankInv'
  <2>1. CASE Claimable
    <3>1. eval'.status = "IN_PROGRESS"
      BY <1>r, <1>6, <2>1 DEF ClaimEvaluation, EvalRow
    <3>2. eval.status \notin {"NONE", "SKIPPED"}
      BY <2>1 DEF Claimable, Stale
    <3> QED
      BY <1>6, <3>1, <3>2, EvaluatedRoundsKeepBlanks DEF ClaimEvaluation
  <2>2. CASE ~Claimable
    <3>1. \A v \in Workers : worker'[v].pc = "JUDGING" => worker[v].pc = "JUDGING"
      BY <1>6, <1>r, <1>i, <2>2 DEF ClaimEvaluation
    <3> QED
      BY <1>6, <2>2, <3>1, EvaluatedRoundsKeepBlanks DEF ClaimEvaluation
  <2> QED
    BY <2>1, <2>2
<1>7. ASSUME NEW w \in Workers,
             \/ PersistSuccess(w)
             \/ \E kind \in {"RETRYABLE", "BUDGET", "PERMANENT"} : PersistFailure(w, kind)
      PROVE  BlankInv'
  <2>1. UNCHANGED answers /\ worker[w].pc = "JUDGING"
    BY <1>7 DEF PersistSuccess, PersistFailure
  <2>2. eval.status \notin {"NONE", "SKIPPED"}
    BY <2>1 DEF BlankInv, JudgesComeLater, BlanksAreNotJudged
  <2>3. eval' = eval \/ eval'.status \in {"COMPLETED", "FAILED"}
    BY <1>7, <1>r DEF PersistSuccess, PersistFailure, EvalRow
  <2> QED
    BY <2>1, <2>2, <2>3, EvaluatedRoundsKeepBlanks
<1>8. CASE Tick \/ UNCHANGED vars
  BY <1>8, EvaluatedRoundsKeepBlanks DEF Tick, vars
<1> QED
  BY <1>1, <1>2, <1>3, <1>4, <1>5, <1>6, <1>7, <1>8 DEF Next

(* A verdict tells what the players wrote, whoever noticed a missing       *)
(* answer and however judges overlap, die or answer late: ANSWER_TIMEOUT   *)
(* means a missing answer, and a missing answer ANSWER_TIMEOUT, except in  *)
(* a duel of two blanks and where the judge failed; a blank answer never   *)
(* wins; and a round in which nobody wrote is skipped, with no judge, no   *)
(* winner and no change of the records.                                    *)
THEOREM AnswersAreTold == Spec => []VerdictTellsAnswers
<1>1. Init => BlankInv
  BY DEF Init, BlankInv, JudgesComeLater, BlanksAreNotJudged, Idle
<1>2. TypeOK /\ VerdictInv /\ NothingBooked /\ BlankInv /\ [Next]_vars => BlankInv'
  BY NextKeepsBlanks
<1>3. VerdictInv /\ BlankInv => VerdictTellsAnswers
  BY DEF VerdictInv, BlankInv, VerdictTellsAnswers
<1> QED
  BY <1>1, <1>2, <1>3, VerdictIsInvariant, NothingIsBooked, PTL DEF Spec
=============================================================================
