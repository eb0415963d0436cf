-------------------------------- MODULE Arena --------------------------------
(***************************************************************************)
(* One AI/ML round after its countdown has started: the answers of the     *)
(* players, the one evaluation of the round, and the workers that judge it.*)
(*                                                                         *)
(* A worker is a process that runs one operation of the arena service at a *)
(* time: an API request, the alarm of the room, a maintenance pass. Each   *)
(* transaction is an action; between them a worker can be overtaken or die.*)
(* evaluate() is three steps: it is called, it claims the evaluation, and  *)
(* it persists what the judge answered, however late.                      *)
(*                                                                         *)
(* Left out: command receipts (a repeated command is a stuttering step),   *)
(* the event stream, scores and telemetry, and the daily request budget,   *)
(* which is one of the failures a judge can return.                        *)
(***************************************************************************)
EXTENDS Naturals, MatchStates

CONSTANTS
  Players,      \* the participants of the round
  Mode,         \* "DUEL" or "PRACTICE"
  Workers,      \* the processes that run arena operations
  StartsAt,     \* starts_at
  AnswerBy,     \* answer_deadline_at
  StaleClaim,   \* staleClaimSeconds
  RetryDelay,   \* recoveryRateLimitSeconds
  BudgetDelay,  \* budgetCircuitRecoveryRateLimitSeconds
  LastAct,      \* BOUND: players answer, concede and retry until this time
  CrashUntil,   \* BOUND: workers can die before this time
  MaxTime,      \* BOUND: the clock stops here
  None          \* SQL NULL

ASSUME RoundAssumption ==
  \/ Mode = "PRACTICE" /\ \E u \in Players : Players = {u}
  \/ Mode = "DUEL" /\ \E u, v \in Players : u # v /\ Players = {u, v}
ASSUME TimesAssumption ==
  {StartsAt, AnswerBy, StaleClaim, RetryDelay, BudgetDelay, LastAct,
   CrashUntil, MaxTime} \subseteq Nat
ASSUME NullAssumption == None \notin Nat /\ None \notin Players

VARIABLES
  now,          \* clock_timestamp()
  match,        \* the row of table matches
  answers,      \* the rows of ai_ml_answers, and by whom they were made
  eval,         \* the row of ai_ml_evaluations
  worker,       \* what each process is doing
  outcome,      \* match_participants.outcome
  records       \* what the round added to player_records

vars == <<now, match, answers, eval, worker, outcome, records>>

(* TEXT and BLANK are by the player, MISSED is the deadline's blank.       *)
Answers == {"NONE", "TEXT", "BLANK", "MISSED"}
EvalStatus == {"NONE", "PENDING", "IN_PROGRESS", "COMPLETED", "FAILED", "SKIPPED"}

MatchRow ==
  [state : MatchState, winner : Players \cup {None},
   endReason : EndReason \cup {NoReason}]

(* answerA is the player behind the anonymous label A; claim counts the    *)
(* claim ids drawn so far, of which the last one is the row's while the    *)
(* evaluation is in progress.                                              *)
EvalRow ==
  [status : EvalStatus, answerA : Players \cup {None}, claim : Nat,
   claimedAt : Nat, retryAt : Nat \cup {None}, retryable : BOOLEAN,
   winner : Players \cup {None}]

WorkerRow == [pc : {"IDLE", "CALLED", "JUDGING"}, claim : Nat, since : Nat]

Idle == [pc |-> "IDLE", claim |-> 0, since |-> 0]
Called == [Idle EXCEPT !.pc = "CALLED"]

TypeOK ==
  /\ now \in Nat
  /\ match \in MatchRow
  /\ answers \in [Players -> Answers]
  /\ eval \in EvalRow
  /\ worker \in [Workers -> WorkerRow]
  /\ outcome \in [Players -> {"NONE", "WIN", "LOSS", "DRAW", "NO_CONTEST", "CANCELLED"}]
  /\ records \in [Players -> [wins : Nat, losses : Nat]]

(* setReady has just started the countdown.                                *)
Init ==
  /\ now = 0
  /\ match = [state |-> "COUNTDOWN", winner |-> None, endReason |-> NoReason]
  /\ answers = [u \in Players |-> "NONE"]
  /\ eval = [status |-> "NONE", answerA |-> None, claim |-> 0, claimedAt |-> 0,
             retryAt |-> None, retryable |-> FALSE, winner |-> None]
  /\ worker = [w \in Workers |-> Idle]
  /\ outcome = [u \in Players |-> "NONE"]
  /\ records = [u \in Players |-> [wins |-> 0, losses |-> 0]]

-----------------------------------------------------------------------------
(* Ending the round.                                                       *)

(* Fault: the loser's outcome is the end reason.                           *)
BadOutcomeOf(reason, winner, u) == IF u = winner THEN "WIN" ELSE reason
OutcomeOf(reason, winner, u) ==
  IF reason \in {"CANCELLED", "NO_CONTEST"} THEN reason
  ELSE IF u = winner THEN "WIN" ELSE "LOSS"

(* Fault: the winner's record alone is kept.                               *)
BadWinsOnly(winner) ==
  [u \in Players |->
     IF Mode = "DUEL" /\ u = winner
       THEN [records[u] EXCEPT !.wins = @ + 1] ELSE records[u]]
Booked(winner) ==
  [u \in Players |->
     IF Mode = "DUEL" /\ winner \in Players
       THEN IF u = winner THEN [records[u] EXCEPT !.wins = @ + 1]
                          ELSE [records[u] EXCEPT !.losses = @ + 1]
       ELSE records[u]]

Finish(reason, winner) ==
  /\ match' = [state     |-> IF Mode = "DUEL" THEN "REMATCH_PENDING" ELSE "FINISHED",
               winner    |-> winner,
               endReason |-> reason]
  /\ records' = Booked(winner)

-----------------------------------------------------------------------------
(* Answers.                                                                *)

Blank(a) == a \in {"BLANK", "MISSED"}

(* prepareEvaluationTx: with the last answer in, the evaluation is created *)
(* and the round is judged, unless everybody left the page blank. call     *)
(* tells whether worker w goes on to evaluate.                             *)
PrepareEvaluation(w, ans, call) ==
  /\ answers' = ans
  /\ \/ /\ \E u \in Players : ans[u] = "NONE"
        /\ UNCHANGED <<match, eval, worker, outcome, records>>
     \/ /\ \A u \in Players : Blank(ans[u])
        /\ \E a \in Players :
             eval' = [eval EXCEPT !.status = "SKIPPED", !.answerA = a]
        /\ Finish(IF \E u \in Players : ans[u] = "MISSED"
                    THEN "ANSWER_TIMEOUT" ELSE "NO_CONTEST", None)
        /\ outcome' = [u \in Players |-> "NO_CONTEST"]
        /\ UNCHANGED worker
     \/ /\ \A u \in Players : ans[u] # "NONE"
        /\ \E u \in Players : ~Blank(ans[u])
        /\ \E a \in Players :
             eval' = [eval EXCEPT !.status = "PENDING", !.answerA = a]
        /\ match' = [match EXCEPT !.state = "JUDGING"]
        /\ worker' = IF call THEN [worker EXCEPT ![w] = Called] ELSE worker
        /\ UNCHANGED <<outcome, records>>

Activate ==
  /\ match.state = "COUNTDOWN"
  /\ StartsAt <= now
  /\ match' = [match EXCEPT !.state = "ACTIVE"]
  /\ UNCHANGED <<now, answers, eval, worker, outcome, records>>

MayAnswer(u) ==
  match.state = "ACTIVE" /\ answers[u] = "NONE" /\ now < AnswerBy

SubmitAnswer(w, u, a) ==
  /\ now <= LastAct
  /\ worker[w].pc = "IDLE"
  /\ MayAnswer(u)
  /\ PrepareEvaluation(w, [answers EXCEPT ![u] = a], TRUE)
  /\ UNCHANGED now

AnswersDue == match.state = "ACTIVE" /\ AnswerBy <= now

(* The alarm of the room judges at once, the global sweep does not.        *)
ProcessAnswerDeadline(w) ==
  LET filled == [u \in Players |-> IF answers[u] = "NONE" THEN "MISSED" ELSE answers[u]]
  IN /\ worker[w].pc = "IDLE"
     /\ AnswersDue
     /\ \E call \in BOOLEAN : PrepareEvaluation(w, filled, call)
     /\ UNCHANGED now

(* The match engine can end an active round as well: a player concedes, or *)
(* has been away for too long.                                             *)
EngineEnds(reason, winner) ==
  /\ now <= LastAct
  /\ match.state = "ACTIVE"
  /\ \/ reason = "FORFEIT"    /\ Mode = "DUEL"     /\ winner \in Players
     \/ reason = "NO_CONTEST" /\ Mode = "DUEL"     /\ winner = None
     \/ reason = "CANCELLED"  /\ Mode = "PRACTICE" /\ winner = None
  /\ Finish(reason, winner)
  /\ outcome' = [u \in Players |-> OutcomeOf(reason, winner, u)]
  /\ UNCHANGED <<now, answers, eval, worker>>

-----------------------------------------------------------------------------
(* Judging.                                                                *)

(* Fault: a claim whose holder died is never given up.                     *)
BadStale == FALSE
Stale == eval.status = "IN_PROGRESS" /\ eval.claimedAt + StaleClaim <= now

(* Maintenance, or the room's alarm, calls evaluate() for an evaluation    *)
(* nobody has claimed or whose judge has been silent for too long.         *)
RecoverEvaluation(w) ==
  /\ worker[w].pc = "IDLE"
  /\ eval.status = "PENDING" \/ Stale
  /\ worker' = [worker EXCEPT ![w] = Called]
  /\ UNCHANGED <<now, match, answers, eval, outcome, records>>

Ready == eval.retryAt = None \/ eval.retryAt <= now

(* A player asks for a failed evaluation to be tried again.                *)
RetryEvaluation(w) ==
  /\ now <= LastAct
  /\ worker[w].pc = "IDLE"
  /\ match.state = "JUDGING"
  /\ eval.status = "FAILED" /\ eval.retryable /\ Ready
  /\ worker' = [worker EXCEPT ![w] = Called]
  /\ UNCHANGED <<now, match, answers, eval, outcome, records>>

(* Fault: a claim in progress is taken over whatever its age.              *)
BadClaimable ==
  \/ eval.status \in {"PENDING", "IN_PROGRESS"}
  \/ eval.status = "FAILED" /\ eval.retryable /\ Ready
Claimable ==
  \/ eval.status = "PENDING"
  \/ Stale
  \/ eval.status = "FAILED" /\ eval.retryable /\ Ready

(* claimEvaluation, under the lock of the evaluation's row only.           *)
ClaimEvaluation(w) ==
  /\ worker[w].pc = "CALLED"
  /\ \/ /\ Claimable
        /\ eval' = [eval EXCEPT !.status = "IN_PROGRESS", !.claim = eval.claim + 1,
                                !.claimedAt = now, !.retryAt = None,
                                !.retryable = FALSE]
        /\ worker' = [worker EXCEPT ![w] =
                        [pc |-> "JUDGING", claim |-> eval.claim + 1, since |-> now]]
     \/ /\ ~Claimable
        /\ worker' = [worker EXCEPT ![w] = Idle]
        /\ UNCHANGED eval
  /\ UNCHANGED <<now, match, answers, outcome, records>>

(* Fault: the claim is not looked at when the judge's answer is persisted. *)
BadHolds(w) == match.state = "JUDGING" /\ eval.status = "IN_PROGRESS"
(* The claim of w is the one the row still carries.                        *)
Holds(w) ==
  /\ match.state = "JUDGING"
  /\ eval.status = "IN_PROGRESS"
  /\ worker[w].claim = eval.claim

(* The winners a valid judgement can name: with one blank answer the other *)
(* player, whatever the judge says; else the player behind A or B. Fault:  *)
(* the blank answer is not looked at.                                      *)
BadJudgedWinners == IF Mode = "DUEL" THEN Players ELSE {None}
JudgedWinners ==
  IF Mode = "PRACTICE" THEN {None}
  ELSE IF \E u \in Players : Blank(answers[u])
         THEN {u \in Players : ~Blank(answers[u])}
         ELSE Players

(* The deadline's blanks are told from the players' own.                   *)
JudgedReason ==
  IF \E u \in Players : answers[u] = "MISSED" THEN "ANSWER_TIMEOUT" ELSE "JUDGED"

(* A judged practice round is a draw, timed out or not.                    *)
JudgedOutcome(winner, u) ==
  IF Mode = "PRACTICE" THEN "DRAW" ELSE IF u = winner THEN "WIN" ELSE "LOSS"

PersistSuccess(w) ==
  /\ worker[w].pc = "JUDGING"
  /\ worker' = [worker EXCEPT ![w] = Idle]
  /\ \/ /\ Holds(w)
        /\ \E winner \in JudgedWinners :
             /\ eval' = [eval EXCEPT !.status = "COMPLETED", !.winner = winner]
             /\ Finish(JudgedReason, winner)
             /\ outcome' = [u \in Players |-> JudgedOutcome(winner, u)]
     \/ ~Holds(w) /\ UNCHANGED <<match, eval, outcome, records>>
  /\ UNCHANGED <<now, answers>>

(* Fault: a permanent failure leaves the round open.                       *)
BadEndsRound(kind) == FALSE
EndsRound(kind) == kind = "PERMANENT"

(* The judge failed: retryably, on the request budget, or for good.        *)
PersistFailure(w, kind) ==
  /\ worker[w].pc = "JUDGING"
  /\ worker' = [worker EXCEPT ![w] = Idle]
  /\ \/ /\ Holds(w)
        /\ eval' = [eval EXCEPT
                      !.status = "FAILED",
                      !.retryable = kind # "PERMANENT",
                      !.retryAt = CASE kind = "PERMANENT" -> None
                                    [] kind = "BUDGET"    -> now + BudgetDelay
                                    [] OTHER              -> now + RetryDelay]
        /\ \/ /\ EndsRound(kind)
              /\ Finish("JUDGE_FAILED", None)
              /\ outcome' = [u \in Players |-> "NO_CONTEST"]
           \/ ~EndsRound(kind) /\ UNCHANGED <<match, outcome, records>>
     \/ ~Holds(w) /\ UNCHANGED <<match, eval, outcome, records>>
  /\ UNCHANGED <<now, answers>>

(* The process dies before it claims, or while the judge is at work.       *)
CrashWorker(w) ==
  /\ now < CrashUntil
  /\ worker[w].pc # "IDLE"
  /\ worker' = [worker EXCEPT ![w] = Idle]
  /\ UNCHANGED <<now, match, answers, eval, outcome, records>>

Tick ==
  /\ now < MaxTime
  /\ now' = now + 1
  /\ UNCHANGED <<match, answers, eval, worker, outcome, records>>

-----------------------------------------------------------------------------
Next ==
  \/ Activate
  \/ \E w \in Workers, u \in Players, a \in {"TEXT", "BLANK"} : SubmitAnswer(w, u, a)
  \/ \E w \in Workers : ProcessAnswerDeadline(w)
  \/ \E reason \in EndReason, winner \in Players \cup {None} : EngineEnds(reason, winner)
  \/ \E w \in Workers : RecoverEvaluation(w)
  \/ \E w \in Workers : RetryEvaluation(w)
  \/ \E w \in Workers : ClaimEvaluation(w)
  \/ \E w \in Workers : PersistSuccess(w)
  \/ \E w \in Workers, kind \in {"RETRYABLE", "BUDGET", "PERMANENT"} : PersistFailure(w, kind)
  \/ \E w \in Workers : CrashWorker(w)
  \/ Tick

Spec == Init /\ [][Next]_vars

(* Maintenance runs again and again, a process that stays up takes its     *)
(* next step, and every call to the judge ends in an answer or a failure   *)
(* (it has a timeout). Players owe nothing.                                *)
Fairness ==
  /\ WF_vars(Tick)
  /\ WF_vars(Activate)
  /\ WF_vars(\E w \in Workers : ProcessAnswerDeadline(w))
  /\ WF_vars(\E w \in Workers : RecoverEvaluation(w))
  /\ \A w \in Workers :
       /\ WF_vars(ClaimEvaluation(w))
       /\ WF_vars(PersistSuccess(w)
                  \/ \E kind \in {"RETRYABLE", "BUDGET", "PERMANENT"} : PersistFailure(w, kind))

FairSpec == Spec /\ Fairness

-----------------------------------------------------------------------------
(* Safety.                                                                 *)

(* The match row and the evaluation tell the same story: a round that was  *)
(* judged has the evaluation's winner, a round that is being judged has an *)
(* evaluation somebody can still complete, and only a permanent failure    *)
(* ends a round without a judgement of the text that was written.          *)
VerdictMatchesEvaluation ==
  /\ match.state = "JUDGING" <=>
       \/ eval.status \in {"PENDING", "IN_PROGRESS"}
       \/ eval.status = "FAILED" /\ eval.retryable
  /\ eval.status = "COMPLETED" =>
       match.winner = eval.winner /\ match.endReason \in {"JUDGED", "ANSWER_TIMEOUT"}
  /\ match.endReason = "JUDGED" => eval.status = "COMPLETED"
  /\ match.endReason = "JUDGE_FAILED" => eval.status = "FAILED" /\ ~eval.retryable

NobodyWrote == \A u \in Players : Blank(answers[u])

(* ANSWER_TIMEOUT is said only of rounds in which an answer was missing at *)
(* the deadline, and of every such round that comes to its evaluation and  *)
(* is not failed by its judge, except a duel of two blanks: of that one    *)
(* the documentation says NO_CONTEST and the code does not                 *)
(* (TwoBlanksNoContest below), so nothing is asked of its end reason.      *)
TimeoutMeansMissed ==
  LET missed == \E u \in Players : answers[u] = "MISSED" IN
  eval.status # "NONE" =>
    /\ match.endReason = "ANSWER_TIMEOUT" => missed
    /\ /\ missed /\ ~(Mode = "DUEL" /\ NobodyWrote)
       /\ match.endReason \notin {NoReason, "JUDGE_FAILED"}
       => match.endReason = "ANSWER_TIMEOUT"

(* A blank answer never wins a round that came to its evaluation.          *)
BlankNeverWins ==
  \A u \in Players :
    match.winner = u /\ eval.status # "NONE" => answers[u] = "TEXT"

(* A round is skipped exactly when nobody wrote anything, duel or practice *)
(* and whatever its end reason: nobody wins or loses, no record moves and  *)
(* no judge is ever at work on it.                                         *)
BlanksAreNotJudged ==
  /\ eval.status = "SKIPPED" <=> eval.status # "NONE" /\ NobodyWrote
  /\ eval.status = "SKIPPED" =>
       /\ match.winner = None
       /\ \A u \in Players :
            outcome[u] = "NO_CONTEST" /\ records[u] = [wins |-> 0, losses |-> 0]
       /\ \A w \in Workers : worker[w].pc # "JUDGING"

(* The verdict tells what the players wrote (arena-service.ts:676, :984).  *)
VerdictTellsAnswers == TimeoutMeansMissed /\ BlankNeverWins /\ BlanksAreNotJudged

(* Two judges are paid for the same evaluation at the same time only after *)
(* the claim of the first has gone stale.                                  *)
OneFreshJudge ==
  \A w, v \in Workers :
    /\ w # v /\ worker[w].pc = "JUDGING" /\ worker[v].pc = "JUDGING"
    /\ worker[w].claim < worker[v].claim
    => worker[w].since + StaleClaim <= worker[v].since

(* The judge's answer to a claim that has been taken over changes nothing: *)
(* as long as the row carries a claim, its holder is the only one who can  *)
(* decide, so a late failure cannot undo the judgement under way.          *)
TakenOverClaimsAreSilent ==
  [][ eval.status = "IN_PROGRESS" /\ eval'.status \in {"COMPLETED", "FAILED"} =>
        \E w \in Workers : worker[w].claim = eval.claim /\ worker'[w].pc = "IDLE" ]_vars

(* The arena keeps the promises of ArenaContract: one verdict, reached     *)
(* from the right state, booked in the records exactly once with it.       *)
Contract == INSTANCE ArenaContract WITH
  state   <- match.state,
  verdict <- [reason |-> match.endReason, winner |-> match.winner],
  tally   <- records

ImplementsContract == Contract!ArenaSpec

-----------------------------------------------------------------------------
(* Liveness, for behaviours of FairSpec.                                   *)

(* A round nobody answers is closed by the server.                         *)
AnswerTimeEnds ==
  match.state \in {"COUNTDOWN", "ACTIVE"} ~> match.state \notin {"COUNTDOWN", "ACTIVE"}

(* Judging comes to a verdict, or to a failure the players may retry, even *)
(* when the judging process dies.                                          *)
JudgingSettles ==
  match.state = "JUDGING" ~> match.state # "JUDGING" \/ eval.status = "FAILED"

(* So a round that was begun is judged, or its players are asked to retry. *)
AnswersAreJudged == AnswerTimeEnds /\ JudgingSettles

-----------------------------------------------------------------------------
(* A claim of the documentation that the code does not keep.               *)

(* Two duel blanks finish NO_CONTEST (docs/ai-ml-arena.md:67, also         *)
(* docs/architecture.md:62). When the deadline made one of them, the code  *)
(* says ANSWER_TIMEOUT (arena-service.ts:676).                             *)
TwoBlanksNoContest ==
  Mode = "DUEL" /\ eval.status = "SKIPPED" => match.endReason = "NO_CONTEST"
=============================================================================
