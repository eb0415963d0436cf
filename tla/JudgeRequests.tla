---------------------------- MODULE JudgeRequests ----------------------------
(***************************************************************************)
(* The requests that workers send to the judge's provider.  A worker claims*)
(* an evaluation and tries a few times; each try is reserved in the        *)
(* database first, under one lock for all workers, against limits for a    *)
(* day.  The claims are ArenaService's (Arena), and so is what becomes of  *)
(* the result; a claim that has gone stale may be followed by another while*)
(* its worker still runs.  JudgeScoring tells which output is valid.       *)
(***************************************************************************)
EXTENDS Integers, FiniteSets

CONSTANTS
  Workers,      \* processes of all services
  Evaluations,  \* evaluations to be judged
  Players,      \* the players charged for an evaluation
  Day,          \* the rolling window
  Retention,    \* how long a reservation is kept
  DayLimit,     \* maxRequestsPerRollingDay
  UserLimit,    \* maxRequestsPerUserPerRollingDay
  MatchLimit,   \* maxRequestsPerMatchPerRollingDay
  MaxAttempts,  \* requests for one claim
  MaxClaims,    \* BOUND: claims
  MaxHour       \* BOUND: time

ASSUME JudgeAssumption ==
  /\ {Day, Retention, DayLimit, UserLimit, MatchLimit, MaxAttempts, MaxClaims, MaxHour} \subseteq Nat
  /\ Day <= Retention
  /\ 0 \notin {DayLimit, UserLimit, MatchLimit, MaxAttempts}
  /\ \A e \in Evaluations : IsFiniteSet(Players[e])

VARIABLES
  hour,     \* clock_timestamp()
  claims,   \* number of claims made
  rows,     \* ai_ml_judge_request_reservations
  job,      \* what a worker is doing
  sent,     \* HISTORY: requests that were sent, with their reservations
  reports   \* HISTORY: what evaluate returned or threw

judgeVars == <<hour, claims, rows, job, sent, reports>>

Reservation ==
  [evaluation : Evaluations, claim : 1 .. MaxClaims, attempt : 1 .. MaxAttempts, at : Nat]
Idle == [pc |-> "IDLE"]
Job == [pc : {"RESERVE", "CALL", "SLEEP"}, evaluation : Evaluations, claim : 1 .. MaxClaims,
        attempt : 1 .. MaxAttempts]

(* What evaluate ends with.  FAILED is retryable: NETWORK, TIMEOUT,        *)
(* RATE_LIMIT, PROVIDER_5XX, REFUSAL, INCOMPLETE, and an output that its   *)
(* schema or JudgeScoring refuses.  FINAL is PROVIDER_4XX or UNKNOWN, and  *)
(* BUDGET is BUDGET_CIRCUIT_OPEN or BUDGET_ACCOUNTING_FAILED.              *)
Codes == {"SUCCESS", "FAILED", "FINAL", "BUDGET"}

JudgeTypeOK ==
  /\ hour \in Nat /\ claims \in 0 .. MaxClaims
  /\ rows \subseteq Reservation /\ sent \subseteq Reservation
  /\ \A w \in Workers : job[w] = Idle \/ job[w] \in Job
  /\ reports \subseteq [claim : 1 .. MaxClaims, code : Codes, attempts : 0 .. MaxAttempts]

JudgeInit ==
  /\ hour = 0 /\ claims = 0
  /\ rows = {} /\ sent = {} /\ reports = {}
  /\ job = [w \in Workers |-> Idle]

-----------------------------------------------------------------------------
Claim(w, e) ==
  /\ job[w] = Idle /\ claims < MaxClaims
  /\ claims' = claims + 1
  /\ job' = [job EXCEPT ![w] = [pc |-> "RESERVE", evaluation |-> e, claim |-> claims + 1,
                                attempt |-> 1]]
  /\ UNCHANGED <<hour, rows, sent, reports>>

(* evaluate ends.                                                          *)
Return(w, code, attempts) ==
  /\ reports' = reports \cup {[claim |-> job[w].claim, code |-> code, attempts |-> attempts]}
  /\ job' = [job EXCEPT ![w] = Idle]

Today(S) == {r \in S : r.at >= hour - Day}
Charged(S, u) == {r \in S : u \in Players[r.evaluation]}
Of(S, e) == {r \in S : r.evaluation = e}

(* Fault: what a player used in other matches does not count.              *)
BadAdmissible(e) ==
  /\ Cardinality(Today(rows)) < DayLimit
  /\ Cardinality(Of(Today(rows), e)) < MatchLimit
  /\ \A u \in Players[e] : Cardinality(Of(Charged(Today(rows), u), e)) < UserLimit
Admissible(e) ==
  /\ Cardinality(Today(rows)) < DayLimit
  /\ Cardinality(Of(Today(rows), e)) < MatchLimit
  /\ \A u \in Players[e] : Cardinality(Charged(Today(rows), u)) < UserLimit

(* Both the reservation and the daily sweep drop what is too old; the      *)
(* batch of a reservation is never full here.                              *)
Retained(S) == {r \in S : r.at >= hour - Retention}

(* The rows after reserve: a repetition finds the row that is there.       *)
Existing(j) == {r \in rows : r.claim = j.claim /\ r.attempt = j.attempt}
NewRow(j) == [evaluation |-> j.evaluation, claim |-> j.claim, attempt |-> j.attempt, at |-> hour]
RowsWith(j) == Retained(rows) \cup (IF Existing(j) = {} THEN {NewRow(j)} ELSE {})
MayReserve(j) == Existing(j) # {} \/ Admissible(j.evaluation)

(* The reservation and, without an await between, the request.             *)
Reserve(w) ==
  LET j == job[w]
  IN /\ j.pc = "RESERVE" /\ MayReserve(j)
     /\ rows' = RowsWith(j)
     /\ sent' = sent \cup (IF Existing(j) = {} THEN {NewRow(j)} ELSE Existing(j))
     /\ job' = [job EXCEPT ![w].pc = "CALL"]
     /\ UNCHANGED <<hour, claims, reports>>

(* Attempts that were made: attempts.length.                               *)
Made(j) == j.attempt - 1

(* No budget, or the database fails, before or after the commit.           *)
ReserveThrows(w) ==
  LET j == job[w]
  IN /\ j.pc = "RESERVE"
     /\ rows' \in {rows} \cup (IF MayReserve(j) THEN {RowsWith(j)} ELSE {})
     /\ Return(w, "BUDGET", Made(j))
     /\ UNCHANGED <<hour, claims, sent>>

GivesUp(j, code) == code = "FINAL" \/ j.attempt = MaxAttempts

(* The provider's answer, as classifyFailure sees it.                      *)
Answer(w, code) ==
  LET j == job[w]
  IN /\ j.pc = "CALL"
     /\ IF code = "SUCCESS" \/ GivesUp(j, code)
          THEN Return(w, code, j.attempt)
          ELSE /\ job' = [job EXCEPT ![w].pc = "SLEEP"]
               /\ UNCHANGED reports
     /\ UNCHANGED <<hour, claims, rows, sent>>

Following(n) == n + 1

Wake(w) ==
  /\ job[w].pc = "SLEEP"
  /\ job' = [job EXCEPT ![w].pc = "RESERVE", ![w].attempt = Following(@)]
  /\ UNCHANGED <<hour, claims, rows, sent, reports>>

(* The process dies; the claim goes stale.                                 *)
Die(w) ==
  /\ job[w] # Idle
  /\ job' = [job EXCEPT ![w] = Idle]
  /\ UNCHANGED <<hour, claims, rows, sent, reports>>

PurgeReservations ==
  /\ rows' = Retained(rows)
  /\ UNCHANGED <<hour, claims, job, sent, reports>>

HourPasses ==
  /\ hour < MaxHour /\ \A w \in Workers : job[w].pc # "CALL"
  /\ hour' = hour + 1
  /\ UNCHANGED <<claims, rows, job, sent, reports>>

Proceeds(w) ==
  Reserve(w) \/ ReserveThrows(w) \/ Wake(w) \/ \E code \in Codes \ {"BUDGET"} : Answer(w, code)

JudgeNext ==
  \/ \E w \in Workers : Proceeds(w) \/ Die(w) \/ \E e \in Evaluations : Claim(w, e)
  \/ PurgeReservations \/ HourPasses

JudgeSpec == JudgeInit /\ [][JudgeNext]_judgeVars

-----------------------------------------------------------------------------
(* What must hold.                                                         *)

(* In no day are more requests sent than the limits allow, whichever       *)
(* workers send them, however often they die, and although rows are purged *)
(* (request-budget.ts:86).                                                 *)
WithinBudget ==
  /\ Cardinality(Today(sent)) <= DayLimit
  /\ \A e \in Evaluations :
       /\ Cardinality(Of(Today(sent), e)) <= MatchLimit
       /\ \A u \in Players[e] : Cardinality(Charged(Today(sent), u)) <= UserLimit

(* What evaluate reports of its attempts is what was sent for its claim    *)
(* (openai-judge.ts:333).                                                  *)
AttemptsAreReported ==
  \A r \in reports : r.attempts = Cardinality({s \in sent : s.claim = r.claim})

(* The rows stay well formed, and what is spent is limited and told.       *)
JudgeInv == JudgeTypeOK /\ WithinBudget /\ AttemptsAreReported
=============================================================================
