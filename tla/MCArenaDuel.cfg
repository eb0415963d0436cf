\* A duel judged by two workers that may be slow or die; fair maintenance.
SPECIFICATION FairSpec
CONSTANTS
  None = None
  p1 = p1  p2 = p2  w1 = w1  w2 = w2
  Players = {p1, p2}
  Mode = "DUEL"
  Workers = {w1, w2}
  StartsAt = 1
  AnswerBy = 2
  StaleClaim = 2
  RetryDelay = 1
  BudgetDelay = 2
  LastAct = 7
  CrashUntil = 6
  MaxTime = 8
INVARIANTS
  TypeOK
  VerdictMatchesEvaluation
  VerdictTellsAnswers
  OneFreshJudge
PROPERTIES
  TakenOverClaimsAreSilent
  ImplementsContract
  AnswersAreJudged
\* The clock is bounded, so every behaviour ends.
CHECK_DEADLOCK FALSE
