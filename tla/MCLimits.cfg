\* A user's tickets, two workers of the judge, and all outputs for a rubric.
SPECIFICATION Spec
CONSTANTS
  HomeRooms = {1, 2}
  Lifetime = 1
  Minute = 3
  Tolerance = 1
  Skew = 0
  Stall = 1
  PurgeAfter = 3
  MaxOutstanding = 1
  MaxPerMinute = 2
  MaxChecks = 2
  MaxTickets = 3
  MaxClock = 5
  MaxRound = 2
  Workers = {1, 2}
  Evaluations = {1, 2}
  Players <- Pairs
  Day = 1
  Retention = 1
  DayLimit = 3
  UserLimit = 2
  MatchLimit = 2
  MaxAttempts = 2
  MaxClaims = 3
  MaxHour = 2
  Criteria = {1, 2, 3, 4}
  MaxScore <- Points
  Rank <- Order
  Top = 4
  Foreign = 5
INVARIANTS
  TicketInv
  AtMostOnce
  JudgeInv
  WinnerScoresHigher
  ScoringInv
CHECK_DEADLOCK FALSE
