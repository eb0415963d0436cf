\* Everything that must end does, with a fair clock and fair maintenance:
\* one session for each player.
SPECIFICATION FairSpec
CONSTANTS
  p1 = p1  p2 = p2  s1 = s1  s2 = s2  s3 = s3
  None = None
  Players = {p1, p2}
  Host = p1
  Mode = "DUEL"
  Languages = {"PYTHON"}
  Sessions = {s1, s2}
  Owner <- OneEach
  MaxExec = 1
  Runtimes = {0}
  Countdown = 1
  Grace = 2
  StaleAfter = 1
  Cooldown = 1
  SampleGap = 1
  ExecStale = 2
  Kinds = {"SUBMIT"}
  LastLobbyAct = 0
  LastPlayAct = 1
  LastLinkAct = 1
  MaxTime = 4
  MaxPending = 1
  MayCrash = FALSE
INVARIANTS
  PresenceIsWatched
PROPERTIES
  RoundMovesOn
  AbandonedDuelEnds
\* The clock is bounded, so every behaviour ends.
CHECK_DEADLOCK FALSE
