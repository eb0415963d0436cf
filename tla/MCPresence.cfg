\* A host with two tabs and a guest come and go around one submission;
\* servers may die.
SPECIFICATION Spec
CONSTANTS
  p1 = p1  p2 = p2  s1 = s1  s2 = s2  s3 = s3
  None = None
  Players = {p1, p2}
  Host = p1
  Mode = "DUEL"
  Languages = {"PYTHON"}
  Sessions = {s1, s2, s3}
  Owner <- HostHasTwo
  MaxExec = 1
  Runtimes = {0}
  Countdown = 1
  Grace = 2
  StaleAfter = 1
  Cooldown = 1
  SampleGap = 1
  ExecStale = 2
  Kinds = {"SUBMIT"}
  LastLobbyAct = 0
  LastPlayAct = 1
  LastLinkAct = 1
  MaxTime = 3
  MaxPending = 1
  MayCrash = TRUE
INVARIANTS
  TypeOK
  DefaultSparesSubmissions
  DeadlineRunsFromAbsence
  JournalTellsState
PROPERTIES
  ImplementsContract
\* The clock is bounded, so every behaviour ends.
CHECK_DEADLOCK FALSE
