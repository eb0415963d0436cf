\* A verdict overtakes an earlier receipt.
SPECIFICATION Spec
CONSTANTS
  p1 = p1  p2 = p2  s1 = s1  s2 = s2  s3 = s3
  None = None
  Players = {p1, p2}
  Host = p1
  Mode = "DUEL"
  Languages = {"PYTHON"}
  Sessions = {s1, s2}
  Owner <- OneEach
  MaxExec = 2
  Runtimes = {0, 1}
  Countdown = 1
  Grace = 2
  StaleAfter = 9
  Cooldown = 1
  SampleGap = 1
  ExecStale = 2
  Kinds = {"SUBMIT"}
  LastLobbyAct = 0
  LastPlayAct = 2
  LastLinkAct = 0
  MaxTime = 3
  MaxPending = 0
  MayCrash = FALSE
PROPERTIES
  EarlierReceiptHoldsVerdict
\* The clock is bounded, so every behaviour ends.
CHECK_DEADLOCK FALSE
