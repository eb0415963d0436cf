\* A room over its rounds.
SPECIFICATION Spec
CONSTANTS
  host = host  guest = guest  other = other
  h1 = h1  h2 = h2  g1 = g1  o1 = o1
  Users = {host, guest, other}
  Host = host
  Tabs = {h1, h2, g1, o1}
  Who <- SignedIn
  Budgets <- Bounds
  Sends <- Doings
  Keys = {k1, k2, k3}
  Problems = {pa, pb}
  MaxRounds = 3
  NoProblem = NoProblem
  NoReply = NoReply
INVARIANTS
  RoomInv
  RoundsAreOneChain
  AnswersHold
  ConnectNeverDeadlocks
SYMMETRY Symmetric
CHECK_DEADLOCK FALSE
