\* A page of two rooms, each with two rounds.
SPECIFICATION Spec
CONSTANTS
  Rooms = {1, 2}
  MaxRound = 2
  MaxVersion = 1
  MaxSockets = 3
  Budgets <- Bounds
INVARIANTS
  AnnouncedIsFetched
  LinkInv
PROPERTIES
  ShownGoesForward
  SessionRecovers
CHECK_DEADLOCK FALSE
