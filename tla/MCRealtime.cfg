\* Two sockets of a player, one at a time, on either transport.
SPECIFICATION Spec
CONSTANTS
  Socks = {1, 2}
  Limit = 2
  MaxVersion = 2
  StaleAfter = 3
  RenewAfter = 2
  Grace = 4
  DueIn = 2
  SocketCap = 1
  None = None
  Transports = {"HUB", "NODE"}
  Budgets <- Bounds
INVARIANTS
  RealtimeInv
  SessionsFollowSockets
  NothingMissed
PROPERTIES
  OrphansExpire
  ClientsCatchUp
CHECK_DEADLOCK FALSE
