\* A socket of the Durable Object is sent an event twice.
SPECIFICATION Spec
CONSTANTS
  Socks = {1}
  Limit = 2
  MaxVersion = 2
  StaleAfter = 3
  RenewAfter = 2
  Grace = 4
  DueIn = 2
  SocketCap = 1
  None = None
  Transports = {"HUB"}
  Budgets <- TwoPings
INVARIANT
  DeliveredInOrder
CHECK_DEADLOCK FALSE
