SPECIFICATION Spec
CONSTANTS
  Payload = {d1, d2}
  MaxMessages <- MCMaxMessages
  ClientMessages = 2
  ServerMessages = 0
  MaxSockets = 2
  MaxInFlight = 1
  ExtHost = FALSE
  Lossy = TRUE
INVARIANT NothingLost
PROPERTY ChannelSpec
CHECK_DEADLOCK FALSE
