SPECIFICATION FairSpec
CONSTANTS
  Payload = {d1}
  MaxMessages <- MCMaxMessages
  ClientMessages = 2
  ServerMessages = 0
  MaxSockets = 3
  MaxInFlight = 1
  ExtHost = TRUE
  Lossy = FALSE
INVARIANT Consistent
INVARIANT TimersAreArmed
INVARIANT NoGap
PROPERTY StableDelivery
PROPERTY SilenceNoticed
CHECK_DEADLOCK FALSE
