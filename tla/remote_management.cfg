SPECIFICATION FairSpec
CONSTANTS
  Connection = {m}
  Management = {m}
  MaxSockets = 3
  MaxAttempts = 1
INVARIANTS ConnectedIsServed CloseIsHandled
PROPERTIES FailureIsFinal FailureStopsLoops LostIsResolved
CHECK_DEADLOCK FALSE
