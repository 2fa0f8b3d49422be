SPECIFICATION FairSpec
CONSTANTS
  Connection = {e}
  Management = {}
  MaxSockets = 2
  MaxAttempts = 0
INVARIANTS GraceMeansDisconnected SocketIsKept
PROPERTIES AbandonedIsDisposed
CHECK_DEADLOCK FALSE
