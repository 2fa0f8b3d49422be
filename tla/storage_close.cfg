SPECIFICATION FairSpec
CONSTANTS
  Window = {w1}
  Key = {k1}
  Value = {v1, v2}
  Main = main
  Absent = absent
  Writers = {w1, main}
  MaxWrites = 2
  MaxOpens = 1
  MaxFailures = 2
INVARIANTS Converged ClosedIsFlushed CacheIsAccounted ClosedIsStored
PROPERTIES WhenFlushedResolves WindowCloses
CHECK_DEADLOCK FALSE
