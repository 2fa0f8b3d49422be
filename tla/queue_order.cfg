SPECIFICATION FairSpec
CONSTANTS
  Key = {k1, k2}
  NoKey = NoKey
  Task = {t1, t2, t3}
  Waiter = {w1}
CHECK_DEADLOCK FALSE
INVARIANTS InOrder SizeIsExact
PROPERTIES DrainedMeansDone RunsUnlessBlocked WaitersAreReleased
