SPECIFICATION FairSpec
CONSTANTS
  Window = {w1}
  Key = {k1}
  Value = {v1, v2}
  Main = main
  Absent = absent
  Writers = {main}
  MaxWrites = 2
  MaxOpens = 0
  MaxFailures = 1
PROPERTIES DatabaseCloses
CHECK_DEADLOCK FALSE
