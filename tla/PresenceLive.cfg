CONSTANTS
  d1 = d1
  d2 = d2
  e1 = e1
  e2 = e2
  Device = {d1, d2}
  Entry = {e1, e2}
  MaxDot = 3
  MaxOps = 3
SPECIFICATION FairSpec
PROPERTY EventuallyConverged
CHECK_DEADLOCK FALSE
