CONSTANTS
  d1 = d1
  d2 = d2
  e1 = e1
  Device = {d1, d2}
  Entry = {e1}
  MaxDot = 3
  MaxOps = 3
SPECIFICATION Spec
INVARIANT RemoveTakesEffect
CHECK_DEADLOCK FALSE
