CONSTANTS
  d1 = d1
  d2 = d2
  Device = {d1, d2}
  MaxWall = 3
  MaxCounter = 1
  MaxEvents = 6
SPECIFICATION Spec
INVARIANTS TypeOK DriftBounded
PROPERTY EmitsAboveHeard
CHECK_DEADLOCK FALSE
