CONSTANTS
  d1 = d1
  d2 = d2
  d3 = d3
  e1 = e1
  Device = {d1, d2, d3}
  Entry = {e1}
  MaxDot = 4
  MaxOps = 4
SPECIFICATION CausalSpec
INVARIANT RemoveTakesEffect
PROPERTY ImplementsOrSet
CHECK_DEADLOCK FALSE
