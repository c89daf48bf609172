CONSTANTS
  d1 = d1
  d2 = d2
  Device = {d1, d2}
  MaxDot = 4
SPECIFICATION Spec
INVARIANTS TypeOK AlwaysCanonical SameDotsSameContext
PROPERTY ImplementsDotSet
