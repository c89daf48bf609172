CONSTANTS
  e1 = e1
  f1 = f1
  f2 = f2
  Unwritten = Unwritten
  Device = {1, 2}
  Entry = {e1}
  Field = {f1}
  Value = {1, 2}
  Now = {0, 1}
  MaxDot = 4
  MaxOps = 4
  MaxWall = 1
  MaxCounter = 0
  LastWall = 1
SPECIFICATION Spec
INVARIANTS Convergence RegisterIsLargestWrite
PROPERTIES RegistersGrow ReAddShowsLargestWrite
CHECK_DEADLOCK FALSE
