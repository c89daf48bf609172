CONSTANTS
  e1 = e1
  f1 = f1
  f2 = f2
  Unwritten = Unwritten
  Device = {1, 2}
  Entry = {e1}
  Field = {f1, f2}
  Value = {1}
  Now = {0, 1}
  MaxDot = 3
  MaxOps = 3
  MaxWall = 3
  MaxCounter = 1
  LastWall = 1
SPECIFICATION Spec
INVARIANTS TypeOK Convergence RegisterIsLargestWrite StampsFollowCausality StampsUnique ClockCoversDoc
PROPERTIES LocalWriteWins
CHECK_DEADLOCK FALSE
