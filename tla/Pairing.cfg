CONSTANTS
  p1 = p1
  p2 = p2
  p3 = p3
  s1 = s1
  s2 = s2
  k1 = k1
  a1 = a1
  a2 = a2
  NewSide = {p1, p2, p3}
  SourceSide = {s1, s2}
  DeviceKey = {k1}
  Account = {a1, a2}
  Sas <- Partly
SPECIFICATION FairSpec
INVARIANTS TypeOK JoinsThroughOwnSource ConfirmedHaveMet
PROPERTY ConfirmedComplete
CHECK_DEADLOCK FALSE
