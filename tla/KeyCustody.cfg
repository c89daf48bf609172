CONSTANTS
  d1 = d1
  d2 = d2
  d3 = d3
  a1 = a1
  a2 = a2
  w1 = w1
  w2 = w2
  e1 = e1
  e2 = e2
  t1 = t1
  c1 = c1
  c2 = c2
  Account = {a1, a2}
  VaultKey = {a1, a2}
  Device = {d1, d2, d3}
  Owner <- TwoAndOne
  Password = {w1, w2}
  EntryId = {e1, e2}
  Text = {t1}
  Code = {c1, c2}
  NoText = NoText
  MaxRegistration = 2
  MaxSealed = 2
SPECIFICATION Spec
INVARIANTS TypeOK EntriesOpenAsWritten
PROPERTY ImplementsAccess
SYMMETRY Interchangeable
CHECK_DEADLOCK FALSE
