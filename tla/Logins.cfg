CONSTANTS
  u1 = u1
  u2 = u2
  w1 = w1
  w2 = w2
  User = {u1, u2}
  Password = {w1, w2}
  MaxRegistration = 2
  MaxLogin = 2
  MaxAnswer = 2
  MaxSetup = 2
  NoFile = NoFile
SPECIFICATION Spec
INVARIANTS TypeOK SessionsAreMutual LoginHadPassword
SYMMETRY Interchangeable
CHECK_DEADLOCK FALSE
