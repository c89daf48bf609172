CONSTANTS
  u1 = u1
  w1 = w1
  w2 = w2
  User = {u1}
  Password = {w1, w2}
  MaxRegistration = 2
  MaxLogin = 2
  MaxAnswer = 2
  MaxSetup = 2
  NoFile = NoFile
SPECIFICATION FairSpec
PROPERTY LoginCompletes
CHECK_DEADLOCK FALSE
