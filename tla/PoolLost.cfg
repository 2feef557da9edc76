SPECIFICATION FairSpec
CONSTANTS
  j1 = j1
  j2 = j2
  Nil = Nil
  NumVMs = 1
  Jobs = {j1}
  MaxOps = 2
  MaxBootFails = 0
PROPERTIES
  DefaultServed
CHECK_DEADLOCK FALSE
