SPECIFICATION FairSpec
CONSTANTS
  j1 = j1
  j2 = j2
  Nil = Nil
  NumVMs = 2
  Jobs = {j1,j2}
  MaxOps = 3
  MaxBootFails = 1
INVARIANTS
  StaleDefaultStopped
  ReservedExactly
PROPERTIES
  JobsServed
CHECK_DEADLOCK FALSE
