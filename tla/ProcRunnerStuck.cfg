SPECIFICATION FairSpec
CONSTANTS
  r1 = r1
  r2 = r2
  r3 = r3
  b1 = b1
  e1 = e1
  e2 = e2
  None = None
  Requests = {r1, r2, r3, b1}
  Binary = {}
  ReturnError = {}
  ResetState = {}
  Env <- OneEnv
  Avoid <- NoAvoid
  NumProcs = 1
  NumIDs = 2
  RestartEvery = 1
  MaxAttempts = 2
  Leak = TRUE
  MaxDeaths = 1
PROPERTIES
  EveryRequestAnswered
CHECK_DEADLOCK FALSE
