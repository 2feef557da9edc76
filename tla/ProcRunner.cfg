SPECIFICATION FairSpec
CONSTANTS
  r1 = r1
  r2 = r2
  r3 = r3
  b1 = b1
  e1 = e1
  e2 = e2
  None = None
  Requests = {r1, r2, r3, b1}
  Binary = {b1}
  ReturnError = {r1}
  ResetState = {r3}
  Env <- MixedEnv
  Avoid <- SomeAvoid
  NumProcs = 2
  NumIDs = 3
  RestartEvery = 1
  MaxAttempts = 1
  Leak = FALSE
  MaxDeaths = 2
INVARIANTS
  TypeOK
  IDsDistinct
  AnsweredOnce
  GivesUpAfterDeaths
PROPERTIES
  AvoidHonoured
  
  EveryRequestAnswered
CHECK_DEADLOCK FALSE
