SPECIFICATION Spec
CONSTANTS
  p1 = p1
  p2 = p2
  net = net
  kern = kern
  odd = odd
  Params <- AllParams
  BadParam = BadParam
  Global <- MCGlobal
  NumValues = 2
  None = None
  Procs = {p1, p2}
  Unreadable = {odd}
  Refused <- SomeRefused
  BootValue <- MixedBoot
  Programs <- OddPrograms
  SlowCalls = TRUE
  MayDie = TRUE
INVARIANTS
  TypeOK
  OrderMatchesSaved
  RestoredAtExit
PROPERTIES
  FlipToggles
