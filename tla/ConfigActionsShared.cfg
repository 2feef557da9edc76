SPECIFICATION Spec
CONSTANTS
  p1 = p1
  p2 = p2
  net = net
  kern = kern
  odd = odd
  Params <- MCParams
  BadParam = BadParam
  Global <- MCGlobal
  NumValues = 2
  None = None
  Procs = {p1, p2}
  Unreadable = {}
  Refused <- NothingRefused
  BootValue <- MCBoot
  Programs <- OneRestorable
  SlowCalls = FALSE
  MayDie = FALSE
INVARIANTS
  OriginalValuesBack
