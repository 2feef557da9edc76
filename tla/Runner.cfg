SPECIFICATION Spec
CONSTANTS
  r1 = r1
  r2 = r2
  r3 = r3
  r4 = r4
  v1 = v1
  v2 = v2
  Requests <- TwoRequests
  Important = {r1}
  Unencodable = {}
  ReturnError = {r2}
  VMs = {v1, v2}
  Procs = 1
  Depth = 2
  MaxFaults = 1
  MaxChannel = 0
SYMMETRY AnyVM
PROPERTIES
  ImplementsContract
CHECK_DEADLOCK FALSE
