SPECIFICATION FairSpec
CONSTANTS
  r1 = r1
  r2 = r2
  r3 = r3
  r4 = r4
  v1 = v1
  v2 = v2
  Requests <- ThreeRequests
  Important = {r1}
  Unencodable = {r3}
  ReturnError = {r2}
  VMs = {v1}
  Procs = 1
  Depth = 1
  MaxFaults = 2
  MaxChannel = 1
INVARIANTS
  OnePlace
  
  KnownIDs
  CrashedAfterRetry
PROPERTIES
  EveryRequestDone
CHECK_DEADLOCK FALSE
