SPECIFICATION FairSpec
CONSTANTS
  used = used
  other = other
  off = off
  bad = bad
  x = x
  None = None
  Keys <- MCKeys
  CompactDen = 2
  CompactNum = 1
  Stable <- MCStable
  Rank <- MCRank
  Broken = {bad}
  Disabled = {off}
  Filtered <- MCFiltered
  Seeds = {used}
  HubProgs = {used}
  FuzzProgs = {used}
  Preserve = TRUE
  UseHub = TRUE
  InitialLog <- MCLog
  CurrentDBVersion = 5
  CandidateAttempts = 1
  UpdatesCap = 1
  MaxFaults = 1
INVARIANTS
  Mirrored
  CorpusAccounted
  SignalKept
PROPERTIES
  DurableKept
  DeletedOnlyAfterRun
  
  TriageEnds
CHECK_DEADLOCK FALSE
