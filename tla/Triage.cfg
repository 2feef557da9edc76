SPECIFICATION FairSpec
CONSTANTS
  a1 = a1
  a2 = a2
  a3 = a3
  a4 = a4
  None = None
  NCalls = 2
  Elems = {1, 2, 3}
  Results <- MCResults
  Needs <- MCNeeds
  Configs <- MCConfigs
  SaveMaxActions = 1
  deflakeNeedRuns = 3
  deflakeMaxRuns = 5
  deflakeNeedCorpusRuns = 2
  deflakeMinCorpusRuns = 4
  deflakeMaxCorpusRuns = 6
  deflakeTotalCorpusRuns = 20
  deflakeNeedSnapshotRuns = 2
INVARIANTS
  SignalsCounted
  ReliableIsStable
  
  
PROPERTIES
  GivesUpOnlyFlaky
  JobEnds
CHECK_DEADLOCK FALSE
