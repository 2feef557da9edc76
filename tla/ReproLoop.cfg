SPECIFICATION FairSpec
CONSTANTS
  c1 = c1
  c2 = c2
  c3 = c3
  c4 = c4
  a = a
  b = b
  fullA = fullA
  None = None
  Crashes <- MCCrashes
  Title <- MCTitle
  Titles <- MCTitles
  FullRepro = {c2}
  Manual = {c4}
  FromHub = {c3}
  ReproVMs = 3
INVARIANTS
  OneReproPerTitle
  EnoughVMs
PROPERTIES
  UntriedFirst
  EveryCrashServed
CHECK_DEADLOCK FALSE
