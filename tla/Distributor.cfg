SPECIFICATION FairSpec
CONSTANTS
  r1 = r1
  r2 = r2
  r3 = r3
  None = None
  NumVMs = 2
  Requests = {r1, r2, r3}
  Avoid <- MCAvoid
  Recency = 2
  Slack = 1
INVARIANTS
  TypeOK
  OnePlaceOnly
PROPERTIES
  EveryRequestGiven
