SPECIFICATION FairSpec
CONSTANTS
  Runs = {r1}
  Clients = {c1, c2}
  MaxLives = 1
INVARIANT
  AbortReachesItsTargets
PROPERTY
  SentinelStopsTheRun
CHECK_DEADLOCK FALSE
