CONSTANTS
  None = None
  CycleTime <- MCCycleTime
  SyncAckTimeout = 5
  OverallTimeout = 5
  SyncRxRestart = 2
  WaitTime = 1
  Bounds <- MCBounds
SPECIFICATION FairSpec
INVARIANT TypeOK
INVARIANT RadioEnded
INVARIANT DistanceFromOneExchange
PROPERTY SyncsAgainAlone
