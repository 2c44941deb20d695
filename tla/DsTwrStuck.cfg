CONSTANTS
  None = None
  CycleTime <- MCCycleTime
  SyncAckTimeout = 5
  OverallTimeout = 5
  SyncRxRestart = 2
  WaitTime = 1
  Bounds <- MCStuckBounds
SPECIFICATION FairSpec
PROPERTY SyncsAgain
