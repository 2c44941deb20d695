CONSTANTS
  None = None
  NumOfPackage = 3
  RepeatedTx = 3
  CycleTime <- MCCycleTime
  SyncTimeout <- MCSyncTimeout
  TxStartWait = 4
  OverallTimeout = 10
  RunOn = TRUE
  MaxLost = 2
  MaxLate = 0
  MaxReboots = 1
SPECIFICATION FairSpec
INVARIANT TypeOK
INVARIANT FromOneCycle
INVARIANT FrameToSpare
INVARIANT FromPdoaFrames
INVARIANT AutomaticInSync
PROPERTY AnglesForEver
