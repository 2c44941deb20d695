CONSTANTS
  v1 = v1
  v2 = v2
  Image <- MCImage
  FwSize <- MCLargeSize
  FwVersion <- MCVersion
  BootVersion = 0
  Erased = Erased
  Garbage = Garbage
  NoCrc = NoCrc
  SectorCells = 2
  AppBank = 0
  BackupBank = 5
  BankCells = 5
  None = None
  Blank = Blank
  Torn = Torn
  MaxCuts = 0
  MaxFaults = 0
  Lapses = {}
SPECIFICATION Spec
INVARIANT CopyNeedsGoodBackup
