CONSTANTS
  v1 = v1
  v2 = v2
  Image <- MCImage
  FwSize <- MCSize
  FwVersion <- MCVersion
  BootVersion = 0
  Erased = Erased
  Garbage = Garbage
  NoCrc = NoCrc
  SectorCells = 2
  AppBank = 0
  BackupBank = 5
  BankCells = 5
  None = None
  Blank = Blank
  Torn = Torn
  MaxCuts = 1
  MaxFaults = 2
  Lapses = {"restart", "empty", "jump", "bootmode"}
SPECIFICATION MCSpec
INVARIANT TypeOK
INVARIANT CopyNeedsGoodBackup
PROPERTY JumpOnlyVerified
PROPERTY OrderlyImplementsFirmwareUpdate
PROPERTY OrderlyInstallsOnReset
