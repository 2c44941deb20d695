CONSTANTS
  PageSize = 2
  SectorSize = 4
  Sectors = 3
  Chips <- MCChips
  Erased = Erased
  Other = Other
  Timeout = 2
  MaxBusy = 2
  MaxRun = 2
  MayFailOn = FALSE
  Requests <- MCRequests
SPECIFICATION FairSpec
INVARIANTS TypeOK OthersUntouched SuccessMeansDone
PROPERTY CallReturns
