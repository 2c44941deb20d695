CONSTANTS
  PageSize = 2
  SectorSize = 4
  Sectors = 3
  Chips <- MCChips
  Erased = Erased
  Other = Other
  Timeout = 2
  MaxBusy = 2
  MaxRun = 1
  MayFailOn = TRUE
  Requests <- MCRequests
SPECIFICATION FairSpec
PROPERTY CallReturns
