CONSTANTS
  s1 = s1
  s2 = s2
  dflt = dflt
  Setting <- MCSetting
  Default <- dflt
  Field = {freq, tof}
  Value = {x}
  Unset = Unset
  Blank = Blank
  Torn = Torn
  None = None
  MaxCuts = 3
  MaxFaults = 1
SPECIFICATION MCSpec
INVARIANTS TypesOK OkMeansSaved
PROPERTIES ImplementsDurableRecord SavedWhenWriteReturns CalImplementsDurableRecord
