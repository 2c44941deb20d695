CONSTANTS
  Width = 8
  Marker = 5
  MaxRx = 7
  MaxFaults = 1
  None = None
  Requests <- MCRequests
SPECIFICATION FairSpec
INVARIANTS TypeOK CopyFits
PROPERTIES RunsOncePerSend DamageDetected Answered
