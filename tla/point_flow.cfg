CONSTANTS
  Rate = 2
  MaxTime = 4
  NumBins = 3
  MaxProcPoints = 2
  ScanShapes <- ThinnedShapes
  MaxStamp = 2
  MaxScans = 2
  ScanDuration = 2
SPECIFICATION FairSpec
INVARIANT BinsNeverUndercount
PROPERTIES RefinesPointFlow RoundsEnd
CHECK_DEADLOCK FALSE
