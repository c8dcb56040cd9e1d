CONSTANTS
  Rate = 3
  MaxTime = 5
  NumBins = 3
  MaxProcPoints = 2
  ScanShapes <- Shapes
  MaxStamp = 2
  MaxScans = 2
  ScanDuration = 2
SPECIFICATION Spec
INVARIANT EstimateAtItsTime
CHECK_DEADLOCK FALSE
