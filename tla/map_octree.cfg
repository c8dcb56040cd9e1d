CONSTANTS
  MinExtent = 8
  MinRoot = 1
  MaxBucket = 2
  Positions <- WorldPositions
  Queries = {0, 12, 50, 104, 140}
  BucketSizes = {1, 2}
  Radii = {20, 36}
  Messages <- ScanMessages
  MinRange = 4
  BinWidth = 32
  Resolutions <- FinerNear
  Buckets <- LargerNear
  MaxStartBin = 2
  Shifts = {0, 36}
  MaxMessages = 2
SPECIFICATION ScanSpec
INVARIANT ScanKeepsShape
INVARIANT ThinnedForStartBin
INVARIANT TreeSound
INVARIANT NoHoles
INVARIANT SearchesExact
CHECK_DEADLOCK FALSE
