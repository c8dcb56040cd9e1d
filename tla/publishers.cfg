CONSTANTS
  MarkerStep = 2
  NumParts = 4
  MaxNew = 3
  MaxRounds = 3
  MaxTime = 2
SPECIFICATION FairSpec
INVARIANTS ScanOfItsState MapOfARound MarkersWithoutGap
PROPERTIES OdometryAdvances OdometryFollows
CHECK_DEADLOCK FALSE
