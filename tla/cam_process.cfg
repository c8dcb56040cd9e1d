CONSTANTS
  CamRate = 3
  TicksPerSec = 5
  MaxTime = 5
  ImuWindows <- MCImuWindows
SPECIFICATION FairColourSpec
INVARIANT ColouredFromItsImage
PROPERTIES NoImagePassedOver NeverAnOlderImage SearchEnds
CHECK_DEADLOCK FALSE
