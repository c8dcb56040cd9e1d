CONSTANTS
  Rate = 2
  TicksPerSec = 3
  MaxTime = 5
  MaxLen = 5
SPECIFICATION Spec
INVARIANT FindsFirstLater
PROPERTIES NeverTurnsBack Terminates
CHECK_DEADLOCK FALSE
