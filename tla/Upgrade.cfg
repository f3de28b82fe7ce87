CONSTANTS
  MaxPresses = 2
  MaxRetold = 1
SPECIFICATION USpec
CHECK_DEADLOCK FALSE
INVARIANTS
  VideoAgrees
  ScreenKnowsCall
  
PROPERTIES
  AcceptedIsAgreed
