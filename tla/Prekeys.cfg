CONSTANTS
  b1 = b1
  k1 = k1
  k2 = k2
  Boots = {b1}
  Kex = {k1, k2}
  Copies <- MCCopies
  Starts = {"fresh", "drained", "legacy"}
  Target = 1
  LowWater = 1
  RotateAge = 0
  KeepAge = 1
  MaxClock = 2
  AtOnce = 2
SPECIFICATION Spec
CHECK_DEADLOCK FALSE
INVARIANTS
  OpenedOnce
  CitedKeysResolve
  
