CONSTANTS
  d1 = d1
  s1 = s1
  s2 = s2
  r1 = r1
  x1 = x1
  Devices = {d1}
  NoDevice = NoDevice
  Sends = {s1, s2}
  Receives = {r1}
  Resets = {x1}
  MaxKeys = 2
  MaxBuilt = 3
  MaxTurns = 2
  AtOnce = 2
  AutoTrust = FALSE
  Starts = {"fresh", "trusted"}
SYMMETRY Symmetry
SPECIFICATION Spec
CHECK_DEADLOCK FALSE
INVARIANTS
  NumbersUsedOnce
  WrappedWereTrusted
  RowsAreSound
PROPERTIES
  PinsKept
