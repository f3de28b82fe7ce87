CONSTANTS
  Mine = {1, 2}
  Theirs = {3}
  Sids = {1, 2, 3, 4}
  MaxJoins = 2
  MaxReports = 1
  MaxTurns = 1
  MaxLoops = 2
SPECIFICATION Spec
CHECK_DEADLOCK FALSE
INVARIANTS
  EnginesOwned
  OneAtATime
  
