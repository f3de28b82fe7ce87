CONSTANTS
  Mine = {1, 2}
  Theirs = {}
  Sids = {1, 2, 3, 4}
  MaxJoins = 2
  MaxReports = 1
  MaxTurns = 2
  MaxLoops = 2
SPECIFICATION LiveSpec
CHECK_DEADLOCK FALSE
PROPERTIES
  MeshHeals
