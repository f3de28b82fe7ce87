CONSTANTS
  o1 = o1
  i1 = i1
  NoCall = NoCall
  Out = {o1}
  In = {i1}
  MaxEngines = 2
  MaxLag = 1
SPECIFICATION Spec
CONSTRAINT TwoEnginesInAll
CHECK_DEADLOCK FALSE
INVARIANTS
  OpenCallsTracked
  LoggedOnce
  PeerIsTold
