SPECIFICATION Spec
CONSTANTS
  People = {p}
  MaxEvents = 3
  MaxTasks = 2
CHECK_DEADLOCK FALSE
INVARIANTS
  OccupantsKnown
  AwayAreTargets
  LeftStaysLeft
  JoinedStaysJoined
