SPECIFICATION Spec
CONSTANTS
  Chats = {"a", "b"}
  Public <- MCPublic
  MaxLoads = 2
  MaxEvents = 3
CHECK_DEADLOCK FALSE
INVARIANTS
  ShownIsOpen
  
  RefreshKept
  LockKept
