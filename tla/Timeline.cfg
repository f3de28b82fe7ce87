CONSTANTS
  s1 = s1
  s2 = s2
  MaxSent = 2
  Edits = {"correct", "retract", "react"}
  Encrypted = {1}
  Page = 1
  MaxPages = 1
  Syncs = {s1}
  MaxStops = 1
SPECIFICATION Spec
INVARIANTS
  OneRowEach
  AcknowledgedIsKept
  LostOnlyByOverlap
PROPERTIES
  HandledIsShown
