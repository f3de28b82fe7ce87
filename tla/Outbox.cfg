CONSTANTS
  m1 = m1
  m2 = m2
  f1 = f1
  f2 = f2
  NoMsg = NoMsg
  Msgs = {m1, m2}
  Encrypted = {m2}
  Flushes = {f1, f2}
  MaxStops = 1
  Retractable = {m1}
SPECIFICATION FairSpec
INVARIANTS
  AcceptedIsKept
PROPERTIES
  WithdrawnNeverSent
  KeepsPromise
  PendingFlushed
