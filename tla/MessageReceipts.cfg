SPECIFICATION ReceiptsSpec
CONSTANTS
  m1 = m1
  m2 = m2
  i1 = i1
  i2 = i2
  Messages = {m1, m2}
  Intents = {i1, i2}
  Queued = {m2}
  Absent = Absent
  MaxFaults = 2
  MaxCrashes = 2
INVARIANTS
  AcceptedIsSent
PROPERTIES
  ImplementsAtMostOnce
CHECK_DEADLOCK FALSE
