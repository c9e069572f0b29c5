SPECIFICATION Spec
CONSTANTS
  p = p
  q = q
  Ids = {p, q}
  ListOrder <- ListsQFirst
  Values = {v1}
  Absent = Absent
  MaxTombstones = 1
  Clients = {c1}
  Others = {s1}
  MaxEdits = 2
  MaxFaults = 2
  MaxLists = 1
INVARIANTS
  ReplicaCurrent
  ReconnectCatchesUp
CHECK_DEADLOCK FALSE
