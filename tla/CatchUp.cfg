SPECIFICATION CatchUpSpec
CONSTANTS
  a = a
  b = b
  c = c
  v1 = v1
  v2 = v2
  Ids = {a, b, c}
  Values = {v1, v2}
  Absent = Absent
  MaxTombstones = 1
  MaxHead = 6
SYMMETRY IdSymmetry
INVARIANTS
  CatchUpIsExact
CHECK_DEADLOCK FALSE
