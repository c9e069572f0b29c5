SPECIFICATION Spec
CONSTANTS
  a = a
  b = b
  red = red
  blue = blue
  w = w
  Names = {a, b}
  Colors = {red, blue}
  Workspaces = {w}
  None = None
  JournalLimit = 2
  MaxChanges = 3
  MaxGenerations = 2
SYMMETRY LabelSymmetry
INVARIANTS
  ReplicaHoldsCatalog
  LiveReplicaExact
  NoUpdateRefused
CHECK_DEADLOCK FALSE
