SPECIFICATION StoreSpec
CONSTANTS
  a = a
  b = b
  red = red
  blue = blue
  v = v
  w = w
  Names = {a, b}
  Colors = {red, blue}
  Workspaces = {v, w}
  None = None
  MaxFaults = 2
SYMMETRY StoreSymmetry
INVARIANTS
  ServedIsDurable
  AssignedLabelsExist
PROPERTIES
  ImplementsCatalog
CHECK_DEADLOCK FALSE
