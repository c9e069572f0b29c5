SPECIFICATION Spec
CONSTANTS
  None = None
  PageSize = 2
  MaxRow = 4
  MaxEpoch = 2
  MaxFaults = 2
  Cases = {}

  
  
PROPERTIES
  CatchesUp
CHECK_DEADLOCK FALSE
