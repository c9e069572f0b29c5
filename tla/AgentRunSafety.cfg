SPECIFICATION Spec
CONSTANTS
  c1 = c1
  c2 = c2
  Callers = {c1, c2}
  MaxRuns = 2
  MaxTurns = 2
  MaxAnonymous = 1
  Endings = {"turn_completed"}
  Operations = {"send", "stop", "steer"}
  FinalizedCap = 1
  CheckpointsTurns = TRUE
SYMMETRY CallerSymmetry
INVARIANTS
  NoOrphanTurn
  ActiveTurnHasRun
  CapturedRunIsTracked
  StreamHearsTheEnd
  EndIsOnTheWay
PROPERTIES
  ReplacementLostOnlyByForce
  AcknowledgedCancelSettles
CHECK_DEADLOCK FALSE
