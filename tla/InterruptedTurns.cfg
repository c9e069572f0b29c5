SPECIFICATION Spec
CONSTANTS
  c1 = c1
  c2 = c2
  p1 = p1
  p2 = p2
  Clients = {c1, c2}
  Prompts = {p1, p2}
  Large = {p2}
  Continuation = Continuation
  NoPrompt = NoPrompt
  NoClient = NoClient
  MaxIds = 4
  MaxStops = 2
  MaxSteers = 1
SYMMETRY ClientSymmetry
INVARIANTS
  OneContinuation
  RunningTurnIsMarked
  NoStaleMarker
PROPERTIES
  CutShortIsOffered
CHECK_DEADLOCK FALSE
