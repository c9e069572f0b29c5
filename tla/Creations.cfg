SPECIFICATION FairSpec
CONSTANTS
  k1 = k1
  k2 = k2
  Keys = {k1, k2}
  Intents = {"i", "j"}
  Stages <- MCStages
  IdOf <- MCIdOf
  Absent = Absent
  MaxFaults = 1
  MaxRestarts = 1
  MaxCalls = 1
  MaxStarts = 1
  MaxDrops = 1
INVARIANTS
  ResumableIsExact
  OneMaker
  OutcomeIsDurable
PROPERTIES
  ImplementsAtMostOnce
  OperationsSettle
CHECK_DEADLOCK FALSE
