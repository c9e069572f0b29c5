\* One schedule over four instants, two overlapping ticks, two requests, one crash.
SPECIFICATION Spec
CONSTANTS
  None = None
  Periods = {2}
  Limits = {None, 2}
  Expiries = {None, 2}
  MaxTime = 3
  MaxTicks = 2
  MaxEdits = 2
  MaxCrashes = 1
INVARIANTS
  HistoryShowsTheRun
  ClaimedSlotIsPast
  CursorFollowsStatus
PROPERTIES
  LimitBoundsRuns
  OverdueIsServed
CHECK_DEADLOCK FALSE
