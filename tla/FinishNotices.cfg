SPECIFICATION Spec
CONSTANTS
  r1 = r1
  r2 = r2
  r3 = r3
  Ids = {r1, r2}
  Boot = Boot
  MaxFailures = 2
  MaxRestarts = 1
INVARIANTS
  OwedNoticeIsDurable
  NoEarlyNotice
  NoticeOnce
PROPERTIES
  NoticeArrives
CHECK_DEADLOCK FALSE
