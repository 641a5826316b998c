SPECIFICATION FairSpec
CONSTANTS
  N = 3
  Workers = {w1, w2}
  Main = Main
  Helper = Helper
  None = None
  MaxSuspends = 2
INVARIANTS UsedAlive NothingLeaks
PROPERTIES SyncWaitReturns
CHECK_DEADLOCK FALSE
