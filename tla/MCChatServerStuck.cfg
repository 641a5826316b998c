SPECIFICATION FairSpec
CONSTANTS
  N = 2
  MaxFd = 2
  Talkers = {}
  MaxTexts = 1
  Slow = {1}
  MaxFull = 1
PROPERTIES BroadcastGoesOn
CHECK_DEADLOCK FALSE
