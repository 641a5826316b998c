SPECIFICATION FairSpec
CONSTANTS
  MaxSuspends = 1
PROPERTIES TimeoutEndsCall
