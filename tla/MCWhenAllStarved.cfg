SPECIFICATION FairSpec
CONSTANTS
  Calls = {a, b}
  Void = {}
  N <- OneEach
  Pool = 2
PROPERTIES WhenAllReturns
