SPECIFICATION FairSpec
CONSTANTS
  Calls = {a}
  Void = {a}
  N <- TwoEach
  Pool = 2
PROPERTIES WhenAllVoidReturns
