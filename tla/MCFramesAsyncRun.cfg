SPECIFICATION Spec
CONSTANTS
  N = 1
  Workers = {w1, w2}
  Main = Main
  Helper = Helper
  None = None
  MaxSuspends = 1
INVARIANTS AsyncRunCompletes
CHECK_DEADLOCK FALSE
