SPECIFICATION Spec
CONSTANTS
  N = 1
INVARIANTS NoUnexpectedState
