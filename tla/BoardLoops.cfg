SPECIFICATION Spec
CONSTANTS
  Rows = 2
  Cols = 4
CHECK_DEADLOCK FALSE
INVARIANTS LoopIsWon
