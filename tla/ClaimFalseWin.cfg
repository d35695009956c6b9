SPECIFICATION Spec
CONSTANTS
  Rows = 2
  Cols = 3
CHECK_DEADLOCK FALSE
INVARIANTS WonIsLoop
