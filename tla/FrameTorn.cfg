CONSTANTS
  K = 3
  MaxFrames = 3
  MaxHups = 2
  MaxConns = 2
SPECIFICATION Spec
CHECK_DEADLOCK FALSE
INVARIANT WholeFrames
