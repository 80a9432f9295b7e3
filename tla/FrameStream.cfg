CONSTANTS
  K = 3
  MaxFrames = 3
  MaxHups = 2
  MaxConns = 2
SPECIFICATION FairSpec
CHECK_DEADLOCK FALSE
INVARIANTS
  TypeOK
  InOrder
  WholeUnlessTorn
  NothingSkipped
PROPERTY Prompt
