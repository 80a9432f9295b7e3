CONSTANTS
  Coordinates <- TwoPlaces
  FifoCap = 1
  SockCap = 1
  Cuts = {11}
  MaxFrames = 2
  MaxFaults = 0
  MaxStarts = 1
SPECIFICATION FairSpec
CHECK_DEADLOCK FALSE
PROPERTIES
  ChainConnects
