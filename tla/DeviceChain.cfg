CONSTANTS
  Coordinates <- TwoPlaces
  FifoCap = 1
  SockCap = 1
  Cuts = {11}
  MaxFrames = 3
  MaxFaults = 2
  MaxStarts = 2
SPECIFICATION FairSpec
CHECK_DEADLOCK FALSE
INVARIANTS
  TypeOK
  DecodedRight
  ReadOnlyWhenReady
  StandstillExplained
PROPERTIES
  ImplementsChannel
  LossExplained
  OfferedIsReceived
  HangupNoticed
