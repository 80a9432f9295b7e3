CONSTANTS
  c1 = c1
  home = home
  NoFrame = NoFrame
  Customers = {c1}
  Codes <- MCCodes
  Locs = {home}
  Rates = {1}
  Seeds <- MCSeeds
  Loads <- MCLoads
  TicksPerSecond = 1
  SecondsPerMinute = 1
  MaxRows = 2
  MaxPrices = 1
  MaxClock = 1
  MaxShifts = 0
SPECIFICATION Spec
INVARIANTS
  TypeOK
  OneOpenPerCity
  HandlerInv
  ViewAhead
  AckedAfterClose
  NoTimeBilledTwice
PROPERTY BillsAreFinal
PROPERTY ImplementsLedger
