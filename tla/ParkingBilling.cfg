CONSTANTS
  c1 = c1
  home = home
  NoFrame = NoFrame
  Customers = {c1}
  Codes = {1}
  Locs = {home}
  Rates = {1, 2}
  Seeds <- MCSeeds
  Loads <- MCLoads
  TicksPerSecond = 2
  SecondsPerMinute = 2
  MaxRows = 1
  MaxPrices = 2
  MaxClock = 4
  MaxShifts = 1
SPECIFICATION Spec
INVARIANT
  NoOvercharge
PROPERTY BilledAtPriceInForce
