CONSTANTS
  u1 = u1
  u2 = u2
  home = home
  away = away
  nowhere = nowhere
  Nobody = Nobody
  Updaters = {u1}
  Codes <- MCOneCode
  Locs = {home, nowhere}
  Nowhere = nowhere
  Rates = {1, 2}
  Seeds <- MCSeeds
  Printed <- MCPrinted
  MaxRuns = 2
  MaxCrashes = 0
SPECIFICATION Spec
CHECK_DEADLOCK FALSE
INVARIANT QuietMeansFresh
