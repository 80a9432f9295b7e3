CONSTANTS
  u1 = u1
  u2 = u2
  home = home
  away = away
  nowhere = nowhere
  Nobody = Nobody
  Updaters = {u1, u2}
  Codes <- MCOneCode
  Locs = {home, nowhere}
  Nowhere = nowhere
  Rates = {1, 2, 3}
  Seeds <- MCSeeds
  Printed <- MCPrinted
  MaxRuns = 3
  MaxCrashes = 1
SPECIFICATION Spec
CHECK_DEADLOCK FALSE
SYMMETRY Symmetry
CONSTRAINT StillSolo
INVARIANT SoloRunHeals
