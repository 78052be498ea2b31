SPECIFICATION Spec
CONSTANTS
  a = a
  b = b
  NoProc = none
  Procs = {a, b}
  MaxTrades = 1
  MaxLoss = 2
  WorstCase = FALSE
  MaxDay = 2
  MaxCalls = 3
  MaxBacks = 1
  MaxCrashes = 1
  MaxFaults = 1
  MaxDamages = 1
  MaxDeletes = 1
CHECK_DEADLOCK FALSE
SYMMETRY Symmetry
INVARIANTS FillsLostOnlyToRaces TradesNotReopened ResetsAreTrue
PROPERTIES DayNeverGoesBack
