SPECIFICATION FairSpec
CONSTANTS
  a = a
  b = b
  NoProc = NoProc
  Procs = {a, b}
  Clears = {TRUE, FALSE}
  MaxCalls = 4
  MaxCrashes = 1
  MaxDamages = 1
CHECK_DEADLOCK FALSE
PROPERTIES LostOnlyToRaces SetIsWritten
