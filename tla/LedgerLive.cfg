SPECIFICATION FairSpec
CONSTANTS
  a = a
  b = b
  NoProc = none
  Procs = {a, b}
  Notes = {"HALT_SET"}
  AnchorEvery = 3
  StaleAfter = 2
  MaxCalls = 3
  MaxCrashes = 0
  MaxFaults = 0
CHECK_DEADLOCK FALSE
PROPERTIES AlarmsAreAnchored
