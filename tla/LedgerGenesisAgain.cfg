SPECIFICATION Spec
CONSTANTS
  a = a
  b = b
  NoProc = none
  Procs = {a}
  Notes = {"USER_NOTE"}
  AnchorEvery = 2
  StaleAfter = 2
  MaxCalls = 3
  MaxCrashes = 2
  MaxFaults = 0
CHECK_DEADLOCK FALSE
INVARIANTS AlwaysOneChain
