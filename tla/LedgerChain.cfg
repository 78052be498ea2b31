SPECIFICATION Spec
CONSTANTS
  a = a
  b = b
  NoProc = none
  Procs = {a, b}
  Notes = {"USER_NOTE"}
  AnchorEvery = 2
  StaleAfter = 2
  MaxCalls = 3
  MaxCrashes = 1
  MaxFaults = 1
CHECK_DEADLOCK FALSE
SYMMETRY Symmetry
INVARIANTS OneChain AnchorsAreEntries
PROPERTIES NothingIsLost DisagreementStays
