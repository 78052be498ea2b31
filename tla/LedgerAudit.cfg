SPECIFICATION AuditSpec
CONSTANTS
  a = a
  b = b
  NoProc = none
  Procs = {a}
  Notes = {"USER_NOTE"}
  AnchorEvery = 2
  StaleAfter = 1
  MaxCalls = 3
  MaxCrashes = 1
  MaxFaults = 1
  MaxDamages = 1
  MaxArchived = 1
CHECK_DEADLOCK FALSE
INVARIANTS AuditNeverAccuses OkSeesAll DamageIsDetected MissingIsNeverOk DatedIsUnchanged
