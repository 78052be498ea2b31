SPECIFICATION FairSpec
CONSTANTS
  buy = buy
  sell = sell
  NoIntent = NoIntent
  Intents = {buy}
  Exits = {}
  Requested = 1
  MaxPolls = 1
  Dedups = TRUE
  MaxStrays = 0
  MaxSends = 3
  MaxCrashes = 1
  MaxFaults = 0
INVARIANTS LiveOrderHasOwner UnresolvedNeverResent
PROPERTIES KeepsCustody CallsEnd PendingEntriesResolve
