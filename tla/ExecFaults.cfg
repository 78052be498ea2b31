SPECIFICATION Spec
CONSTANTS
  buy = buy
  sell = sell
  NoIntent = NoIntent
  Intents = {buy, sell}
  Exits = {sell}
  Requested = 2
  MaxPolls = 1
  Dedups = FALSE
  MaxStrays = 1
  MaxSends = 1
  MaxCrashes = 1
  MaxFaults = 1
INVARIANTS TypeOK WriteAheadDurable ResultMatchesLedger StatsFollowLedger FinalEntriesAreTrue
PROPERTIES QuietClear BrokenLedgerStaysShut
