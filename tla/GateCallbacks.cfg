SPECIFICATION FairSpec
CONSTANTS
  Pairs = {"a", "b"}
  NoPair = "none"
  Size = 1
  Policy <- MCPolicy
  Quotes <- MCQuotes
  ExitSanity = FALSE
  MaxTrades = 1
  MaxLoss = 3
  WorstCase = FALSE
  MaxAsks = 3
  MaxTurns = 2
CHECK_DEADLOCK FALSE
INVARIANTS NumbersTrueOrHalted DayEntriesBounded
PROPERTIES StopsHold ExitsGetOut
