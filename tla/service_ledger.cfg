SPECIFICATION FairSpec
CONSTANTS
  daily = daily
  deep = deep
  p1 = p1
  p2 = p2
  Worker = Worker
  Reports <- Daily
  Chains <- Daily
  Pausing <- None
  Tickers <- TwoTickers
  Held <- OneTicker
  Batch = 1
  Requests <- OneThread
  Cap = 0
  MaxRows = 3
  MaxTurns = 0
  MaxFaults = 0
  MaxCrashes = 1
  MaxDays = 0
INVARIANTS LiveRowHasJob
PROPERTIES ImplementsLedger EveryPassEnds
CHECK_DEADLOCK FALSE
