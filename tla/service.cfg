SPECIFICATION Spec
CONSTANTS
  daily = daily
  deep = deep
  p1 = p1
  p2 = p2
  Worker = Worker
  Reports <- DailyAndDeep
  Chains <- Daily
  Pausing <- Deep
  Tickers <- OneTicker
  Held <- OneTicker
  Batch = 1
  Requests <- TwoThreads
  Cap = 1
  MaxRows = 2
  MaxTurns = 1
  MaxFaults = 1
  MaxCrashes = 1
  MaxDays = 1
SYMMETRY ThreadSymmetry
INVARIANTS TypeOK NoWedgedKey OnePassPerKey
CHECK_DEADLOCK FALSE
PROPERTIES FinishedStaysFinished
