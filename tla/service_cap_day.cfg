SPECIFICATION Spec
CONSTANTS
  daily = daily
  deep = deep
  p1 = p1
  p2 = p2
  Worker = Worker
  Reports <- DailyAndDeep
  Chains <- Daily
  Pausing <- None
  Tickers <- OneTicker
  Held <- OneTicker
  Batch = 1
  Requests <- OneThread
  Cap = 2
  MaxRows = 3
  MaxTurns = 2
  MaxFaults = 0
  MaxCrashes = 0
  MaxDays = 0
PROPERTIES CapStopsTheDay
CHECK_DEADLOCK FALSE
