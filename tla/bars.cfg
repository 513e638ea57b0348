SPECIFICATION FairBarSpec
CONSTANTS
  A = A
  B = B
  r1 = r1
  r2 = r2
  Symbols <- OneSymbol
  Runs <- TwoRuns
  Warmup = 1
  Lag = 1
  MaxRev = 2
  SessionEnd = 3
  MaxNow = 3
  WindowLength = 2
  MaxFails = 1
INVARIANTS OverlapCovers
PROPERTIES GapsGetFilled
CHECK_DEADLOCK FALSE
