SPECIFICATION GroundingSpec
CONSTANTS
  A = A
  B = B
  NoTicker = NoTicker
  Ticker <- MCTicker
  Watched <- MCWatched
  Closes <- MCCloses
  Claim <- MCClaim
  Zone <- MCZone
  CalcValue = {35}
  MaxMarket = 1
  MaxItems = 1
  MaxRationale = 2
INVARIANTS ZoneRestsOnEvidence OkKeepsAThird CriticOnlyRemoves MarkedIsGone
CHECK_DEADLOCK FALSE
