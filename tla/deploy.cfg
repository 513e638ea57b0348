SPECIFICATION Spec
CONSTANTS
  daily = daily
  prices = prices
  a = a
  b = b
  c = c
  d = d
  d1 = d1
  d2 = d2
  Nobody = Nobody
  Nodes <- FourNodes
  Zones <- ThreeZones
  ZoneOf <- InZone
  Text <- Texts
  MaxCols = 3
  Places <- Corners
  Names = {daily, prices}
  Callee <- OneCall
  Activated = {daily}
  Deployers <- TwoDeployers
  MaxCopies = 2
  MaxDeploys = 2
  MaxBoots = 1
  MaxEdits = 1
INVARIANTS DeployLands OneLiveCopy GeneratedPasses
PROPERTIES VerifiedIsLive
SYMMETRY DeployerSymmetry
CHECK_DEADLOCK FALSE
