SPECIFICATION Spec
CONSTANTS
  Clients = {c1}
  MaxPrice = 3
  Typed = {0, 3}
  Suggested = {1, 3}
  Costs = {3}
  Discounts = {0, 30}
  Whole = 100
  NearPct = 34
INVARIANTS EntersSafely
PROPERTIES UserWordStands TakenZoneFires
