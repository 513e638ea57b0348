SPECIFICATION HoldingsSpec
CONSTANTS
  Handlers = {c1, c2, c3}
INVARIANTS MissingTagIsPending
