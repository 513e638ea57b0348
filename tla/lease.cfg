SPECIFICATION FairSpec
CONSTANTS
  a = a
  b = b
  c = c
  Nobody = Nobody
  Departed = Departed
  Slots <- ThreeSlots
  Lease = 2
  MaxDays = 2
  MaxStarts = 4
INVARIANTS AtMostOneLatePoll
PROPERTIES LiveLeaseIsKept FencedWriterExits SessionOpensAgain
CHECK_DEADLOCK FALSE
