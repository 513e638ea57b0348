SPECIFICATION FairSpec
CONSTANTS
  Turns = 3
  TemplateCap = 1
  SqlCap = 1
  Cap = 4
  MaxAsk = 2
  MaxClaims = 3
  MaxCalls = 12
INVARIANTS BoundedEffort OverrunIsBounded OkIsGrounded UncheckedIsSaid
PROPERTIES ImplementsPassRun EveryPassLeaves
