SPECIFICATION Spec
CONSTANTS
  Kind = {"anthropic", "openai"}
  Menu <- MCMenu
  Edited = {4, 10}
  MaxCrashes = 2
  MaxEdits = 1
  MaxVisits = 1
INVARIANTS RecordedIsInForce RolesResolve
PROPERTIES ChangedStopsAll SeedingFinishes
