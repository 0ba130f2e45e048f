SPECIFICATION Spec
CONSTANTS
  MaxCalls = 2
  MaxIssued = 2
  MaxDraws = 2
  MaxNodeRuns = 2
  Nesting = TRUE
  Recovers = TRUE
INVARIANTS
  DonIdsUnique
PROPERTIES
  UsedInTime
  PromiseFinal
