SPECIFICATION Spec
CONSTANTS
  MaxCalls = 2
  MaxIssued = 2
  MaxDraws = 1
  MaxNodeRuns = 2
  Nesting = TRUE
  Recovers = FALSE
INVARIANTS
  DonRuntimeOutsideNodeMode
