SPECIFICATION FairSpec
CONSTANTS
  MaxCalls = 2
  MaxIssued = 2
  MaxDraws = 1
  MaxNodeRuns = 2
  Nesting = FALSE
  Recovers = FALSE
INVARIANTS
  TypeOK
  UniqueIds
  CallsMatchMode
  SoleUsableRuntime
  DrawsStayInMode
  AnswersOwnCall
PROPERTIES
  LedgerSpec
  AwaitEnds
