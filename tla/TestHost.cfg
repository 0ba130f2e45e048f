SPECIFICATION FairSpec
CONSTANTS
  a = a
  b = b
  Tests = {a, b}
  Goroutines = 2
  Scripts <- MCScripts
  None = None
INVARIANTS
  TypeOK
  OneRegistryPerTest
  OutcomesAreTheStubs
  GeneratedPairsAgree
  NewestContractAnswers
PROPERTIES
  FirstMockStays
  MocksFinish
  AwaitReturns
CHECK_DEADLOCK FALSE
