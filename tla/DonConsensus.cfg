SPECIFICATION FairSpec
CONSTANTS
  TypeDef <- MCTypeDef
  MaxDepth = 4
  Nodes = {n1, n2, n3}
  Workflows <- MCWorkflows
  Kept = {k1, k2}
  None = None
  Quorum = 2
  Matching = 2
  Faulty = {n1}
  MaxSlips = 1
INVARIANTS
  TypeOK
  Lockstep
  SameRandom
  OutcomeIsExpected
  SelfReferenceIsRefused
PROPERTIES
  AgreementIsReached
