SPECIFICATION FairSpec
CONSTANTS
  Threads = {"t1", "t2"}
  MaxPromises = 3
INVARIANTS
  TypeOK
  OutcomeIsMeaning
  CalledAtMostOnce
PROPERTIES
  CalledWhenNeeded
  AwaitReturns
