SPECIFICATION FairSpec
CONSTANTS
  NumMessages = 3
  Runs = {r1, r2}
  BatchSize = 2
  MaxAttempts = 1
  MaxFaults = 1
CHECK_DEADLOCK FALSE
INVARIANTS
  TypeOK
  MarkedWasSent
  AttemptsBounded
  CopiesHaveCauses
PROPERTIES
  ImplementsDelivery
  SavedIsSettled
