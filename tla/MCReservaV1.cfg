SPECIFICATION Spec
CONSTANTS
  N = 3
  Cancellers = {c1, c2}
  MaxFaults = 2
  MaxCrashes = 1
SYMMETRY Symmetry
CHECK_DEADLOCK FALSE
INVARIANTS
  TypeOK
  SuccessIsWhole
  CleanFailureIsUndone
  FailedStatusIsHonest
  CancelAccountsForPayment
  CancelReleasesItems
