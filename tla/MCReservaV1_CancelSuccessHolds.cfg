SPECIFICATION Spec
CONSTANTS
  N = 2
  Cancellers = {c1}
  MaxFaults = 0
  MaxCrashes = 0
CHECK_DEADLOCK FALSE
INVARIANTS
  CancelSuccessHolds
