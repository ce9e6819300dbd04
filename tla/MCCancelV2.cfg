SPECIFICATION Spec
CONSTANTS
  Items = {i1, i2}
  Requests = {r1, r2}
  CheckoutSagaId = CheckoutSagaId
  NoSaga = NoSaga
  Handlers = {h1, h2}
  NoJob = NoJob
  RefundReports = {}
  MaxRedeliveries = 1
  MaxCrashes = 1
SYMMETRY Symmetry
CHECK_DEADLOCK FALSE
INVARIANTS
  TypeOK
  CancelledNeedsAnswers
  CancelledIsWhole
