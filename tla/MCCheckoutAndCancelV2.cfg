SPECIFICATION Spec2
CONSTANTS
  Items = {i1, i2}
  Requests = {r1}
  CheckoutSagaId = CheckoutSagaId
  NoSaga = NoSaga
  NoItem = NoItem
  NoJob = NoJob
  Handlers = {h1}
  CancelHandlers = {k1}
  RefundReports = {"refunded"}
  MaxRedeliveries = 1
  MaxCrashes = 1
SYMMETRY Symmetry
CHECK_DEADLOCK FALSE
INVARIANTS
  AnswersHold
  FailureIsOnRecord
PROPERTIES
  DeletedSagaIsSilent
