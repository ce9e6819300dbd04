SPECIFICATION FairSpec2
CONSTANTS
  Items = {i1}
  Requests = {r1, r2}
  CheckoutSagaId = CheckoutSagaId
  NoSaga = NoSaga
  NoItem = NoItem
  NoJob = NoJob
  Handlers = {h1}
  CancelHandlers = {k1}
  RefundReports = {}
  MaxRedeliveries = 0
  MaxCrashes = 0
CHECK_DEADLOCK FALSE
PROPERTIES
  EventsOfBothSettle
  EveryoneIsAnswered
