SPECIFICATION FairSpec
CONSTANTS
  Items = {i1, i2, i3}
  Handlers = {h1, h2}
  NoItem = NoItem
  NoJob = NoJob
  MaxRedeliveries = 1
  MaxCrashes = 1
CHECK_DEADLOCK FALSE
INVARIANTS
  TypeOK
  PublishedOnce
  CountersMatchInbox
  CompletedIsWhole
  SuccessIsReal
  BadGatewayNeverCharged
PROPERTIES
  FailureIsNotUndone
  ImplementsPromise
  SagaTerminates
  EventsSettle
