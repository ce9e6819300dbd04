SPECIFICATION FairSpec
CONSTANTS
  Items = {i1, i2}
  Handlers = {h1, h2}
  NoItem = NoItem
  NoJob = NoJob
  MaxRedeliveries = 0
  MaxCrashes = 0
CHECK_DEADLOCK FALSE
PROPERTIES
  ReservaTellsTheResult
