SPECIFICATION SpecAll
CONSTANTS
  None = None
  MaxFaults = 2
  Sources <- Order
  Kind <- Kinds
  Pages = 1
  IdleLimit = 2
  MaxCity = 2
  MaxLost = 1
  Keys <- TileKeys
  Batches = 2
  MaxVersion = 2
  Runners = {r1, r2}
  Releases <- Checkouts
  MaxStarts = 4
  Requests = {q1, q2}
  Customers = {c1, c2}
  Handlers = {h1}
  Ordered = TRUE
  Null = Null
  MaxPaid = 1
  MaxPeriod = 2
  MaxRedelivered = 1
INVARIANTS MeasuredAgainstTonight HonestPing StaysScheduled ServedWhole ExactlyOnce GrantOnlyIfPaid
PROPERTIES CatchesUp PeriodKept Converges
CHECK_DEADLOCK FALSE
