SPECIFICATION FairSpec
CONSTANTS
  q1 = q1
  q2 = q2
  c1 = c1
  c2 = c2
  h1 = h1
  Requests = {q1, q2}
  Customers = {c1, c2}
  Handlers = {h1}
  Ordered = FALSE
  Null = Null
  MaxPaid = 1
  MaxPeriod = 2
  MaxRedelivered = 0
  MaxFaults = 0
PROPERTY Converges
CHECK_DEADLOCK FALSE
