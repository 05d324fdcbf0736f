SPECIFICATION Spec
CONSTANTS
  nightly = nightly
  user = user
  a1 = a1
  a2 = a2
  s1 = s1
  s2 = s2
  near = near
  far = far
  distress = distress
  permit = permit
  r1 = r1
  r2 = r2
  Workers = {nightly}
  Users = {user}
  Areas = {a1, a2}
  Subs = {s1, s2}
  Parcels = {near, far}
  Records = {r1, r2}
  Triggers = {distress, permit}
  Record <- RecordsOnTime
  Inside <- AreaParcels
  Owner <- OneUser
  AreaOf <- SubArea
  Wanted <- SubTriggers
  Hot = {near}
  LookbackDays = 2
  DedupDays = 2
  HardCap = 2
  DayTicks = 1
  MaxTick = 3
  MaxRequests = 2
  Existing = {a1, s1}
  MaxFaults = 1
  Schedule = TRUE
INVARIANTS ToldOnce WindowLosesNothing
CHECK_DEADLOCK FALSE
