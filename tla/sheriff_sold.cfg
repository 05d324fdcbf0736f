SPECIFICATION Spec
CONSTANTS
  Parts = {"record"}
  Sales = {1}
  Profiles <- Market
  Areas = {0}
  NoDist <- Unlocated
  NoPrice <- Unpriced
  PoolMonths = 48
  PoolDist = 8
  Recency = 18
  RecencyWide = 36
  Radius = 2
  MaxRadius = 8
  BedsTol = 1
  AreaTol = 25
  YearTol = 15
  MinSample = 3
  Lot <- Lots
  Cap = 2
  None = None
  Violations = {v1}
  Hazardous = {v1}
  Complaints = {c1}
  Vacancy = {c1}
  Deeds <- Recorded
  Snapshots <- TaxRows
  OutOfState = TRUE
  Expected = 200
  Floor = 1
  MaxYear = 0
  MaxLoads = 4
INVARIANTS NeverOverFlags
CHECK_DEADLOCK FALSE
