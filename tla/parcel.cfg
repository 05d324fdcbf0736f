SPECIFICATION Spec
CONSTANTS
  Parts = {"comps", "record"}
  Sales = {1, 2, 3, 4}
  Profiles <- Market
  Areas = {0, 10}
  NoDist <- Unlocated
  NoPrice <- Unpriced
  PoolMonths = 48
  PoolDist = 8
  Recency = 18
  RecencyWide = 36
  Radius = 2
  MaxRadius = 8
  BedsTol = 1
  AreaTol = 25
  YearTol = 15
  MinSample = 3
  Lot <- Lots
  Cap = 2
  None = None
  Violations = {v1, v2}
  Hazardous = {v1}
  Complaints = {c1, c2}
  Vacancy = {v2, c1}
  Deeds <- Recorded
  Snapshots <- TaxRows
  OutOfState = TRUE
  Expected = 200
  Floor = 1
  MaxYear = 2
  MaxLoads = 3
INVARIANTS StopsAtFirstRung EstimateSound CardIsCurated PageAgrees
PROPERTIES OnlyFilingsRaise
CHECK_DEADLOCK FALSE
