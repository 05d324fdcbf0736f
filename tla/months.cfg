SPECIFICATION Spec
CONSTANTS
  Parts = {"derived"}
  nightly = nightly
  p1 = p1
  p2 = p2
  p3 = p3
  owner = owner
  price = price
  Null = Null
  Runs = {nightly}
  Parcels = {p1, p2, p3}
  Fields = {owner, price}
  MaxVersion = 4
  Content <- FourVersions
  LowRows = 2
  HighRows = 3
  ChunkSize = 1
  HeadMayFail = TRUE
  MaxFaults = 2
  Violations = {v1, orphan}
  Delinquents = {taxpayer}
  NoParcel = {orphan}
  BatchSize = 2
  MaxVersions = 4
  nbhd = nbhd
  zip = zip
  n1 = n1
  n2 = n2
  z1 = z1
  east = east
  west = west
  e1 = e1
  e2 = e2
  e3 = e3
  Kinds = {nbhd, zip}
  Features = {n1, n2, z1}
  KindOf <- FeatureKind
  Lots = {east, west}
  Place <- Places
  Sales = {e1, e2, e3}
  ParcelOf <- SaleParcel
  DateOf <- SaleDay
  ViewKind = nbhd
  MonthDays = 2
  TrailingMonths = 1
  MaxDay = 4
PROPERTY MonthsKeepTheirEvents
CHECK_DEADLOCK FALSE
