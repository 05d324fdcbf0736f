SPECIFICATION FairSpec
CONSTANTS
  nightly = nightly
  weekly = weekly
  backfill = backfill
  k1 = k1
  k2 = k2
  k3 = k3
  Workers = {nightly, weekly}
  Backfills = {}
  MaxId = 3
  Keys = {k1, k2}
  RowKey <- ThreeRowKeys
  Usable = {1, 3}
  Malformed = {2}
  JoinViews <- AllJoin
  Spatial = FALSE
  PageSize = 1
  MaxPages <- NightlySmall
  CommitEvery = 2
  ChunkSize = 1
  RateNum = 1
  RateDen = 2
  Overlap = TRUE
  LateRows = {}
  MaxFaults = 1
  CountCap = 0
INVARIANTS CursorSound MalformedAudited
PROPERTIES CopySpec BacklogDrains
