SPECIFICATION Spec
CONSTANTS
  nightly = nightly
  weekly = weekly
  backfill = backfill
  k1 = k1
  k2 = k2
  k3 = k3
  Workers = {nightly}
  Backfills = {backfill}
  MaxId = 4
  Keys = {k1, k2, k3}
  RowKey <- SharedKeys
  Usable <- UsableRows
  Malformed = {2, 3}
  JoinViews <- JoinOrNot
  Spatial = FALSE
  PageSize = 2
  MaxPages <- TwoPages
  CommitEvery = 2
  ChunkSize = 1
  RateNum = 1
  RateDen = 2
  Overlap = FALSE
  LateRows = {}
  MaxFaults = 1
  CountCap = 4
INVARIANTS TypeOK FreshBelowCursor BooksAreTrue
PROPERTY CursorNeverRegresses
