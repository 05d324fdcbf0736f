SPECIFICATION Spec
CONSTANTS
  None = None
  SignedIn = TRUE
  MaxClicks = 2
  MaxListClicks = 3
  MaxFaults = 1
  GeoTypes = {"neighborhood", "tract"}
  Periods <- Grains
  Ids = {1, 2}
  Market <- Nights
  Named <- Typed
  Flags = {"vacancy"}
  Floors = {0}
  Ceilings = {2}
  Years = {7}
  NoCeiling = 99
  NoYear = 98
  PartYear <- NegOne
  NoValue <- NegTwo
  Unsold <- NegThree
  PageSize = 1
  RowCap = 2
  Statuses = {"new"}
  Accounts <- Users
  Vendors = {"batchdata"}
INVARIANTS PaintSettles RailFollows ListIsTheFilter ExportIsTheList AtWork
PROPERTIES RailWakes ReadsOwnWrites
CHECK_DEADLOCK FALSE
