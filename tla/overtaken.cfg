SPECIFICATION Spec
CONSTANTS
  None = None
  SignedIn = TRUE
  MaxClicks = 1
  MaxListClicks = 0
  MaxFaults = 0
  GeoTypes = {"neighborhood", "tract"}
  Periods <- Grains
  Ids = {1, 2}
  Market <- Nights
  Named <- Typed
  Flags = {"vacancy"}
  Floors = {0}
  Ceilings = {2}
  Years = {7}
  NoCeiling = 99
  NoYear = 98
  PartYear <- NegOne
  NoValue <- NegTwo
  Unsold <- NegThree
  PageSize = 1
  RowCap = 2
  Statuses = {"new"}
  Accounts <- Users
  Vendors = {"batchdata"}
INVARIANT MapFollows
CHECK_DEADLOCK FALSE
