SPECIFICATION Spec
CONSTANTS
  l1 = l1
  l2 = l2
  k1 = k1
  k2 = k2
  Lookups = {l1, l2}
  KeyCalls = {k1, k2}
  DailyCap = 1
  MaxDay = 1
  MaxKeys = 3
  MaxTries = 3
SYMMETRY Symmetry
INVARIANTS CapHolds AnswersAreCharged KeysWhole
CHECK_DEADLOCK FALSE
