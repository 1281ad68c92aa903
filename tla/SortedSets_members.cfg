SPECIFICATION Spec
CONSTANTS
  k = k
  Conns = {c1, c2}
  Keys = {k}
  Members = {1, 2, 3}
  Calls <- SomeCalls
  MaxCalls = 4
  NaN = NaN
  Bad = Bad
  None = None
  AofMayFail = TRUE
INVARIANTS RepliesAddUp LogMatchesStore RangesMeet GeoposTellsTheCell GeoposCanBeAdded
CHECK_DEADLOCK FALSE
