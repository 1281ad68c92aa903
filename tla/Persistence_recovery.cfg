SPECIFICATION Spec
CONSTANTS
  k1 = k1
  l1 = l1
  Writers = {w1, w2}
  Strings = {k1}
  Lists = {l1}
  Args = {0}
  Loaded <- LoadedK1
  AlwaysSync = TRUE
  PowerFails = TRUE
  MaxCommands = 4
  MaxCrashes = 2
  None = None
INVARIANTS AckedIsKept FileMatchesStore
PROPERTY ComesUpWithoutPushes
CHECK_DEADLOCK FALSE
