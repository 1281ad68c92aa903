SPECIFICATION Spec
CONSTANTS
  c1 = c1
  c2 = c2
  k1 = k1
  x = x
  Conns = {c1, c2}
  Keys = {k1}
  Text = {x}
  MinInt = 0
  MaxInt = 1
  Nil = Nil
  Commands <- AllCommands
  MaxQueue = 1
INVARIANTS UnflaggedWatchIsFresh OutsideTxWhileRunning
PROPERTIES OptimisticLocking HandlersReturn
