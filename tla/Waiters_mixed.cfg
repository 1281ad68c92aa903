SPECIFICATION Spec
CONSTANTS
  c1 = c1
  c2 = c2
  c3 = c3
  k1 = k1
  k2 = k2
  v1 = v1
  v2 = v2
  v3 = v3
  e1 = e1
  Conns = {c1, c2, c3}
  Keys = {k1, k2}
  Items = {v1, v2, v3, e1}
  Chans = {h1, h2}
  None = None
  Calls <- MixedCalls
INVARIANTS OthersHaveRoom OneCopy
PROPERTY CallsReturn
CHECK_DEADLOCK FALSE
