SPECIFICATION Spec
CONSTANTS
  c1 = c1
  c2 = c2
  c3 = c3
  k1 = k1
  k2 = k2
  v1 = v1
  v2 = v2
  v3 = v3
  v4 = v4
  h1 = h1
  h2 = h2
  h3 = h3
  Conns = {c1, c2, c3}
  Keys = {k1, k2}
  Values = {v1, v2, v3, v4}
  Chans = {h1, h2, h3}
  None = None
  Calls <- MixedCalls
  AofMayFail = TRUE
INVARIANTS WaitersAreParked OnePlace
SYMMETRY ConnsAndChansAlike
CHECK_DEADLOCK FALSE
