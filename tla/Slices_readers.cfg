SPECIFICATION Spec
CONSTANTS
  c1 = c1
  c2 = c2
  c3 = c3
  v1 = v1
  v2 = v2
  v3 = v3
  Conns = {c1, c2, c3}
  Values = {v1, v2, v3}
  Arrays = {a1, a2, a3, a4}
  MaxCap = 3
  Torn = Torn
  None = None
  Calls <- ReaderCalls
SYMMETRY ArraysAlike
INVARIANTS SlicesAreValues RepliesAreOfTheTime PopsReplyWhatTheyTake
CHECK_DEADLOCK FALSE
