SPECIFICATION Spec
CONSTANTS
  k1 = k1
  k2 = k2
  Conns = {c1, c2}
  Keys = {k1, k2}
  Chans = {h1, h2}
  MaxSeq = 1
  Adds <- MixedAdds
  Reads <- MixedReads
  MaxClock = 1
  MaxEntries = 3
  Star = Star
  Dollar = Dollar
  None = None
INVARIANTS IdsIncrease NoEntryBesideReader WokenReadersHaveNews QueuesNameReaders
PROPERTY CallsReturn
CHECK_DEADLOCK FALSE
