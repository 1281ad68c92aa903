SPECIFICATION TTLSpec
CONSTANTS
  Conns = {c1, c2}
  Names = {k1}
  TTLs <- AllTTLs
  FromRDB = {k1}
  Goroutines = {g1, g2, g3}
  Nothing = Nothing
INVARIANT EveryTTLIsAttended
PROPERTIES GoesWhenExpired ExpiredKeysGo
