SPECIFICATION MCSpec
CONSTANTS
  Clients = {c1, c2}
  Tasks = {t1, t2}
  MaxVersion = 2
  MaxTime = 1
  Ttl = 1
  Oversized = {}
  IoErrors = TRUE
  Drops = TRUE
  MaxLate = 1
  None = None
SYMMETRY Symmetry
INVARIANTS TypeOK OneRefresh KnownNeverWaits HotIsIndex
PROPERTY IndexAdvances
