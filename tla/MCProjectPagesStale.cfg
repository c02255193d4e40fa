SPECIFICATION MCSpec
CONSTANTS
  Clients = {c1, c2}
  Tasks = {t1}
  MaxVersion = 2
  MaxTime = 1
  Ttl = 1
  Oversized = {}
  IoErrors = FALSE
  Drops = FALSE
  MaxLate = 1
  None = None
INVARIANT MaterializedIsCurrent
