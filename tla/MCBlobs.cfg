SPECIFICATION MCSpec
CONSTANTS
  Blobs = {b1}
  Clients = {c1, c2}
  Jobs = {j1, j2, j3}
  MaxReady = 0
  IoErrors = TRUE
  Crashes = TRUE
  Size = 2
  ChunkSizes = {1, 2}
  WriteCap = 1
  FlushBytes = 2
  Writers = {w1, w2}
  MaxFaults = 2
  None = None
INVARIANTS
  TypeOK
  SingleFlight
  ReadyHasFile
  CachedIsServed
  LiveJobHasRow
  CachedUnlessCrossed
  WedgeHasCause
PROPERTIES RequestAnswered CachedOrWedged
