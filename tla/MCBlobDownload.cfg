SPECIFICATION Spec
CONSTANTS
  Size = 3
  ChunkSizes = {1, 2}
  WriteCap = 1
  FlushBytes = 2
  Writers = {w1, w2}
  MaxFaults = 2
  None = None
INVARIANT CachedIsUpstream
CHECK_DEADLOCK FALSE
