SPECIFICATION ReadingSpec
CONSTANTS
  Followers = {f1}
  Size = 1
  ChunkSizes = {1}
  RingCap = 1
  WriteCap = 1
  FlushBytes = 2
  Resumes = {0}
  Faults = TRUE
  Unknown = Unknown
PROPERTIES
  StreamEnds
CHECK_DEADLOCK FALSE
