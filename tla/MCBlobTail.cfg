SPECIFICATION StartSpec
CONSTANTS
  Followers = {f1}
  Size = 3
  ChunkSizes = {1, 2}
  RingCap = 1
  WriteCap = 1
  FlushBytes = 2
  Resumes = {0, 1}
  Faults = TRUE
  Unknown = Unknown
INVARIANTS
  TypeOK
  PrefixDelivered
  NoCleanEndOnFailure
  RestartUnseen
  SuccessIsOnDisk
PROPERTIES
  DownloadTerminates
  StartAnswered
CHECK_DEADLOCK FALSE
