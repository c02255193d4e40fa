SPECIFICATION MCSpec
CONSTANTS
  Blobs = {u1, u2}
  Clients = {c1}
  Jobs = {h1, h2}
  MaxReady = 1
  IoErrors = FALSE
  Crashes = FALSE
  Pagers = {h1, h2}
  Readers = {h0}
  Links <- MCLinks
  Names <- MCNames
  Decoded <- MCDecoded
  Unsafe = {""}
  Sizes = {3}
  Ranges <- MCRanges
  Digits <- MCDigits
  RouteB = 2
  MaxByte = 4
  MaxAscii = 3
  MaxLate = 1
  Handlers = {h1, h2}
  Projects = {p1}
  Upstreams = {u1, u2}
  MaxVersion = 2
  MaxTime = 2
  TTL = 1
  Tagged = {1, 2}
  Lists <- MCLists
  Root = Root
  OldProjects = {p1}
  OldBlobs = {d1}
  Legacies <- MCLegacies
  None = None
SYMMETRY Symmetry
INVARIANTS
  WithinLimit
  ShownIsServed HotLinkIsCurrent
  FreshIsRecent
  ServingReady MigratedIsCompacted
  ReadsBack
PROPERTY RowAdvances
