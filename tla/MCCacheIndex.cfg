SPECIFICATION Spec
CONSTANTS
  a = a
  b = b
  Projects = {p1, p2}
  Links = {a, b}
  Blobs = {1, 2, 3}
  BlobOf <- MCBlobOf
  Sizes = {1, 2}
  MaxSize = 2
  MaxTime = 1
  Faults = TRUE
SYMMETRY Symmetry
INVARIANTS TypeOK StatsExact
PROPERTIES PruneFits PruneIsLru
