SPECIFICATION Spec
CONSTANTS
  Blobs = {b1, b2}
  Clients = {c1, c2}
  Jobs = {j1, j2}
  MaxReady = 1
  IoErrors = FALSE
  Crashes = FALSE
  None = None
SYMMETRY Symmetry
INVARIANT ReadyIsServed
