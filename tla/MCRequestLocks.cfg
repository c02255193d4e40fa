SPECIFICATION MCSpec
CONSTANTS
  Keys = {k1, k2, k3}
  Clients = {c1, c2}
  LockIds = {l1, l2, l3, l4}
  Threshold = 1
  None = None
  PageClients = {q1, q2}
  PageTasks = {t1}
  LruKeys = {e1, e2, e3}
  LruValues = {v1, v2}
  LruCapacity = 2
  MaxSequence = 6
INVARIANTS MutualExclusion MapBounded
PROPERTIES ImplementsKeyedMutex NoStarvation PageAnswered RefreshEnds ImplementsLru
