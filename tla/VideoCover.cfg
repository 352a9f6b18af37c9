CONSTANTS
  v1 = v1
  v2 = v2
  k1 = k1
  k2 = k2
  p1 = p1
  p2 = p2
  None = None
  Variants = {v1, v2}
  Keys = {k1, k2}
  Procs = {p1, p2}
  MaxHistory = 3
SPECIFICATION Spec
SYMMETRY Interchangeable
CHECK_DEADLOCK FALSE
INVARIANT ShownAsRecorded
INVARIANT FailedNotShown
INVARIANT SentOnce
