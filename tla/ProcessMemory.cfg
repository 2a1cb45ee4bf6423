SPECIFICATION Spec
CONSTANTS
  Proc = {p1, p2}
  Thread = {t1, t2}
  MaxTurns = 2
  Request <- MCRequest
  MaxEnds = 1
  MaxPuts = 1
  None = None
  Creating = Creating
INVARIANTS
  LatestMemorySeen
CHECK_DEADLOCK FALSE
