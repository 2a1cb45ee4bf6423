SPECIFICATION Spec
CONSTANTS
  Stream = {s1}
  Thread = {t1}
  Post = {p1}
  SubAgent = {}
  MaxAsks = 2
  MaxCalls = 1
  MaxPauses = 1
  None = None
INVARIANTS
  AcknowledgedIsApplied
CHECK_DEADLOCK FALSE
