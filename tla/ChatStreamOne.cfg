SPECIFICATION Spec
CONSTANTS
  Stream = {s1}
  Thread = {t1}
  Post = {p1, p2}
  SubAgent = {a1}
  MaxAsks = 2
  MaxCalls = 2
  MaxPauses = 2
  None = None
SYMMETRY Symmetry
INVARIANTS
  OneDecisionPerCall
  AnswerSavedOrReported
  SavedTurnIsSettled
CHECK_DEADLOCK FALSE
