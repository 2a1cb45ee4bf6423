SPECIFICATION FairSpec
CONSTANTS
  Stream = {s1, s2}
  Thread = {t1}
  Post = {p1}
  SubAgent = {}
  MaxAsks = 1
  MaxCalls = 1
  MaxPauses = 1
  None = None
PROPERTIES
  AnswerUnblocks
  TurnEnds
CHECK_DEADLOCK FALSE
