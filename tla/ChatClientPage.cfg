SPECIFICATION FairSpec
CONSTANTS
  Existing = {}
  MaxSends = 2
  MaxAsks = 1
  Load = {l1}
  None = None
INVARIANTS
  TypeOK
  StreamIsControlled
  DialogIsOfCurrentTurn
PROPERTIES
  LoadingEnds
CHECK_DEADLOCK FALSE
