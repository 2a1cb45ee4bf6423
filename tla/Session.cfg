SPECIFICATION FairSpec
CONSTANTS
  Call = {c1, c2, c3}
  Email = {e1}
  MaxTime = 2
  TTL = 2
  Window = 1
  MaxRequests = 1
  Debug = FALSE
  None = None
INVARIANTS
  TypeOK
  OneAccountPerEmail
  RefreshIsShared
  SettledOnlyWhileLeaving
  RefusedOnlyWhenBusy
PROPERTIES
  CallsSettle
CHECK_DEADLOCK FALSE
