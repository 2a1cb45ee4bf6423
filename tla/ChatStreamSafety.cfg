SPECIFICATION Spec
CONSTANTS
  Stream = {s1, s2}
  Thread = {t1, t2}
  Post = {p1, p2}
  SubAgent = {}
  MaxAsks = 1
  MaxCalls = 1
  MaxPauses = 1
  None = None
SYMMETRY Symmetry
INVARIANTS
  TypeOK
  EntryIsOpen
  SoleAskerIsRegistered
  RunsWithConsent
PROPERTIES
  ImplementsGate
CHECK_DEADLOCK FALSE
