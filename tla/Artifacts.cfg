SPECIFICATION Spec
CONSTANTS
  Thread = {t1, t2}
  Path = {p1}
  Output = {o1}
  Call = {c1, c2, c3}
  MaxVersion = 2
  None = None
SYMMETRY Calls
INVARIANTS
  TypeOK
  CallsAddUp
  ShownWasStored
  PassedOverWasShown
PROPERTIES
  ReadsAreCurrent
CHECK_DEADLOCK FALSE
