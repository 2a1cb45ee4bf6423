SPECIFICATION Spec
CONSTANTS
  User = {u1, u2}
  System = System
  Name = {n1, n2}
  Note = {v1, v2}
  Id = {i1}
  Thread0 = t0
  Assistant0 = a0
  Skill0 = s0
  System0 = y0
  Founder = u1
  Request = {q1, q2}
  None = None
INVARIANTS
  TypeOK
  UpdatesCompose
PROPERTIES
  DeletedStaysDeleted
  LinkedWhenActive
  OwnRowsOnly
CHECK_DEADLOCK FALSE
