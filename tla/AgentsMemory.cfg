SPECIFICATION FairSpec
CONSTANTS
  Text = {empty, default, text}
  Empty = empty
  Default = default
  Turn = {k1}
  MaxSaves = 2
  MaxEdits = 1
  None = None
INVARIANTS
  TypeOK
  SavedWasStored
  WritesAreNoticed
PROPERTIES
  BusyEnds
CHECK_DEADLOCK FALSE
