SPECIFICATION Spec

CONSTANTS
  Ids = {1, 2, 3, 4}
  Limit = 2
  Filter = None
  Lag = 1
  MaxTime = 2
  None = None

INVARIANTS
  TypeOK
  NoRepeat
  WalkComplete

PROPERTY CursorAdvances

CHECK_DEADLOCK FALSE
