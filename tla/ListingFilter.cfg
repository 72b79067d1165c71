SPECIFICATION Spec

CONSTANTS
  Ids = {1, 2, 3, 4}
  Limit = 2
  Filter = "PENDING"
  Lag = 1
  MaxTime = 2
  None = None

INVARIANTS
  WalkComplete


CHECK_DEADLOCK FALSE
