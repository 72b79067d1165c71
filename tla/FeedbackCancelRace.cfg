SPECIFICATION Spec

CONSTANTS
  Requests = {r1}
  Calls = {c1, c2, c3}
  Messages = {m1, m2}
  Expiries = {0, 3}
  LinkTtl = 1
  MaxTime = 2
  None = None

SYMMETRY Symmetry

PROPERTIES
  CancelNeverOverridesAnswer

CHECK_DEADLOCK FALSE
