SPECIFICATION Spec

CONSTANTS
  Calls = {c1}
  Ends = {2}
  Stored <- Few
  CacheTtl = 2
  MaxTime = 2
  MaxChanges = 1
  None = None



PROPERTIES
  GraceServed

CHECK_DEADLOCK FALSE
