SPECIFICATION Spec

CONSTANTS
  Calls = {c1}
  Ends = {2}
  Stored <- Few
  CacheTtl = 2
  MaxTime = 2
  MaxChanges = 2
  None = None

INVARIANT TypeOK

PROPERTIES
  GrantJustified
  DenialJustified

CHECK_DEADLOCK FALSE
