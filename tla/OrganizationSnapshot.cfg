SPECIFICATION Spec

CONSTANTS
  Users = {u}
  Calls = {c1, c2}
  Orgs = {o}
  Emails = {}
  CacheTtl = 2
  RedisFails = TRUE
  MaxTime = 3
  MaxChanges = 2
  MaxFaults = 1
  None = None
  Unasked = Unasked

SYMMETRY Symmetry

INVARIANT TypeOK

PROPERTY SnapshotRecent

CHECK_DEADLOCK FALSE
