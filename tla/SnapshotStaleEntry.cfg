SPECIFICATION Spec

CONSTANTS
  Users = {u}
  Calls = {c1, c2}
  Orgs = {o}
  Emails = {}
  CacheTtl = 2
  RedisFails = FALSE
  MaxTime = 0
  MaxChanges = 1
  MaxFaults = 0
  None = None
  Unasked = Unasked

INVARIANT NoStaleEntry

CHECK_DEADLOCK FALSE
