SPECIFICATION Spec

CONSTANTS
  Users = {u1, u2}
  Calls = {c1}
  Orgs = {o}
  Emails = {e}
  CacheTtl = 2
  RedisFails = FALSE
  MaxTime = 0
  MaxChanges = 2
  MaxFaults = 0
  None = None
  Unasked = Unasked

PROPERTY SyncUpserts

CHECK_DEADLOCK FALSE
