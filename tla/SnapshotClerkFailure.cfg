SPECIFICATION Spec

CONSTANTS
  Users = {u}
  Calls = {c1}
  Orgs = {o}
  Emails = {}
  CacheTtl = 2
  RedisFails = FALSE
  MaxTime = 0
  MaxChanges = 0
  MaxFaults = 1
  None = None
  Unasked = Unasked

PROPERTY SyncKeepsOrganization

CHECK_DEADLOCK FALSE
