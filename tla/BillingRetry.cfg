SPECIFICATION FairSpec

CONSTANTS
  u = u
  e1 = e1
  e2 = e2

  Users = {u}
  Orgs = {}
  Synced = {u}
  Events = {e1, e2}
  PayerOf <- TwoOfUser
  Workers = {w1}
  Readers = {}
  MaxAttempts = 5
  MaxStalled = 1
  FailAt = {"store"}
  ClerkFails = FALSE
  MaxFaults = 1
  None = None
  NoPlan = NoPlan
  Never = Never

PROPERTIES
  TransientFailureTolerant

CHECK_DEADLOCK FALSE
