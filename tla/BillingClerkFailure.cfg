SPECIFICATION Spec

CONSTANTS
  u = u
  e1 = e1
  e2 = e2

  Users = {u}
  Orgs = {}
  Synced = {u}
  Events = {e1, e2}
  PayerOf <- TwoOfUser
  Workers = {w1}
  Readers = {h1}
  MaxAttempts = 2
  MaxStalled = 1
  FailAt = {}
  ClerkFails = TRUE
  MaxFaults = 1
  None = None
  NoPlan = NoPlan
  Never = Never

INVARIANTS
  FailureIsNotNoPlan

CHECK_DEADLOCK FALSE
