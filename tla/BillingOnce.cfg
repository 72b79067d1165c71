SPECIFICATION Spec

CONSTANTS
  u = u
  e1 = e1
  e2 = e2

  Users = {u}
  Orgs = {o}
  Synced = {}
  Events = {e1, e2}
  PayerOf <- UserAndNobody
  Workers = {w1, w2}
  Readers = {h1}
  MaxAttempts = 2
  MaxStalled = 1
  FailAt = {"mark", "readRow", "fetch", "store", "cache", "fill"}
  ClerkFails = TRUE
  MaxFaults = 2
  None = None
  NoPlan = NoPlan
  Never = Never

SYMMETRY Symmetry

INVARIANTS
  TypeOK
  AtMostOneReconcile
  MarkerHasOneHolder

CHECK_DEADLOCK FALSE
