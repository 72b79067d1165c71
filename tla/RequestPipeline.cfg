SPECIFICATION Spec

CONSTANTS
  Requests = {q1, q2, q3}
  Users = {u1, u2}
  Ips = {i1, i2}
  Routes = {plan, public}
  PublicRoutes = {public}
  PlanRoutes = {plan}
  Limit <- OneHit
  Ttl <- OneHit
  RateLimitEnabled = TRUE
  MaxTime = 2
  None = None

SYMMETRY Symmetry

INVARIANTS
  TypeOK
  LimitHolds

PROPERTIES
  RefusedForOwnHits
  PlanDecides

CHECK_DEADLOCK FALSE
