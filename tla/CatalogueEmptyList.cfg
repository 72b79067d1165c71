SPECIFICATION Spec

CONSTANTS
  Users = {u1}
  Calls = {c1, c2}
  Orgs = {o1, o2}
  Products = {p1}
  Requests = {r1}
  MaxSyncs = 1
  None = None

SYMMETRY Symmetry

PROPERTY EmptyListMeansNoProducts

CHECK_DEADLOCK FALSE
