SPECIFICATION Spec

CONSTANTS
  Users = {u1}
  Calls = {c1}
  Orgs = {o1, o2}
  Products = {p1}
  Requests = {r1}
  MaxSyncs = 0
  None = None

SYMMETRY Symmetry

PROPERTY CancelledRequestsDoNotBlock

CHECK_DEADLOCK FALSE
