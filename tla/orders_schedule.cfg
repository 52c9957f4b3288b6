CONSTANTS
  c1 = c1
  c2 = c2
  v = v
  s1 = s1
  s2 = s2
  r1 = r1
  r2 = r2
  Customers = {c1}
  Sellers = {v}
  Schedules = {s1, s2}
  NoSchedule = NoSchedule
  NoUser = NoUser
  Req = {r1, r2}
  MaxOrders = 1
  MaxListings = 1
SPECIFICATION Spec
SYMMETRY Symmetry
CHECK_DEADLOCK FALSE
INVARIANT OrderedOnOffer
