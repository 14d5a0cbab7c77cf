CONSTANTS
  None = None
  own = own
  pal = pal
  new = new
  t1 = t1
  t2 = t2
  p1 = p1
  p2 = p2
  User = {own, pal, new}
  Trip = {t1, t2}
  Plan = {p1, p2}
  Superusers = {}
  EarlyUsers = {own, pal}
  Requests <- MemberRequests
  Suspended <- Overlaps
  Legs = 2
SPECIFICATION Spec
INVARIANTS TripsKeepAnOwner
PROPERTIES PreSharesLightUp
