\* Two administrators' requests and one visitor, two of them at once.
SPECIFICATION Spec
CONSTANTS
  ta = ta
  tb = tb
  u1 = u1
  m1 = m1
  m2 = m2
  p1 = p1
  r1 = r1
  r2 = r2
  Tenants = {ta, tb}
  Users = {u1}
  MemberIds = {m1, m2}
  LastKey = 2
  Permissions = {p1}
  Template <- Permits
  Requests = {r1, r2}
  Visits = {c1}
  Bodies <- FewBodies
  NoUser = NoUser
  Keep = Keep
  MaxInFlight = 2
SYMMETRY AlikeRequests
INVARIANTS
  TypeOK
  SetupIsWhole
  MembersFit
  UndisturbedSessionsWork
