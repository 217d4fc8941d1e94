\* Two administrators' requests, or one and an AI call, at once.
SPECIFICATION Spec
CONSTANTS
  p1 = p1
  p2 = p2
  m1 = m1
  m2 = m2
  x1 = x1
  x2 = x2
  ta = ta
  tb = tb
  r1 = r1
  r2 = r2
  Providers = {p1, p2}
  Models = {m1, m2}
  Routes = {x1, x2}
  Tenants = {ta, tb}
  Platform = Platform
  Requests = {r1, r2}
  Calls = {c1}
  Asks <- FewAsks
  NoModel = NoModel
  NoRoute = NoRoute
  Keep = Keep
  MaxInFlight = 2
SYMMETRY AlikeRequests
INVARIANTS
  TypeOK
  UndisturbedCallsAgree
PROPERTIES
  DamageOnlyByRace
  TenantsApart
  CatalogueKept
