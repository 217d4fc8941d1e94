\* Two administrators' requests and an AI call at once.
SPECIFICATION Spec
CONSTANTS
  pApp = pApp
  pTenant = pTenant
  t1 = t1
  r1 = r1
  r2 = r2
  Prompts = {pApp, pTenant}
  Tenants = {t1}
  ScopeOf <- Scopes
  Statuses = {"draft", "published"}
  MaxVersion <- HighestVersion
  Requests = {r1, r2}
  Calls = {c1}
  NoPrompt = NoPrompt
SYMMETRY AlikeRequests
INVARIANTS
  TypeOK
  OnePublished
  UndisturbedLookups
PROPERTY
  ChangedByPublishing
