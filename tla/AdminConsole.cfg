\* Two users, five pages, two panels; four fetches, one save, one mishap.
SPECIFICATION Spec
CONSTANTS
  ua = ua
  ub = ub
  x1 = x1
  tenants = tenants
  audit = audit
  providers = providers
  models = models
  dashboard = dashboard
  members = members
  operations = operations
  Users = {ua, ub}
  Contexts = {x1}
  NoUser = NoUser
  NoContext = NoContext
  Home <- HomeOf
  ResourceLists = {tenants, audit}
  AiLists = {providers, models}
  FirstTab = providers
  Overview = dashboard
  Panels = {members, operations}
  PanelHome <- OverTenants
  OwnContext = {operations}
  Writable = {tenants, providers}
  Stepwise = {tenants}
  Silent = {dashboard, members}
  Saves = {1}
  Bases = 2
  MaxFetches = 4
  MaxEvents = 1
SYMMETRY AlikeUsers
CONSTRAINTS
  LastFetchRenews
  LostIsLast
INVARIANTS
  TypeOK
  OwnSavesShown
  FormFitsPage
  
  OthersRowsAreOld
CHECK_DEADLOCK FALSE
