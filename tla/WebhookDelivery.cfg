\* One event, three webhooks, two retries, one failing call and one crash.
SPECIFICATION FairSpec
CONSTANTS
  a = a
  b = b
  Events = {e1}
  Retries = {r1, r2}
  MaxHooks = 3
  Tenants = {a, b}
  AnyTenant = AnyTenant
  OwnerOf <- Owners
  SourceOf <- FromA
  Nothing = Nothing
  MaxErrors = 1
  MaxCrashes = 1
INVARIANTS
  TypeOK
  RowsAreTrue
  ReachedInOrder
PROPERTIES
  PromiseKept
  DispatchEnds
CHECK_DEADLOCK FALSE
