\* A successful callback is sent again after its request died.
SPECIFICATION Spec
CONSTANTS
  o1 = o1
  t1 = t1
  t2 = t2
  Orders = {o1}
  Deliveries = {d1, d2}
  Plans = {basic}
  NoPlan = NoPlan
  NoTrade = NoTrade
  Trades = {t1, t2}
  Amounts = {1, 2}
  Callbacks <- OnlySuccess
  PlanOf <- OnePlan
  AmountOf <- Prices
  MaxInFlight = 1
  MaxCrashes = 1
INVARIANT
  AcknowledgedOpens
\* The requests are used up and every one is answered.
CHECK_DEADLOCK FALSE
