\* Two requests at once carry the same successful callback; none dies.
SPECIFICATION Spec
CONSTANTS
  o1 = o1
  t1 = t1
  t2 = t2
  Orders = {o1}
  Deliveries = {d1, d2}
  Plans = {basic}
  NoPlan = NoPlan
  NoTrade = NoTrade
  Trades = {t1, t2}
  Amounts = {1, 2}
  Callbacks <- OnlySuccess
  PlanOf <- OnePlan
  AmountOf <- Prices
  MaxInFlight = 2
  MaxCrashes = 0
INVARIANT
  OpenedOnce
\* The requests are used up and every one is answered.
CHECK_DEADLOCK FALSE
