\* Two requests at once, three in all, one of which may die.
SPECIFICATION FairSpec
CONSTANTS
  o1 = o1
  t1 = t1
  t2 = t2
  Orders = {o1}
  Deliveries = {d1, d2, d3}
  Plans = {basic}
  NoPlan = NoPlan
  NoTrade = NoTrade
  Trades = {t1, t2}
  Amounts = {1, 2}
  Callbacks <- RacingCallbacks
  PlanOf <- OnePlan
  AmountOf <- Prices
  MaxInFlight = 2
  MaxCrashes = 1
INVARIANTS
  TypeOK
  RecordsAreTrue
  AnswersAreTrue
PROPERTIES
  PaidOpens
  PromiseKept
\* The requests are used up and every one is answered.
CHECK_DEADLOCK FALSE
