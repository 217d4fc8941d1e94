\* Two calls at once, two subscriptions, a plan with a limit and one without.
SPECIFICATION Spec
CONSTANTS
  Slots = {s1, s2}
  Openings = {b1, b2}
  Plans = {basic, pro, trial}
  Metered = {basic}
  Unmetered = {pro}
  LimitOf <- LimitTwo
  MaxQuantity = 1
  Months = {1}
  NoBucket = NoBucket
  MaxTime = 2
  MaxLogs = 4
  MaxManual = 1
SYMMETRY Symmetry
INVARIANTS
  TypeOK
  UsageIsBounded
  PeriodsMean
PROPERTY
  ChargedInPeriod
CHECK_DEADLOCK FALSE
