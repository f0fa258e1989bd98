SPECIFICATION Spec
CONSTANTS
  c1 = c1
  c2 = c2
  c3 = c3
  k = k
  None = None
  Calls = {c1, c2, c3}
  Scopes = {1, 2, 3}
  ScopesOf <- TwoConnections
  Quotas <- ThreeBudgets
  Length <- TwoTicks
  Keys = {k}
  KeyOf <- SameKey
  Estimate = 2
  Costs = {0, 2}
  HoldTtl = 2
  CacheTtl = 1
  Retention = 3
  MaxTime = 2
  MayCrash = TRUE
  MayFail = TRUE
  MaySlip = FALSE
  MayStraddle = FALSE
  MayOutlive = FALSE
INVARIANTS
  WithinBudget
PROPERTIES
  TurnedAwayFairly
  ImplementsBudget
CHECK_DEADLOCK FALSE
