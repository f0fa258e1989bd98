SPECIFICATION FairSpec
CONSTANTS
  c1 = c1
  c2 = c2
  k = k
  None = None
  Calls = {c1, c2}
  Scopes = {1, 2, 3}
  ScopesOf <- BothScopes
  Quotas <- ThreeBudgets
  Length <- TwoTicks
  Keys = {k}
  KeyOf <- SameKey
  Estimate = 2
  Costs = {0, 2}
  HoldTtl = 2
  CacheTtl = 1
  Retention = 3
  MaxTime = 4
  MayCrash = TRUE
  MayFail = TRUE
  MaySlip = TRUE
  MayStraddle = TRUE
  MayOutlive = TRUE
INVARIANTS
  HoldsMatchLedger
  CacheServesAccepted
PROPERTIES
  EveryCallEnds
CHECK_DEADLOCK FALSE
