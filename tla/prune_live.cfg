SPECIFICATION PrunerFairSpec
CONSTANTS
  j1 = j1
  A = A
  B = B
  Jobs = {j1}
  Workers = {w1, w2}
  Datasets = {A, B}
  Plan <- SoloPlan
  Requested <- SoloRequested
  Inputs <- SoloInputs
  MaxAttempts = 1
  MayStall = FALSE
  MayCrash = TRUE
  MayFail = TRUE
  None = None
PROPERTIES
  PruneHitsOnlyRacingFlips
  LeftoversGo
  EveryJobEnds
CHECK_DEADLOCK FALSE
