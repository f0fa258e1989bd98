SPECIFICATION Spec
CONSTANTS
  j1 = j1
  j2 = j2
  A = A
  B = B
  C = C
  Jobs = {j1}
  Workers = {w1, w2}
  Datasets = {A, B}
  Plan <- SoloPlan
  Requested <- SoloRequested
  Inputs <- SoloInputs
  MaxAttempts = 1
  MayStall = TRUE
  MayCrash = FALSE
  MayFail = FALSE
  None = None
INVARIANTS
  OneVersionPerStep
CHECK_DEADLOCK FALSE
