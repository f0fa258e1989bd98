SPECIFICATION Spec
CONSTANTS
  j1 = j1
  j2 = j2
  A = A
  B = B
  C = C
  Jobs = {j1, j2}
  Workers = {w1, w2}
  Datasets = {A, B, C}
  Plan <- ChainPlan
  Requested <- ChainRequested
  Inputs <- ChainInputs
  MaxAttempts = 1
  MayStall = FALSE
  MayCrash = TRUE
  MayFail = TRUE
  None = None
INVARIANTS
  SoleOwner
  OneFlipPerStep
  CommittedIntact
  SucceededIsComplete
PROPERTIES
  ImplementsVersionStore
CHECK_DEADLOCK FALSE
