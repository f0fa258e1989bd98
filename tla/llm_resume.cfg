SPECIFICATION FairSpec
CONSTANTS
  NumRows = 3
  CheckpointEvery = 2
  Concurrency = 2
  LastAttempt = 2
  MayTear = TRUE
  MayMisread = TRUE
  None = None
INVARIANTS
  LossWithinABatch
  OutputIsWhole
PROPERTIES
  StepEnds
CHECK_DEADLOCK FALSE
