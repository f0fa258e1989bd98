SPECIFICATION FairSpec
CONSTANTS
  w1 = w1
  w2 = w2
  None = None
  Writers = {w1, w2}
  Kinds <- HandlerKinds
  BatchSize = 2
  PageSize = 1
  MayForge = TRUE
INVARIANTS
  VerdictIsRight
  PagesTile
  OnlyRowsEntangle
PROPERTIES
  GrowsAtTheEnd
  EveryoneEnds
CHECK_DEADLOCK FALSE
