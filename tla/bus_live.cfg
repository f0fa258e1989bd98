SPECIFICATION FairSpec
CONSTANTS
  c1 = c1
  None = None
  Clients = {c1}
  Admins = {}
  Kinds = {"public", "project"}
  Limit = 2
  Ttl = 0
  MaxSeq = 3
  MaxUpsets = 2
  MayEmpty = FALSE
  MayRefuse = TRUE
INVARIANTS
  NothingSkipped
  NoSleepThrough
PROPERTIES
  RevokedInTime
  EveryRowArrives
CHECK_DEADLOCK FALSE
