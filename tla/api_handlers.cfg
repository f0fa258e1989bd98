SPECIFICATION Spec
CONSTANTS
  a1 = a1
  a2 = a2
  e = e
  p = p
  n = n
  m = m
  c1 = c1
  u1 = u1
  u2 = u2
  r1 = r1
  r2 = r2
  r3 = r3
  t1 = t1
  t2 = t2
  day = day
  NoRole = NoRole
  NoKey = NoKey
  SiteAdmins = {e}
  Routers = {"projects", "catalog", "endpoints", "registry", "logs", "sessions"}
  Overlap = TRUE
  Requests = {r1, r2, r3}
  IdemKeys = {k}
  People = {a1, a2}
  KeysOfProjects = {p}
  Texts = {1, 2}
  Founders <- AnyFounders
  Changes <- AnyChanges
  Members <- OneEditor
  Uploads = {u1, u2}
  Conns = {c1}
  Names = {n}
  Values = {1, 2}
  EndpointAdmins = {a1}
  EndpointNames = {m, n}
  Bodies <- AnyBodies
  Updates <- AnyUpdates
  Editors <- AdminAndEditor
  QuotaScopes = {day}
  Levels = {"low", "high"}
  LastAttempt = 2
  MaxBytes = 1
  Printed = 1
  Reads = {t1, t2}
  SignIns = {t1, t2}
  Browsers = {a1, a2}
  Subs = {u1, u2}
  Emails = {1, 2}
INVARIANTS
  OneEffectPerKey
  VersionIsItsUpload
  KeyWithItsEndpoint
  HistoryIsWhole
  TailMissesNothing
PROPERTIES
  SoundUnlessRaced
CHECK_DEADLOCK FALSE
SYMMETRY Alike
