---------------------------- MODULE ApiHandlers ----------------------------
(***************************************************************************)
(* The request handlers of the API.  Most of them share the table of       *)
(* idempotency keys and the requests in progress; the requests of one      *)
(* behaviour go to one router (focus), and the tables of the others stay   *)
(* empty.  In the focus "logs" they read the log of a step that a worker   *)
(* writes.                                                                 *)
(***************************************************************************)
EXTENDS Access

CONSTANTS
  Routers,      (* what focus may be                                         *)
  Requests, IdemKeys,
  Overlap,      (* may the requests to routers/projects.py overlap           *)
  People, KeysOfProjects, Texts, Changes, Founders,   (* see Projects        *)
  Members, Uploads, Conns, Names, Values,             (* see Catalog         *)
  EndpointAdmins, EndpointNames, Bodies, Updates,     (* see Endpoints       *)
  Editors, QuotaScopes, Levels,                       (* see Registry        *)
  LastAttempt, MaxBytes, Printed, Reads,              (* see StepLogs        *)
  SignIns, Browsers, Subs, Emails                     (* see Sessions        *)

\* An id is never the null of a column.
ASSUME UploadAssumption == NoRole \notin Uploads
ASSUME IdAssumption == NoRole \notin Requests \cup Conns
\* What a body or a project says of its members is a role for each of them; a project has
\* an admin from the start, and an entry in the search registry is a row.
ASSUME ProjectAssumption ==
  /\ \A roles \in Changes \cup Founders : roles \in [DOMAIN roles -> Roles]
  /\ \A roles \in Founders : \E u \in DOMAIN roles : roles[u] = "admin"
  /\ NoRole \notin [name : Texts, text : Texts]
ASSUME LogAssumption == LastAttempt \in Nat /\ MaxBytes \in Nat /\ Printed \in Nat

VARIABLES
  focus, kept, req, effects, raced, stamp, told,
  project, members, ref,
  upload, conn, vault, data, object,
  endpoint, secrets, policies, pairs,
  quota, nextId, prompt,
  step, claim, attempt, writer, chunk, wrote, running, offset, shown, poll,
  signin, pending, cookie, callback, account, session

projectVars == <<project, members, ref>>
catalogVars == <<upload, conn, vault, data, object>>
endpointVars == <<endpoint, secrets, policies, pairs>>
registryVars == <<quota, nextId, prompt>>
logVars == <<step, claim, attempt, writer, chunk, wrote, running, offset, shown, poll>>
sessionVars == <<signin, pending, cookie, callback, account, session>>
requestVars == <<kept, req, effects, raced, stamp, told>>
vars == <<focus, requestVars, projectVars, catalogVars, endpointVars, registryVars, logVars,
          sessionVars>>

None == NoRole

P == INSTANCE Projects WITH Users <- People, Keys <- KeysOfProjects, said <- told
C == INSTANCE Catalog
E == INSTANCE Endpoints WITH Admins <- EndpointAdmins, Names <- EndpointNames
R == INSTANCE Registry WITH Scopes <- QuotaScopes, Values <- Levels
L == INSTANCE StepLogs
S == INSTANCE Sessions

NoProjects == project = None /\ members = None /\ ref = None
NoCatalog == /\ upload = None /\ conn = None /\ vault = None
             /\ data = None /\ object = None
NoEndpoints == endpoint = None /\ secrets = None /\ policies = None /\ pairs = None
NoRegistry == quota = None /\ nextId = None /\ prompt = None
NoLog == /\ step = None /\ claim = None /\ attempt = None /\ writer = None
         /\ chunk = None /\ wrote = None /\ running = None /\ offset = None
         /\ shown = None /\ poll = None
NoSessions == /\ signin = None /\ pending = None /\ cookie = None
              /\ callback = None /\ account = None /\ session = None
NoRequests == /\ kept = <<>> /\ effects = <<>> /\ req = None
              /\ raced = None /\ stamp = None /\ told = None

Init ==
  /\ focus \in Routers
  /\ \/ focus = "projects" /\ P!Init
        /\ NoCatalog /\ NoEndpoints /\ NoRegistry /\ NoLog /\ NoSessions
     \/ focus = "catalog" /\ C!Init /\ stamp = None
        /\ NoProjects /\ NoEndpoints /\ NoRegistry /\ NoLog /\ NoSessions
     \/ focus = "endpoints" /\ E!Init /\ told = None
        /\ NoProjects /\ NoCatalog /\ NoRegistry /\ NoLog /\ NoSessions
     \/ focus = "registry" /\ R!Init
        /\ NoProjects /\ NoCatalog /\ NoEndpoints /\ NoLog /\ NoSessions
     \/ focus = "logs" /\ L!Init /\ NoRequests
        /\ NoProjects /\ NoCatalog /\ NoEndpoints /\ NoRegistry /\ NoSessions
     \/ focus = "sessions" /\ S!Init /\ NoRequests
        /\ NoProjects /\ NoCatalog /\ NoEndpoints /\ NoRegistry /\ NoLog

Next ==
  /\ UNCHANGED focus
  /\ \/ /\ focus = "projects" /\ P!Next
        /\ UNCHANGED <<catalogVars, endpointVars, registryVars, logVars, sessionVars>>
     \/ /\ focus = "catalog" /\ C!Next
        /\ UNCHANGED <<stamp, projectVars, endpointVars, registryVars, logVars, sessionVars>>
     \/ /\ focus = "endpoints" /\ E!Next
        /\ UNCHANGED <<told, projectVars, catalogVars, registryVars, logVars, sessionVars>>
     \/ /\ focus = "registry" /\ R!Next
        /\ UNCHANGED <<projectVars, catalogVars, endpointVars, logVars, sessionVars>>
     \/ /\ focus = "logs" /\ L!Next
        /\ UNCHANGED <<requestVars, projectVars, catalogVars, endpointVars, registryVars,
                       sessionVars>>
     \/ /\ focus = "sessions" /\ S!Next
        /\ UNCHANGED <<requestVars, projectVars, catalogVars, endpointVars, registryVars,
                       logVars>>

Spec == Init /\ [][Next]_vars

-----------------------------------------------------------------------------
\* However two requests with one Idempotency-Key overlap, at most one of them takes
\* effect while the key is kept, and every effect leaves its key (idempotency.py:3).
OneEffectPerKey == OncePerKey(kept, effects)

\* The promises a handler checks before it writes hold as long as no handler has
\* committed from reads that were stale by then: projects stay sound, active
\* datasets have an active connection, global names are unique and budgets have a
\* limit.  Sign-ins may overlap as they like: each is of one person and opens one
\* session (see Sessions).
SoundUnlessRaced ==
  [][/\ focus = "projects" => P!StaysSound
     /\ focus = "catalog" => C!SourceStaysActive'
     /\ focus = "endpoints" => E!NamesUnique' /\ E!NothingMisdeclared'
     /\ focus = "registry" => R!LimitRemains'
     /\ focus = "sessions" => S!SignedInAsOneself']_vars

\* See Catalog, Endpoints, Registry and StepLogs.
VersionIsItsUpload == focus = "catalog" => C!VersionIsItsUpload
KeyWithItsEndpoint == focus = "endpoints" => E!KeyWithItsEndpoint
HistoryIsWhole == focus = "registry" => R!HistoryIsWhole
TailMissesNothing == focus = "logs" => L!TailMissesNothing
LabelsStick == focus = "catalog" => C!LabelsStick
=============================================================================
