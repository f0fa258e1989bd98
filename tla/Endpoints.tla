----------------------------- MODULE Endpoints -----------------------------
(***************************************************************************)
(* The model endpoints an admin declares (routers/llm_connections.py), the *)
(* guardrail policies they name (routers/llm_budgets.py), and the two      *)
(* reads with which the mesh picks one up for a call                       *)
(* (routers/complete.py).  A handler reads and decides (Receive) and its   *)
(* transaction commits later, as in Projects.  The search entry that a     *)
(* connection is given when it is created is left out: no other handler of *)
(* this router reads or changes it.                                        *)
(***************************************************************************)
EXTENDS Access, FiniteSets, Sequences

CONSTANTS
  Requests,     (* requests in progress, each of them used once              *)
  Admins,       (* users who are admin of the project                        *)
  Names,        (* names of connections and of policies                      *)
  Values,       (* values of base_config and of API keys                     *)
  Bodies,       (* bodies of POST: rows to create, and their keys            *)
  Updates,      (* bodies of PATCH; a column that is None is not in it       *)
  IdemKeys

VARIABLES
  endpoint,     (* rows of llm_connections, in the order they were inserted  *)
  secrets,      (* rows of secrets                                           *)
  policies,     (* names of the rows of guardrail_policies                   *)
  kept,         (* idempotency_keys                                          *)
  req,          (* [request |-> where its handler is and what it has read]   *)
  effects,      (* commits made under an idempotency key that is still kept  *)
  stamp,        (* number of commits                                         *)
  raced,        (* did a handler commit from reads that were stale by then   *)
  pairs         (* [row |-> every <<config, key>> it has held]               *)

tables == <<endpoint, secrets, policies, kept>>
vars == <<tables, req, effects, stamp, raced, pairs>>

None == NoRole
Idle == [at |-> "idle"]
NoSecret == 0
Given == Values \cup {None}
Scopes == {"global", "project"}
Users == Admins \cup SiteAdmins

\* base_config and the key a call would use with the row as it is.
PairOf(row, keys) == <<row.config, IF row.secret = NoSecret THEN None ELSE keys[row.secret]>>

NewRow(scope, name, provider, residency, config, secret) ==
  [scope |-> scope, name |-> name, provider |-> provider, residency |-> residency,
   config |-> config, secret |-> secret, status |-> "active"]

\* Providers that are hosted elsewhere cannot be declared inside the boundary.
ResidencyFits(provider, residency) ==
  /\ provider \in {"openai", "anthropic"} => residency = "external"
  /\ provider = "echo" => residency = "local"

Init ==
  /\ \E b \in Bodies :
       /\ b.key # None /\ ResidencyFits(b.provider, b.residency)
       /\ secrets = <<b.key>>
       /\ endpoint = <<NewRow(b.scope, b.name, b.provider, b.residency, b.config, 1)>>
       /\ pairs = <<{<<b.config, b.key>>}>>
  /\ policies = <<>> /\ kept = <<>> /\ effects = <<>>
  /\ req = [r \in Requests |-> Idle] /\ stamp = 0 /\ raced = FALSE

-----------------------------------------------------------------------------
(* Requests.                                                                 *)

Calls ==
  [op : {"create"}, user : Users, via : IdemKeys \cup {NoKey}, arg : Bodies]
    \cup [op : {"patch"}, user : Users, via : {NoKey}, id : DOMAIN endpoint, arg : Updates]
    \cup [op : {"archive"}, user : Users, via : {NoKey}, id : DOMAIN endpoint]
    \cup [op : {"policy"}, user : Users, via : IdemKeys \cup {NoKey}, arg : Names]

Named(scope, name) == {i \in DOMAIN endpoint : endpoint[i].scope = scope /\ endpoint[i].name = name}
AnyName(scope, name) == TRUE
NameFree(scope, name) == Named(scope, name) = {}
Manages(user, scope) == user \in SiteAdmins \/ (scope = "project" /\ user \in Admins)

Or(value, old) == IF value = None THEN old ELSE value
CreateAllowed(c) ==
  /\ c.op = "create" /\ Manages(c.user, c.arg.scope) /\ FreshKey(kept, c.user, c.via)
  /\ ResidencyFits(c.arg.provider, c.arg.residency)
  /\ NameFree(c.arg.scope, c.arg.name)
PatchAllowed(c) ==
  /\ c.op = "patch" /\ Manages(c.user, endpoint[c.id].scope)
  /\ LET row == endpoint[c.id] IN
       /\ ResidencyFits(row.provider, Or(c.arg.residency, row.residency))
       /\ c.arg.name \notin {None, row.name} => NameFree(row.scope, c.arg.name)
ArchiveAllowed(c) == c.op = "archive" /\ Manages(c.user, endpoint[c.id].scope)
PolicyAllowed(c) ==
  /\ c.op = "policy" /\ c.user \in SiteAdmins /\ FreshKey(kept, c.user, c.via)
  /\ \A i \in DOMAIN policies : policies[i] # c.arg

Allowed(c) == CreateAllowed(c) \/ PatchAllowed(c) \/ ArchiveAllowed(c) \/ PolicyAllowed(c)
\* The key that is to be stored is not hashed.
Hash(c) ==
  <<c.op, IF c.op = "create" THEN [f \in DOMAIN c.arg \ {"key"} |-> c.arg[f]] ELSE c.arg>>

Receive(r, c) ==
  /\ req[r] = Idle
  /\ req' = [req EXCEPT ![r] =
       IF Allowed(c)
       THEN [at |-> "checked", call |-> c, stamp |-> stamp,
             row |-> IF c.op \in {"patch", "archive"} THEN endpoint[c.id] ELSE None]
       ELSE [at |-> "refused"]]
  /\ UNCHANGED <<tables, effects, stamp, raced, pairs>>

-----------------------------------------------------------------------------
(* The transactions.                                                         *)

Checked(r, op) == req[r].at = "checked" /\ req[r].call.op = op
Done(r) ==
  LET c == req[r].call IN
  /\ req' = [req EXCEPT ![r] = [at |-> "done"]]
  /\ effects' = CountEffect(effects, c.user, c.via)
  /\ stamp' = stamp + 1
  /\ raced' = (raced \/ req[r].stamp # stamp)
  /\ pairs' = [i \in DOMAIN endpoint' |->
       (IF i \in DOMAIN pairs THEN pairs[i] ELSE {}) \cup {PairOf(endpoint'[i], secrets')}]
Fail(r) ==
  /\ req' = [req EXCEPT ![r] = [at |-> "failed"]]
  /\ UNCHANGED <<tables, effects, stamp, raced, pairs>>

\* _store_secret inserts a row; the rows of earlier keys stay as they are.
OverwriteSecret(old, key) ==
  IF key = None THEN [rows |-> secrets, id |-> old]
  ELSE IF old = NoSecret THEN [rows |-> Append(secrets, key), id |-> Len(secrets) + 1]
  ELSE [rows |-> [secrets EXCEPT ![old] = key], id |-> old]
StoreSecret(old, key) ==
  IF key = None THEN [rows |-> secrets, id |-> old]
  ELSE [rows |-> Append(secrets, key), id |-> Len(secrets) + 1]

\* The unique key (project_id, name) does not see two rows without a project.
NameTaken(scope, name) == scope = "project" /\ ~NameFree(scope, name)

CreateEndpoint(r) ==
  LET c == req[r].call
      stored == StoreSecret(NoSecret, c.arg.key)
  IN
  /\ Checked(r, "create")
  /\ IF NameTaken(c.arg.scope, c.arg.name) \/ KeyTaken(kept, c.user, c.via) THEN Fail(r)
     ELSE /\ secrets' = stored.rows
          /\ endpoint' = Append(endpoint, NewRow(c.arg.scope, c.arg.name, c.arg.provider,
               c.arg.residency, c.arg.config, stored.id))
          /\ kept' = Keep(kept, c.user, c.via, Hash(c), c.arg.name)
          /\ UNCHANGED policies
          /\ Done(r)

\* The columns whose value differs from the one that was read are written.
PatchEndpoint(r) ==
  LET c == req[r].call
      read == req[r].row
      now == endpoint[c.id]
      Column(given, old, current) == IF given \in {None, old} THEN current ELSE given
      name == Column(c.arg.name, read.name, now.name)
      stored == StoreSecret(read.secret, c.arg.key)
  IN
  /\ Checked(r, "patch")
  /\ IF name # now.name /\ NameTaken(now.scope, name) THEN Fail(r)
     ELSE /\ secrets' = stored.rows
          /\ endpoint' = [endpoint EXCEPT ![c.id] = [now EXCEPT
               !.name = name,
               !.residency = Column(c.arg.residency, read.residency, now.residency),
               !.config = Column(c.arg.config, read.config, now.config),
               !.status = Column(c.arg.status, read.status, now.status),
               !.secret = IF c.arg.key = None THEN now.secret ELSE stored.id]]
          /\ UNCHANGED <<policies, kept>>
          /\ Done(r)

ArchiveEndpoint(r) ==
  /\ Checked(r, "archive")
  /\ endpoint' = [endpoint EXCEPT ![req[r].call.id].status = "archived"]
  /\ UNCHANGED <<secrets, policies, kept>>
  /\ Done(r)

CreatePolicy(r) ==
  LET c == req[r].call IN
  /\ Checked(r, "policy")
  /\ IF KeyTaken(kept, c.user, c.via) THEN Fail(r)
     ELSE /\ policies' = Append(policies, c.arg)
          /\ kept' = Keep(kept, c.user, c.via, Hash(c), c.arg)
          /\ UNCHANGED <<endpoint, secrets>>
          /\ Done(r)

-----------------------------------------------------------------------------
(* A model call.  _load_connection and _secret_for are two statements, each  *)
(* with its own snapshot.                                                    *)

LoadConnection(r, id) ==
  /\ req[r] = Idle
  /\ req' = [req EXCEPT ![r] = IF endpoint[id].status = "active"
                               THEN [at |-> "loaded", id |-> id, row |-> endpoint[id]]
                               ELSE [at |-> "refused"]]
  /\ UNCHANGED <<tables, effects, stamp, raced, pairs>>

SecretFor(r) ==
  /\ req[r].at = "loaded"
  /\ req' = [req EXCEPT ![r] =
       [at |-> "sent", id |-> req[r].id, pair |-> PairOf(req[r].row, secrets)]]
  /\ UNCHANGED <<tables, effects, stamp, raced, pairs>>

Next ==
  \E r \in Requests :
    \/ \E c \in Calls : Receive(r, c)
    \/ CreateEndpoint(r) \/ PatchEndpoint(r) \/ ArchiveEndpoint(r) \/ CreatePolicy(r)
    \/ \E id \in DOMAIN endpoint : LoadConnection(r, id)
    \/ SecretFor(r)

Spec == Init /\ [][Next]_vars

-----------------------------------------------------------------------------
\* An API key goes out only with a configuration the row held together with that
\* key, however a rotation falls between the two reads of the call: an admin who
\* moves a connection to another host and key never has the new key sent to the
\* old host, or the old key to the new one.
KeyWithItsEndpoint ==
  \A r \in Requests : req[r].at = "sent" => req[r].pair \in pairs[req[r].id]

\* Names are unique where the API promises it (409, "already exists"), as long as
\* no handler has committed from stale reads; in a project, always.
NamesUnique ==
  /\ \A n \in Names : Cardinality(Named("project", n)) <= 1
  /\ ~raced => /\ \A n \in Names : Cardinality(Named("global", n)) <= 1
               /\ \A i, j \in DOMAIN policies : policies[i] = policies[j] => i = j

\* Whatever is patched, in whichever order, no row declares a hosted provider
\* inside the boundary.
NothingMisdeclared ==
  \A i \in DOMAIN endpoint : ResidencyFits(endpoint[i].provider, endpoint[i].residency)
=============================================================================
