------------------------------ MODULE Projects ------------------------------
(***************************************************************************)
(* Projects, their members and their entry in the search registry          *)
(* (routers/projects.py), written by request handlers that run side by     *)
(* side.  A handler reads and decides (Receive), and its transaction       *)
(* commits later: write_audit takes a lock that is held until the commit,  *)
(* so commits are serial, while another handler may commit between the     *)
(* reads of this one and its own commit.  Unique keys and the locks of     *)
(* updated rows are those of PostgreSQL at READ COMMITTED.                 *)
(***************************************************************************)
EXTENDS Access, FiniteSets

CONSTANTS
  Requests,     (* requests in progress, each of them used once              *)
  Users,
  Keys,         (* project keys                                              *)
  Texts,        (* names and descriptions                                    *)
  IdemKeys,     (* values of the Idempotency-Key header                      *)
  Changes,      (* the bodies PUT /members may bring                         *)
  Founders,     (* members a project may have when the behaviour starts      *)
  Overlap       (* may requests overlap                                      *)

VARIABLES
  project,      (* [key |-> row of projects]                                 *)
  members,      (* [key |-> [user |-> role]]                                 *)
  ref,          (* [key |-> its row of object_refs]                          *)
  kept,         (* idempotency_keys                                          *)
  req,          (* [request |-> where its handler is and what it has read]   *)
  said,         (* members as the audit rows of the project tell them        *)
  effects,      (* commits made under an idempotency key that is still kept  *)
  stamp,        (* [key |-> number of commits on the project]                *)
  raced         (* projects on which a handler committed from stale reads    *)

dbVars == <<project, members, ref, kept>>
ghostVars == <<said, effects, stamp, raced>>
vars == <<dbVars, req, ghostVars>>

None == NoRole
Absent == [status |-> "absent", name |-> None, text |-> None]
NoMembers == <<>>
Idle == [at |-> "idle"]
Call(ops, args) == [op : ops, user : Users, key : Keys, via : {NoKey}, arg : args]
Given == Texts \cup {None}

Calls ==
  [op : {"create"}, user : Users, key : Keys, via : IdemKeys \cup {NoKey},
   arg : [name : Texts, text : Texts]]
    \cup Call({"patch"}, [name : Given, text : Given])
    \cup Call({"archive"}, {None}) \cup Call({"remove"}, Users) \cup Call({"replace"}, Changes)

Init ==
  /\ \E k \in SUBSET Keys, first \in Founders, t \in Texts :
       /\ project = [key \in Keys |->
            IF key \in k THEN [status |-> "active", name |-> t, text |-> t] ELSE Absent]
       /\ members = [key \in Keys |-> IF key \in k THEN first ELSE NoMembers]
       /\ ref = [key \in Keys |-> IF key \in k THEN [name |-> t, text |-> t] ELSE None]
  /\ kept = <<>> /\ req = [r \in Requests |-> Idle]
  /\ said = members /\ effects = <<>>
  /\ stamp = [k \in Keys |-> 0] /\ raced = {}

-----------------------------------------------------------------------------
(* What each handler asks for before it writes.                              *)

CanActAs(c, role) == MayActAs(c.user, project[c.key], members[c.key], role)
IsActive(c) == project[c.key].status = "active"
Admins(roles) == {u \in DOMAIN roles : roles[u] = "admin"}
Merged(p, arg) ==
  [name |-> IF arg.name = None THEN p.name ELSE arg.name,
   text |-> IF arg.text = None THEN p.text ELSE arg.text]

CreateAllowed(c) ==
  /\ c.op = "create" /\ FreshKey(kept, c.user, c.via)
  /\ project[c.key].status = "absent"
PatchAllowed(c) ==
  /\ c.op = "patch" /\ CanActAs(c, "editor") /\ IsActive(c)
  /\ Merged(project[c.key], c.arg) # [name |-> project[c.key].name, text |-> project[c.key].text]
ArchiveAllowed(c) == c.op = "archive" /\ CanActAs(c, "admin") /\ IsActive(c)
ReplaceAllowed(c) ==
  /\ c.op = "replace" /\ CanActAs(c, "admin") /\ IsActive(c)
  /\ Admins(c.arg) # {}
RemovesAnyone(c) ==
  /\ c.op = "remove" /\ CanActAs(c, "admin") /\ IsActive(c)
  /\ c.arg \in DOMAIN members[c.key]
RemoveAllowed(c) ==
  /\ c.op = "remove" /\ CanActAs(c, "admin") /\ IsActive(c)
  /\ c.arg \in DOMAIN members[c.key]
  /\ members[c.key][c.arg] = "admin" => Cardinality(Admins(members[c.key])) > 1

Allowed(c) == CreateAllowed(c) \/ PatchAllowed(c) \/ ArchiveAllowed(c)
                \/ ReplaceAllowed(c) \/ RemoveAllowed(c)
Hash(c) == <<c.op, c.key, c.arg>>

\* A handler runs up to its first write; it may answer at once.
Receive(r, c) ==
  /\ req[r] = Idle
  /\ Overlap \/ \A other \in Requests : req[other].at # "checked"
  /\ req' = [req EXCEPT ![r] =
       IF Allowed(c)
       THEN [at |-> "checked", call |-> c, project |-> project[c.key],
             members |-> members[c.key], stamp |-> stamp[c.key]]
       ELSE [at |-> IF Replays(kept, c.user, c.via, Hash(c)) THEN "replayed" ELSE "refused"]]
  /\ UNCHANGED <<dbVars, ghostVars>>

-----------------------------------------------------------------------------
(* The transactions.                                                         *)

Checked(r, op) == req[r].at = "checked" /\ req[r].call.op = op

Ghosts(r, roles) ==
  LET c == req[r].call IN
  /\ said' = [said EXCEPT ![c.key] = roles]
  /\ effects' = CountEffect(effects, c.user, c.via)
  /\ stamp' = [stamp EXCEPT ![c.key] = @ + 1]
  /\ raced' = IF req[r].stamp = stamp[c.key] THEN raced ELSE raced \cup {c.key}
  /\ req' = [req EXCEPT ![r] = [at |-> "done"]]

\* A unique key or a row that is gone makes the flush fail: 500, rolled back.
Fail(r) ==
  /\ req' = [req EXCEPT ![r] = [at |-> "failed"]]
  /\ UNCHANGED <<dbVars, ghostVars>>

Conflicts(c) == project[c.key].status # "absent" \/ KeyTaken(kept, c.user, c.via)

CreateProject(r) ==
  LET c == req[r].call
      founder == [u \in {c.user} |-> "admin"]
  IN
  /\ Checked(r, "create")
  /\ IF Conflicts(c) THEN Fail(r)
     ELSE /\ project' = [project EXCEPT ![c.key] =
               [status |-> "active", name |-> c.arg.name, text |-> c.arg.text]]
          /\ members' = [members EXCEPT ![c.key] = founder]
          /\ ref' = [ref EXCEPT ![c.key] = c.arg]
          /\ kept' = Keep(kept, c.user, c.via, Hash(c), c.arg)
          /\ Ghosts(r, founder)

\* The columns that change are written; the search entry takes both columns as the
\* handler knows them.
PatchProject(r) ==
  LET c == req[r].call
      mine == Merged(req[r].project, c.arg)
  IN
  /\ Checked(r, "patch")
  /\ project' = [project EXCEPT
       ![c.key].name = IF mine.name = req[r].project.name THEN @ ELSE mine.name,
       ![c.key].text = IF mine.text = req[r].project.text THEN @ ELSE mine.text]
  /\ ref' = [ref EXCEPT ![c.key] = IF @ = None THEN None ELSE mine]
  /\ UNCHANGED <<members, kept>>
  /\ Ghosts(r, said[c.key])

ArchiveProject(r) ==
  LET c == req[r].call IN
  /\ Checked(r, "archive")
  /\ project' = [project EXCEPT ![c.key].status = "archived"]
  /\ ref' = [ref EXCEPT ![c.key] = None]
  /\ UNCHANGED <<members, kept>>
  /\ Ghosts(r, said[c.key])

\* Rows are deleted, updated and inserted by what the handler has read.
ReplaceMembers(r) ==
  LET c == req[r].call
      read == req[r].members
      now == members[c.key]
      kill == DOMAIN read \ DOMAIN c.arg
      update == {u \in DOMAIN read \cap DOMAIN c.arg : read[u] # c.arg[u]}
      insert == DOMAIN c.arg \ DOMAIN read
  IN
  /\ Checked(r, "replace")
  /\ IF ~(update \subseteq DOMAIN now) \/ insert \cap DOMAIN now # {} THEN Fail(r)
     ELSE /\ members' = [members EXCEPT ![c.key] =
               [u \in (DOMAIN now \ kill) \cup insert |->
                  IF u \in update \cup insert THEN c.arg[u] ELSE now[u]]]
          /\ UNCHANGED <<project, ref, kept>>
          /\ Ghosts(r, c.arg)

\* Deleting a row that is gone deletes nothing.
RemoveMember(r) ==
  LET c == req[r].call IN
  /\ Checked(r, "remove")
  /\ members' = [members EXCEPT ![c.key] = Restrict(@, DOMAIN @ \ {c.arg})]
  /\ UNCHANGED <<project, ref, kept>>
  /\ Ghosts(r, Restrict(said[c.key], DOMAIN said[c.key] \ {c.arg}))

\* The worker deletes keys after a day (main.py): requests are shorter than that.
PruneKeys ==
  /\ kept # <<>> /\ \A r \in Requests : req[r].at # "checked"
  /\ kept' = <<>> /\ effects' = <<>>
  /\ UNCHANGED <<project, members, ref, req, said, stamp, raced>>

Next ==
  \/ \E r \in Requests : \/ \E c \in Calls : Receive(r, c)
                         \/ CreateProject(r) \/ PatchProject(r) \/ ArchiveProject(r)
                         \/ ReplaceMembers(r) \/ RemoveMember(r)
  \/ PruneKeys

Spec == Init /\ [][Next]_vars

-----------------------------------------------------------------------------
\* As long as no handler has committed from reads that were stale by then: a
\* project keeps an admin, its members are the ones its audit rows tell, the search
\* registry shows it as it is, and once archived it is read-only.
StaysSound ==
  \A k \in Keys : k \notin raced' =>
    /\ project'[k].status = "active" => Admins(members'[k]) # {}
    /\ members'[k] = said'[k]
    /\ ref'[k] = IF project'[k].status # "active" THEN None
                 ELSE [name |-> project'[k].name, text |-> project'[k].text]
    /\ project[k].status = "archived" =>
         project'[k] = project[k] /\ members'[k] = members[k]
=============================================================================
