------------------------------ MODULE Catalog ------------------------------
(***************************************************************************)
(* Uploads, data connections and the datasets made from them               *)
(* (routers/uploads.py, connections.py, datasets.py): rows in the          *)
(* database, files in the object store, and the handlers that go back and  *)
(* forth between the two.  A content is named for the upload it comes      *)
(* from.  Builds and recipes are in FlowGraph and JobExecutor: every       *)
(* dataset here has version 1 only.                                        *)
(***************************************************************************)
EXTENDS Access, FiniteSets

CONSTANTS
  Requests,     (* requests in progress, each of them used once              *)
  Members,      (* [user |-> role] in the project                            *)
  Uploads,      (* ids of uploads                                            *)
  Conns,        (* ids of connections                                        *)
  Names,        (* names of datasets                                         *)
  Values,       (* values of config and of secrets                           *)
  IdemKeys

VARIABLES
  upload,       (* [id |-> what the uploads prefix holds]                    *)
  conn,         (* [id |-> row of connections]                               *)
  vault,        (* [id |-> the row of secrets of the connection, or None]    *)
  data,         (* [name |-> row of datasets and of its version]             *)
  object,       (* [name |-> content of the v1 object, or None]              *)
  kept, req, effects,
  raced,        (* names and connections two requests were about at a time   *)
  told          (* [name |-> label of a column its editors were shown last]  *)

tables == <<conn, vault, data, kept>>
vars == <<upload, object, tables, req, effects, raced, told>>

None == NoRole
Idle == [at |-> "idle"]
Given == Values \cup {None}
Labels == {"none", "persoonsgegevens"}
Absent == [status |-> "absent"]
Users == DOMAIN Members \cup SiteAdmins

Init ==
  /\ upload = [u \in Uploads |-> "none"]
  /\ conn = [c \in Conns |-> Absent] /\ vault = [c \in Conns |-> None]
  /\ data = [n \in Names |-> Absent] /\ object = [n \in Names |-> None]
  /\ kept = <<>> /\ effects = <<>> /\ raced = {}
  /\ req = [r \in Requests |-> Idle]
  /\ told = [n \in Names |-> "none"]

-----------------------------------------------------------------------------
(* Uploads.  The raw file is stored before it is parsed, meta.json after;    *)
(* the worker deletes what is a day old.                                     *)

PutRaw(u) ==
  /\ upload[u] = "none" /\ upload' = [upload EXCEPT ![u] = "raw"]
  /\ UNCHANGED <<object, tables, req, effects, raced, told>>
PutMeta(u) ==
  /\ upload[u] = "raw" /\ upload' = [upload EXCEPT ![u] = "whole"]
  /\ UNCHANGED <<object, tables, req, effects, raced, told>>
PruneUpload(u) ==
  /\ upload[u] \in {"raw", "whole"} /\ upload' = [upload EXCEPT ![u] = "pruned"]
  /\ UNCHANGED <<object, tables, req, effects, raced, told>>

-----------------------------------------------------------------------------
(* Requests.                                                                 *)

Calls ==
  [op : {"connect"}, user : Users, via : IdemKeys \cup {NoKey}, conn : Conns, arg : Given]
    \cup [op : {"repoint"}, user : Users, via : {NoKey}, conn : Conns,
          config : Given, secret : Given]
    \cup [op : {"disconnect", "test"}, user : Users, via : {NoKey}, conn : Conns]
    \cup [op : {"load"}, user : Users, via : {NoKey}, name : Names, upload : Uploads]
    \cup [op : {"link"}, user : Users, via : {NoKey}, name : Names, conn : Conns]
    \cup [op : {"label"}, user : Users, via : {NoKey}, name : Names, label : Labels]
    \cup [op : {"reprofile", "archive"}, user : Users, via : {NoKey}, name : Names]

May(c, role) == HasRole(MembershipRole(c.user, Members), role)
IsActive(n) == data[n].status = "active"
Uses(n, c) == data[n].status # "absent" /\ data[n].conn = c
InUse(c) == \E n \in Names : Uses(n, c) /\ data[n].status = "active"

ConnectAllowed(c) ==
  /\ c.op = "connect" /\ May(c, "admin") /\ FreshKey(kept, c.user, c.via)
  /\ conn[c.conn] = Absent
RepointAllowed(c) == c.op \in {"repoint", "test"} /\ May(c, "admin") /\ conn[c.conn] # Absent
DisconnectAllowed(c) ==
  /\ c.op = "disconnect" /\ May(c, "admin") /\ conn[c.conn] # Absent
  /\ ~InUse(c.conn)
LoadUnchecked(c) ==
  /\ c.op = "load" /\ May(c, "editor") /\ upload[c.upload] = "whole"
\* The name check, and the read of meta.json that follows it.
LoadAllowed(c) ==
  /\ c.op = "load" /\ May(c, "editor") /\ data[c.name] = Absent
  /\ upload[c.upload] = "whole"
LinkAllowed(c) ==
  /\ c.op = "link" /\ May(c, "editor") /\ data[c.name] = Absent
  /\ conn[c.conn].status = "active"
EditAllowed(c) ==
  /\ c.op \in {"label", "reprofile", "archive"} /\ May(c, "editor") /\ IsActive(c.name)
  /\ c.op = "reprofile" => data[c.name].upload # None

Allowed(c) == ConnectAllowed(c) \/ RepointAllowed(c) \/ DisconnectAllowed(c)
                \/ LoadAllowed(c) \/ LinkAllowed(c) \/ EditAllowed(c)

Ended == {"idle", "refused", "failed", "done", "tested"}
Subjects(c) == {c[f] : f \in DOMAIN c \cap {"name", "conn"}}
SubjectsInProgress ==
  UNION {Subjects(req[r].call) : r \in {s \in Requests : req[s].at \notin Ended}}

\* What a handler does first after its reads.
FirstStep(c) == CASE c.op = "load" -> "convert"
                  [] c.op = "test" -> "secret"
                  [] c.op = "reprofile" -> "measure"
                  [] OTHER -> "checked"
Receive(r, c) ==
  /\ req[r] = Idle
  /\ IF Allowed(c)
     THEN /\ req' = [req EXCEPT ![r] = [at |-> FirstStep(c), call |-> c,
               row |-> IF c.op \in {"repoint", "test"} THEN conn[c.conn] ELSE None,
               count |-> None, profile |-> None]]
          /\ raced' = raced \cup (Subjects(c) \cap SubjectsInProgress)
     ELSE req' = [req EXCEPT ![r] = [at |-> "refused"]] /\ UNCHANGED raced
  /\ UNCHANGED <<upload, object, tables, effects, told>>

-----------------------------------------------------------------------------
At(r, step, op) == req[r].at = step /\ req[r].call.op = op
Done(r) ==
  LET c == req[r].call IN
  /\ req' = [req EXCEPT ![r] = [at |-> "done"]]
  /\ effects' = CountEffect(effects, c.user, c.via)
  /\ UNCHANGED <<upload, object, raced>>
Fail(r) ==
  /\ req' = [req EXCEPT ![r] = [at |-> "failed"]]
  /\ UNCHANGED <<upload, object, tables, effects, raced, told>>

(* Connections.  A secret is kept in one row per connection, written in      *)
(* place.                                                                    *)
CreateConnection(r) ==
  LET c == req[r].call IN
  /\ At(r, "checked", "connect")
  /\ IF conn[c.conn] # Absent \/ KeyTaken(kept, c.user, c.via) THEN Fail(r)
     ELSE /\ conn' = [conn EXCEPT ![c.conn] =
               [status |-> "active", config |-> CHOOSE v \in Values : TRUE]]
          /\ vault' = [vault EXCEPT ![c.conn] = c.arg]
          /\ kept' = Keep(kept, c.user, c.via, c, c.conn)
          /\ UNCHANGED <<data, told>>
          /\ Done(r)
PatchConnection(r) ==
  LET c == req[r].call IN
  /\ At(r, "checked", "repoint")
  /\ conn' = [conn EXCEPT ![c.conn].config =
       IF c.config \in {None, req[r].row.config} THEN @ ELSE c.config]
  /\ vault' = [vault EXCEPT ![c.conn] = IF c.secret = None THEN @ ELSE c.secret]
  /\ UNCHANGED <<data, kept, told>>
  /\ Done(r)
ArchiveConnection(r) ==
  /\ At(r, "checked", "disconnect")
  /\ conn' = [conn EXCEPT ![req[r].call.conn].status = "archived"]
  /\ UNCHANGED <<vault, data, kept, told>>
  /\ Done(r)
\* The row and its secret are read in two statements.
TestConnection(r) ==
  /\ req[r].at = "secret"
  /\ req' = [req EXCEPT ![r] = [at |-> "tested"]]
  /\ UNCHANGED <<upload, object, tables, effects, raced, told>>

(* Datasets.                                                                 *)
Row(upl, con, measured) ==
  [status |-> "active", upload |-> upl, conn |-> con, columns |-> upl,
   count |-> measured.count, profile |-> measured.profile, label |-> "none"]

\* convert_upload_to_parquet writes the object under the name of the dataset, before
\* there is a row; it fails if the raw file is gone.
Convert(r) ==
  LET c == req[r].call IN
  /\ At(r, "convert", "load")
  /\ IF upload[c.upload] # "whole" THEN Fail(r)
     ELSE /\ object' = [object EXCEPT ![c.name] = c.upload]
          /\ req' = [req EXCEPT ![r].at = "count"]
          /\ UNCHANGED <<upload, tables, effects, raced, told>>
\* The rows are counted in the object, not in the upload.
CountRows(r) ==
  /\ At(r, "count", "load")
  /\ req' = [req EXCEPT ![r].at = "profile", ![r].count = object[req[r].call.name]]
  /\ UNCHANGED <<upload, object, tables, effects, raced, told>>
ProfileParquet(r) ==
  /\ At(r, "profile", "load")
  /\ req' = [req EXCEPT ![r].at = "checked", ![r].profile = object[req[r].call.name]]
  /\ UNCHANGED <<upload, object, tables, effects, raced, told>>

NameTaken(n) == data[n] # Absent
CreateDataset(r) ==
  LET c == req[r].call IN
  /\ At(r, "checked", "load") \/ At(r, "checked", "link")
  /\ IF NameTaken(c.name) THEN Fail(r)
     ELSE /\ data' = [data EXCEPT ![c.name] =
               IF c.op = "load" THEN Row(c.upload, None, req[r])
               ELSE Row(None, c.conn, [count |-> None, profile |-> None])]
          /\ UNCHANGED <<conn, vault, kept, told>>
          /\ Done(r)

\* columns is a shallow copy: writing a label into its members changes the value
\* that was loaded as well, the new value equals it, and an update without a
\* difference is not sent.  The reply is made from the new value.
Written(loaded, new) == IF new = loaded THEN {} ELSE {new}
PatchColumns(r) ==
  LET c == req[r].call
      loaded == c.label
      new == c.label
  IN
  /\ At(r, "checked", "label")
  /\ data' = [data EXCEPT ![c.name].label = IF Written(loaded, new) = {} THEN @ ELSE new]
  /\ told' = [told EXCEPT ![c.name] = c.label]
  /\ UNCHANGED <<conn, vault, kept>>
  /\ Done(r)

Measure(r) ==
  /\ At(r, "measure", "reprofile")
  /\ req' = [req EXCEPT ![r].at = "checked", ![r].profile = object[req[r].call.name]]
  /\ UNCHANGED <<upload, object, tables, effects, raced, told>>
\* A profile brings the row count along.
RecomputeProfile(r) ==
  LET c == req[r].call IN
  /\ At(r, "checked", "reprofile")
  /\ data' = [data EXCEPT ![c.name].profile = req[r].profile, ![c.name].count = req[r].profile]
  /\ UNCHANGED <<conn, vault, kept, told>>
  /\ Done(r)

\* Recipes that use the dataset are not modelled here (FlowGraph has the check).
ArchiveDataset(r) ==
  /\ At(r, "checked", "archive")
  /\ data' = [data EXCEPT ![req[r].call.name].status = "archived"]
  /\ UNCHANGED <<conn, vault, kept, told>>
  /\ Done(r)

Next ==
  \/ \E u \in Uploads : PutRaw(u) \/ PutMeta(u) \/ PruneUpload(u)
  \/ \E r \in Requests :
       \/ \E c \in Calls : Receive(r, c)
       \/ CreateConnection(r) \/ PatchConnection(r) \/ ArchiveConnection(r) \/ TestConnection(r)
       \/ Convert(r) \/ CountRows(r) \/ ProfileParquet(r) \/ CreateDataset(r)
       \/ PatchColumns(r) \/ Measure(r) \/ RecomputeProfile(r) \/ ArchiveDataset(r)

Spec == Init /\ [][Next]_vars

-----------------------------------------------------------------------------
IsFile(n) == data[n].status # "absent" /\ data[n].upload # None

\* A dataset made from a file always has its data, whatever was pruned, refused or
\* lost a race before; and as long as no two requests were about its name at a time,
\* its columns, row count, profile and object are those of one and the same upload.
VersionIsItsUpload ==
  \A n \in Names : IsFile(n) =>
    /\ object[n] # None
    /\ n \notin raced =>
         {data[n].columns, data[n].count, data[n].profile, object[n]} = {data[n].upload}

\* "active dataset(s) still use this connection" (routers/connections.py:353): an
\* active dataset can be read through its connection, as long as no two requests
\* were about the connection at a time.
SourceStaysActive ==
  \A n \in Names : \A c \in Conns \ raced :
    data[n].status = "active" /\ data[n].conn = c => conn[c].status = "active"

\* "CP-1 tri-field labels on dataset AND columns" (docs/plans/phase-1.md:50): a label
\* that a PATCH has answered with is the one every later reader is given.
LabelsStick == \A n \in Names : IsActive(n) => data[n].label = told[n]
=============================================================================
