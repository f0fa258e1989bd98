------------------------------ MODULE Registry ------------------------------
(***************************************************************************)
(* Budgets and prompts as their editors see them (routers/llm_budgets.py): *)
(* one quota per scope and period that must keep a limit, and prompts of   *)
(* which every save is a version of its own.                               *)
(***************************************************************************)
EXTENDS Access, FiniteSets, Sequences

CONSTANTS
  Requests,     (* requests in progress, each of them used once              *)
  Editors,      (* [user |-> role] in the project                            *)
  Scopes,       (* a scope and a period                                      *)
  Names,        (* names of prompts                                          *)
  Values,       (* limits, and templates                                     *)
  IdemKeys

VARIABLES
  quota,        (* [scope |-> its row of quotas, or None]                    *)
  nextId,       (* ids are never used again                                  *)
  prompt,       (* [<<name, version>> |-> template]: the rows of prompts     *)
  kept, req, effects, stamp, raced,
  told          (* what callers who saved a prompt were told, as             *)
                (* <<name, version, template>>                               *)

tables == <<quota, nextId, prompt, kept>>
vars == <<tables, req, effects, stamp, raced, told>>

None == NoRole
Unset == "unset"
Idle == [at |-> "idle"]
Limits == Values \cup {None}
Users == DOMAIN Editors

HasLimit(row) == row.cost # None \/ row.calls # None

Init ==
  /\ \E l \in Limits, m \in Limits :
       /\ l # None \/ m # None
       /\ quota = [s \in Scopes |-> [id |-> 0, cost |-> l, calls |-> m]]
  /\ nextId = 1 /\ prompt = <<>> /\ told = {}
  /\ kept = <<>> /\ effects = <<>>
  /\ req = [r \in Requests |-> Idle] /\ stamp = 0 /\ raced = FALSE

Versions(name) == {i[2] : i \in {j \in DOMAIN prompt : j[1] = name}}
Latest(name) == IF Versions(name) = {} THEN 0
                ELSE CHOOSE v \in Versions(name) : \A w \in Versions(name) : w <= v

\* body.model_dump(exclude_unset=True): a limit that is set to null is cleared.
Changed(row, arg) ==
  [row EXCEPT !.cost = IF arg.cost = Unset THEN @ ELSE arg.cost,
              !.calls = IF arg.calls = Unset THEN @ ELSE arg.calls]

-----------------------------------------------------------------------------
Calls ==
  [op : {"create"}, user : Users, via : IdemKeys \cup {NoKey}, scope : Scopes,
   arg : [cost : Limits, calls : Limits]]
    \cup [op : {"patch"}, user : Users, via : {NoKey}, scope : Scopes,
          arg : [cost : Limits \cup {Unset}, calls : Limits \cup {Unset}]]
    \cup [op : {"delete"}, user : Users, via : {NoKey}, scope : Scopes]
    \cup [op : {"save"}, user : Users, via : {NoKey}, name : Names, arg : Values]

Admin(c) == HasRole(MembershipRole(c.user, Editors), "admin")
CreateAllowed(c) ==
  /\ c.op = "create" /\ HasLimit(c.arg) /\ Admin(c) /\ FreshKey(kept, c.user, c.via)
  /\ quota[c.scope] = None
PatchAllowed(c) ==
  /\ c.op = "patch" /\ Admin(c) /\ quota[c.scope] # None
  /\ HasLimit(Changed(quota[c.scope], c.arg))
DeleteAllowed(c) == c.op = "delete" /\ Admin(c) /\ quota[c.scope] # None
SaveAllowed(c) == c.op = "save" /\ HasRole(MembershipRole(c.user, Editors), "editor")

Allowed(c) == CreateAllowed(c) \/ PatchAllowed(c) \/ DeleteAllowed(c) \/ SaveAllowed(c)
Hash(c) == <<c.op, c.scope, c.arg>>

Receive(r, c) ==
  /\ req[r] = Idle
  /\ req' = [req EXCEPT ![r] =
       IF Allowed(c)
       THEN [at |-> "checked", call |-> c, stamp |-> stamp,
             read |-> IF c.op = "save" THEN Latest(c.name) ELSE quota[c.scope]]
       ELSE [at |-> "refused"]]
  /\ UNCHANGED <<tables, effects, stamp, raced, told>>

-----------------------------------------------------------------------------
Checked(r, op) == req[r].at = "checked" /\ req[r].call.op = op
Done(r) ==
  LET c == req[r].call IN
  /\ req' = [req EXCEPT ![r] = [at |-> "done"]]
  /\ effects' = CountEffect(effects, c.user, c.via)
  /\ stamp' = stamp + 1
  /\ raced' = (raced \/ req[r].stamp # stamp)
Fail(r) ==
  /\ req' = [req EXCEPT ![r] = [at |-> "failed"]]
  /\ UNCHANGED <<tables, effects, stamp, raced, told>>

CreateQuota(r) ==
  LET c == req[r].call IN
  /\ Checked(r, "create")
  /\ IF quota[c.scope] # None \/ KeyTaken(kept, c.user, c.via) THEN Fail(r)
     ELSE /\ quota' = [quota EXCEPT ![c.scope] =
               [id |-> nextId, cost |-> c.arg.cost, calls |-> c.arg.calls]]
          /\ nextId' = nextId + 1
          /\ kept' = Keep(kept, c.user, c.via, Hash(c), nextId)
          /\ UNCHANGED <<prompt, told>>
          /\ Done(r)

\* The columns that changed are written to the row with the id that was read.
UpdateQuota(r) ==
  LET c == req[r].call
      read == req[r].read
      new == Changed(read, c.arg)
      now == quota[c.scope]
      gone == now = None \/ now.id # read.id
  IN
  /\ Checked(r, "patch")
  /\ IF gone /\ new # read THEN Fail(r)
     ELSE /\ quota' = IF gone THEN quota ELSE [quota EXCEPT ![c.scope] = [now EXCEPT
               !.cost = IF new.cost = read.cost THEN now.cost ELSE new.cost,
               !.calls = IF new.calls = read.calls THEN now.calls ELSE new.calls]]
          /\ UNCHANGED <<nextId, prompt, kept, told>>
          /\ Done(r)

\* Deleting a row that is gone deletes nothing.
DeleteQuota(r) ==
  LET c == req[r].call IN
  /\ Checked(r, "delete")
  /\ quota' = [quota EXCEPT ![c.scope] =
       IF @ # None /\ @.id = req[r].read.id THEN None ELSE @]
  /\ UNCHANGED <<nextId, prompt, kept, told>>
  /\ Done(r)

\* One more than the latest version that was read.
NeverTaken(name, version) == FALSE
VersionTaken(name, version) == <<name, version>> \in DOMAIN prompt
UpsertPrompt(r) ==
  LET c == req[r].call
      version == req[r].read + 1
  IN
  /\ Checked(r, "save")
  /\ IF VersionTaken(c.name, version) THEN Fail(r)
     ELSE /\ prompt' = Put(prompt, <<c.name, version>>, c.arg)
          /\ told' = told \cup {<<c.name, version, c.arg>>}
          /\ UNCHANGED <<quota, nextId, kept>>
          /\ Done(r)

Next ==
  \E r \in Requests :
    \/ \E c \in Calls : Receive(r, c)
    \/ CreateQuota(r) \/ UpdateQuota(r) \/ DeleteQuota(r) \/ UpsertPrompt(r)

Spec == Init /\ [][Next]_vars

-----------------------------------------------------------------------------
\* "Prompts are append-only" (routers/llm_budgets.py:409): however saves overlap,
\* the versions of a prompt have no gap, and every save that was answered is
\* the version its caller was told, with the template it sent.
HistoryIsWhole ==
  /\ \A n \in Names : Versions(n) = 1..Cardinality(Versions(n))
  /\ told = {<<i[1], i[2], prompt[i]>> : i \in DOMAIN prompt}

\* "Keep at least one of limit_cost_micros or limit_calls": a budget enforces
\* something, as long as no handler has committed from stale reads.
LimitRemains ==
  ~raced => \A s \in Scopes : quota[s] # None => HasLimit(quota[s])
=============================================================================
