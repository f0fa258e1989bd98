------------------------------- MODULE Access -------------------------------
(***************************************************************************)
(* Decisions every request handler takes first: the role of a user in a    *)
(* project (permissions.py) and whether an Idempotency-Key was seen before *)
(* (idempotency.py).  No state of its own.                                 *)
(***************************************************************************)
EXTENDS Integers, Functions

CONSTANTS
  SiteAdmins,   (* users with virtual admin on every project                *)
  NoRole,       (* membership_role of a user who is not a member            *)
  NoKey         (* no Idempotency-Key header                                *)

RoleOrder == [viewer |-> 1, editor |-> 2, admin |-> 3]
Roles == DOMAIN RoleOrder

HasRole(actual, needed) == actual # NoRole /\ RoleOrder[actual] >= RoleOrder[needed]

\* roles: the rows of project_members for one project.
MembershipRole(user, roles) ==
  IF user \in SiteAdmins THEN "admin"
  ELSE IF user \in DOMAIN roles THEN roles[user] ELSE NoRole

\* load_project_context: existence and membership (404), then the role (403).
MayActAs(user, project, roles, needed) ==
  project.status # "absent" /\ HasRole(MembershipRole(user, roles), needed)

\* check_idempotency: kept is idempotency_keys, [<<user, key>> |-> [hash, reply]].
FreshKey(kept, user, key) == key = NoKey \/ <<user, key>> \notin DOMAIN kept
Replays(kept, user, key, hash) ==
  ~FreshKey(kept, user, key) /\ kept[<<user, key>>].hash = hash

\* A row more, or in place of the one with the same primary key.
Put(rows, i, row) == [j \in DOMAIN rows \cup {i} |-> IF j = i THEN row ELSE rows[j]]

\* store_idempotent_response: one row more, unless the primary key (user, key) of
\* the table is taken by then.
NoPrimaryKey(kept, user, key) == FALSE
KeyTaken(kept, user, key) == ~FreshKey(kept, user, key)
Keep(kept, user, key, hash, reply) ==
  IF key = NoKey THEN kept ELSE Put(kept, <<user, key>>, [hash |-> hash, reply |-> reply])

\* How often a request has taken effect under a key (for OneEffectPerKey).
CountEffect(effects, user, key) ==
  IF key = NoKey THEN effects
  ELSE Put(effects, <<user, key>>,
           IF <<user, key>> \in DOMAIN effects THEN effects[<<user, key>>] + 1 ELSE 1)

\* Each key that is kept stands for one effect, and each effect left its key.
OncePerKey(kept, effects) ==
  DOMAIN effects = DOMAIN kept /\ \A i \in DOMAIN effects : effects[i] = 1
=============================================================================
