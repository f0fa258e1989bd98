--------------------------- MODULE HandlerProofs ---------------------------
(***************************************************************************)
(* What the request handlers promise for every number of overlapping       *)
(* requests, and all users, names and values.  Each router is looked at by *)
(* itself, with the table of idempotency keys and the requests they all    *)
(* have; the last section puts them together.                              *)
(***************************************************************************)
EXTENDS ApiHandlers, FiniteSets, FiniteSetTheorems, SequenceTheorems, WellFoundedInduction, TLAPS

(***************************************************************************)
(* Idempotency keys.                                                       *)
(***************************************************************************)

LEMMA EffectKeepsKey ==
  ASSUME NEW rows, NEW done, OncePerKey(rows, done), NEW user, NEW key, NEW hash, NEW reply,
         ~KeyTaken(rows, user, key)
  PROVE  OncePerKey(Keep(rows, user, key, hash, reply), CountEffect(done, user, key))
BY DEF OncePerKey, KeyTaken, FreshKey, Keep, CountEffect, Put

LEMMA NoKeyNoEffect ==
  ASSUME NEW rows, NEW done, OncePerKey(rows, done), NEW user
  PROVE  OncePerKey(rows, CountEffect(done, user, NoKey))
BY DEF OncePerKey, CountEffect

LEMMA NoneKept == OncePerKey(<<>>, <<>>)
BY DEF OncePerKey

\* A commit with a key that was not taken, or with none.
LEMMA CommitKeepsKeys ==
  ASSUME OneEffectPerKey, NEW user, NEW key, effects' = CountEffect(effects, user, key),
         \/ key = NoKey /\ kept' = kept
         \/ /\ ~KeyTaken(kept, user, key)
            /\ \E hash, reply : kept' = Keep(kept, user, key, hash, reply)
  PROVE  OneEffectPerKey'
<1>1. CASE key = NoKey /\ kept' = kept
  BY <1>1, NoKeyNoEffect DEF OneEffectPerKey
<1>2. ASSUME ~KeyTaken(kept, user, key), NEW hash, NEW reply,
             kept' = Keep(kept, user, key, hash, reply)
      PROVE  OneEffectPerKey'
  BY <1>2, EffectKeepsKey DEF OneEffectPerKey
<1> QED
  BY <1>1, <1>2

LEMMA NothingCommitted ==
  ASSUME OneEffectPerKey, kept' = kept, effects' = effects
  PROVE  OneEffectPerKey'
BY DEF OneEffectPerKey

\* A request goes on and the others stay where they are.
Table == req = [r \in Requests |-> req[r]]
LEMMA OneRequest ==
  ASSUME Table, NEW r \in Requests, NEW new, req' = [req EXCEPT ![r] = new]
  PROVE  Table' /\ req'[r] = new /\ \A q \in Requests : q # r => req'[q] = req[q]
BY DEF Table

(***************************************************************************)
(* Budgets and prompts.                                                    *)
(***************************************************************************)

RegistryCalls ==
  /\ Table
  /\ \A r \in Requests : req[r].at = "checked" => req[r].call \in R!Calls

\* The words of Registry are those of this module.
LEMMA RegistryKeys ==
  /\ \A u, k, h, v : R!Keep(kept, u, k, h, v) = Keep(kept, u, k, h, v)
  /\ \A u, k : R!KeyTaken(kept, u, k) = KeyTaken(kept, u, k)
  /\ \A u, k : R!CountEffect(effects, u, k) = CountEffect(effects, u, k)
<1>1. \A u, k, h, v : R!Keep(kept, u, k, h, v) = Keep(kept, u, k, h, v)
  BY Zenon DEF R!Keep, R!Put, Keep, Put
<1>2. \A u, k : R!KeyTaken(kept, u, k) = KeyTaken(kept, u, k)
  BY DEF R!KeyTaken, R!FreshKey, KeyTaken, FreshKey
<1>3. \A u, k : R!CountEffect(effects, u, k) = CountEffect(effects, u, k)
  BY Zenon DEF R!CountEffect, R!Put, CountEffect, Put
<1> QED
  BY <1>1, <1>2, <1>3

LEMMA RegistryReceives ==
  ASSUME RegistryCalls, NEW r \in Requests, NEW c \in R!Calls, R!Receive(r, c)
  PROVE  /\ RegistryCalls' /\ UNCHANGED <<kept, effects, prompt, told>>
         /\ \A q \in Requests : q # r => req'[q] = req[q]
         /\ req'[r].at = "checked" =>
              /\ req'[r].call = c
              /\ c.op = "save" => req'[r].read = R!Latest(c.name)
<1> DEFINE new == IF R!Allowed(c)
                  THEN [at |-> "checked", call |-> c, stamp |-> stamp,
                        read |-> IF c.op = "save" THEN R!Latest(c.name) ELSE quota[c.scope]]
                  ELSE [at |-> "refused"]
<1>1. req' = [req EXCEPT ![r] = new] /\ UNCHANGED <<kept, effects, prompt, told>>
  BY DEF R!Receive, R!tables
<1>2. /\ new.at = "checked" => new.call = c
      /\ new.at = "checked" /\ c.op = "save" => new.read = R!Latest(c.name)
  OBVIOUS
<1> HIDE DEF new
<1>3. Table' /\ req'[r] = new /\ \A q \in Requests : q # r => req'[q] = req[q]
  BY <1>1, OneRequest DEF RegistryCalls
<1>4. RegistryCalls'
  BY <1>2, <1>3 DEF RegistryCalls
<1> QED
  BY <1>1, <1>2, <1>3, <1>4

RegistryWrites(r) ==
  R!CreateQuota(r) \/ R!UpdateQuota(r) \/ R!DeleteQuota(r) \/ R!UpsertPrompt(r)

\* A handler ends: its transaction fails and leaves everything as it was, or it
\* commits, and only a creation has a key.
LEMMA RegistryEnds ==
  ASSUME RegistryCalls, NEW r \in Requests, RegistryWrites(r)
  PROVE  /\ RegistryCalls'
         /\ \A q \in Requests : q # r => req'[q] = req[q]
         /\ req'[r].at \in {"failed", "done"}
         /\ \/ UNCHANGED <<kept, effects, prompt, told>>
            \/ /\ effects' = CountEffect(effects, req[r].call.user, req[r].call.via)
               /\ \/ req[r].call.via = NoKey /\ kept' = kept
                  \/ /\ ~KeyTaken(kept, req[r].call.user, req[r].call.via)
                     /\ \E hash, reply :
                          kept' = Keep(kept, req[r].call.user, req[r].call.via, hash, reply)
<1> DEFINE c == req[r].call
<1>1. req' = [req EXCEPT ![r] = [at |-> "failed"]] \/ req' = [req EXCEPT ![r] = [at |-> "done"]]
  BY DEF RegistryWrites, R!CreateQuota, R!UpdateQuota, R!DeleteQuota, R!UpsertPrompt,
         R!Fail, R!Done
<1>2. /\ Table' /\ req'[r].at \in {"failed", "done"}
      /\ \A q \in Requests : q # r => req'[q] = req[q]
  <2>1. PICK outcome \in {"failed", "done"} : req' = [req EXCEPT ![r] = [at |-> outcome]]
    BY <1>1
  <2> DEFINE new == [at |-> outcome]
  <2>2. new.at = outcome /\ req' = [req EXCEPT ![r] = new]
    BY <2>1
  <2> HIDE DEF new
  <2>3. Table' /\ req'[r] = new /\ \A q \in Requests : q # r => req'[q] = req[q]
    BY <2>2, OneRequest DEF RegistryCalls
  <2> QED
    BY <2>2, <2>3
<1>3. RegistryCalls'
  BY <1>2 DEF RegistryCalls
<1>4. c \in R!Calls
  BY DEF RegistryCalls, RegistryWrites, R!CreateQuota, R!UpdateQuota, R!DeleteQuota,
         R!UpsertPrompt, R!Checked
<1>5. \/ UNCHANGED <<kept, effects, prompt, told>>
      \/ /\ effects' = CountEffect(effects, c.user, c.via)
         /\ \/ c.via = NoKey /\ kept' = kept
            \/ /\ ~KeyTaken(kept, c.user, c.via)
               /\ \E hash, reply : kept' = Keep(kept, c.user, c.via, hash, reply)
  <2>1. c.op # "create" => c.via = NoKey
    BY <1>4 DEF R!Calls
  <2>2. CASE R!CreateQuota(r)
    <3>1. R!Fail(r) \/ (/\ ~R!KeyTaken(kept, c.user, c.via)
                        /\ kept' = R!Keep(kept, c.user, c.via, R!Hash(c), nextId)
                        /\ R!Done(r))
      BY <2>2 DEF R!CreateQuota
    <3>2. CASE R!Fail(r)
      BY <3>2 DEF R!Fail, R!tables
    <3>3. CASE /\ ~R!KeyTaken(kept, c.user, c.via)
               /\ kept' = R!Keep(kept, c.user, c.via, R!Hash(c), nextId)
               /\ R!Done(r)
      <4>1. effects' = R!CountEffect(effects, c.user, c.via)
        BY <3>3 DEF R!Done
      <4> HIDE DEF c
      <4> QED
        BY <3>3, <4>1, RegistryKeys
    <3> QED
      BY <3>1, <3>2, <3>3
  <2>3. CASE R!UpdateQuota(r)
    <3>1. R!Fail(r) \/ (kept' = kept /\ R!Done(r) /\ c.op = "patch")
      BY <2>3 DEF R!UpdateQuota, R!Checked
    <3>2. CASE R!Fail(r)
      BY <3>2 DEF R!Fail, R!tables
    <3>3. CASE kept' = kept /\ R!Done(r) /\ c.op = "patch"
      BY <2>1, <3>3, RegistryKeys DEF R!Done
    <3> QED
      BY <3>1, <3>2, <3>3
  <2>4. CASE R!DeleteQuota(r)
    BY <2>1, <2>4, RegistryKeys DEF R!DeleteQuota, R!Checked, R!Done
  <2>5. CASE R!UpsertPrompt(r)
    <3>1. R!Fail(r) \/ (kept' = kept /\ R!Done(r) /\ c.op = "save")
      BY <2>5 DEF R!UpsertPrompt, R!Checked
    <3>2. CASE R!Fail(r)
      BY <3>2 DEF R!Fail, R!tables
    <3>3. CASE kept' = kept /\ R!Done(r) /\ c.op = "save"
      BY <2>1, <3>3, RegistryKeys DEF R!Done
    <3> QED
      BY <3>1, <3>2, <3>3
  <2> QED
    BY <2>2, <2>3, <2>4, <2>5 DEF RegistryWrites
<1> QED
  BY <1>2, <1>3, <1>5

LEMMA RegistryStart == R!Init => RegistryCalls /\ OneEffectPerKey
BY NoneKept DEF R!Init, R!Idle, RegistryCalls, Table, OneEffectPerKey

LEMMA RegistryStep ==
  RegistryCalls /\ OneEffectPerKey /\ [R!Next]_R!vars => RegistryCalls' /\ OneEffectPerKey'
<1> SUFFICES ASSUME RegistryCalls, OneEffectPerKey, [R!Next]_R!vars
             PROVE  RegistryCalls' /\ OneEffectPerKey'
  OBVIOUS
<1>1. ASSUME NEW r \in Requests, NEW c \in R!Calls, R!Receive(r, c)
      PROVE  RegistryCalls' /\ OneEffectPerKey'
  BY <1>1, RegistryReceives, NothingCommitted
<1>2. ASSUME NEW r \in Requests, RegistryWrites(r)
      PROVE  RegistryCalls' /\ OneEffectPerKey'
  BY <1>2, RegistryEnds, NothingCommitted, CommitKeepsKeys
<1>3. CASE UNCHANGED R!vars
  BY <1>3, NothingCommitted DEF R!vars, R!tables, RegistryCalls, Table
<1> QED
  BY <1>1, <1>2, <1>3 DEF R!Next, RegistryWrites

(***************************************************************************)
(* The history of a prompt has no gap because a save writes the version    *)
(* after one that it has read, and rows of prompts are never deleted: that *)
(* version is either there by now or the next one.                         *)
(***************************************************************************)
Rows == DOMAIN prompt \subseteq Names \X (Nat \ {0})
NoGap == \A n \in Names : \E k \in Nat : R!Versions(n) = 1..k
AllTold == told = {<<i[1], i[2], prompt[i]>> : i \in DOMAIN prompt}
ReadsAVersion ==
  \A r \in Requests : req[r].at = "checked" /\ req[r].call.op = "save" =>
    req[r].read = 0 \/ req[r].read \in R!Versions(req[r].call.name)
HistoryInv == RegistryCalls /\ Rows /\ NoGap /\ AllTold /\ ReadsAVersion

LEMMA VersionIsRow ==
  ASSUME Rows, NEW n, NEW v
  PROVE  v \in R!Versions(n) <=> <<n, v>> \in DOMAIN prompt
<1>1. \A i \in DOMAIN prompt : i = <<i[1], i[2]>>
  BY DEF Rows
<1> QED
  BY <1>1 DEF R!Versions

LEMMA LatestIsAVersion ==
  ASSUME NoGap, NEW n \in Names
  PROVE  R!Latest(n) = 0 \/ R!Latest(n) \in R!Versions(n)
<1>1. PICK k \in Nat : R!Versions(n) = 1..k
  BY DEF NoGap
<1>2. CASE R!Versions(n) = {}
  BY <1>2 DEF R!Latest
<1>3. CASE R!Versions(n) # {}
  <2>1. k \in R!Versions(n) /\ \A w \in R!Versions(n) : w <= k
    BY <1>1, <1>3
  <2> QED
    BY <1>3, <2>1 DEF R!Latest
<1> QED
  BY <1>2, <1>3

\* A step that leaves the prompts and what was told alone.
LEMMA HistoryStays ==
  ASSUME Rows, NoGap, AllTold, UNCHANGED <<prompt, told>>
  PROVE  Rows' /\ NoGap' /\ AllTold' /\ \A n : R!Versions(n)' = R!Versions(n)
BY DEF Rows, NoGap, AllTold, R!Versions

LEMMA HistoryReceives ==
  ASSUME HistoryInv, NEW r \in Requests, NEW c \in R!Calls, R!Receive(r, c)
  PROVE  HistoryInv'
<1>1. /\ RegistryCalls' /\ UNCHANGED <<prompt, told>>
      /\ \A q \in Requests : q # r => req'[q] = req[q]
      /\ req'[r].at = "checked" =>
           /\ req'[r].call = c
           /\ c.op = "save" => req'[r].read = R!Latest(c.name)
  BY RegistryReceives DEF HistoryInv
<1>2. Rows' /\ NoGap' /\ AllTold' /\ \A n : R!Versions(n)' = R!Versions(n)
  BY <1>1, HistoryStays DEF HistoryInv
<1>3. c.op = "save" => R!Latest(c.name) = 0 \/ R!Latest(c.name) \in R!Versions(c.name)
  <2>1. c.op = "save" => c.name \in Names
    BY DEF R!Calls
  <2> QED
    BY <2>1, LatestIsAVersion DEF HistoryInv
<1>4. ReadsAVersion'
  <2> SUFFICES ASSUME NEW q \in Requests, req'[q].at = "checked", req'[q].call.op = "save"
               PROVE  \/ req'[q].read = 0
                      \/ req'[q].read \in R!Versions(req[q].call.name)'
    BY DEF ReadsAVersion
  <2>1. CASE q = r
    BY <1>1, <1>2, <1>3, <2>1
  <2>2. CASE q # r
    BY <1>1, <1>2, <2>2 DEF HistoryInv, ReadsAVersion
  <2> QED
    BY <2>1, <2>2
<1> QED
  BY <1>1, <1>2, <1>4 DEF HistoryInv

\* A budget is written, or nothing is.
LEMMA HistoryUntouched ==
  ASSUME HistoryInv, NEW r \in Requests, RegistryWrites(r), UNCHANGED <<prompt, told>>
  PROVE  HistoryInv'
<1>1. /\ RegistryCalls'
      /\ \A q \in Requests : q # r => req'[q] = req[q]
      /\ req'[r].at \in {"failed", "done"}
  BY RegistryEnds DEF HistoryInv
<1>2. Rows' /\ NoGap' /\ AllTold' /\ \A n : R!Versions(n)' = R!Versions(n)
  BY HistoryStays DEF HistoryInv
<1>3. ReadsAVersion'
  BY <1>1, <1>2 DEF HistoryInv, ReadsAVersion
<1> QED
  BY <1>1, <1>2, <1>3 DEF HistoryInv

LEMMA SaveIsTheNextVersion ==
  ASSUME HistoryInv, NEW r \in Requests, R!UpsertPrompt(r), ~R!Fail(r)
  PROVE  HistoryInv'
<1> DEFINE c == req[r].call
<1> PICK name, new : name = c.name /\ new = req[r].read + 1
  OBVIOUS
<1> DEFINE row == <<name, new>>
<1>1. /\ row \notin DOMAIN prompt
      /\ prompt' = R!Put(prompt, row, c.arg)
      /\ told' = told \cup {<<name, new, c.arg>>}
  BY DEF R!UpsertPrompt, R!VersionTaken
<1>2. c \in R!Calls /\ c.op = "save"
  BY DEF R!UpsertPrompt, R!Checked, HistoryInv, RegistryCalls
<1>3. name \in Names
  BY <1>2 DEF R!Calls
<1>4. PICK k \in Nat : R!Versions(name) = 1..k
  BY <1>3 DEF HistoryInv, NoGap
<1>5. req[r].read = 0 \/ req[r].read \in 1..k
  BY <1>2, <1>4 DEF HistoryInv, ReadsAVersion, R!UpsertPrompt, R!Checked
<1>6. new \notin R!Versions(name)
  BY <1>1, VersionIsRow DEF HistoryInv
<1>7. new = k + 1
  BY <1>4, <1>5, <1>6
<1>8. /\ DOMAIN prompt' = DOMAIN prompt \cup {row}
      /\ prompt'[row] = c.arg
      /\ \A i \in DOMAIN prompt : prompt'[i] = prompt[i]
  <2> HIDE DEF row, c
  <2> QED
    BY <1>1 DEF R!Put
<1>9. Rows'
  BY <1>3, <1>7, <1>8 DEF HistoryInv, Rows
<1>10. \A n : R!Versions(n)' = IF n = name THEN 1..(k + 1) ELSE R!Versions(n)
  <2>1. \A n, v : v \in R!Versions(n)' <=> <<n, v>> \in DOMAIN prompt'
    <3>1. \A i \in DOMAIN prompt' : i = <<i[1], i[2]>>
      BY <1>9 DEF Rows
    <3> QED
      BY <3>1 DEF R!Versions
  <2>2. \A n, v : v \in R!Versions(n)' <=> v \in R!Versions(n) \/ (n = name /\ v = k + 1)
    BY <1>7, <1>8, <2>1, VersionIsRow DEF HistoryInv
  <2> DEFINE Then(n) == {i[2] : i \in {j \in DOMAIN prompt' : j[1] = n}}
  <2>3. \A n : R!Versions(n)' = Then(n)
    BY DEF R!Versions
  <2> SUFFICES ASSUME NEW n
               PROVE  Then(n) = IF n = name THEN 1..(k + 1) ELSE R!Versions(n)
    BY <2>3
  <2>4. \A v : v \in Then(n) <=> v \in R!Versions(n) \/ (n = name /\ v = k + 1)
    BY <2>2, <2>3
  <2> HIDE DEF Then
  <2>5. CASE n = name
    <3>1. \A v : v \in Then(n) <=> v \in 1..k \/ v = k + 1
      BY <1>4, <2>4, <2>5
    <3>2. \A v : v \in Then(n) <=> v \in 1..(k + 1)
      BY <3>1
    <3>3. Then(n) = 1..(k + 1)
      BY <3>2, SetExtensionality
    <3> QED
      BY <2>5, <3>3
  <2>6. CASE n # name
    BY <2>4, <2>6
  <2> QED
    BY <2>5, <2>6
<1>11. NoGap'
  BY <1>10 DEF HistoryInv, NoGap
<1>12. AllTold'
  <2>1. told' = {<<i[1], i[2], prompt[i]>> : i \in DOMAIN prompt} \cup {<<name, new, c.arg>>}
    BY <1>1 DEF HistoryInv, AllTold
  <2>2. {<<i[1], i[2], prompt'[i]>> : i \in DOMAIN prompt'}
          = {<<i[1], i[2], prompt[i]>> : i \in DOMAIN prompt} \cup {<<name, new, c.arg>>}
    <3>1. row[1] = name /\ row[2] = new
      OBVIOUS
    <3> HIDE DEF row, c
    <3> QED
      BY <1>8, <3>1
  <2> QED
    BY <2>1, <2>2 DEF AllTold
<1>13. /\ RegistryCalls'
       /\ \A q \in Requests : q # r => req'[q] = req[q]
       /\ req'[r].at \in {"failed", "done"}
  BY RegistryEnds DEF HistoryInv, RegistryWrites
<1>14. ReadsAVersion'
  <2> SUFFICES ASSUME NEW q \in Requests, req'[q].at = "checked", req'[q].call.op = "save"
               PROVE  \/ req'[q].read = 0
                      \/ req'[q].read \in R!Versions(req[q].call.name)'
    BY DEF ReadsAVersion
  <2>1. q # r /\ req'[q] = req[q]
    BY <1>13
  <2>2. req[q].read = 0 \/ req[q].read \in R!Versions(req[q].call.name)
    BY <2>1 DEF HistoryInv, ReadsAVersion
  <2>3. R!Versions(name) \subseteq R!Versions(name)'
    BY <1>4, <1>10
  <2> QED
    BY <1>10, <2>1, <2>2, <2>3
<1> QED
  BY <1>9, <1>11, <1>12, <1>13, <1>14 DEF HistoryInv

LEMMA HistoryStep == HistoryInv /\ [R!Next]_R!vars => HistoryInv'
<1> SUFFICES ASSUME HistoryInv, [R!Next]_R!vars
             PROVE  HistoryInv'
  OBVIOUS
<1>1. ASSUME NEW r \in Requests, NEW c \in R!Calls, R!Receive(r, c)
      PROVE  HistoryInv'
  BY <1>1, HistoryReceives
<1>2. ASSUME NEW r \in Requests, R!CreateQuota(r) \/ R!UpdateQuota(r) \/ R!DeleteQuota(r)
      PROVE  HistoryInv'
  <2>1. UNCHANGED <<prompt, told>>
    BY <1>2 DEF R!CreateQuota, R!UpdateQuota, R!DeleteQuota, R!Fail, R!tables
  <2> QED
    BY <1>2, <2>1, HistoryUntouched DEF RegistryWrites
<1>3. ASSUME NEW r \in Requests, R!UpsertPrompt(r)
      PROVE  HistoryInv'
  <2>1. CASE R!Fail(r)
    BY <1>3, <2>1, HistoryUntouched DEF RegistryWrites, R!Fail, R!tables
  <2> QED
    BY <1>3, <2>1, SaveIsTheNextVersion
<1>4. CASE UNCHANGED R!vars
  <2>1. UNCHANGED <<prompt, told, req>>
    BY <1>4 DEF R!vars, R!tables
  <2>2. Rows' /\ NoGap' /\ AllTold' /\ \A n : R!Versions(n)' = R!Versions(n)
    BY <2>1, HistoryStays DEF HistoryInv
  <2> QED
    BY <2>1, <2>2 DEF HistoryInv, RegistryCalls, Table, ReadsAVersion
<1> QED
  BY <1>1, <1>2, <1>3, <1>4 DEF R!Next

LEMMA HistoryStart == R!Init => HistoryInv
<1> SUFFICES ASSUME R!Init
             PROVE  HistoryInv
  OBVIOUS
<1>1. prompt = <<>> /\ told = {} /\ DOMAIN prompt = {}
  BY DEF R!Init
<1>2. \A n : R!Versions(n) = 1..0
  BY <1>1 DEF R!Versions
<1>3. RegistryCalls /\ ReadsAVersion
  BY RegistryStart DEF R!Init, R!Idle, ReadsAVersion
<1>4. Rows /\ AllTold
  BY <1>1 DEF Rows, AllTold
<1>5. NoGap
  BY <1>2 DEF NoGap
<1> QED
  BY <1>3, <1>4, <1>5 DEF HistoryInv

LEMMA WholeHistory == HistoryInv => R!HistoryIsWhole
<1> SUFFICES ASSUME HistoryInv, NEW n \in Names
             PROVE  R!Versions(n) = 1..R!Cardinality(R!Versions(n))
  BY DEF HistoryInv, AllTold, R!HistoryIsWhole
<1>1. PICK k \in Nat : R!Versions(n) = 1..k
  BY DEF HistoryInv, NoGap
<1>2. Cardinality(1..k) = k
  BY FS_Interval
<1>3. R!Cardinality(1..k) = Cardinality(1..k)
  BY Zenon DEF R!Cardinality, Cardinality
<1> QED
  BY <1>1, <1>2, <1>3

(***************************************************************************)
(* Budgets keep a limit.                                                   *)
(***************************************************************************)

IsQuota(row) == row # None => row = [id |-> row.id, cost |-> row.cost, calls |-> row.calls]

\* What a handler that nobody has overtaken has checked.
LimitChecked(q) ==
  /\ q.call.op # "save" => q.read = quota[q.call.scope]
  /\ q.call.op = "create" => R!HasLimit(q.call.arg)
  /\ q.call.op = "patch" => /\ quota[q.call.scope] # None
                            /\ R!HasLimit(R!Changed(quota[q.call.scope], q.call.arg))

LimitInv ==
  /\ stamp \in Nat /\ raced \in BOOLEAN
  /\ quota = [s \in QuotaScopes |-> quota[s]] /\ \A s \in QuotaScopes : IsQuota(quota[s])
  /\ \A r \in Requests : req[r].at = "checked" =>
       /\ req[r].stamp \in 0..stamp
       /\ req[r].stamp = stamp => LimitChecked(req[r])
  /\ R!LimitRemains

LEMMA LimitStart == R!Init => LimitInv
<1> SUFFICES ASSUME R!Init
             PROVE  LimitInv
  OBVIOUS
<1>1. PICK l \in R!Limits, m \in R!Limits :
         /\ l # None \/ m # None
         /\ quota = [s \in QuotaScopes |-> [id |-> 0, cost |-> l, calls |-> m]]
  BY DEF R!Init, R!None, None
<1>2. R!LimitRemains /\ \A s \in QuotaScopes : IsQuota(quota[s])
  BY <1>1 DEF R!LimitRemains, R!HasLimit, R!None, None, IsQuota
<1>3. \A r \in Requests : req[r].at = "idle"
  BY DEF R!Init, R!Idle
<1> QED
  BY <1>1, <1>2, <1>3 DEF R!Init, LimitInv

LEMMA LimitReceives ==
  ASSUME RegistryCalls, LimitInv, NEW r \in Requests, NEW c \in R!Calls, R!Receive(r, c)
  PROVE  LimitInv'
<1> DEFINE new == IF R!Allowed(c)
                  THEN [at |-> "checked", call |-> c, stamp |-> stamp,
                        read |-> IF c.op = "save" THEN R!Latest(c.name) ELSE quota[c.scope]]
                  ELSE [at |-> "refused"]
<1>1. req' = [req EXCEPT ![r] = new] /\ UNCHANGED <<quota, stamp, raced>>
  BY DEF R!Receive, R!tables
<1>2. new.at = "checked" => new.stamp = stamp /\ LimitChecked(new)
  <2> SUFFICES ASSUME R!Allowed(c)
               PROVE  new.stamp = stamp /\ LimitChecked(new)
    OBVIOUS
  <2>1. new.stamp = stamp /\ new.call = c /\ (c.op # "save" => new.read = quota[c.scope])
    OBVIOUS
  <2>2. c.op = "create" => R!HasLimit(c.arg)
    BY DEF R!Allowed, R!CreateAllowed, R!PatchAllowed, R!DeleteAllowed, R!SaveAllowed
  <2>3. c.op = "patch" => quota[c.scope] # None /\ R!HasLimit(R!Changed(quota[c.scope], c.arg))
    BY DEF R!Allowed, R!CreateAllowed, R!PatchAllowed, R!DeleteAllowed, R!SaveAllowed, R!None, None
  <2> HIDE DEF new
  <2> QED
    BY <2>1, <2>2, <2>3 DEF LimitChecked
<1> HIDE DEF new
<1>3. req'[r] = new /\ \A q \in Requests : q # r => req'[q] = req[q]
  BY <1>1, OneRequest DEF RegistryCalls
<1>4. ASSUME NEW q \in Requests, req'[q].at = "checked"
      PROVE  (req[q].stamp \in 0..stamp /\ (req[q].stamp = stamp => LimitChecked(req[q])))'
  <2>1. CASE q = r
    <3>1. stamp \in 0..stamp
      BY DEF LimitInv
    <3> QED
      BY <1>1, <1>2, <1>3, <1>4, <2>1, <3>1 DEF LimitChecked
  <2>2. CASE q # r
    BY <1>1, <1>3, <1>4, <2>2 DEF LimitInv, LimitChecked
  <2> QED
    BY <2>1, <2>2
<1>5. R!LimitRemains'
  BY <1>1 DEF LimitInv, R!LimitRemains
<1> QED
  BY <1>1, <1>4, <1>5 DEF LimitInv, IsQuota

\* A transaction that commits overtakes all others; one that fails changes nothing.
LEMMA LimitEnds ==
  ASSUME RegistryCalls, LimitInv, NEW r \in Requests, RegistryWrites(r),
         R!Fail(r) \/ /\ R!Done(r)
                      /\ quota' = [s \in QuotaScopes |-> quota'[s]]
                      /\ \A s \in QuotaScopes : IsQuota(quota'[s])
                      /\ ~raced' => \A s \in QuotaScopes : quota'[s] # None => R!HasLimit(quota'[s])
  PROVE  LimitInv'
<1>1. /\ \A q \in Requests : q # r => req'[q] = req[q]
      /\ req'[r].at \in {"failed", "done"}
  BY RegistryEnds
<1>2. CASE R!Fail(r)
  <2>1. UNCHANGED <<quota, stamp, raced>>
    BY <1>2 DEF R!Fail, R!tables
  <2>2. \A q \in Requests : req'[q].at = "checked" => req'[q] = req[q]
    BY <1>1
  <2>3. R!LimitRemains'
    BY <2>1 DEF LimitInv, R!LimitRemains
  <2> QED
    BY <2>1, <2>2, <2>3 DEF LimitInv, IsQuota, LimitChecked
<1>3. CASE ~R!Fail(r)
  <2>1. stamp' = stamp + 1 /\ raced' \in BOOLEAN
    BY <1>3 DEF R!Done
  <2>2. \A q \in Requests : req'[q].at = "checked" => req'[q].stamp \in 0..stamp
    BY <1>1 DEF LimitInv
  <2>3. stamp \in Nat
    BY DEF LimitInv
  <2>4. stamp' \in Nat /\ \A x \in 0..stamp : x \in 0..stamp' /\ x # stamp'
    BY <2>1, <2>3
  <2>5. R!LimitRemains'
    BY <1>3 DEF R!LimitRemains, R!None, None
  <2> QED
    BY <1>3, <2>1, <2>2, <2>4, <2>5 DEF LimitInv, IsQuota
<1> QED
  BY <1>2, <1>3

\* A commit that leaves the race unlost was not overtaken.
LEMMA LimitFresh ==
  ASSUME LimitInv, NEW r \in Requests, R!Done(r), req[r].at = "checked", ~raced'
  PROVE  LimitChecked(req[r]) /\ \A s \in QuotaScopes : quota[s] # None => R!HasLimit(quota[s])
<1>1. ~raced /\ req[r].stamp = stamp
  BY DEF R!Done
<1> QED
  BY <1>1 DEF LimitInv, R!LimitRemains, R!None, None

LEMMA LimitWrites ==
  ASSUME RegistryCalls, LimitInv, NEW r \in Requests, RegistryWrites(r)
  PROVE  LimitInv'
<1>1. PICK c : c = req[r].call
  OBVIOUS
<1>2. req[r].at = "checked" /\ c \in R!Calls
  BY <1>1 DEF RegistryWrites, R!CreateQuota, R!UpdateQuota, R!DeleteQuota, R!UpsertPrompt, R!Checked,
              RegistryCalls
<1>3. c.op \in {"create", "patch", "delete"} => c.scope \in QuotaScopes
  BY <1>2 DEF R!Calls
<1>4. CASE R!Fail(r)
  BY <1>4, LimitEnds
<1> SUFFICES ASSUME ~R!Fail(r)
             PROVE  /\ R!Done(r)
                    /\ quota' = [s \in QuotaScopes |-> quota'[s]]
                    /\ \A s \in QuotaScopes : IsQuota(quota'[s])
                    /\ ~raced' => \A s \in QuotaScopes : quota'[s] # None => R!HasLimit(quota'[s])
  BY <1>4, LimitEnds
<1>5. quota = [s \in QuotaScopes |-> quota[s]] /\ \A s \in QuotaScopes : IsQuota(quota[s])
  BY DEF LimitInv
<1>6. ASSUME R!Done(r), c.scope \in QuotaScopes, NEW row, IsQuota(row),
             quota' = [quota EXCEPT ![c.scope] = row],
             LimitChecked(req[r]) /\ (quota[c.scope] # None => R!HasLimit(quota[c.scope]))
               => (row # None => R!HasLimit(row))
      PROVE  /\ quota' = [s \in QuotaScopes |-> quota'[s]]
             /\ \A s \in QuotaScopes : IsQuota(quota'[s])
             /\ ~raced' => \A s \in QuotaScopes : quota'[s] # None => R!HasLimit(quota'[s])
  <2>1. quota' = [s \in QuotaScopes |-> quota'[s]] /\ quota'[c.scope] = row
        /\ \A s \in QuotaScopes : s # c.scope => quota'[s] = quota[s]
    BY <1>5, <1>6
  <2>2. \A s \in QuotaScopes : IsQuota(quota'[s])
    BY <1>5, <1>6, <2>1
  <2>3. ASSUME ~raced', NEW s \in QuotaScopes, quota'[s] # None
        PROVE  R!HasLimit(quota'[s])
    BY <1>2, <1>6, <2>1, <2>3, LimitFresh
  <2> QED
    BY <2>1, <2>2, <2>3
<1>7. CASE R!CreateQuota(r)
  <2>1. PICK row : row = [id |-> nextId, cost |-> c.arg.cost, calls |-> c.arg.calls]
    OBVIOUS
  <2>2. R!Done(r) /\ c.op = "create" /\ quota' = [quota EXCEPT ![c.scope] = row]
    BY <1>1, <1>7, <2>1 DEF R!CreateQuota, R!Checked
  <2>3. IsQuota(row)
    BY <2>1 DEF IsQuota
  <2>4. LimitChecked(req[r]) => R!HasLimit(row)
    BY <1>1, <2>1, <2>2 DEF LimitChecked, R!HasLimit
  <2> QED
    BY <1>3, <1>6, <2>2, <2>3, <2>4
<1>8. CASE R!UpdateQuota(r)
  <2>1. PICK read, new, now : read = req[r].read /\ new = R!Changed(read, c.arg) /\ now = quota[c.scope]
    OBVIOUS
  <2>2. PICK row : row = [now EXCEPT
               !.cost = IF new.cost = read.cost THEN now.cost ELSE new.cost,
               !.calls = IF new.calls = read.calls THEN now.calls ELSE new.calls]
    OBVIOUS
  <2>3. /\ R!Done(r) /\ c.op = "patch"
        /\ quota' = IF now = None \/ now.id # read.id THEN quota ELSE [quota EXCEPT ![c.scope] = row]
    BY <1>1, <1>8, <2>1, <2>2 DEF R!UpdateQuota, R!Checked, R!None, None
  <2>4. IsQuota(now) /\ c.scope \in QuotaScopes
    BY <1>3, <1>5, <2>1, <2>3
  <2>5. CASE now = None \/ now.id # read.id
    <3>1. quota' = quota
      BY <2>3, <2>5
    <3>2. ASSUME ~raced', NEW s \in QuotaScopes, quota'[s] # None
          PROVE  R!HasLimit(quota'[s])
      BY <1>2, <2>3, <3>1, <3>2, LimitFresh
    <3> QED
      BY <1>5, <2>3, <3>1, <3>2
  <2>6. CASE ~(now = None \/ now.id # read.id)
    <3>1. now = [id |-> now.id, cost |-> now.cost, calls |-> now.calls]
      BY <2>4, <2>6 DEF IsQuota
    <3>2. row = [id |-> now.id, cost |-> IF new.cost = read.cost THEN now.cost ELSE new.cost,
                 calls |-> IF new.calls = read.calls THEN now.calls ELSE new.calls]
      BY <2>2, <3>1
    <3>3. IsQuota(row)
      BY <3>2 DEF IsQuota
    <3>4. LimitChecked(req[r]) => R!HasLimit(row)
      <4> SUFFICES ASSUME LimitChecked(req[r])
                   PROVE  R!HasLimit(row)
        OBVIOUS
      <4>1. read = now /\ R!HasLimit(new)
        BY <1>1, <2>1, <2>3 DEF LimitChecked
      <4>2. row.cost = new.cost /\ row.calls = new.calls
        BY <3>2, <4>1
      <4> QED
        BY <4>1, <4>2 DEF R!HasLimit
    <3>5. quota' = [quota EXCEPT ![c.scope] = row]
      BY <2>3, <2>6
    <3> QED
      BY <1>6, <2>3, <2>4, <3>3, <3>4, <3>5
  <2> QED
    BY <2>5, <2>6
<1>9. CASE R!DeleteQuota(r)
  <2>1. PICK row : row = IF quota[c.scope] # None /\ quota[c.scope].id = req[r].read.id
                         THEN None ELSE quota[c.scope]
    OBVIOUS
  <2>2. R!Done(r) /\ c.op = "delete" /\ quota' = [quota EXCEPT ![c.scope] = row]
    BY <1>1, <1>9, <2>1 DEF R!DeleteQuota, R!Checked, R!None, None
  <2>3. IsQuota(row)
    BY <1>3, <1>5, <2>1, <2>2 DEF IsQuota
  <2> QED
    BY <1>3, <1>6, <2>1, <2>2, <2>3
<1>10. CASE R!UpsertPrompt(r)
  <2>1. R!Done(r) /\ quota' = quota
    BY <1>10 DEF R!UpsertPrompt
  <2>2. ASSUME ~raced', NEW s \in QuotaScopes, quota'[s] # None
        PROVE  R!HasLimit(quota'[s])
    BY <1>2, <2>1, <2>2, LimitFresh
  <2> QED
    BY <1>5, <2>1, <2>2
<1> QED
  BY <1>7, <1>8, <1>9, <1>10 DEF RegistryWrites

LEMMA LimitStep == RegistryCalls /\ LimitInv /\ [R!Next]_R!vars => LimitInv'
<1> SUFFICES ASSUME RegistryCalls, LimitInv, [R!Next]_R!vars
             PROVE  LimitInv'
  OBVIOUS
<1>1. ASSUME NEW r \in Requests, NEW c \in R!Calls, R!Receive(r, c)
      PROVE  LimitInv'
  BY <1>1, LimitReceives
<1>2. ASSUME NEW r \in Requests, RegistryWrites(r)
      PROVE  LimitInv'
  BY <1>2, LimitWrites
<1>3. CASE UNCHANGED R!vars
  BY <1>3 DEF R!vars, R!tables, LimitInv, R!LimitRemains, IsQuota, LimitChecked
<1> QED
  BY <1>1, <1>2, <1>3 DEF R!Next, RegistryWrites

(***************************************************************************)
(* Model endpoints.  A row of secrets is never written again, and a row of *)
(* llm_connections takes its configuration and its secret in one commit:   *)
(* so a call that has loaded a row finds, whenever it reads the secret,    *)
(* the key that stood beside that configuration.                           *)
(***************************************************************************)
Columns == {"scope", "name", "provider", "residency", "config", "secret", "status"}
IsRow(row) == DOMAIN row = Columns /\ row.secret \in 0..Len(secrets)
\* Row i has had these columns, with the key that its secret is.
Held(i, row) ==
  i \in DOMAIN endpoint /\ IsRow(row) /\ E!PairOf(row, secrets) \in pairs[i]

EndpointTables ==
  /\ \E T : endpoint \in Seq(T)
  /\ \E T : secrets \in Seq(T)
  /\ DOMAIN pairs = DOMAIN endpoint
  /\ \A i \in DOMAIN endpoint : Held(i, endpoint[i])
\* The rows of c exist, and only a creation has an Idempotency-Key.
EndpointCall(c) ==
  /\ c.op \in {"create", "patch", "archive", "policy"}
  /\ c.op \in {"patch", "archive"} => c.via = NoKey /\ c.id \in DOMAIN endpoint
EndpointAt(q) ==
  /\ q.at = "checked" => EndpointCall(q.call)
  /\ q.at = "loaded" => Held(q.id, q.row)
  /\ q.at = "sent" => q.id \in DOMAIN endpoint /\ q.pair \in pairs[q.id]
EndpointRequests == Table /\ \A r \in Requests : EndpointAt(req[r])
EndpointInv == EndpointTables /\ EndpointRequests /\ OneEffectPerKey

\* Rows stay, their pairs stay, and so do the keys.
NothingForgotten ==
  /\ \A i \in DOMAIN endpoint : i \in DOMAIN endpoint' /\ pairs[i] \subseteq pairs'[i]
  /\ Len(secrets) \in Nat /\ Len(secrets') \in Nat /\ Len(secrets) <= Len(secrets')
  /\ \A j \in 1..Len(secrets) : secrets'[j] = secrets[j]

\* The words of Endpoints are those of this module.
LEMMA EndpointKeys ==
  /\ \A u, k, h, v : E!Keep(kept, u, k, h, v) = Keep(kept, u, k, h, v)
  /\ \A u, k : E!KeyTaken(kept, u, k) = KeyTaken(kept, u, k)
  /\ \A u, k : E!CountEffect(effects, u, k) = CountEffect(effects, u, k)
<1>1. \A u, k, h, v : E!Keep(kept, u, k, h, v) = Keep(kept, u, k, h, v)
  BY Zenon DEF E!Keep, E!Put, Keep, Put
<1>2. \A u, k : E!KeyTaken(kept, u, k) = KeyTaken(kept, u, k)
  BY DEF E!KeyTaken, E!FreshKey, KeyTaken, FreshKey
<1>3. \A u, k : E!CountEffect(effects, u, k) = CountEffect(effects, u, k)
  BY Zenon DEF E!CountEffect, E!Put, CountEffect, Put
<1> QED
  BY <1>1, <1>2, <1>3

LEMMA HeldStays ==
  ASSUME NothingForgotten, NEW i, NEW row, Held(i, row)
  PROVE  /\ i \in DOMAIN endpoint' /\ DOMAIN row = Columns /\ row.secret \in 0..Len(secrets')
         /\ E!PairOf(row, secrets') \in pairs'[i]
<1>1. row.secret \in 0..Len(secrets) /\ i \in DOMAIN endpoint
  BY DEF Held, IsRow
<1>2. E!PairOf(row, secrets') = E!PairOf(row, secrets)
  BY <1>1 DEF E!PairOf, E!NoSecret, NothingForgotten
<1> QED
  BY <1>1, <1>2 DEF Held, IsRow, NothingForgotten

\* What a request has read stays true of the rows.
LEMMA OthersStay ==
  ASSUME EndpointRequests, NothingForgotten, NEW r \in Requests, NEW new,
         req' = [req EXCEPT ![r] = new], EndpointAt(new)'
  PROVE  EndpointRequests'
<1>1. Table' /\ req'[r] = new /\ \A q \in Requests : q # r => req'[q] = req[q]
  BY OneRequest DEF EndpointRequests
<1>2. ASSUME NEW q \in Requests
      PROVE  EndpointAt(req[q])'
  <2> USE <1>1, <1>2
  <2>1. CASE q = r
    BY <2>1
  <2>2. CASE q # r
    <3> PICK x : x = req[q]
      OBVIOUS
    <3>1. EndpointAt(x)
      BY DEF EndpointRequests
    <3>2. x.at = "checked" => EndpointCall(x.call)'
      BY <3>1 DEF EndpointAt, EndpointCall, NothingForgotten
    <3>3. x.at = "loaded" => Held(x.id, x.row)'
      <4> PICK i, row : i = x.id /\ row = x.row
        OBVIOUS
      <4> HAVE x.at = "loaded"
      <4>1. Held(i, row)
        BY <3>1 DEF EndpointAt
      <4>2. Held(i, row)'
        BY <4>1, HeldStays DEF Held, IsRow
      <4> QED
        BY <4>2
    <3>4. x.at = "sent" => x.id \in DOMAIN endpoint' /\ x.pair \in pairs'[x.id]
      BY <3>1 DEF EndpointAt, NothingForgotten
    <3>5. EndpointAt(x)'
      BY <3>2, <3>3, <3>4 DEF EndpointAt
    <3> QED
      BY <2>2, <3>5
  <2> QED
    BY <2>1, <2>2
<1> QED
  BY <1>1, <1>2 DEF EndpointRequests

LEMMA NothingWritten ==
  ASSUME EndpointTables, UNCHANGED <<endpoint, secrets, pairs>>
  PROVE  EndpointTables' /\ NothingForgotten
<1>1. EndpointTables'
  BY DEF EndpointTables, Held, IsRow, E!PairOf
<1>2. PICK T : secrets \in Seq(T)
  BY DEF EndpointTables
<1>3. Len(secrets) \in Nat
  BY <1>2
<1> QED
  BY <1>1, <1>3 DEF NothingForgotten

\* Every commit notes the pair that each row holds after it.
LEMMA RowsWritten ==
  ASSUME EndpointTables, NEW r, E!Done(r),
         \E T : endpoint' \in Seq(T), \E T : secrets' \in Seq(T),
         DOMAIN endpoint \subseteq DOMAIN endpoint',
         \A i \in DOMAIN endpoint' :
           DOMAIN endpoint'[i] = Columns /\ endpoint'[i].secret \in 0..Len(secrets'),
         Len(secrets) <= Len(secrets'),
         \A j \in 1..Len(secrets) : secrets'[j] = secrets[j]
  PROVE  EndpointTables' /\ NothingForgotten
<1>1. pairs' = [i \in DOMAIN endpoint' |-> (IF i \in DOMAIN pairs THEN pairs[i] ELSE {})
                                              \cup {E!PairOf(endpoint'[i], secrets')}]
  BY DEF E!Done
<1>2. DOMAIN pairs' = DOMAIN endpoint'
  BY <1>1
<1>3. \A i \in DOMAIN endpoint' : E!PairOf(endpoint'[i], secrets') \in pairs'[i]
  BY <1>1
<1>4. \A i \in DOMAIN endpoint : i \in DOMAIN endpoint' /\ pairs[i] \subseteq pairs'[i]
  BY <1>1 DEF EndpointTables
<1>5. EndpointTables'
  BY <1>2, <1>3 DEF EndpointTables, Held, IsRow
<1>6. Len(secrets) \in Nat /\ Len(secrets') \in Nat
  BY DEF EndpointTables
<1> QED
  BY <1>4, <1>5, <1>6 DEF NothingForgotten

LEMMA OneMore ==
  ASSUME NEW T, NEW s \in Seq(T), NEW x
  PROVE  /\ Append(s, x) \in Seq(T \cup {x}) /\ Len(Append(s, x)) = Len(s) + 1
         /\ \A i \in 1..Len(s) : Append(s, x)[i] = s[i]
         /\ Append(s, x)[Len(s) + 1] = x
<1>1. s \in Seq(T \cup {x})
  OBVIOUS
<1> QED
  BY <1>1, AppendProperties

\* A key that comes with a request is a row more; without one the old row is used.
LEMMA KeyStored ==
  ASSUME EndpointTables, NEW old, NEW key, secrets' = E!StoreSecret(old, key).rows
  PROVE  /\ \E T : secrets' \in Seq(T)
         /\ Len(secrets) <= Len(secrets')
         /\ \A j \in 1..Len(secrets) : secrets'[j] = secrets[j]
         /\ IF key = E!None THEN E!StoreSecret(old, key).id = old
            ELSE E!StoreSecret(old, key).id \in 0..Len(secrets')
<1>1. PICK T : secrets \in Seq(T)
  BY DEF EndpointTables
<1>2. CASE key = E!None
  BY <1>1, <1>2 DEF E!StoreSecret
<1>3. CASE key # E!None
  <2>1. secrets' = Append(secrets, key) /\ E!StoreSecret(old, key).id = Len(secrets) + 1
    BY <1>3 DEF E!StoreSecret
  <2>2. /\ secrets' \in Seq(T \cup {key})
        /\ Len(secrets') = Len(secrets) + 1
        /\ \A j \in 1..Len(secrets) : secrets'[j] = secrets[j]
    BY <1>1, <2>1, OneMore
  <2> QED
    BY <1>3, <2>1, <2>2
<1> QED
  BY <1>2, <1>3

\* The request that committed, or did not, has read nothing it still relies on.
LEMMA EndpointEnds ==
  ASSUME EndpointInv, NEW r \in Requests, NEW outcome \in {"failed", "done"},
         req' = [req EXCEPT ![r] = [at |-> outcome]],
         EndpointTables', NothingForgotten, OneEffectPerKey'
  PROVE  EndpointInv'
<1> DEFINE new == [at |-> outcome]
<1>1. new.at = outcome
  OBVIOUS
<1> HIDE DEF new
<1>2. EndpointAt(new)'
  BY <1>1 DEF EndpointAt
<1>3. EndpointRequests'
  <2>1. req' = [req EXCEPT ![r] = new]
    BY DEF new
  <2> QED
    BY <1>2, <2>1, OthersStay DEF EndpointInv
<1> QED
  BY <1>3 DEF EndpointInv

LEMMA EndpointFails ==
  ASSUME EndpointInv, NEW r \in Requests, E!Fail(r)
  PROVE  EndpointInv'
<1>1. /\ req' = [req EXCEPT ![r] = [at |-> "failed"]]
      /\ UNCHANGED <<endpoint, secrets, pairs, kept, effects>>
  BY DEF E!Fail, E!tables
<1>2. EndpointTables' /\ NothingForgotten /\ OneEffectPerKey'
  BY <1>1, NothingWritten, NothingCommitted DEF EndpointInv
<1> QED
  BY <1>1, <1>2, EndpointEnds

LEMMA CreateKeepsInv ==
  ASSUME EndpointInv, NEW r \in Requests, E!CreateEndpoint(r)
  PROVE  EndpointInv'
<1> PICK c : c = req[r].call
  OBVIOUS
<1> PICK stored : stored = E!StoreSecret(E!NoSecret, c.arg.key)
  OBVIOUS
<1> PICK row : row = E!NewRow(c.arg.scope, c.arg.name, c.arg.provider, c.arg.residency,
                              c.arg.config, stored.id)
  OBVIOUS
<1>1. CASE E!Fail(r)
  BY <1>1, EndpointFails
<1>2. CASE /\ ~E!KeyTaken(kept, c.user, c.via)
           /\ secrets' = stored.rows
           /\ endpoint' = Append(endpoint, row)
           /\ kept' = E!Keep(kept, c.user, c.via, E!Hash(c), c.arg.name)
           /\ E!Done(r)
  <2>1. PICK T : endpoint \in Seq(T)
    BY DEF EndpointInv, EndpointTables
  <2>2. /\ endpoint' \in Seq(T \cup {row})
        /\ DOMAIN endpoint' = 1..(Len(endpoint) + 1) /\ DOMAIN endpoint = 1..Len(endpoint)
        /\ Len(endpoint) \in Nat
        /\ \A i \in 1..Len(endpoint) : endpoint'[i] = endpoint[i]
        /\ endpoint'[Len(endpoint) + 1] = row
    <3>1. endpoint \in Seq(T \cup {row}) /\ row \in T \cup {row}
      BY <2>1
    <3>2. endpoint' = Append(endpoint, row)
      BY <1>2
    <3>3. /\ endpoint' \in Seq(T \cup {row}) /\ Len(endpoint') = Len(endpoint) + 1
          /\ \A i \in 1..Len(endpoint) : endpoint'[i] = endpoint[i]
          /\ endpoint'[Len(endpoint) + 1] = row
      <4>1. /\ Append(endpoint, row) \in Seq(T \cup {row})
            /\ Len(Append(endpoint, row)) = Len(endpoint) + 1
            /\ \A i \in 1..Len(endpoint) : Append(endpoint, row)[i] = endpoint[i]
            /\ Append(endpoint, row)[Len(endpoint) + 1] = row
        BY <2>1, OneMore
      <4> QED
        BY <3>2, <4>1
    <3> QED
      BY <3>1, <3>3
  <2>3. /\ \E U : secrets' \in Seq(U)
        /\ Len(secrets) <= Len(secrets')
        /\ \A j \in 1..Len(secrets) : secrets'[j] = secrets[j]
        /\ stored.id \in 0..Len(secrets')
    <3>1. /\ \E U : secrets' \in Seq(U)
          /\ Len(secrets) <= Len(secrets')
          /\ \A j \in 1..Len(secrets) : secrets'[j] = secrets[j]
          /\ IF c.arg.key = E!None THEN stored.id = E!NoSecret
             ELSE stored.id \in 0..Len(secrets')
      BY <1>2, KeyStored DEF EndpointInv
    <3>2. E!NoSecret = 0 /\ Len(secrets') \in Nat
      BY <3>1 DEF E!NoSecret
    <3> QED
      BY <3>1, <3>2
  <2>4. DOMAIN row = Columns /\ row.secret = stored.id
    BY DEF E!NewRow, Columns
  <2>5. \A i \in DOMAIN endpoint' :
          DOMAIN endpoint'[i] = Columns /\ endpoint'[i].secret \in 0..Len(secrets')
    <3>1. ASSUME NEW i \in 1..Len(endpoint)
          PROVE  DOMAIN endpoint[i] = Columns /\ endpoint[i].secret \in 0..Len(secrets')
      <4>1. IsRow(endpoint[i])
        BY <2>2 DEF EndpointInv, EndpointTables, Held
      <4>2. Len(secrets) \in Nat /\ Len(secrets') \in Nat
        BY <2>3 DEF EndpointInv, EndpointTables
      <4> QED
        BY <2>3, <4>1, <4>2 DEF IsRow
    <3>2. ASSUME NEW i \in DOMAIN endpoint'
          PROVE  DOMAIN endpoint'[i] = Columns /\ endpoint'[i].secret \in 0..Len(secrets')
      <4>1. CASE i \in 1..Len(endpoint)
        BY <2>2, <3>1, <4>1
      <4>2. CASE i = Len(endpoint) + 1
        BY <2>2, <2>3, <2>4, <4>2
      <4> QED
        BY <2>2, <4>1, <4>2
    <3> QED
      BY <3>2
  <2>6. EndpointTables' /\ NothingForgotten
    <3>1. EndpointTables /\ E!Done(r)
      BY <1>2 DEF EndpointInv
    <3>2. DOMAIN endpoint \subseteq DOMAIN endpoint'
      BY <2>2
    <3> QED
      BY <2>2, <2>3, <2>5, <3>1, <3>2, RowsWritten
  <2>7. OneEffectPerKey'
    <3>1. effects' = CountEffect(effects, c.user, c.via)
      BY <1>2, EndpointKeys DEF E!Done
    <3>2. ~KeyTaken(kept, c.user, c.via)
      BY <1>2, EndpointKeys
    <3>3. kept' = Keep(kept, c.user, c.via, E!Hash(c), c.arg.name)
      BY <1>2, EndpointKeys
    <3> QED
      BY <3>1, <3>2, <3>3, CommitKeepsKeys DEF EndpointInv
  <2> QED
    BY <1>2, <2>6, <2>7, EndpointEnds DEF E!Done
<1> QED
  BY <1>1, <1>2 DEF E!CreateEndpoint

\* The configuration of a row and its key are written together.
LEMMA PatchKeepsInv ==
  ASSUME EndpointInv, NEW r \in Requests, E!PatchEndpoint(r)
  PROVE  EndpointInv'
<1> PICK c : c = req[r].call
  OBVIOUS
<1> PICK old : old = req[r].row.secret
  OBVIOUS
<1> PICK stored : stored = E!StoreSecret(old, c.arg.key)
  OBVIOUS
<1>1. CASE E!Fail(r)
  BY <1>1, EndpointFails
<1>2. CASE ~E!Fail(r)
  <2>1. /\ EndpointCall(c) /\ c.op = "patch"
        /\ EndpointTables /\ c.id \in DOMAIN endpoint /\ c.via = NoKey
    BY DEF E!PatchEndpoint, E!Checked, EndpointInv, EndpointRequests, EndpointAt, EndpointCall
  <2> DEFINE now == endpoint[c.id]
             Column(given, read, current) ==
               IF given \in {E!None, read} THEN current ELSE given
  <2> PICK name, residency, config, status :
        /\ name = Column(c.arg.name, req[r].row.name, now.name)
        /\ residency = Column(c.arg.residency, req[r].row.residency, now.residency)
        /\ config = Column(c.arg.config, req[r].row.config, now.config)
        /\ status = Column(c.arg.status, req[r].row.status, now.status)
    OBVIOUS
  <2>2. endpoint' = [endpoint EXCEPT ![c.id] = [now EXCEPT
            !.name = name, !.residency = residency, !.config = config, !.status = status,
            !.secret = IF c.arg.key = E!None THEN now.secret ELSE stored.id]]
    BY <1>2 DEF E!PatchEndpoint
  <2>3. secrets' = stored.rows /\ kept' = kept /\ E!Done(r)
    BY <1>2 DEF E!PatchEndpoint
  <2>4. /\ \E T : secrets' \in Seq(T)
        /\ Len(secrets) <= Len(secrets')
        /\ \A j \in 1..Len(secrets) : secrets'[j] = secrets[j]
        /\ c.arg.key # E!None => stored.id \in 0..Len(secrets')
    BY <2>1, <2>3, KeyStored
  <2>5. Len(secrets) \in Nat /\ Len(secrets') \in Nat
    BY <2>1, <2>4 DEF EndpointTables
  <2>6. PICK row : /\ endpoint' = [endpoint EXCEPT ![c.id] = row]
                   /\ DOMAIN row = Columns /\ row.secret \in 0..Len(secrets')
    <3>1. PICK row : row = [now EXCEPT
            !.name = name, !.residency = residency, !.config = config, !.status = status,
            !.secret = IF c.arg.key = E!None THEN now.secret ELSE stored.id]
      OBVIOUS
    <3>2. endpoint' = [endpoint EXCEPT ![c.id] = row]
      BY <2>2, <3>1
    <3>3. IsRow(now)
      BY <2>1 DEF EndpointTables, Held
    <3>4. DOMAIN row = Columns
      BY <3>1, <3>3 DEF IsRow
    <3>5. row.secret = IF c.arg.key = E!None THEN now.secret ELSE stored.id
      BY <3>1, <3>3 DEF IsRow, Columns
    <3>6. now.secret \in 0..Len(secrets')
      BY <2>4, <2>5, <3>3 DEF IsRow
    <3>7. row.secret \in 0..Len(secrets')
      <4> HIDE DEF now
      <4>1. CASE c.arg.key = E!None
        BY <3>5, <3>6, <4>1
      <4>2. CASE c.arg.key # E!None
        BY <2>4, <3>5, <4>2
      <4> QED
        BY <4>1, <4>2
    <3> QED
      BY <3>2, <3>4, <3>7
  <2> HIDE DEF now, Column
  <2>7. DOMAIN endpoint' = DOMAIN endpoint /\ endpoint'[c.id] = row
         /\ \A i \in DOMAIN endpoint : i # c.id => endpoint'[i] = endpoint[i]
    BY <2>1, <2>6
  <2>8. \E T : endpoint' \in Seq(T)
    <3>1. PICK T : endpoint \in Seq(T)
      BY <2>1 DEF EndpointTables
    <3>2. endpoint \in Seq(T \cup {row}) /\ row \in T \cup {row}
      BY <3>1
    <3>3. [endpoint EXCEPT ![c.id] = row] \in Seq(T \cup {row})
      BY <2>1, <3>2
    <3> QED
      BY <2>6, <3>3
  <2>9. \A i \in DOMAIN endpoint' :
           DOMAIN endpoint'[i] = Columns /\ endpoint'[i].secret \in 0..Len(secrets')
    <3>1. ASSUME NEW i \in DOMAIN endpoint, i # c.id
          PROVE  DOMAIN endpoint[i] = Columns /\ endpoint[i].secret \in 0..Len(secrets')
      <4>1. IsRow(endpoint[i])
        BY <2>1 DEF EndpointTables, Held
      <4> QED
        BY <2>4, <2>5, <4>1 DEF IsRow
    <3> QED
      BY <2>6, <2>7, <3>1
  <2>10. EndpointTables' /\ NothingForgotten
    BY <2>1, <2>3, <2>4, <2>7, <2>8, <2>9, RowsWritten
  <2>11. OneEffectPerKey'
    BY <2>1, <2>3, EndpointKeys, CommitKeepsKeys DEF EndpointInv, E!Done
  <2> QED
    BY <2>3, <2>10, <2>11, EndpointEnds DEF E!Done
<1> QED
  BY <1>1, <1>2

LEMMA ArchiveKeepsInv ==
  ASSUME EndpointInv, NEW r \in Requests, E!ArchiveEndpoint(r)
  PROVE  EndpointInv'
<1> PICK c : c = req[r].call
  OBVIOUS
<1>1. /\ EndpointCall(c) /\ c.op = "archive"
      /\ EndpointTables /\ c.id \in DOMAIN endpoint /\ c.via = NoKey
  BY DEF E!ArchiveEndpoint, E!Checked, EndpointInv, EndpointRequests, EndpointAt, EndpointCall
<1>2. /\ endpoint' = [endpoint EXCEPT ![c.id].status = "archived"]
      /\ UNCHANGED <<secrets, kept>> /\ E!Done(r)
  BY DEF E!ArchiveEndpoint
<1>3. PICK row : /\ endpoint' = [endpoint EXCEPT ![c.id] = row]
                 /\ DOMAIN row = Columns /\ row.secret \in 0..Len(secrets)
  <2>1. PICK row : row = [endpoint[c.id] EXCEPT !.status = "archived"]
    OBVIOUS
  <2>2. IsRow(endpoint[c.id])
    BY <1>1 DEF EndpointTables, Held
  <2>3. DOMAIN row = Columns /\ row.secret = endpoint[c.id].secret
    BY <2>1, <2>2 DEF IsRow, Columns
  <2>4. endpoint' = [endpoint EXCEPT ![c.id] = row]
    BY <1>2, <2>1
  <2> QED
    BY <2>2, <2>3, <2>4 DEF IsRow
<1>4. DOMAIN endpoint' = DOMAIN endpoint /\ endpoint'[c.id] = row
      /\ \A i \in DOMAIN endpoint : i # c.id => endpoint'[i] = endpoint[i]
  BY <1>1, <1>3
<1>5. \E T : endpoint' \in Seq(T)
  <2>1. PICK T : endpoint \in Seq(T)
    BY <1>1 DEF EndpointTables
  <2>2. endpoint \in Seq(T \cup {row}) /\ row \in T \cup {row}
    BY <2>1
  <2>3. [endpoint EXCEPT ![c.id] = row] \in Seq(T \cup {row})
    BY <1>1, <2>2
  <2> QED
    BY <1>3, <2>3
<1>6. \A i \in DOMAIN endpoint' :
         DOMAIN endpoint'[i] = Columns /\ endpoint'[i].secret \in 0..Len(secrets')
  <2>1. \A i \in DOMAIN endpoint : IsRow(endpoint[i])
    BY <1>1 DEF EndpointTables, Held
  <2> QED
    BY <1>2, <1>3, <1>4, <2>1 DEF IsRow
<1>7. EndpointTables' /\ NothingForgotten
  <2>1. (\E T : secrets' \in Seq(T)) /\ Len(secrets) <= Len(secrets')
    BY <1>1, <1>2 DEF EndpointTables
  <2> QED
    BY <1>1, <1>2, <1>4, <1>5, <1>6, <2>1, RowsWritten
<1>8. OneEffectPerKey'
  BY <1>1, <1>2, EndpointKeys, CommitKeepsKeys DEF EndpointInv, E!Done
<1> QED
  BY <1>2, <1>7, <1>8, EndpointEnds DEF E!Done

LEMMA PolicyKeepsInv ==
  ASSUME EndpointInv, NEW r \in Requests, E!CreatePolicy(r)
  PROVE  EndpointInv'
<1> PICK c : c = req[r].call
  OBVIOUS
<1>1. CASE E!Fail(r)
  BY <1>1, EndpointFails
<1>2. CASE ~E!Fail(r)
  <2>1. /\ ~E!KeyTaken(kept, c.user, c.via)
        /\ kept' = E!Keep(kept, c.user, c.via, E!Hash(c), c.arg)
        /\ UNCHANGED <<endpoint, secrets>> /\ E!Done(r)
    BY <1>2 DEF E!CreatePolicy
  <2>2. EndpointTables
    BY DEF EndpointInv
  <2>3. \A i \in DOMAIN endpoint :
          DOMAIN endpoint[i] = Columns /\ endpoint[i].secret \in 0..Len(secrets)
    BY <2>2 DEF EndpointTables, Held, IsRow
  <2>4. (\E T : secrets \in Seq(T)) /\ Len(secrets) <= Len(secrets) /\ \E T : endpoint \in Seq(T)
    BY <2>2 DEF EndpointTables
  <2>5. EndpointTables' /\ NothingForgotten
    BY <2>1, <2>2, <2>3, <2>4, RowsWritten
  <2>6. effects' = CountEffect(effects, c.user, c.via)
    BY <2>1, EndpointKeys DEF E!Done
  <2>7. /\ ~KeyTaken(kept, c.user, c.via)
        /\ kept' = Keep(kept, c.user, c.via, E!Hash(c), c.arg)
    BY <2>1, EndpointKeys
  <2>8. OneEffectPerKey'
    BY <2>6, <2>7, CommitKeepsKeys DEF EndpointInv
  <2> QED
    BY <2>1, <2>5, <2>8, EndpointEnds DEF E!Done
<1> QED
  BY <1>1, <1>2

\* A request reads, and nothing is written.
LEMMA EndpointReads ==
  ASSUME EndpointInv, NEW r \in Requests, NEW new, req' = [req EXCEPT ![r] = new],
         UNCHANGED <<endpoint, secrets, pairs, kept, effects>>, EndpointAt(new)
  PROVE  EndpointInv'
<1>1. EndpointTables' /\ NothingForgotten /\ OneEffectPerKey'
  BY NothingWritten, NothingCommitted DEF EndpointInv
<1>2. EndpointAt(new)'
  BY DEF EndpointAt, EndpointCall, Held, IsRow, E!PairOf
<1>3. EndpointRequests'
  BY <1>1, <1>2, OthersStay DEF EndpointInv
<1> QED
  BY <1>1, <1>3 DEF EndpointInv

LEMMA EndpointStep == EndpointInv /\ [E!Next]_E!vars => EndpointInv'
<1> SUFFICES ASSUME EndpointInv, [E!Next]_E!vars
             PROVE  EndpointInv'
  OBVIOUS
<1>1. ASSUME NEW r \in Requests, NEW c \in E!Calls, E!Receive(r, c)
      PROVE  EndpointInv'
  <2>1. PICK new : /\ new = IF E!Allowed(c)
                            THEN [at |-> "checked", call |-> c, stamp |-> stamp,
                                  row |-> IF c.op \in {"patch", "archive"}
                                          THEN endpoint[c.id] ELSE E!None]
                            ELSE [at |-> "refused"]
    OBVIOUS
  <2>2. /\ req' = [req EXCEPT ![r] = new]
        /\ UNCHANGED <<endpoint, secrets, pairs, kept, effects>>
    BY <1>1, <2>1 DEF E!Receive, E!tables
  <2>3. EndpointCall(c)
    BY DEF E!Calls, EndpointCall
  <2>4. EndpointAt(new)
    BY <2>1, <2>3 DEF EndpointAt
  <2> QED
    BY <2>2, <2>4, EndpointReads
<1>2. ASSUME NEW r \in Requests, NEW id \in DOMAIN endpoint, E!LoadConnection(r, id)
      PROVE  EndpointInv'
  <2>1. PICK new : new = IF endpoint[id].status = "active"
                         THEN [at |-> "loaded", id |-> id, row |-> endpoint[id]]
                         ELSE [at |-> "refused"]
    OBVIOUS
  <2>2. /\ req' = [req EXCEPT ![r] = new]
        /\ UNCHANGED <<endpoint, secrets, pairs, kept, effects>>
    BY <1>2, <2>1 DEF E!LoadConnection, E!tables
  <2>3. Held(id, endpoint[id])
    BY DEF EndpointInv, EndpointTables
  <2>4. EndpointAt(new)
    BY <2>1, <2>3 DEF EndpointAt
  <2> QED
    BY <2>2, <2>4, EndpointReads
<1>3. ASSUME NEW r \in Requests, E!SecretFor(r)
      PROVE  EndpointInv'
  <2>1. PICK new : new = [at |-> "sent", id |-> req[r].id, pair |-> E!PairOf(req[r].row, secrets)]
    OBVIOUS
  <2>2. /\ req' = [req EXCEPT ![r] = new]
        /\ UNCHANGED <<endpoint, secrets, pairs, kept, effects>>
    BY <1>3, <2>1 DEF E!SecretFor, E!tables
  <2>3. Held(req[r].id, req[r].row)
    BY <1>3 DEF E!SecretFor, EndpointInv, EndpointRequests, EndpointAt
  <2>4. EndpointAt(new)
    BY <2>1, <2>3 DEF EndpointAt, Held
  <2> QED
    BY <2>2, <2>4, EndpointReads
<1>4. CASE UNCHANGED E!vars
  <2>1. UNCHANGED <<endpoint, secrets, pairs, kept, effects, req>>
    BY <1>4 DEF E!vars, E!tables
  <2>2. EndpointTables' /\ OneEffectPerKey'
    BY <2>1, NothingWritten, NothingCommitted DEF EndpointInv
  <2>3. EndpointRequests'
    BY <2>1 DEF EndpointInv, EndpointRequests, Table, EndpointAt, EndpointCall, Held, IsRow,
                E!PairOf
  <2> QED
    BY <2>2, <2>3 DEF EndpointInv
<1> QED
  BY <1>1, <1>2, <1>3, <1>4, CreateKeepsInv, PatchKeepsInv, ArchiveKeepsInv, PolicyKeepsInv
     DEF E!Next

LEMMA EndpointStart == E!Init => EndpointInv
<1> SUFFICES ASSUME E!Init
             PROVE  EndpointInv
  OBVIOUS
<1>1. EndpointRequests /\ OneEffectPerKey
  BY NoneKept DEF E!Init, E!Idle, EndpointRequests, Table, EndpointAt, OneEffectPerKey
<1>2. PICK b \in Bodies :
        /\ secrets = <<b.key>>
        /\ endpoint = <<E!NewRow(b.scope, b.name, b.provider, b.residency, b.config, 1)>>
        /\ pairs = <<{<<b.config, b.key>>}>>
  BY DEF E!Init
<1>3. PICK row : /\ row = E!NewRow(b.scope, b.name, b.provider, b.residency, b.config, 1)
                 /\ DOMAIN row = Columns /\ row.secret = 1 /\ row.config = b.config
  <2>1. PICK row : row = E!NewRow(b.scope, b.name, b.provider, b.residency, b.config, 1)
    OBVIOUS
  <2>2. DOMAIN row = Columns
    BY <2>1 DEF E!NewRow, Columns
  <2>3. row.secret = 1 /\ row.config = b.config
    BY <2>1 DEF E!NewRow
  <2> QED
    BY <2>1, <2>2, <2>3
<1>4. /\ endpoint = <<row>> /\ DOMAIN endpoint = {1} /\ DOMAIN pairs = {1}
      /\ endpoint \in Seq({row}) /\ secrets \in Seq({b.key}) /\ Len(secrets) = 1
  BY <1>2, <1>3
<1>5. Held(1, row)
  <2>1. row.secret \in 0..Len(secrets)
    BY <1>3, <1>4
  <2>2. E!PairOf(row, secrets) = <<b.config, b.key>>
    BY <1>2, <1>3 DEF E!PairOf, E!NoSecret
  <2>3. pairs[1] = {<<b.config, b.key>>}
    BY <1>2
  <2> QED
    BY <1>3, <1>4, <2>1, <2>2, <2>3 DEF Held, IsRow
<1>6. EndpointTables
  <2>1. \A i \in DOMAIN endpoint : Held(i, endpoint[i])
    BY <1>4, <1>5
  <2> QED
    BY <1>4, <2>1 DEF EndpointTables
<1> QED
  BY <1>1, <1>6 DEF EndpointInv

(***************************************************************************)
(* Names of endpoints and policies, and what endpoints declare.            *)
(***************************************************************************)

OnceIn(scope) ==
  \A i, j \in DOMAIN endpoint :
    endpoint[i].scope = scope /\ endpoint[j].scope = scope /\ endpoint[i].name = endpoint[j].name
      => i = j
PoliciesOnce == \A i, j \in DOMAIN policies : policies[i] = policies[j] => i = j

\* What a handler that nobody has overtaken has checked.
NameChecked(q) ==
  /\ q.call.op = "create" => E!NameFree(q.call.arg.scope, q.call.arg.name)
  /\ q.call.op = "patch" =>
       /\ q.row.name = endpoint[q.call.id].name
       /\ q.call.arg.name \notin {None, q.row.name} =>
            E!NameFree(endpoint[q.call.id].scope, q.call.arg.name)
  /\ q.call.op = "policy" => \A i \in DOMAIN policies : policies[i] # q.call.arg

\* What stays true for a handler that was overtaken: providers never change.
MayDeclare(q) ==
  /\ q.call.op = "create" => E!ResidencyFits(q.call.arg.provider, q.call.arg.residency)
  /\ q.call.op = "patch" =>
       /\ q.row.provider = endpoint[q.call.id].provider
       /\ E!ResidencyFits(q.row.provider, E!Or(q.call.arg.residency, q.row.residency))

NamesInv ==
  /\ stamp \in Nat /\ raced \in BOOLEAN /\ \E T : policies \in Seq(T)
  /\ OnceIn("project") /\ (~raced => OnceIn("global") /\ PoliciesOnce)
  /\ E!NothingMisdeclared
  /\ \A r \in Requests : req[r].at = "checked" =>
       /\ req[r].stamp \in 0..stamp /\ MayDeclare(req[r])
       /\ req[r].stamp = stamp => NameChecked(req[r])

LEMMA NamesStart == E!Init => NamesInv
<1> SUFFICES ASSUME E!Init
             PROVE  NamesInv
  OBVIOUS
<1>1. PICK b \in Bodies :
        /\ E!ResidencyFits(b.provider, b.residency)
        /\ endpoint = <<E!NewRow(b.scope, b.name, b.provider, b.residency, b.config, 1)>>
  BY DEF E!Init
<1>2. PICK row : row = E!NewRow(b.scope, b.name, b.provider, b.residency, b.config, 1)
  OBVIOUS
<1>3. DOMAIN endpoint = {1} /\ endpoint[1] = row
  BY <1>1, <1>2
<1>4. row.provider = b.provider /\ row.residency = b.residency
  BY <1>2 DEF E!NewRow
<1>5. E!NothingMisdeclared
  BY <1>1, <1>3, <1>4 DEF E!NothingMisdeclared
<1>6. OnceIn("project") /\ OnceIn("global")
  BY <1>3 DEF OnceIn
<1>7. policies = <<>> /\ stamp = 0 /\ raced = FALSE
  BY DEF E!Init
<1>8. PoliciesOnce /\ policies \in Seq({})
  BY <1>7 DEF PoliciesOnce
<1>9. \A r \in Requests : req[r].at = "idle"
  BY DEF E!Init, E!Idle
<1> QED
  BY <1>5, <1>6, <1>7, <1>8, <1>9 DEF NamesInv

\* A request goes on, and nothing is written.
LEMMA NamesRead ==
  ASSUME EndpointInv, NamesInv, NEW r \in Requests, NEW new,
         req' = [req EXCEPT ![r] = new], UNCHANGED <<endpoint, policies, stamp, raced>>,
         new.at = "checked" => new.stamp = stamp /\ MayDeclare(new) /\ NameChecked(new)
  PROVE  NamesInv'
<1>1. req'[r] = new /\ \A q \in Requests : q # r => req'[q] = req[q]
  BY OneRequest DEF EndpointInv, EndpointRequests
<1>2. ASSUME NEW q \in Requests, req'[q].at = "checked"
      PROVE  (/\ req[q].stamp \in 0..stamp /\ MayDeclare(req[q])
              /\ req[q].stamp = stamp => NameChecked(req[q]))'
  <2>1. CASE q = r
    <3>1. stamp \in 0..stamp
      BY DEF NamesInv
    <3> QED
      BY <1>1, <1>2, <2>1, <3>1 DEF MayDeclare, NameChecked, E!NameFree, E!Named
  <2>2. CASE q # r
    BY <1>1, <1>2, <2>2 DEF NamesInv, MayDeclare, NameChecked, E!NameFree, E!Named
  <2> QED
    BY <2>1, <2>2
<1> QED
  BY <1>2 DEF NamesInv, OnceIn, PoliciesOnce, E!NothingMisdeclared

\* A transaction that commits overtakes all others.
LEMMA NamesEnd ==
  ASSUME EndpointInv, NamesInv, NEW r \in Requests, req[r].at = "checked", E!Done(r),
         \A i \in DOMAIN endpoint :
           i \in DOMAIN endpoint' /\ endpoint'[i].provider = endpoint[i].provider,
         \E T : policies' \in Seq(T), OnceIn("project")', E!NothingMisdeclared',
         ~raced' => OnceIn("global")' /\ PoliciesOnce'
  PROVE  NamesInv'
<1>1. /\ stamp' = stamp + 1 /\ raced' \in BOOLEAN /\ stamp \in Nat
      /\ req' = [req EXCEPT ![r] = [at |-> "done"]]
  BY DEF E!Done, NamesInv
<1>2. PICK new : new = [at |-> "done"]
  OBVIOUS
<1>3. req'[r] = new /\ \A q \in Requests : q # r => req'[q] = req[q]
  BY <1>1, <1>2, OneRequest DEF EndpointInv, EndpointRequests
<1>4. new.at = "done"
  BY <1>2
<1>5. stamp' \in Nat /\ \A x \in 0..stamp : x \in 0..stamp' /\ x # stamp'
  BY <1>1
<1>6. ASSUME NEW q \in Requests, req'[q].at = "checked"
      PROVE  (/\ req[q].stamp \in 0..stamp /\ MayDeclare(req[q])
              /\ req[q].stamp = stamp => NameChecked(req[q]))'
  <2>1. req[q].at = "checked" /\ req'[q] = req[q]
    BY <1>3, <1>4, <1>6
  <2>2. req[q].stamp \in 0..stamp /\ MayDeclare(req[q]) /\ EndpointCall(req[q].call)
    BY <2>1 DEF NamesInv, EndpointInv, EndpointRequests, EndpointAt
  <2>3. MayDeclare(req[q])'
    BY <2>1, <2>2 DEF MayDeclare, EndpointCall
  <2> QED
    BY <1>5, <2>1, <2>2, <2>3
<1> QED
  BY <1>1, <1>5, <1>6 DEF NamesInv

\* A commit that leaves the race unlost was not overtaken.
LEMMA NamesFresh ==
  ASSUME NamesInv, NEW r \in Requests, E!Done(r), req[r].at = "checked", ~raced'
  PROVE  NameChecked(req[r]) /\ OnceIn("global") /\ PoliciesOnce
<1>1. ~raced /\ req[r].stamp = stamp
  BY DEF E!Done
<1> QED
  BY <1>1 DEF NamesInv

\* A row is written, new or in place.
WritesRow(i, row) ==
  /\ DOMAIN endpoint' = DOMAIN endpoint \cup {i} /\ endpoint'[i] = row
  /\ \A j \in DOMAIN endpoint : j # i => endpoint'[j] = endpoint[j]
KeepsName(i, row) ==
  i \in DOMAIN endpoint /\ row.scope = endpoint[i].scope /\ row.name = endpoint[i].name

LEMMA RowNamed ==
  ASSUME NEW i, NEW row, WritesRow(i, row), NEW scope, OnceIn(scope),
         row.scope = scope => KeepsName(i, row) \/ E!NameFree(row.scope, row.name)
  PROVE  OnceIn(scope)'
<1> SUFFICES ASSUME NEW j \in DOMAIN endpoint', NEW k \in DOMAIN endpoint', j # k,
                    endpoint'[j].scope = scope, endpoint'[k].scope = scope,
                    endpoint'[j].name = endpoint'[k].name
             PROVE  FALSE
  BY DEF OnceIn
<1>1. CASE j # i /\ k # i
  BY <1>1 DEF WritesRow, OnceIn
<1>2. ASSUME NEW x \in DOMAIN endpoint, x # i, endpoint[x].scope = scope, endpoint[x].name = row.name,
             row.scope = scope
      PROVE  FALSE
  <2>1. CASE KeepsName(i, row)
    BY <1>2, <2>1 DEF KeepsName, OnceIn
  <2>2. CASE E!NameFree(row.scope, row.name)
    BY <1>2, <2>2 DEF E!NameFree, E!Named
  <2> QED
    BY <1>2, <2>1, <2>2
<1>3. CASE j = i
  BY <1>2, <1>3 DEF WritesRow
<1>4. CASE k = i
  BY <1>2, <1>4 DEF WritesRow
<1> QED
  BY <1>1, <1>3, <1>4

LEMMA RowWritten ==
  ASSUME EndpointInv, NamesInv, NEW r \in Requests, req[r].at = "checked", E!Done(r),
         NEW i, NEW row, WritesRow(i, row), UNCHANGED policies,
         E!ResidencyFits(row.provider, row.residency),
         i \in DOMAIN endpoint => row.provider = endpoint[i].provider,
         \/ KeepsName(i, row)
         \/ /\ ~E!NameTaken(row.scope, row.name)
            /\ NameChecked(req[r]) => KeepsName(i, row) \/ E!NameFree(row.scope, row.name)
  PROVE  NamesInv'
<1>1. OnceIn("project")'
  <2>1. row.scope = "project" => KeepsName(i, row) \/ E!NameFree(row.scope, row.name)
    BY DEF E!NameTaken
  <2> QED
    BY <2>1, RowNamed DEF NamesInv
<1>2. ~raced' => OnceIn("global")' /\ PoliciesOnce'
  BY NamesFresh, RowNamed DEF PoliciesOnce
<1>3. E!NothingMisdeclared'
  BY DEF WritesRow, E!NothingMisdeclared, NamesInv
<1>4. \A j \in DOMAIN endpoint :
        j \in DOMAIN endpoint' /\ endpoint'[j].provider = endpoint[j].provider
  BY DEF WritesRow
<1>5. \E T : policies' \in Seq(T)
  BY DEF NamesInv
<1> QED
  BY <1>1, <1>2, <1>3, <1>4, <1>5, NamesEnd

LEMMA NamesFail ==
  ASSUME EndpointInv, NamesInv, NEW r \in Requests, E!Fail(r)
  PROVE  NamesInv'
<1>1. PICK new : new = [at |-> "failed"]
  OBVIOUS
<1>2. /\ req' = [req EXCEPT ![r] = new] /\ UNCHANGED <<endpoint, policies, stamp, raced>>
      /\ new.at = "failed"
  BY <1>1 DEF E!Fail, E!tables
<1> QED
  BY <1>2, NamesRead

LEMMA CreateKeepsNames ==
  ASSUME EndpointInv, NamesInv, NEW r \in Requests, E!CreateEndpoint(r)
  PROVE  NamesInv'
<1> PICK c : c = req[r].call
  OBVIOUS
<1> PICK stored : stored = E!StoreSecret(E!NoSecret, c.arg.key)
  OBVIOUS
<1> PICK row : row = E!NewRow(c.arg.scope, c.arg.name, c.arg.provider, c.arg.residency,
                              c.arg.config, stored.id)
  OBVIOUS
<1>1. CASE E!Fail(r)
  BY <1>1, NamesFail
<1>2. CASE ~E!Fail(r)
  <2>1. /\ endpoint' = Append(endpoint, row) /\ E!Done(r) /\ UNCHANGED policies
        /\ ~E!NameTaken(c.arg.scope, c.arg.name)
        /\ req[r].at = "checked" /\ c.op = "create"
    BY <1>2 DEF E!CreateEndpoint, E!Checked
  <2>2. PICK T : endpoint \in Seq(T)
    BY DEF EndpointInv, EndpointTables
  <2>3. PICK i : i = Len(endpoint) + 1
    OBVIOUS
  <2>4. WritesRow(i, row) /\ i \notin DOMAIN endpoint
    <3>1. /\ endpoint' \in Seq(T \cup {row}) /\ Len(endpoint') = i /\ endpoint'[i] = row
          /\ \A j \in 1..Len(endpoint) : endpoint'[j] = endpoint[j]
      BY <2>1, <2>2, <2>3, OneMore
    <3>2. DOMAIN endpoint = 1..Len(endpoint) /\ DOMAIN endpoint' = 1..i /\ Len(endpoint) \in Nat
      BY <2>2, <3>1
    <3>3. 1..i = 1..Len(endpoint) \cup {i} /\ i \notin 1..Len(endpoint)
      BY <2>3, <3>2
    <3> QED
      BY <3>1, <3>2, <3>3 DEF WritesRow
  <2>5. /\ row.scope = c.arg.scope /\ row.name = c.arg.name
        /\ row.provider = c.arg.provider /\ row.residency = c.arg.residency
    BY DEF E!NewRow
  <2>6. E!ResidencyFits(row.provider, row.residency)
    BY <2>1, <2>5 DEF NamesInv, MayDeclare
  <2>7. NameChecked(req[r]) => E!NameFree(row.scope, row.name)
    BY <2>1, <2>5 DEF NameChecked
  <2> QED
    BY <2>1, <2>4, <2>5, <2>6, <2>7, RowWritten
<1> QED
  BY <1>1, <1>2

LEMMA PatchKeepsNames ==
  ASSUME EndpointInv, NamesInv, NEW r \in Requests, E!PatchEndpoint(r)
  PROVE  NamesInv'
<1> PICK c, read : c = req[r].call /\ read = req[r].row
  OBVIOUS
<1>1. CASE E!Fail(r)
  BY <1>1, NamesFail
<1>2. CASE ~E!Fail(r)
  <2>1. /\ EndpointCall(c) /\ c.op = "patch" /\ c.id \in DOMAIN endpoint
        /\ req[r].at = "checked"
    BY DEF E!PatchEndpoint, E!Checked, EndpointInv, EndpointRequests, EndpointAt, EndpointCall
  <2> PICK now : now = endpoint[c.id]
    OBVIOUS
  <2> PICK stored : stored = E!StoreSecret(read.secret, c.arg.key)
    OBVIOUS
  <2> PICK name, residency, config, status :
        /\ name = IF c.arg.name \in {None, read.name} THEN now.name ELSE c.arg.name
        /\ residency = IF c.arg.residency \in {None, read.residency} THEN now.residency
                       ELSE c.arg.residency
        /\ config = IF c.arg.config \in {None, read.config} THEN now.config ELSE c.arg.config
        /\ status = IF c.arg.status \in {None, read.status} THEN now.status ELSE c.arg.status
    OBVIOUS
  <2> PICK row : row = [now EXCEPT !.name = name, !.residency = residency, !.config = config,
                                   !.status = status,
                                   !.secret = IF c.arg.key = None THEN now.secret ELSE stored.id]
    OBVIOUS
  <2>2. /\ endpoint' = [endpoint EXCEPT ![c.id] = row] /\ E!Done(r) /\ UNCHANGED policies
        /\ name = now.name \/ ~E!NameTaken(now.scope, name)
    BY <1>2 DEF E!PatchEndpoint, E!None, None
  <2>3. WritesRow(c.id, row)
    <3>1. PICK T : endpoint \in Seq(T)
      BY DEF EndpointInv, EndpointTables
    <3> QED
      BY <2>1, <2>2, <3>1 DEF WritesRow
  <2>4. IsRow(now)
    BY <2>1 DEF EndpointInv, EndpointTables, Held
  <2>5. /\ row.scope = now.scope /\ row.name = name
        /\ row.provider = now.provider /\ row.residency = residency
    BY <2>4 DEF IsRow, Columns
  <2>6. E!ResidencyFits(row.provider, row.residency)
    <3>1. /\ read.provider = now.provider
          /\ E!ResidencyFits(read.provider, E!Or(c.arg.residency, read.residency))
      BY <2>1 DEF NamesInv, MayDeclare
    <3>2. E!ResidencyFits(now.provider, now.residency)
      BY <2>1 DEF NamesInv, E!NothingMisdeclared
    <3>3. CASE c.arg.residency \in {None, read.residency}
      BY <2>5, <3>2, <3>3
    <3>4. CASE c.arg.residency \notin {None, read.residency}
      <4>1. E!Or(c.arg.residency, read.residency) = residency
        BY <3>4 DEF E!Or, E!None, None
      <4> QED
        BY <2>5, <3>1, <4>1
    <3> QED
      BY <3>3, <3>4
  <2>7. CASE name = now.name
    <3>1. KeepsName(c.id, row)
      BY <2>1, <2>5, <2>7 DEF KeepsName
    <3> QED
      BY <2>1, <2>2, <2>3, <2>5, <2>6, <3>1, RowWritten
  <2>8. CASE name # now.name
    <3>1. NameChecked(req[r]) => E!NameFree(row.scope, row.name)
      BY <2>1, <2>5, <2>8 DEF NameChecked
    <3> QED
      BY <2>1, <2>2, <2>3, <2>5, <2>6, <2>8, <3>1, RowWritten
  <2> QED
    BY <2>7, <2>8
<1> QED
  BY <1>1, <1>2

LEMMA ArchiveKeepsNames ==
  ASSUME EndpointInv, NamesInv, NEW r \in Requests, E!ArchiveEndpoint(r)
  PROVE  NamesInv'
<1> PICK c : c = req[r].call
  OBVIOUS
<1>1. EndpointCall(c) /\ c.op = "archive" /\ c.id \in DOMAIN endpoint /\ req[r].at = "checked"
  BY DEF E!ArchiveEndpoint, E!Checked, EndpointInv, EndpointRequests, EndpointAt, EndpointCall
<1> PICK row : row = [endpoint[c.id] EXCEPT !.status = "archived"]
  OBVIOUS
<1>2. endpoint' = [endpoint EXCEPT ![c.id] = row] /\ E!Done(r) /\ UNCHANGED policies
  BY DEF E!ArchiveEndpoint
<1>3. WritesRow(c.id, row)
  <2>1. PICK T : endpoint \in Seq(T)
    BY DEF EndpointInv, EndpointTables
  <2> QED
    BY <1>1, <1>2, <2>1 DEF WritesRow
<1>4. IsRow(endpoint[c.id])
  BY <1>1 DEF EndpointInv, EndpointTables, Held
<1>5. /\ row.scope = endpoint[c.id].scope /\ row.name = endpoint[c.id].name
      /\ row.provider = endpoint[c.id].provider /\ row.residency = endpoint[c.id].residency
  BY <1>4 DEF IsRow, Columns
<1>6. E!ResidencyFits(row.provider, row.residency) /\ KeepsName(c.id, row)
  BY <1>1, <1>5 DEF NamesInv, E!NothingMisdeclared, KeepsName
<1> QED
  BY <1>1, <1>2, <1>3, <1>5, <1>6, RowWritten

LEMMA PolicyKeepsNames ==
  ASSUME EndpointInv, NamesInv, NEW r \in Requests, E!CreatePolicy(r)
  PROVE  NamesInv'
<1> PICK c : c = req[r].call
  OBVIOUS
<1>1. CASE E!Fail(r)
  BY <1>1, NamesFail
<1>2. CASE ~E!Fail(r)
  <2>1. /\ policies' = Append(policies, c.arg) /\ E!Done(r) /\ UNCHANGED endpoint
        /\ req[r].at = "checked" /\ c.op = "policy"
    BY <1>2 DEF E!CreatePolicy, E!Checked
  <2>2. PICK T : policies \in Seq(T)
    BY DEF NamesInv
  <2>3. /\ policies' \in Seq(T \cup {c.arg}) /\ Len(policies') = Len(policies) + 1
        /\ \A j \in 1..Len(policies) : policies'[j] = policies[j]
        /\ policies'[Len(policies) + 1] = c.arg
    BY <2>1, <2>2, OneMore
  <2>4. ASSUME ~raced'
        PROVE  OnceIn("global") /\ PoliciesOnce'
    <3>1. NameChecked(req[r]) /\ OnceIn("global") /\ PoliciesOnce
      BY <2>1, <2>4, NamesFresh
    <3>2. \A i \in DOMAIN policies : policies[i] # c.arg
      BY <2>1, <3>1 DEF NameChecked
    <3>3. /\ DOMAIN policies = 1..Len(policies) /\ DOMAIN policies' = 1..(Len(policies) + 1)
          /\ Len(policies) \in Nat
      BY <2>2, <2>3
    <3>4. \A i \in DOMAIN policies' : i \in DOMAIN policies \/ i = Len(policies) + 1
      BY <3>3
    <3> QED
      BY <2>3, <3>1, <3>2, <3>3, <3>4 DEF PoliciesOnce
  <2>5. OnceIn("project")' /\ (OnceIn("global") => OnceIn("global")') /\ E!NothingMisdeclared'
    BY <2>1 DEF NamesInv, OnceIn, E!NothingMisdeclared
  <2> QED
    BY <2>1, <2>3, <2>4, <2>5, NamesEnd
<1> QED
  BY <1>1, <1>2

LEMMA NamesStep == EndpointInv /\ NamesInv /\ [E!Next]_E!vars => NamesInv'
<1> SUFFICES ASSUME EndpointInv, NamesInv, [E!Next]_E!vars
             PROVE  NamesInv'
  OBVIOUS
<1>1. ASSUME NEW r \in Requests, NEW c \in E!Calls, E!Receive(r, c)
      PROVE  NamesInv'
  <2>1. PICK new : /\ new = IF E!Allowed(c)
                            THEN [at |-> "checked", call |-> c, stamp |-> stamp,
                                  row |-> IF c.op \in {"patch", "archive"}
                                          THEN endpoint[c.id] ELSE E!None]
                            ELSE [at |-> "refused"]
    OBVIOUS
  <2>2. req' = [req EXCEPT ![r] = new] /\ UNCHANGED <<endpoint, policies, stamp, raced>>
    BY <1>1, <2>1 DEF E!Receive, E!tables
  <2>3. ASSUME new.at = "checked"
        PROVE  new.stamp = stamp /\ MayDeclare(new) /\ NameChecked(new)
    <3>1. E!Allowed(c)
      BY <2>1, <2>3
    <3>2. /\ new.call = c /\ new.stamp = stamp
          /\ c.op = "patch" => new.row = endpoint[c.id]
      BY <2>1, <3>1
    <3>3. c.op = "create" => E!CreateAllowed(c)
      BY <3>1 DEF E!Allowed, E!CreateAllowed, E!PatchAllowed, E!ArchiveAllowed, E!PolicyAllowed
    <3>4. c.op = "patch" => E!PatchAllowed(c)
      BY <3>1 DEF E!Allowed, E!CreateAllowed, E!PatchAllowed, E!ArchiveAllowed, E!PolicyAllowed
    <3>5. c.op = "policy" => E!PolicyAllowed(c)
      BY <3>1 DEF E!Allowed, E!CreateAllowed, E!PatchAllowed, E!ArchiveAllowed, E!PolicyAllowed
    <3>6. MayDeclare(new)
      BY <3>2, <3>3, <3>4 DEF MayDeclare, E!CreateAllowed, E!PatchAllowed
    <3>7. NameChecked(new)
      BY <3>2, <3>3, <3>4, <3>5
         DEF NameChecked, E!CreateAllowed, E!PatchAllowed, E!PolicyAllowed, E!None, None
    <3> QED
      BY <3>2, <3>6, <3>7
  <2> QED
    BY <2>2, <2>3, NamesRead
<1>2. ASSUME NEW r \in Requests, NEW id \in DOMAIN endpoint, E!LoadConnection(r, id)
      PROVE  NamesInv'
  <2>1. PICK new : new = IF endpoint[id].status = "active"
                         THEN [at |-> "loaded", id |-> id, row |-> endpoint[id]]
                         ELSE [at |-> "refused"]
    OBVIOUS
  <2>2. /\ req' = [req EXCEPT ![r] = new] /\ UNCHANGED <<endpoint, policies, stamp, raced>>
        /\ new.at # "checked"
    BY <1>2, <2>1 DEF E!LoadConnection, E!tables
  <2> QED
    BY <2>2, NamesRead
<1>3. ASSUME NEW r \in Requests, E!SecretFor(r)
      PROVE  NamesInv'
  <2>1. PICK new : new = [at |-> "sent", id |-> req[r].id, pair |-> E!PairOf(req[r].row, secrets)]
    OBVIOUS
  <2>2. /\ req' = [req EXCEPT ![r] = new] /\ UNCHANGED <<endpoint, policies, stamp, raced>>
        /\ new.at # "checked"
    BY <1>3, <2>1 DEF E!SecretFor, E!tables
  <2> QED
    BY <2>2, NamesRead
<1>4. CASE UNCHANGED E!vars
  BY <1>4 DEF E!vars, E!tables, NamesInv, OnceIn, PoliciesOnce, E!NothingMisdeclared, MayDeclare,
              NameChecked, E!NameFree, E!Named
<1> QED
  BY <1>1, <1>2, <1>3, <1>4, CreateKeepsNames, PatchKeepsNames, ArchiveKeepsNames,
     PolicyKeepsNames DEF E!Next

LEMMA AtMostOne ==
  ASSUME NEW X, \A x, y \in X : x = y
  PROVE  Cardinality(X) <= 1
<1>1. CASE X = {}
  BY <1>1, FS_EmptySet
<1>2. CASE X # {}
  <2>1. PICK x : X = {x}
    BY <1>2
  <2> QED
    <3>1. Cardinality({x}) = 1
      BY FS_Singleton
    <3> QED
      BY <2>1, <3>1
<1> QED
  BY <1>1, <1>2

LEMMA NamesAreUnique == NamesInv => E!NamesUnique /\ E!NothingMisdeclared
<1> SUFFICES ASSUME NamesInv
             PROVE  E!NamesUnique /\ E!NothingMisdeclared
  OBVIOUS
<1>1. \A X : E!Cardinality(X) = Cardinality(X)
  BY Zenon DEF E!Cardinality, Cardinality
<1>2. ASSUME NEW scope, OnceIn(scope), NEW n
      PROVE  E!Cardinality(E!Named(scope, n)) <= 1
  <2>1. \A x, y \in E!Named(scope, n) : x = y
    BY <1>2 DEF OnceIn, E!Named
  <2> QED
    BY <1>1, <2>1, AtMostOne
<1> QED
  BY <1>2 DEF NamesInv, E!NamesUnique, PoliciesOnce

(***************************************************************************)
(* Datasets made from files.  Two requests about one name at a time may    *)
(* mix their contents, and the name is in raced from then on; for the      *)
(* other names the request that is under way is the only one, so that what *)
(* it has read is still there when it commits.                             *)
(***************************************************************************)
About(q) == C!Subjects(q.call)
InProgress(q) == q.at \notin C!Ended
RowColumns == {"status", "upload", "conn", "columns", "count", "profile", "label"}
IsAbsent(n) == data[n] = C!Absent
IsDataset(n) == data[n].status # "absent" /\ DOMAIN data[n] = RowColumns

OfOneUpload(n) ==
  /\ data[n].columns = data[n].upload /\ data[n].count = data[n].upload
  /\ data[n].profile = data[n].upload /\ object[n] = data[n].upload
DataInv ==
  /\ DOMAIN data = Names /\ DOMAIN object = Names
  /\ \A n \in Names :
       /\ IsAbsent(n) \/ IsDataset(n)
       /\ C!IsFile(n) => object[n] # C!None /\ (n \notin raced => OfOneUpload(n))

\* A request that is alone with its name.
Undisturbed(q) ==
  LET n == q.call.name
      u == q.call.upload IN
  /\ q.call.op = "load" =>
       /\ IsAbsent(n)
       /\ q.at # "convert" => object[n] = u
       /\ q.at \in {"profile", "checked"} => q.count = u
       /\ q.at = "checked" => q.profile = u
  /\ q.call.op = "reprofile" /\ q.at = "checked" => q.profile = data[n].upload
CatalogAt(q) ==
  InProgress(q) =>
    /\ DOMAIN q = {"at", "call", "row", "count", "profile"} /\ q.call \in C!Calls
    /\ q.call.op = "load" /\ q.at # "convert" => object[q.call.name] # C!None
    /\ q.call.op \in {"label", "reprofile", "archive"} => IsDataset(q.call.name)
    /\ q.call.op = "reprofile" => C!IsFile(q.call.name)
    /\ q.call.op \in {"load", "reprofile"} /\ q.call.name \notin raced => Undisturbed(q)
Alone ==
  \A r, s \in Requests : r # s /\ InProgress(req[r]) /\ InProgress(req[s]) =>
    About(req[r]) \cap About(req[s]) \subseteq raced
CatalogInv == Table /\ DataInv /\ Alone /\ \A r \in Requests : CatalogAt(req[r])

\* What a step of request r may do to the datasets: only those it is about change,
\* none goes away, and no object is deleted.
OwnOnly(r) ==
  \A n \in Names : \/ data'[n] = data[n] /\ object'[n] = object[n]
                   \/ InProgress(req[r]) /\ n \in About(req[r])
NoneGone ==
  \A n \in Names : /\ IsDataset(n) => IsDataset(n)' /\ data'[n].upload = data[n].upload
                   /\ object[n] # C!None => object'[n] # C!None

LEMMA CatalogCall ==
  ASSUME NEW c \in C!Calls
  PROVE  /\ c.op \in {"load", "link", "label", "reprofile", "archive"} =>
              c.name \in Names /\ c.name \in C!Subjects(c)
         /\ c.op = "load" => c.upload \in Uploads
         /\ c.op # "connect" => c.via = NoKey
<1>1. c.op \in {"load", "link", "label", "reprofile", "archive"} =>
        c.name \in Names /\ "name" \in DOMAIN c
  BY DEF C!Calls
<1>2. c.op = "load" => c.upload \in Uploads
  BY DEF C!Calls
<1>3. c.op # "connect" => c.via = NoKey
  BY DEF C!Calls
<1>4. "name" \in DOMAIN c => c.name \in C!Subjects(c)
  BY DEF C!Subjects
<1> QED
  BY <1>1, <1>2, <1>3, <1>4

\* Another request may not be alone any more, and otherwise finds what it found.
LEMMA OthersUndisturbed ==
  ASSUME CatalogInv, NEW r \in Requests, OwnOnly(r), NoneGone, raced \subseteq raced',
         NEW q, q \in {req[s] : s \in Requests \ {r}}
  PROVE  CatalogAt(q)'
<1> SUFFICES ASSUME InProgress(q)
             PROVE  /\ DOMAIN q = {"at", "call", "row", "count", "profile"} /\ q.call \in C!Calls
                    /\ q.call.op = "load" /\ q.at # "convert" => object'[q.call.name] # C!None
                    /\ q.call.op \in {"label", "reprofile", "archive"} => IsDataset(q.call.name)'
                    /\ q.call.op = "reprofile" => C!IsFile(q.call.name)'
                    /\ q.call.op \in {"load", "reprofile"} /\ q.call.name \notin raced' =>
                         Undisturbed(q)'
  BY DEF CatalogAt, InProgress, C!Calls
<1> PICK c, n : c = q.call /\ n = c.name
  OBVIOUS
<1>1. CatalogAt(q) /\ c \in C!Calls
  BY DEF CatalogInv, CatalogAt
<1>2. DOMAIN q = {"at", "call", "row", "count", "profile"}
  BY <1>1 DEF CatalogAt
<1>3. c.op = "load" /\ q.at # "convert" => object'[n] # C!None
  BY <1>1, CatalogCall DEF CatalogAt, NoneGone
<1>4. c.op \in {"label", "reprofile", "archive"} => IsDataset(n)' /\ data'[n].upload = data[n].upload
  BY <1>1, CatalogCall DEF CatalogAt, NoneGone
<1>5. c.op = "reprofile" => C!IsFile(n)'
  <2> HAVE c.op = "reprofile"
  <2>1. C!IsFile(n)
    BY <1>1 DEF CatalogAt
  <2> QED
    BY <1>4, <2>1 DEF C!IsFile, IsDataset
<1>6. c.op \in {"load", "reprofile"} /\ n \notin raced' => Undisturbed(q)'
  <2> HAVE c.op \in {"load", "reprofile"} /\ n \notin raced'
  <2>1. Undisturbed(q)
    BY <1>1 DEF CatalogAt
  <2>2. n \in Names /\ n \in About(q)
    BY <1>1, CatalogCall DEF About
  <2>3. ~(InProgress(req[r]) /\ n \in About(req[r]))
    BY <2>2 DEF CatalogInv, Alone
  <2>4. data'[n] = data[n] /\ object'[n] = object[n]
    BY <2>2, <2>3 DEF OwnOnly
  <2> QED
    BY <2>1, <2>4 DEF Undisturbed, IsAbsent
<1> QED
  BY <1>1, <1>2, <1>3, <1>4, <1>5, <1>6

\* A step of a request: it goes on with the same call, or ends.
LEMMA RequestMoves ==
  ASSUME CatalogInv, NEW r \in Requests, OwnOnly(r), NoneGone, raced' = raced,
         NEW new, req' = [req EXCEPT ![r] = new], CatalogAt(new)',
         InProgress(new) => InProgress(req[r]) /\ new.call = req[r].call,
         DataInv'
  PROVE  CatalogInv'
<1>1. Table' /\ req'[r] = new /\ \A q \in Requests : q # r => req'[q] = req[q]
  BY OneRequest DEF CatalogInv
<1>2. Alone'
  BY <1>1 DEF CatalogInv, Alone, About, InProgress
<1>3. ASSUME NEW s \in Requests
      PROVE  CatalogAt(req[s])'
  <2>1. CASE s = r
    BY <1>1, <2>1
  <2>2. CASE s # r
    <3>1. PICK q : q = req[s] /\ q = req'[s] /\ q \in {req[t] : t \in Requests \ {r}}
      BY <1>1, <1>3, <2>2
    <3>2. CatalogAt(q)'
      BY <3>1, OthersUndisturbed
    <3> QED
      BY <3>1, <3>2
  <2> QED
    BY <2>1, <2>2
<1> QED
  BY <1>1, <1>2, <1>3 DEF CatalogInv

LEMMA DataUntouched ==
  ASSUME CatalogInv, NEW r, UNCHANGED <<data, object>>, raced \subseteq raced'
  PROVE  OwnOnly(r) /\ NoneGone /\ DataInv'
<1>1. OwnOnly(r) /\ NoneGone
  BY DEF OwnOnly, NoneGone, IsDataset
<1>2. DataInv'
  BY DEF CatalogInv, DataInv, IsAbsent, IsDataset, C!IsFile, OfOneUpload
<1> QED
  BY <1>1, <1>2

\* A request ends and has not touched a dataset.
LEMMA RequestEnds ==
  ASSUME CatalogInv, NEW r \in Requests, UNCHANGED <<data, object, raced>>,
         NEW outcome \in C!Ended, req' = [req EXCEPT ![r] = [at |-> outcome]]
  PROVE  CatalogInv'
<1>1. PICK new : new = [at |-> outcome]
  OBVIOUS
<1>2. ~InProgress(new) /\ CatalogAt(new)'
  BY <1>1 DEF InProgress, CatalogAt
<1>3. req' = [req EXCEPT ![r] = new]
  BY <1>1
<1> QED
  BY <1>2, <1>3, DataUntouched, RequestMoves

\* The subjects of those under way are marked when a request joins them.
LEMMA CatalogReceives ==
  ASSUME CatalogInv, NEW r \in Requests, NEW c \in C!Calls, C!Receive(r, c)
  PROVE  CatalogInv'
<1>1. CASE ~C!Allowed(c)
  <2>1. /\ req' = [req EXCEPT ![r] = [at |-> "refused"]] /\ UNCHANGED <<data, object, raced>>
        /\ "refused" \in C!Ended
    BY <1>1 DEF C!Receive, C!tables, C!Ended
  <2> QED
    BY <2>1, RequestEnds
<1>2. CASE C!Allowed(c)
  <2>1. PICK new : new = [at |-> C!FirstStep(c), call |-> c,
               row |-> IF c.op \in {"repoint", "test"} THEN conn[c.conn] ELSE C!None,
               count |-> C!None, profile |-> C!None]
    OBVIOUS
  <2>2. /\ req' = [req EXCEPT ![r] = new] /\ UNCHANGED <<data, object>>
        /\ raced' = raced \cup (C!Subjects(c) \cap C!SubjectsInProgress)
        /\ req[r] = C!Idle
    BY <1>2, <2>1 DEF C!Receive, C!tables
  <2>3. Table' /\ req'[r] = new /\ \A q \in Requests : q # r => req'[q] = req[q]
    BY <2>2, OneRequest DEF CatalogInv
  <2>4. OwnOnly(r) /\ NoneGone /\ DataInv' /\ raced \subseteq raced'
    BY <2>2, DataUntouched
  <2>5. new.call = c /\ new.at = C!FirstStep(c)
        /\ DOMAIN new = {"at", "call", "row", "count", "profile"}
    BY <2>1
  <2>6. Alone'
    <3>1. ASSUME NEW s \in Requests, s # r, InProgress(req[s])
          PROVE  About(req[s]) \subseteq C!SubjectsInProgress
      BY <3>1 DEF About, InProgress, C!SubjectsInProgress
    <3>2. ASSUME NEW s \in Requests, NEW t \in Requests, s # t,
                 InProgress(req[s])', InProgress(req[t])'
          PROVE  About(req[s])' \cap About(req[t])' \subseteq raced'
      <4>1. CASE s = r
        <5>1. req'[t] = req[t] /\ InProgress(req[t]) /\ About(req[t])' = About(req[t])
          BY <2>3, <3>2, <4>1 DEF InProgress, About
        <5>2. About(req[s])' = C!Subjects(c)
          BY <2>3, <2>5, <4>1 DEF About
        <5> QED
          BY <2>2, <3>1, <3>2, <4>1, <5>1, <5>2
      <4>2. CASE t = r
        <5>1. req'[s] = req[s] /\ InProgress(req[s]) /\ About(req[s])' = About(req[s])
          BY <2>3, <3>2, <4>2 DEF InProgress, About
        <5>2. About(req[t])' = C!Subjects(c)
          BY <2>3, <2>5, <4>2 DEF About
        <5> QED
          BY <2>2, <3>1, <3>2, <4>2, <5>1, <5>2
      <4>3. CASE s # r /\ t # r
        <5>1. /\ req'[s] = req[s] /\ req'[t] = req[t] /\ InProgress(req[s]) /\ InProgress(req[t])
              /\ About(req[s])' = About(req[s]) /\ About(req[t])' = About(req[t])
          BY <2>3, <3>2, <4>3 DEF InProgress, About
        <5> QED
          BY <2>2, <3>2, <5>1 DEF CatalogInv, Alone
      <4> QED
        BY <4>1, <4>2, <4>3
    <3> QED
      BY <3>2 DEF Alone
  <2>7. CatalogAt(new)'
    <3> PICK n : n = c.name
      OBVIOUS
    <3>1. c.op = "load" => new.at = "convert" /\ IsAbsent(n)
      <4>1. c.op = "load" => C!LoadAllowed(c)
        BY <1>2 DEF C!Allowed, C!ConnectAllowed, C!RepointAllowed, C!DisconnectAllowed,
                    C!LoadAllowed, C!LinkAllowed, C!EditAllowed
      <4> QED
        BY <2>5, <4>1 DEF C!LoadAllowed, C!FirstStep, IsAbsent
    <3>2. c.op \in {"label", "reprofile", "archive"} => C!IsActive(n)
      BY <1>2 DEF C!Allowed, C!ConnectAllowed, C!RepointAllowed, C!DisconnectAllowed,
                  C!LoadAllowed, C!LinkAllowed, C!EditAllowed
    <3>3. c.op = "reprofile" => data[n].upload # C!None /\ new.at = "measure"
      <4>1. c.op = "reprofile" => C!EditAllowed(c)
        BY <1>2 DEF C!Allowed, C!ConnectAllowed, C!RepointAllowed, C!DisconnectAllowed,
                    C!LoadAllowed, C!LinkAllowed, C!EditAllowed
      <4> QED
        BY <2>5, <4>1 DEF C!EditAllowed, C!FirstStep
    <3>4. c.op \in {"label", "reprofile", "archive"} => IsDataset(n)
      <4>1. c.op \in {"label", "reprofile", "archive"} => n \in Names
        BY CatalogCall
      <4> QED
        BY <3>2, <4>1 DEF CatalogInv, DataInv, IsAbsent, C!Absent, C!IsActive
    <3>5. c.op = "reprofile" => C!IsFile(n)
      BY <3>3, <3>4 DEF C!IsFile, IsDataset
    <3>6. CatalogAt(new)
      BY <2>5, <3>1, <3>3, <3>4, <3>5 DEF CatalogAt, Undisturbed
    <3>7. c \in C!Calls' 
      BY DEF C!Calls
    <3> QED
      BY <2>2, <2>5, <3>1, <3>3, <3>4, <3>5, <3>7
         DEF CatalogAt, Undisturbed, IsAbsent, IsDataset, C!IsFile, InProgress
  <2>8. ASSUME NEW s \in Requests
        PROVE  CatalogAt(req[s])'
    <3>1. CASE s = r
      BY <2>3, <2>7, <3>1
    <3>2. CASE s # r
      <4>1. PICK q : q = req[s] /\ q = req'[s] /\ q \in {req[t] : t \in Requests \ {r}}
        BY <2>3, <2>8, <3>2
      <4>2. CatalogAt(q)'
        BY <2>4, <4>1, OthersUndisturbed
      <4> QED
        BY <4>1, <4>2
    <3> QED
      BY <3>1, <3>2
  <2> QED
    BY <2>3, <2>4, <2>6, <2>8 DEF CatalogInv
<1> QED
  BY <1>1, <1>2

\* What is known of a request under way.
LEMMA UnderWay ==
  ASSUME CatalogInv, NEW r \in Requests, InProgress(req[r]), NEW n, n = req[r].call.name,
         req[r].call.op \in {"load", "link", "label", "reprofile", "archive"}
  PROVE  /\ CatalogAt(req[r]) /\ req[r].call \in C!Calls /\ n \in Names /\ n \in About(req[r])
         /\ DOMAIN req[r] = {"at", "call", "row", "count", "profile"}
         /\ IsAbsent(n) \/ IsDataset(n)
BY CatalogCall DEF CatalogInv, CatalogAt, DataInv, About

\* A conversion writes the object of a name that may have no row yet.
LEMMA ConvertKeepsInv ==
  ASSUME C!None \notin Uploads, CatalogInv, NEW r \in Requests, C!Convert(r)
  PROVE  CatalogInv'
<1> PICK q, n, u : q = req[r] /\ n = q.call.name /\ u = q.call.upload
  OBVIOUS
<1>1. CASE C!Fail(r)
  BY <1>1, RequestEnds DEF C!Fail, C!tables, C!Ended
<1>2. CASE ~C!Fail(r)
  <2>1. /\ q.at = "convert" /\ q.call.op = "load" /\ InProgress(q)
        /\ object' = [object EXCEPT ![n] = u]
        /\ req' = [req EXCEPT ![r].at = "count"]
        /\ UNCHANGED <<data, raced>>
    BY <1>2 DEF C!Convert, C!At, C!tables, InProgress, C!Ended
  <2>2. /\ CatalogAt(q) /\ q.call \in C!Calls /\ n \in Names /\ n \in About(q)
        /\ DOMAIN q = {"at", "call", "row", "count", "profile"}
    BY <2>1, UnderWay
  <2>3. u \in Uploads /\ u # C!None
    BY <2>1, <2>2, CatalogCall
  <2>4. object'[n] = u /\ (\A m \in Names : m # n => object'[m] = object[m]) /\ DOMAIN object' = Names
    BY <2>1, <2>2 DEF CatalogInv, DataInv
  <2>5. n \notin raced => IsAbsent(n)
    BY <2>1, <2>2 DEF CatalogAt, Undisturbed
  <2>6. OwnOnly(r) /\ NoneGone
    BY <2>1, <2>2, <2>3, <2>4 DEF OwnOnly, NoneGone, IsDataset
  <2>7. DataInv'
    <3>1. ASSUME NEW m \in Names
          PROVE  /\ IsAbsent(m)' \/ IsDataset(m)'
                 /\ C!IsFile(m)' => object'[m] # C!None /\ (m \notin raced' => OfOneUpload(m)')
      <4>1. CASE m = n
        BY <2>1, <2>2, <2>3, <2>4, <2>5, <4>1
           DEF CatalogInv, DataInv, IsAbsent, IsDataset, C!IsFile, C!Absent
      <4>2. CASE m # n
        BY <2>1, <2>4, <4>2 DEF CatalogInv, DataInv, IsAbsent, IsDataset, C!IsFile, OfOneUpload
      <4> QED
        BY <4>1, <4>2
    <3> QED
      BY <2>1, <2>4, <3>1 DEF DataInv, CatalogInv
  <2>8. PICK new : /\ req' = [req EXCEPT ![r] = new] /\ new.call = q.call /\ new.at = "count"
                   /\ DOMAIN new = {"at", "call", "row", "count", "profile"}
    <3>1. PICK new : new = [q EXCEPT !.at = "count"]
      OBVIOUS
    <3>2. req' = [req EXCEPT ![r] = new]
      BY <2>1, <3>1
    <3>3. /\ new.call = q.call /\ new.at = "count"
          /\ DOMAIN new = {"at", "call", "row", "count", "profile"}
      BY <2>2, <3>1
    <3> QED
      BY <3>2, <3>3
  <2>9. CatalogAt(new)'
    <3>1. q.call \in C!Calls'
      BY <2>2 DEF C!Calls
    <3> QED
      BY <2>1, <2>3, <2>4, <2>5, <2>8, <3>1 DEF CatalogAt, Undisturbed, IsAbsent, InProgress
  <2> QED
    BY <2>1, <2>6, <2>7, <2>8, <2>9, RequestMoves
<1> QED
  BY <1>1, <1>2

\* Three steps take one measure of the object, and a request notes it.
Measures(r) ==
  LET n == req[r].call.name IN
  /\ UNCHANGED <<data, object, raced>> /\ InProgress(req[r])
  /\ \/ /\ req[r].call.op = "load" /\ req[r].at = "count"
        /\ req' = [req EXCEPT ![r] = [req[r] EXCEPT !.at = "profile", !.count = object[n]]]
     \/ /\ req[r].call.op = "load" /\ req[r].at = "profile"
        /\ req' = [req EXCEPT ![r] = [req[r] EXCEPT !.at = "checked", !.profile = object[n]]]
     \/ /\ req[r].call.op = "reprofile" /\ req[r].at = "measure"
        /\ req' = [req EXCEPT ![r] = [req[r] EXCEPT !.at = "checked", !.profile = object[n]]]

LEMMA MeasuresKeepInv ==
  ASSUME CatalogInv, NEW r \in Requests, Measures(r)
  PROVE  CatalogInv'
<1> PICK q, n, u : q = req[r] /\ n = q.call.name /\ u = q.call.upload
  OBVIOUS
<1>1. /\ CatalogAt(q) /\ q.call \in C!Calls /\ n \in Names
      /\ DOMAIN q = {"at", "call", "row", "count", "profile"}
  BY UnderWay DEF Measures
<1>2. InProgress(q) /\ q.call.op \in {"load", "reprofile"} /\ UNCHANGED <<data, object, raced>>
  BY DEF Measures
<1>3. q.call.op = "load" => object[n] # C!None \/ q.at = "convert"
  BY <1>1, <1>2 DEF CatalogAt
<1>4. q.call.op = "reprofile" => IsDataset(n) /\ C!IsFile(n)
  BY <1>1, <1>2 DEF CatalogAt
<1>5. n \notin raced => Undisturbed(q)
  BY <1>1, <1>2 DEF CatalogAt
<1>6. q.call.op = "reprofile" /\ n \notin raced => object[n] = data[n].upload
  BY <1>1, <1>4 DEF CatalogInv, DataInv, OfOneUpload
<1>7. q.call \in C!Calls'
  BY <1>1 DEF C!Calls
<1>8. OwnOnly(r) /\ NoneGone /\ DataInv'
  BY <1>2, DataUntouched
<1>9. ASSUME NEW new, new.call = q.call, DOMAIN new = {"at", "call", "row", "count", "profile"},
             new.at = "profile" /\ new.count = object[n] /\ q.at = "count" /\ q.call.op = "load",
             req' = [req EXCEPT ![r] = new]
      PROVE  CatalogInv'
  <2>1. CatalogAt(new)'
    BY <1>2, <1>3, <1>5, <1>7, <1>9 DEF CatalogAt, Undisturbed, IsAbsent
  <2> QED
    BY <1>2, <1>8, <1>9, <2>1, RequestMoves
<1>10. ASSUME NEW new, new.call = q.call, DOMAIN new = {"at", "call", "row", "count", "profile"},
              new.at = "checked" /\ new.profile = object[n] /\ new.count = q.count,
              (q.at = "profile" /\ q.call.op = "load") \/ q.call.op = "reprofile",
              req' = [req EXCEPT ![r] = new]
       PROVE  CatalogInv'
  <2>1. CASE q.at = "profile" /\ q.call.op = "load"
    <3>1. CatalogAt(new)'
      BY <1>2, <1>3, <1>5, <1>7, <1>10, <2>1 DEF CatalogAt, Undisturbed, IsAbsent
    <3> QED
      BY <1>2, <1>8, <1>10, <3>1, RequestMoves
  <2>2. CASE q.call.op = "reprofile"
    <3>1. CatalogAt(new)'
      BY <1>2, <1>4, <1>6, <1>7, <1>10, <2>2
         DEF CatalogAt, Undisturbed, IsDataset, C!IsFile
    <3> QED
      BY <1>2, <1>8, <1>10, <3>1, RequestMoves
  <2> QED
    BY <1>10, <2>1, <2>2
<1>11. CASE /\ q.call.op = "load" /\ q.at = "count"
            /\ req' = [req EXCEPT ![r] = [q EXCEPT !.at = "profile", !.count = object[n]]]
  <2>1. PICK new : new = [q EXCEPT !.at = "profile", !.count = object[n]]
    OBVIOUS
  <2>2. /\ new.call = q.call /\ new.at = "profile" /\ new.count = object[n]
        /\ DOMAIN new = {"at", "call", "row", "count", "profile"}
    BY <1>1, <2>1
  <2>3. req' = [req EXCEPT ![r] = new]
    BY <1>11, <2>1
  <2> QED
    BY <1>9, <1>11, <2>2, <2>3
<1>12. CASE /\ (q.at = "profile" /\ q.call.op = "load") \/ q.call.op = "reprofile"
            /\ req' = [req EXCEPT ![r] = [q EXCEPT !.at = "checked", !.profile = object[n]]]
  <2>1. PICK new : new = [q EXCEPT !.at = "checked", !.profile = object[n]]
    OBVIOUS
  <2>2. /\ new.call = q.call /\ new.at = "checked" /\ new.profile = object[n]
        /\ new.count = q.count /\ DOMAIN new = {"at", "call", "row", "count", "profile"}
    BY <1>1, <2>1
  <2>3. req' = [req EXCEPT ![r] = new]
    BY <1>12, <2>1
  <2> QED
    BY <1>10, <1>12, <2>2, <2>3
<1> QED
  BY <1>11, <1>12 DEF Measures

\* A request commits a change to the row of its name.
LEMMA RowChanges ==
  ASSUME CatalogInv, NEW r \in Requests, InProgress(req[r]), NEW n, n = req[r].call.name,
         req[r].call.op \in {"load", "link", "label", "reprofile", "archive"},
         NEW row, data' = [data EXCEPT ![n] = row], UNCHANGED <<object, raced>>,
         req' = [req EXCEPT ![r] = [at |-> "done"]],
         row.status # "absent", DOMAIN row = RowColumns,
         IsDataset(n) => row.upload = data[n].upload,
         row.upload # C!None =>
           /\ object[n] # C!None
           /\ n \notin raced => /\ row.columns = row.upload /\ row.count = row.upload
                                /\ row.profile = row.upload /\ object[n] = row.upload
  PROVE  CatalogInv'
<1>1. n \in Names /\ n \in About(req[r])
  BY UnderWay
<1>2. data'[n] = row /\ (\A m \in Names : m # n => data'[m] = data[m]) /\ DOMAIN data' = Names
  BY <1>1 DEF CatalogInv, DataInv
<1>3. OwnOnly(r)
  BY <1>1, <1>2 DEF OwnOnly
<1>4. NoneGone
  BY <1>2 DEF NoneGone, IsDataset
<1>5. DataInv'
  <2>1. ASSUME NEW m \in Names
        PROVE  /\ IsAbsent(m)' \/ IsDataset(m)'
               /\ C!IsFile(m)' => object'[m] # C!None /\ (m \notin raced' => OfOneUpload(m)')
    <3>1. CASE m = n
      BY <1>2, <3>1 DEF IsDataset, C!IsFile, OfOneUpload
    <3>2. CASE m # n
      BY <1>2, <3>2 DEF CatalogInv, DataInv, IsAbsent, IsDataset, C!IsFile, OfOneUpload
    <3> QED
      BY <3>1, <3>2
  <2> QED
    BY <1>2, <2>1 DEF DataInv, CatalogInv
<1>6. PICK new : new = [at |-> "done"]
  OBVIOUS
<1>7. ~InProgress(new) /\ CatalogAt(new)' /\ req' = [req EXCEPT ![r] = new]
  BY <1>6 DEF InProgress, CatalogAt, C!Ended
<1> QED
  BY <1>3, <1>4, <1>5, <1>7, RequestMoves

LEMMA CreateDatasetKeepsInv ==
  ASSUME C!None \notin Uploads, CatalogInv, NEW r \in Requests, C!CreateDataset(r)
  PROVE  CatalogInv'
<1> PICK q, c, n : q = req[r] /\ c = q.call /\ n = c.name
  OBVIOUS
<1>1. CASE C!Fail(r)
  BY <1>1, RequestEnds DEF C!Fail, C!tables, C!Ended
<1>2. CASE ~C!Fail(r)
  <2>1. /\ InProgress(q) /\ q.at = "checked" /\ c.op \in {"load", "link"}
        /\ data[n] = C!Absent
        /\ data' = [data EXCEPT ![n] =
             IF c.op = "load" THEN C!Row(c.upload, C!None, q)
             ELSE C!Row(C!None, c.conn, [count |-> C!None, profile |-> C!None])]
        /\ UNCHANGED <<object, raced>>
        /\ req' = [req EXCEPT ![r] = [at |-> "done"]]
    BY <1>2 DEF C!CreateDataset, C!At, C!NameTaken, C!Done, InProgress, C!Ended
  <2>2. CatalogAt(q) /\ c \in C!Calls /\ n \in Names
    BY <2>1, UnderWay
  <2>3. ~IsDataset(n)
    BY <2>1 DEF IsDataset, C!Absent
  <2>4. CASE c.op = "load"
    <3>1. PICK row : row = C!Row(c.upload, C!None, q)
      OBVIOUS
    <3>2. DOMAIN row = RowColumns /\ row.status = "active"
      BY <3>1 DEF C!Row, RowColumns
    <3>3. row.upload = c.upload /\ row.columns = c.upload /\ row.count = q.count
          /\ row.profile = q.profile
      BY <3>1 DEF C!Row
    <3>4. data' = [data EXCEPT ![n] = row]
      BY <2>1, <2>4, <3>1
    <3>5. object[n] # C!None /\ (n \notin raced => Undisturbed(q))
      BY <2>1, <2>2, <2>4 DEF CatalogAt
    <3>6. n \notin raced => q.count = c.upload /\ q.profile = c.upload /\ object[n] = c.upload
      BY <2>1, <2>4, <3>5 DEF Undisturbed
    <3> QED
      <4>1. row.upload # C!None =>
              /\ object[n] # C!None
              /\ n \notin raced => /\ row.columns = row.upload /\ row.count = row.upload
                                   /\ row.profile = row.upload /\ object[n] = row.upload
        BY <3>3, <3>5, <3>6
      <4>2. /\ InProgress(req[r]) /\ n = req[r].call.name
            /\ req[r].call.op \in {"load", "link", "label", "reprofile", "archive"}
        BY <2>1
      <4>3. row.status # "absent"
        BY <3>2
      <4> QED
        BY <2>1, <2>3, <3>2, <3>4, <4>1, <4>2, <4>3, RowChanges
  <2>5. CASE c.op = "link"
    <3>1. PICK row : row = C!Row(C!None, c.conn, [count |-> C!None, profile |-> C!None])
      OBVIOUS
    <3>2. DOMAIN row = RowColumns /\ row.status = "active" /\ row.upload = C!None
      BY <3>1 DEF C!Row, RowColumns
    <3>3. data' = [data EXCEPT ![n] = row]
      BY <2>1, <2>5, <3>1
    <3> QED
      <4>1. /\ InProgress(req[r]) /\ n = req[r].call.name
            /\ req[r].call.op \in {"load", "link", "label", "reprofile", "archive"}
        BY <2>1
      <4>2. row.status # "absent"
        BY <3>2
      <4> QED
        BY <2>1, <2>3, <3>2, <3>3, <4>1, <4>2, RowChanges
  <2> QED
    BY <2>1, <2>4, <2>5
<1> QED
  BY <1>1, <1>2

\* A row of which the label, the status or the measures are written.
LEMMA EditKeepsInv ==
  ASSUME CatalogInv, NEW r \in Requests,
         C!PatchColumns(r) \/ C!RecomputeProfile(r) \/ C!ArchiveDataset(r)
  PROVE  CatalogInv'
<1> PICK q, c, n : q = req[r] /\ c = q.call /\ n = c.name
  OBVIOUS
<1>1. /\ InProgress(q) /\ q.at = "checked" /\ c.op \in {"label", "reprofile", "archive"}
      /\ UNCHANGED <<object, raced>> /\ req' = [req EXCEPT ![r] = [at |-> "done"]]
  BY DEF C!PatchColumns, C!RecomputeProfile, C!ArchiveDataset, C!At, C!Done, InProgress, C!Ended
<1>2. CatalogAt(q) /\ c \in C!Calls /\ n \in Names
  BY <1>1, UnderWay
<1>3. IsDataset(n) /\ data[n].status # "absent" /\ DOMAIN data[n] = RowColumns
  BY <1>1, <1>2 DEF CatalogAt, IsDataset
<1>4. data[n].upload # C!None =>
        object[n] # C!None /\ (n \notin raced => OfOneUpload(n))
  BY <1>2, <1>3 DEF CatalogInv, DataInv, C!IsFile
<1>5. ASSUME NEW row, row.status # "absent", DOMAIN row = RowColumns,
             row.upload = data[n].upload, row.columns = data[n].columns,
             \/ row.count = data[n].count /\ row.profile = data[n].profile
             \/ c.op = "reprofile" /\ row.count = q.profile /\ row.profile = q.profile,
             data' = [data EXCEPT ![n] = row]
      PROVE  CatalogInv'
  <2>1. c.op = "reprofile" /\ n \notin raced => q.profile = data[n].upload
    BY <1>1, <1>2 DEF CatalogAt, Undisturbed
  <2>2. row.upload # C!None =>
           /\ object[n] # C!None
           /\ n \notin raced => /\ row.columns = row.upload /\ row.count = row.upload
                                /\ row.profile = row.upload /\ object[n] = row.upload
    BY <1>4, <1>5, <2>1 DEF OfOneUpload
  <2> QED
    BY <1>1, <1>5, <2>2, RowChanges
<1>6. CASE C!PatchColumns(r)
  <2>1. PICK label : data' = [data EXCEPT ![n].label = label]
    BY <1>6 DEF C!PatchColumns
  <2>2. PICK row : row = [data[n] EXCEPT !.label = label]
    OBVIOUS
  <2>3. data' = [data EXCEPT ![n] = row]
    BY <2>1, <2>2
  <2>4. /\ DOMAIN row = RowColumns /\ row.status = data[n].status
        /\ row.upload = data[n].upload /\ row.columns = data[n].columns
        /\ row.count = data[n].count /\ row.profile = data[n].profile
    BY <1>3, <2>2 DEF RowColumns
  <2> QED
    BY <1>3, <1>5, <2>3, <2>4
<1>7. CASE C!RecomputeProfile(r)
  <2>1. /\ data' = [data EXCEPT ![n].profile = q.profile, ![n].count = q.profile]
        /\ c.op = "reprofile"
    BY <1>7 DEF C!RecomputeProfile, C!At
  <2>2. PICK row : row = [data[n] EXCEPT !.profile = q.profile, !.count = q.profile]
    OBVIOUS
  <2>3. data' = [data EXCEPT ![n] = row]
    BY <1>2, <2>1, <2>2 DEF CatalogInv, DataInv
  <2>4. /\ DOMAIN row = RowColumns /\ row.status = data[n].status
        /\ row.upload = data[n].upload /\ row.columns = data[n].columns
        /\ row.count = q.profile /\ row.profile = q.profile
    BY <1>3, <2>2 DEF RowColumns
  <2> QED
    BY <1>3, <1>5, <2>1, <2>3, <2>4
<1>8. CASE C!ArchiveDataset(r)
  <2>1. data' = [data EXCEPT ![n].status = "archived"]
    BY <1>8 DEF C!ArchiveDataset
  <2>2. PICK row : row = [data[n] EXCEPT !.status = "archived"]
    OBVIOUS
  <2>3. data' = [data EXCEPT ![n] = row]
    BY <2>1, <2>2
  <2>4. /\ DOMAIN row = RowColumns /\ row.status = "archived"
        /\ row.upload = data[n].upload /\ row.columns = data[n].columns
        /\ row.count = data[n].count /\ row.profile = data[n].profile
    BY <1>3, <2>2 DEF RowColumns
  <2> QED
    BY <1>3, <1>5, <2>3, <2>4
<1> QED
  BY <1>6, <1>7, <1>8

LEMMA CatalogStart == C!Init => CatalogInv
<1> SUFFICES ASSUME C!Init
             PROVE  CatalogInv
  OBVIOUS
<1>1. Table /\ \A r \in Requests : ~InProgress(req[r])
  BY DEF C!Init, C!Idle, C!Ended, Table, InProgress
<1>2. DataInv
  BY DEF C!Init, DataInv, IsAbsent, C!IsFile, C!Absent
<1> QED
  BY <1>1, <1>2 DEF CatalogInv, Alone, CatalogAt

LEMMA CatalogStep ==
  ASSUME C!None \notin Uploads
  PROVE  CatalogInv /\ [C!Next]_C!vars => CatalogInv'
<1> SUFFICES ASSUME CatalogInv, [C!Next]_C!vars
             PROVE  CatalogInv'
  OBVIOUS
<1>1. ASSUME UNCHANGED <<data, object, req, raced>>
      PROVE  CatalogInv'
  <2>1. DataInv'
    BY <1>1, DataUntouched DEF CatalogInv, DataInv, IsAbsent, IsDataset, C!IsFile, OfOneUpload
  <2>2. Table' /\ Alone'
    BY <1>1 DEF CatalogInv, Table, Alone, About, InProgress
  <2>3. ASSUME NEW r \in Requests
        PROVE  CatalogAt(req[r])'
    <3>1. CatalogAt(req[r])
      BY DEF CatalogInv
    <3>2. C!Calls' = C!Calls
      BY DEF C!Calls
    <3> QED
      BY <1>1, <3>1, <3>2 DEF CatalogAt, InProgress, IsDataset, IsAbsent, C!IsFile, Undisturbed
  <2> QED
    BY <2>1, <2>2, <2>3 DEF CatalogInv
<1>2. ASSUME NEW u \in Uploads, C!PutRaw(u) \/ C!PutMeta(u) \/ C!PruneUpload(u)
      PROVE  CatalogInv'
  BY <1>1, <1>2 DEF C!PutRaw, C!PutMeta, C!PruneUpload, C!tables
<1>3. ASSUME NEW r \in Requests, NEW c \in C!Calls, C!Receive(r, c)
      PROVE  CatalogInv'
  BY <1>3, CatalogReceives
<1>4. ASSUME NEW r \in Requests,
             C!CreateConnection(r) \/ C!PatchConnection(r) \/ C!ArchiveConnection(r)
               \/ C!TestConnection(r)
      PROVE  CatalogInv'
  <2>1. UNCHANGED <<data, object, raced>>
    BY <1>4 DEF C!CreateConnection, C!PatchConnection, C!ArchiveConnection, C!TestConnection,
                C!Fail, C!Done, C!tables
  <2>2. \E outcome \in C!Ended : req' = [req EXCEPT ![r] = [at |-> outcome]]
    BY <1>4 DEF C!CreateConnection, C!PatchConnection, C!ArchiveConnection, C!TestConnection,
                C!Fail, C!Done, C!Ended
  <2> QED
    BY <2>1, <2>2, RequestEnds
<1>5. ASSUME NEW r \in Requests, C!CountRows(r) \/ C!ProfileParquet(r) \/ C!Measure(r)
      PROVE  CatalogInv'
  <2>1. /\ UNCHANGED <<data, object, raced>> /\ InProgress(req[r])
    BY <1>5 DEF C!CountRows, C!ProfileParquet, C!Measure, C!At, C!tables, InProgress, C!Ended
  <2>2. CASE C!CountRows(r)
    BY <2>1, <2>2, MeasuresKeepInv DEF Measures, C!CountRows, C!At
  <2>3. CASE C!ProfileParquet(r)
    BY <2>1, <2>3, MeasuresKeepInv DEF Measures, C!ProfileParquet, C!At
  <2>4. CASE C!Measure(r)
    BY <2>1, <2>4, MeasuresKeepInv DEF Measures, C!Measure, C!At
  <2> QED
    BY <1>5, <2>2, <2>3, <2>4
<1>6. CASE UNCHANGED C!vars
  BY <1>1, <1>6 DEF C!vars, C!tables
<1> QED
  BY <1>2, <1>3, <1>4, <1>5, <1>6, ConvertKeepsInv, CreateDatasetKeepsInv, EditKeepsInv
     DEF C!Next

LEMMA CatalogKeys ==
  /\ \A u, k, h, v : C!Keep(kept, u, k, h, v) = Keep(kept, u, k, h, v)
  /\ \A u, k : C!KeyTaken(kept, u, k) = KeyTaken(kept, u, k)
  /\ \A u, k : C!CountEffect(effects, u, k) = CountEffect(effects, u, k)
<1>1. \A u, k, h, v : C!Keep(kept, u, k, h, v) = Keep(kept, u, k, h, v)
  BY Zenon DEF C!Keep, C!Put, Keep, Put
<1>2. \A u, k : C!KeyTaken(kept, u, k) = KeyTaken(kept, u, k)
  BY DEF C!KeyTaken, C!FreshKey, KeyTaken, FreshKey
<1>3. \A u, k : C!CountEffect(effects, u, k) = CountEffect(effects, u, k)
  BY Zenon DEF C!CountEffect, C!Put, CountEffect, Put
<1> QED
  BY <1>1, <1>2, <1>3

\* Only a connection is created with a key.
LEMMA CatalogCommits ==
  ASSUME CatalogInv, OneEffectPerKey, NEW r \in Requests, C!Done(r),
         InProgress(req[r]), req[r].call.op # "connect", kept' = kept
  PROVE  OneEffectPerKey'
<1>1. req[r].call.via = NoKey
  BY CatalogCall DEF CatalogInv, CatalogAt
<1>2. effects' = CountEffect(effects, req[r].call.user, req[r].call.via)
  BY CatalogKeys DEF C!Done
<1> QED
  BY <1>1, <1>2, CommitKeepsKeys

LEMMA CatalogKeysStep ==
  CatalogInv /\ OneEffectPerKey /\ [C!Next]_C!vars => OneEffectPerKey'
<1> SUFFICES ASSUME CatalogInv, OneEffectPerKey, [C!Next]_C!vars
             PROVE  OneEffectPerKey'
  OBVIOUS
<1>1. ASSUME NEW u \in Uploads, C!PutRaw(u) \/ C!PutMeta(u) \/ C!PruneUpload(u)
      PROVE  OneEffectPerKey'
  BY <1>1, NothingCommitted DEF C!PutRaw, C!PutMeta, C!PruneUpload, C!tables
<1>2. ASSUME NEW r \in Requests, NEW c \in C!Calls, C!Receive(r, c)
      PROVE  OneEffectPerKey'
  BY <1>2, NothingCommitted DEF C!Receive, C!tables
<1>3. ASSUME NEW r \in Requests,
             C!TestConnection(r) \/ C!Convert(r) \/ C!CountRows(r) \/ C!ProfileParquet(r)
               \/ C!Measure(r)
      PROVE  OneEffectPerKey'
  BY <1>3, NothingCommitted
     DEF C!TestConnection, C!Convert, C!CountRows, C!ProfileParquet, C!Measure, C!Fail, C!tables
<1>4. ASSUME NEW r \in Requests, C!Fail(r)
      PROVE  OneEffectPerKey'
  BY <1>4, NothingCommitted DEF C!Fail, C!tables
<1>5. ASSUME NEW r \in Requests, C!CreateConnection(r), ~C!Fail(r)
      PROVE  OneEffectPerKey'
  <2> PICK c : c = req[r].call
    OBVIOUS
  <2>1. /\ ~C!KeyTaken(kept, c.user, c.via)
        /\ kept' = C!Keep(kept, c.user, c.via, c, c.conn)
        /\ effects' = C!CountEffect(effects, c.user, c.via)
    BY <1>5 DEF C!CreateConnection, C!Done
  <2>2. /\ ~KeyTaken(kept, c.user, c.via)
        /\ kept' = Keep(kept, c.user, c.via, c, c.conn)
        /\ effects' = CountEffect(effects, c.user, c.via)
    BY <2>1, CatalogKeys
  <2> QED
    BY <2>2, CommitKeepsKeys
<1>6. ASSUME NEW r \in Requests,
             C!PatchConnection(r) \/ C!ArchiveConnection(r) \/ C!CreateDataset(r)
               \/ C!PatchColumns(r) \/ C!RecomputeProfile(r) \/ C!ArchiveDataset(r),
             ~C!Fail(r)
      PROVE  OneEffectPerKey'
  <2>1. /\ C!Done(r) /\ kept' = kept /\ InProgress(req[r]) /\ req[r].call.op # "connect"
    BY <1>6 DEF C!PatchConnection, C!ArchiveConnection, C!CreateDataset, C!PatchColumns,
                C!RecomputeProfile, C!ArchiveDataset, C!At, InProgress, C!Ended
  <2> QED
    BY <2>1, CatalogCommits
<1>7. CASE UNCHANGED C!vars
  BY <1>7, NothingCommitted DEF C!vars, C!tables
<1> QED
  BY <1>1, <1>2, <1>3, <1>4, <1>5, <1>6, <1>7 DEF C!Next

(***************************************************************************)
(* The connection of an active dataset.  Whoever archives a connection or  *)
(* makes a dataset of it has checked the other table before, and what was  *)
(* found there still holds for a request that is alone with it.            *)
(***************************************************************************)
Feeds(c, n) == data[n].status = "active" /\ data[n].conn = c
ConnRows == DOMAIN conn = Conns /\ \A c \in Conns : "status" \in DOMAIN conn[c]
SourceAt(q) ==
  InProgress(q) =>
    /\ q.call.op = "link" /\ q.call.conn \notin raced => conn[q.call.conn].status = "active"
    /\ q.call.op = "disconnect" /\ q.call.conn \notin raced =>
         \A n \in Names : ~Feeds(q.call.conn, n)
SourceInv == ConnRows /\ C!SourceStaysActive /\ \A r \in Requests : SourceAt(req[r])

LEMMA ConnectionCall ==
  ASSUME NEW c \in C!Calls, c.op \in {"connect", "repoint", "disconnect", "link"}
  PROVE  c.conn \in Conns /\ c.conn \in C!Subjects(c)
<1>1. c.conn \in Conns /\ "conn" \in DOMAIN c
  BY DEF C!Calls
<1> QED
  BY <1>1 DEF C!Subjects

LEMMA InUseFeeds == \A c : C!InUse(c) <=> \E n \in Names : Feeds(c, n)
BY DEF C!InUse, C!Uses, Feeds

\* A step of one request: it begins to use only a connection of its own that is active,
\* and archives only one of its own that nothing uses.
LEMMA SourceMoves ==
  ASSUME CatalogInv, SourceInv, NEW r \in Requests, raced \subseteq raced',
         NEW new, req' = [req EXCEPT ![r] = new], SourceAt(new)', ConnRows',
         \A c \in Conns \ raced' : \A n \in Names : Feeds(c, n)' =>
           \/ Feeds(c, n)
           \/ InProgress(req[r]) /\ c \in About(req[r]) /\ conn'[c].status = "active",
         \A c \in Conns \ raced' : conn[c].status = "active" =>
           \/ conn'[c].status = "active"
           \/ InProgress(req[r]) /\ c \in About(req[r]) /\ \A n \in Names : ~Feeds(c, n)'
  PROVE  SourceInv'
<1>1. Table' /\ req'[r] = new /\ \A q \in Requests : q # r => req'[q] = req[q]
  BY OneRequest DEF CatalogInv
<1>2. C!SourceStaysActive'
  <2>1. \A c \in Conns \ raced : \A n \in Names : Feeds(c, n) => conn[c].status = "active"
    BY DEF SourceInv, C!SourceStaysActive, Feeds
  <2>2. \A c \in Conns \ raced' : \A n \in Names : Feeds(c, n)' => conn'[c].status = "active"
    BY <2>1
  <2> QED
    BY <2>2 DEF C!SourceStaysActive, Feeds
<1>3. ASSUME NEW s \in Requests
      PROVE  SourceAt(req[s])'
  <2>1. CASE s = r
    BY <1>1, <2>1
  <2>2. CASE s # r
    <3> PICK q : q = req[s] /\ q = req'[s]
      BY <1>1, <2>2
    <3> SUFFICES ASSUME InProgress(q)
                 PROVE  SourceAt(q)'
      BY DEF SourceAt, InProgress
    <3>1. SourceAt(q) /\ CatalogAt(q) /\ q.call \in C!Calls
      BY DEF SourceInv, CatalogInv, CatalogAt
    <3> PICK c : c = q.call.conn
      OBVIOUS
    <3>2. q.call.op \in {"link", "disconnect"} => c \in Conns /\ c \in About(q)
      BY <3>1, ConnectionCall DEF About
    <3>3. q.call.op \in {"link", "disconnect"} /\ c \notin raced' =>
            ~(InProgress(req[r]) /\ c \in About(req[r]))
      BY <2>2, <3>2 DEF CatalogInv, Alone
    <3>4. q.call.op = "link" /\ c \notin raced' => conn'[c].status = "active"
      BY <3>1, <3>2, <3>3 DEF SourceAt
    <3>5. q.call.op = "disconnect" /\ c \notin raced' => \A n \in Names : ~Feeds(c, n)'
      BY <3>1, <3>2, <3>3 DEF SourceAt
    <3>6. q.call.op = "disconnect" /\ c \notin raced' =>
            \A n \in Names : ~(data'[n].status = "active" /\ data'[n].conn = c)
      BY <3>5 DEF Feeds
    <3> QED
      BY <3>4, <3>6 DEF SourceAt, Feeds
  <2> QED
    BY <2>1, <2>2
<1> QED
  BY <1>2, <1>3 DEF SourceInv

\* A request that writes neither table.
LEMMA SourceUntouched ==
  ASSUME CatalogInv, SourceInv, NEW r \in Requests, raced \subseteq raced',
         UNCHANGED <<data, conn>>, NEW new, req' = [req EXCEPT ![r] = new], SourceAt(new)'
  PROVE  SourceInv'
<1>1. ConnRows'
  BY DEF SourceInv, ConnRows
<1>2. \A c, n : Feeds(c, n)' = Feeds(c, n)
  BY DEF Feeds
<1> QED
  BY <1>1, <1>2, SourceMoves

LEMMA SourceEnds ==
  ASSUME CatalogInv, SourceInv, NEW r \in Requests, UNCHANGED <<data, conn, raced>>,
         NEW outcome \in C!Ended, req' = [req EXCEPT ![r] = [at |-> outcome]]
  PROVE  SourceInv'
<1>1. PICK new : new = [at |-> outcome]
  OBVIOUS
<1>2. SourceAt(new)' /\ req' = [req EXCEPT ![r] = new]
  BY <1>1 DEF SourceAt, InProgress
<1> QED
  BY <1>2, SourceUntouched

\* A request that goes on reading, with the call it had.
LEMMA SourceReads ==
  ASSUME CatalogInv, SourceInv, NEW r \in Requests, UNCHANGED <<data, conn, raced>>,
         InProgress(req[r]), NEW new, req' = [req EXCEPT ![r] = new], new.call = req[r].call
  PROVE  SourceInv'
<1>1. SourceAt(req[r])
  BY DEF SourceInv
<1>2. SourceAt(new)'
  BY <1>1 DEF SourceAt, InProgress, Feeds
<1> QED
  BY <1>2, SourceUntouched

LEMMA SourceReceives ==
  ASSUME CatalogInv, SourceInv, NEW r \in Requests, NEW c \in C!Calls, C!Receive(r, c)
  PROVE  SourceInv'
<1>1. CASE ~C!Allowed(c)
  <2>1. /\ req' = [req EXCEPT ![r] = [at |-> "refused"]] /\ UNCHANGED <<data, conn, raced>>
        /\ "refused" \in C!Ended
    BY <1>1 DEF C!Receive, C!tables, C!Ended
  <2> QED
    BY <2>1, SourceEnds
<1>2. CASE C!Allowed(c)
  <2>1. PICK new : new = [at |-> C!FirstStep(c), call |-> c,
               row |-> IF c.op \in {"repoint", "test"} THEN conn[c.conn] ELSE C!None,
               count |-> C!None, profile |-> C!None]
    OBVIOUS
  <2>2. /\ req' = [req EXCEPT ![r] = new] /\ UNCHANGED <<data, conn>> /\ raced \subseteq raced'
    BY <1>2, <2>1 DEF C!Receive, C!tables
  <2>3. new.call = c
    BY <2>1
  <2>4. c.op = "link" => conn[c.conn].status = "active"
    BY <1>2 DEF C!Allowed, C!ConnectAllowed, C!RepointAllowed, C!DisconnectAllowed,
                C!LoadAllowed, C!LinkAllowed, C!EditAllowed
  <2>5. c.op = "disconnect" => \A n \in Names : ~Feeds(c.conn, n)
    BY <1>2, InUseFeeds
       DEF C!Allowed, C!ConnectAllowed, C!RepointAllowed, C!DisconnectAllowed,
           C!LoadAllowed, C!LinkAllowed, C!EditAllowed
  <2>6. SourceAt(new)'
    BY <2>2, <2>3, <2>4, <2>5 DEF SourceAt, Feeds
  <2> QED
    BY <2>2, <2>6, SourceUntouched
<1> QED
  BY <1>1, <1>2

\* A commit on connection d: its row is written, and no other.
LEMMA ConnectionsKeepSource ==
  ASSUME CatalogInv, SourceInv, NEW r \in Requests,
         C!CreateConnection(r) \/ C!PatchConnection(r) \/ C!ArchiveConnection(r)
  PROVE  SourceInv'
<1> PICK q, d : q = req[r] /\ d = q.call.conn
  OBVIOUS
<1>1. CASE C!Fail(r)
  BY <1>1, SourceEnds DEF C!Fail, C!tables, C!Ended
<1>2. ASSUME ~C!Fail(r)
      PROVE  SourceInv'
  <2>1. /\ InProgress(q) /\ q.call.op \in {"connect", "repoint", "disconnect"}
        /\ UNCHANGED <<data, raced>> /\ req' = [req EXCEPT ![r] = [at |-> "done"]]
    BY <1>2 DEF C!CreateConnection, C!PatchConnection, C!ArchiveConnection, C!At, C!Done,
                InProgress, C!Ended
  <2>2. SourceAt(q) /\ q.call \in C!Calls
    BY <2>1 DEF SourceInv, CatalogInv, CatalogAt
  <2>3. d \in Conns /\ d \in About(q)
    BY <2>1, <2>2, ConnectionCall DEF About
  <2>4. DOMAIN conn = Conns /\ \A c \in Conns : "status" \in DOMAIN conn[c]
    BY DEF SourceInv, ConnRows
  <2>5. ASSUME NEW row, conn' = [conn EXCEPT ![d] = row], "status" \in DOMAIN row,
               \/ row.status = "active"
               \/ row.status = conn[d].status
               \/ q.call.op = "disconnect"
        PROVE  SourceInv'
    <3>1. /\ conn'[d] = row /\ (\A c \in Conns : c # d => conn'[c] = conn[c])
          /\ DOMAIN conn' = Conns
      BY <2>3, <2>4, <2>5
    <3>2. ConnRows'
      BY <2>4, <2>5, <3>1 DEF ConnRows
    <3>3. \A c, n : Feeds(c, n)' = Feeds(c, n)
      BY <2>1 DEF Feeds
    <3>4. \A c \in Conns \ raced' : conn[c].status = "active" =>
           \/ conn'[c].status = "active"
           \/ InProgress(req[r]) /\ c \in About(req[r]) /\ \A n \in Names : ~Feeds(c, n)'
      <4>1. q.call.op = "disconnect" /\ d \notin raced => \A n \in Names : ~Feeds(d, n)
        BY <2>1, <2>2 DEF SourceAt
      <4> QED
        BY <2>1, <2>3, <2>5, <3>1, <3>3, <4>1
    <3>5. PICK new : new = [at |-> "done"]
      OBVIOUS
    <3>6. SourceAt(new)' /\ req' = [req EXCEPT ![r] = new]
      BY <2>1, <3>5 DEF SourceAt, InProgress, C!Ended
    <3> QED
      BY <2>1, <3>2, <3>3, <3>4, <3>6, SourceMoves
  <2>6. CASE C!CreateConnection(r)
    <3>1. PICK row : row = [status |-> "active", config |-> CHOOSE v \in Values : TRUE]
      OBVIOUS
    <3>2. conn' = [conn EXCEPT ![d] = row] /\ "status" \in DOMAIN row /\ row.status = "active"
      BY <1>2, <2>6, <3>1 DEF C!CreateConnection
    <3> QED
      BY <2>5, <3>2
  <2>7. CASE C!PatchConnection(r)
    <3>1. PICK v : conn' = [conn EXCEPT ![d].config = v]
      BY <2>7 DEF C!PatchConnection
    <3>2. PICK row : row = [conn[d] EXCEPT !.config = v]
      OBVIOUS
    <3>3. conn' = [conn EXCEPT ![d] = row]
      BY <3>1, <3>2
    <3>4. DOMAIN row = DOMAIN conn[d] /\ row.status = conn[d].status
      BY <2>3, <2>4, <3>2
    <3> QED
      BY <2>3, <2>4, <2>5, <3>3, <3>4
  <2>8. CASE C!ArchiveConnection(r)
    <3>1. conn' = [conn EXCEPT ![d].status = "archived"] /\ q.call.op = "disconnect"
      BY <2>8 DEF C!ArchiveConnection, C!At
    <3>2. PICK row : row = [conn[d] EXCEPT !.status = "archived"]
      OBVIOUS
    <3>3. conn' = [conn EXCEPT ![d] = row] /\ DOMAIN row = DOMAIN conn[d]
      BY <3>1, <3>2
    <3> QED
      BY <2>3, <2>4, <2>5, <3>1, <3>3
  <2> QED
    BY <2>6, <2>7, <2>8
<1> QED
  BY <1>1, <1>2

\* A row of data is written: its connection is the one it had, or the one of the request.
LEMMA DatasetsKeepSource ==
  ASSUME C!None \notin Conns, CatalogInv, SourceInv, NEW r \in Requests,
         C!CreateDataset(r) \/ C!PatchColumns(r) \/ C!RecomputeProfile(r) \/ C!ArchiveDataset(r)
  PROVE  SourceInv'
<1> PICK q, c, n : q = req[r] /\ c = q.call /\ n = c.name
  OBVIOUS
<1>1. CASE C!Fail(r)
  BY <1>1, SourceEnds DEF C!Fail, C!tables, C!Ended
<1>2. ASSUME ~C!Fail(r)
      PROVE  SourceInv'
  <2>1. /\ InProgress(q) /\ c.op \in {"load", "link", "label", "reprofile", "archive"}
        /\ UNCHANGED <<conn, raced>> /\ req' = [req EXCEPT ![r] = [at |-> "done"]]
    BY <1>2 DEF C!CreateDataset, C!PatchColumns, C!RecomputeProfile, C!ArchiveDataset, C!At,
                C!Done, InProgress, C!Ended
  <2>2. CatalogAt(q) /\ c \in C!Calls /\ n \in Names /\ (IsAbsent(n) \/ IsDataset(n))
    BY <2>1, UnderWay
  <2>3. SourceAt(q) /\ DOMAIN data = Names
    BY DEF SourceInv, CatalogInv, DataInv
  <2>4. ASSUME NEW row, data' = [data EXCEPT ![n] = row],
               row.status = "active" /\ row.conn \in Conns =>
                 \/ data[n].status = "active" /\ row.conn = data[n].conn
                 \/ c.op = "link" /\ row.conn = c.conn
        PROVE  SourceInv'
    <3>1. data'[n] = row /\ \A m \in Names : m # n => data'[m] = data[m]
      BY <2>2, <2>3, <2>4
    <3>2. c.op = "link" => c.conn \in Conns /\ c.conn \in About(q)
      BY <2>2, ConnectionCall DEF About
    <3>3. c.op = "link" /\ c.conn \notin raced => conn[c.conn].status = "active"
      BY <2>1, <2>3 DEF SourceAt
    <3>4. ASSUME NEW d \in Conns \ raced', NEW m \in Names, Feeds(d, m)'
          PROVE  \/ Feeds(d, m)
                 \/ InProgress(req[r]) /\ d \in About(req[r]) /\ conn'[d].status = "active"
      <4>1. CASE m # n
        BY <3>1, <3>4, <4>1 DEF Feeds
      <4>2. CASE m = n
        <5>1. row.status = "active" /\ row.conn = d
          BY <3>1, <3>4, <4>2 DEF Feeds
        <5>2. \/ data[n].status = "active" /\ row.conn = data[n].conn
              \/ c.op = "link" /\ row.conn = c.conn
          BY <2>4, <3>4, <5>1
        <5> QED
          BY <2>1, <3>2, <3>3, <3>4, <4>2, <5>1, <5>2 DEF Feeds
      <4> QED
        BY <4>1, <4>2
    <3>5. ConnRows' /\ \A d \in Conns : conn'[d].status = conn[d].status
      BY <2>1 DEF SourceInv, ConnRows
    <3>6. PICK new : new = [at |-> "done"]
      OBVIOUS
    <3>7. SourceAt(new)' /\ req' = [req EXCEPT ![r] = new]
      BY <2>1, <3>6 DEF SourceAt, InProgress, C!Ended
    <3> QED
      BY <2>1, <3>4, <3>5, <3>7, SourceMoves
  <2>5. CASE C!CreateDataset(r)
    <3>1. PICK row : /\ data' = [data EXCEPT ![n] = row]
                     /\ \/ c.op = "load" /\ row = C!Row(c.upload, C!None, q)
                        \/ c.op = "link" /\ row = C!Row(C!None, c.conn,
                                             [count |-> C!None, profile |-> C!None])
      BY <1>2, <2>5 DEF C!CreateDataset, C!At
    <3>2. \/ c.op = "load" /\ row.conn = C!None
          \/ c.op = "link" /\ row.conn = c.conn
      BY <3>1 DEF C!Row
    <3> QED
      BY <2>4, <3>1, <3>2
  <2>6. ASSUME NEW row, data' = [data EXCEPT ![n] = row], row.conn = data[n].conn,
               row.status \in {data[n].status, "archived"}
        PROVE  SourceInv'
    BY <2>4, <2>6
  <2>7. (IsDataset(n) /\ DOMAIN data[n] = RowColumns) \/ c.op \in {"load", "link"}
    BY <2>1, <2>2 DEF CatalogAt, IsDataset
  <2>8. CASE C!PatchColumns(r)
    <3>1. PICK label : data' = [data EXCEPT ![n].label = label] /\ c.op = "label"
      BY <2>8 DEF C!PatchColumns, C!At
    <3>2. PICK row : row = [data[n] EXCEPT !.label = label]
      OBVIOUS
    <3>3. row.conn = data[n].conn /\ row.status = data[n].status
      BY <2>7, <3>1, <3>2 DEF RowColumns
    <3> QED
      BY <2>6, <3>1, <3>2, <3>3
  <2>9. CASE C!RecomputeProfile(r)
    <3>1. /\ data' = [data EXCEPT ![n].profile = q.profile, ![n].count = q.profile]
          /\ c.op = "reprofile"
      BY <2>9 DEF C!RecomputeProfile, C!At
    <3>2. PICK row : row = [data[n] EXCEPT !.profile = q.profile, !.count = q.profile]
      OBVIOUS
    <3>3. data' = [data EXCEPT ![n] = row]
      BY <2>2, <2>3, <3>1, <3>2
    <3>4. row.conn = data[n].conn /\ row.status = data[n].status
      BY <2>7, <3>1, <3>2 DEF RowColumns
    <3> QED
      BY <2>6, <3>3, <3>4
  <2>10. CASE C!ArchiveDataset(r)
    <3>1. data' = [data EXCEPT ![n].status = "archived"] /\ c.op = "archive"
      BY <2>10 DEF C!ArchiveDataset, C!At
    <3>2. PICK row : row = [data[n] EXCEPT !.status = "archived"]
      OBVIOUS
    <3>3. row.conn = data[n].conn /\ row.status = "archived"
      BY <2>7, <3>1, <3>2 DEF RowColumns
    <3> QED
      BY <2>6, <3>1, <3>2, <3>3
  <2> QED
    BY <2>5, <2>8, <2>9, <2>10
<1> QED
  BY <1>1, <1>2

LEMMA SourceStart == C!Init => SourceInv
<1> SUFFICES ASSUME C!Init
             PROVE  SourceInv
  OBVIOUS
<1>1. ConnRows
  BY DEF C!Init, C!Absent, ConnRows
<1>2. C!SourceStaysActive
  BY DEF C!Init, C!Absent, C!SourceStaysActive
<1>3. \A r \in Requests : ~InProgress(req[r])
  BY DEF C!Init, C!Idle, C!Ended, InProgress
<1> QED
  BY <1>1, <1>2, <1>3 DEF SourceInv, SourceAt

LEMMA SourceStep ==
  ASSUME C!None \notin Conns
  PROVE  CatalogInv /\ SourceInv /\ [C!Next]_C!vars => SourceInv'
<1> SUFFICES ASSUME CatalogInv, SourceInv, [C!Next]_C!vars
             PROVE  SourceInv'
  OBVIOUS
<1>1. ASSUME UNCHANGED <<data, conn, req, raced>>
      PROVE  SourceInv'
  <2>1. ConnRows' /\ C!SourceStaysActive'
    BY <1>1 DEF SourceInv, ConnRows, C!SourceStaysActive
  <2>2. ASSUME NEW r \in Requests
        PROVE  SourceAt(req[r])'
    <3>1. SourceAt(req[r])
      BY DEF SourceInv
    <3> QED
      BY <1>1, <3>1 DEF SourceAt, InProgress, Feeds
  <2> QED
    BY <2>1, <2>2 DEF SourceInv
<1>2. ASSUME NEW u \in Uploads, C!PutRaw(u) \/ C!PutMeta(u) \/ C!PruneUpload(u)
      PROVE  SourceInv'
  BY <1>1, <1>2 DEF C!PutRaw, C!PutMeta, C!PruneUpload, C!tables
<1>3. ASSUME NEW r \in Requests, C!TestConnection(r)
      PROVE  SourceInv'
  BY <1>3, SourceEnds DEF C!TestConnection, C!tables, C!Ended
<1>4. ASSUME NEW r \in Requests,
             C!Convert(r) \/ C!CountRows(r) \/ C!ProfileParquet(r) \/ C!Measure(r)
      PROVE  SourceInv'
  <2>1. CASE C!Fail(r)
    BY <2>1, SourceEnds DEF C!Fail, C!tables, C!Ended
  <2>2. CASE ~C!Fail(r)
    <3>1. UNCHANGED <<data, conn, raced>> /\ InProgress(req[r])
      BY <1>4, <2>2 DEF C!Convert, C!CountRows, C!ProfileParquet, C!Measure, C!At, C!tables,
                        InProgress, C!Ended
    <3>2. DOMAIN req[r] = {"at", "call", "row", "count", "profile"} /\ r \in DOMAIN req
      BY <3>1 DEF CatalogInv, CatalogAt, Table
    <3>3. PICK new : req' = [req EXCEPT ![r] = new] /\ new.call = req[r].call
      <4>1. CASE C!Convert(r)
        <5>1. PICK new : new = [req[r] EXCEPT !.at = "count"]
          OBVIOUS
        <5>2. req' = [req EXCEPT ![r] = new]
          BY <2>2, <4>1, <5>1 DEF C!Convert
        <5>3. new.call = req[r].call
          BY <3>2, <5>1
        <5> QED
          BY <5>2, <5>3
      <4>2. CASE C!CountRows(r)
        <5>1. PICK new : new = [req[r] EXCEPT !.at = "profile", !.count = object[req[r].call.name]]
          OBVIOUS
        <5>2. req' = [req EXCEPT ![r] = new]
          BY <3>2, <4>2, <5>1 DEF C!CountRows
        <5>3. new.call = req[r].call
          BY <3>2, <5>1
        <5> QED
          BY <5>2, <5>3
      <4>3. CASE C!ProfileParquet(r)
        <5>1. PICK new : new = [req[r] EXCEPT !.at = "checked", !.profile = object[req[r].call.name]]
          OBVIOUS
        <5>2. req' = [req EXCEPT ![r] = new]
          BY <3>2, <4>3, <5>1 DEF C!ProfileParquet
        <5>3. new.call = req[r].call
          BY <3>2, <5>1
        <5> QED
          BY <5>2, <5>3
      <4>4. CASE C!Measure(r)
        <5>1. PICK new : new = [req[r] EXCEPT !.at = "checked", !.profile = object[req[r].call.name]]
          OBVIOUS
        <5>2. req' = [req EXCEPT ![r] = new]
          BY <3>2, <4>4, <5>1 DEF C!Measure
        <5>3. new.call = req[r].call
          BY <3>2, <5>1
        <5> QED
          BY <5>2, <5>3
      <4> QED
        BY <1>4, <4>1, <4>2, <4>3, <4>4
    <3> QED
      BY <3>1, <3>3, SourceReads
  <2> QED
    BY <2>1, <2>2
<1>5. CASE UNCHANGED C!vars
  BY <1>1, <1>5 DEF C!vars, C!tables
<1> QED
  BY <1>2, <1>3, <1>4, <1>5, SourceReceives, ConnectionsKeepSource, DatasetsKeepSource DEF C!Next

(***************************************************************************)
(* Projects.  The worker forgets keys when no request is under way.        *)
(***************************************************************************)
ProjectCalls ==
  /\ Table
  /\ \A r \in Requests : req[r].at = "checked" => req[r].call \in P!Calls

LEMMA ProjectKeys ==
  /\ \A u, k, h, v : P!Keep(kept, u, k, h, v) = Keep(kept, u, k, h, v)
  /\ \A u, k : P!KeyTaken(kept, u, k) = KeyTaken(kept, u, k)
  /\ \A u, k : P!CountEffect(effects, u, k) = CountEffect(effects, u, k)
<1>1. \A u, k, h, v : P!Keep(kept, u, k, h, v) = Keep(kept, u, k, h, v)
  BY Zenon DEF P!Keep, P!Put, Keep, Put
<1>2. \A u, k : P!KeyTaken(kept, u, k) = KeyTaken(kept, u, k)
  BY DEF P!KeyTaken, P!FreshKey, KeyTaken, FreshKey
<1>3. \A u, k : P!CountEffect(effects, u, k) = CountEffect(effects, u, k)
  BY Zenon DEF P!CountEffect, P!Put, CountEffect, Put
<1> QED
  BY <1>1, <1>2, <1>3

LEMMA ProjectCallsStep ==
  ProjectCalls /\ [P!Next]_P!vars => ProjectCalls'
<1> SUFFICES ASSUME ProjectCalls, [P!Next]_P!vars
             PROVE  ProjectCalls'
  OBVIOUS
<1>1. ASSUME NEW r \in Requests, NEW new, req' = [req EXCEPT ![r] = new],
             new.at = "checked" => new.call \in P!Calls
      PROVE  ProjectCalls'
  <2>1. Table' /\ req'[r] = new /\ \A q \in Requests : q # r => req'[q] = req[q]
    BY <1>1, OneRequest DEF ProjectCalls
  <2>2. P!Calls' = P!Calls
    BY DEF P!Calls, P!Call, P!Given
  <2> QED
    BY <1>1, <2>1, <2>2 DEF ProjectCalls
<1>2. ASSUME NEW r \in Requests, NEW c \in P!Calls, P!Receive(r, c)
      PROVE  ProjectCalls'
  <2>1. PICK new : new = IF P!Allowed(c)
       THEN [at |-> "checked", call |-> c, project |-> project[c.key],
             members |-> members[c.key], stamp |-> stamp[c.key]]
       ELSE [at |-> IF P!Replays(kept, c.user, c.via, P!Hash(c)) THEN "replayed" ELSE "refused"]
    OBVIOUS
  <2>2. req' = [req EXCEPT ![r] = new]
    BY <1>2, <2>1 DEF P!Receive
  <2>3. new.at = "checked" => new.call \in P!Calls
    BY <2>1
  <2> QED
    BY <1>1, <2>2, <2>3
<1>3. ASSUME NEW r \in Requests,
             P!CreateProject(r) \/ P!PatchProject(r) \/ P!ArchiveProject(r)
               \/ P!ReplaceMembers(r) \/ P!RemoveMember(r)
      PROVE  ProjectCalls'
  <2>1. PICK outcome \in {"failed", "done"} : req' = [req EXCEPT ![r] = [at |-> outcome]]
    BY <1>3 DEF P!CreateProject, P!PatchProject, P!ArchiveProject, P!ReplaceMembers,
                P!RemoveMember, P!Fail, P!Ghosts
  <2>2. PICK new : new = [at |-> outcome]
    OBVIOUS
  <2>3. req' = [req EXCEPT ![r] = new] /\ new.at # "checked"
    BY <2>1, <2>2
  <2> QED
    BY <1>1, <2>3
<1>4. CASE P!PruneKeys \/ UNCHANGED P!vars
  <2>1. req' = req
    BY <1>4 DEF P!PruneKeys, P!vars
  <2>2. P!Calls' = P!Calls
    BY DEF P!Calls, P!Call, P!Given
  <2> QED
    BY <2>1, <2>2 DEF ProjectCalls, Table
<1> QED
  BY <1>2, <1>3, <1>4 DEF P!Next

LEMMA ProjectKeysStep ==
  ProjectCalls /\ OneEffectPerKey /\ [P!Next]_P!vars => OneEffectPerKey'
<1> SUFFICES ASSUME ProjectCalls, OneEffectPerKey, [P!Next]_P!vars
             PROVE  OneEffectPerKey'
  OBVIOUS
<1>1. ASSUME NEW r \in Requests, NEW c \in P!Calls, P!Receive(r, c)
      PROVE  OneEffectPerKey'
  BY <1>1, NothingCommitted DEF P!Receive, P!dbVars, P!ghostVars
<1>2. ASSUME NEW r \in Requests, P!Fail(r)
      PROVE  OneEffectPerKey'
  BY <1>2, NothingCommitted DEF P!Fail, P!dbVars, P!ghostVars
<1>3. ASSUME NEW r \in Requests, P!CreateProject(r), ~P!Fail(r)
      PROVE  OneEffectPerKey'
  <2> PICK c : c = req[r].call
    OBVIOUS
  <2>1. /\ ~P!KeyTaken(kept, c.user, c.via)
        /\ kept' = P!Keep(kept, c.user, c.via, P!Hash(c), c.arg)
        /\ effects' = P!CountEffect(effects, c.user, c.via)
    BY <1>3 DEF P!CreateProject, P!Conflicts, P!Ghosts
  <2>2. /\ ~KeyTaken(kept, c.user, c.via)
        /\ kept' = Keep(kept, c.user, c.via, P!Hash(c), c.arg)
        /\ effects' = CountEffect(effects, c.user, c.via)
    BY <2>1, ProjectKeys
  <2> QED
    BY <2>2, CommitKeepsKeys
<1>4. ASSUME NEW r \in Requests,
             P!PatchProject(r) \/ P!ArchiveProject(r) \/ P!ReplaceMembers(r) \/ P!RemoveMember(r),
             ~P!Fail(r)
      PROVE  OneEffectPerKey'
  <2> PICK c : c = req[r].call
    OBVIOUS
  <2>1. /\ kept' = kept /\ effects' = P!CountEffect(effects, c.user, c.via)
        /\ req[r].at = "checked" /\ c.op \in {"patch", "archive", "replace", "remove"}
    BY <1>4 DEF P!PatchProject, P!ArchiveProject, P!ReplaceMembers, P!RemoveMember, P!Ghosts,
                P!Checked
  <2>2. c \in P!Calls
    BY <2>1 DEF ProjectCalls
  <2>3. c.via = NoKey
    BY <2>1, <2>2 DEF P!Calls, P!Call
  <2> QED
    BY <2>1, <2>3, ProjectKeys, CommitKeepsKeys
<1>5. CASE P!PruneKeys
  <2>1. kept' = <<>> /\ effects' = <<>>
    BY <1>5 DEF P!PruneKeys
  <2> QED
    BY <2>1, NoneKept DEF OneEffectPerKey
<1>6. CASE UNCHANGED P!vars
  BY <1>6, NothingCommitted DEF P!vars, P!dbVars, P!ghostVars
<1> QED
  BY <1>1, <1>2, <1>3, <1>4, <1>5, <1>6 DEF P!Next

LEMMA ProjectStart == P!Init => ProjectCalls /\ OneEffectPerKey
BY NoneKept DEF P!Init, P!Idle, ProjectCalls, Table, OneEffectPerKey

(***************************************************************************)
(* A project nobody has overtaken.  A handler commits from fresh reads if  *)
(* the stamp of its project is the one it has read; then what it has       *)
(* checked still holds, and its transaction keeps the project sound.       *)
(***************************************************************************)
Entry(p) == [name |-> p.name, text |-> p.text]
SoundProject(p, roles, entry, audited) ==
  /\ DOMAIN p = {"status", "name", "text"}
  /\ p.status # "absent" => Entry(p) \in [name : Texts, text : Texts]
  /\ p.status = "active" => P!Admins(roles) # {}
  /\ roles = audited
  /\ entry = IF p.status # "active" THEN P!None ELSE Entry(p)
Sound(k) == SoundProject(project[k], members[k], ref[k], told[k])
ProjectTables ==
  /\ DOMAIN project = KeysOfProjects /\ DOMAIN members = KeysOfProjects
  /\ DOMAIN ref = KeysOfProjects /\ DOMAIN told = KeysOfProjects
  /\ DOMAIN stamp = KeysOfProjects /\ \A k \in KeysOfProjects : stamp[k] \in Nat
StillTrue(q) ==
  LET c == q.call
      k == c.key IN
  /\ q.project = project[k] /\ q.members = members[k]
  /\ c.op = "create" => project[k].status = "absent"
  /\ c.op # "create" => project[k].status = "active"
  /\ c.op = "replace" => P!Admins(c.arg) # {}
  /\ c.op = "remove" => c.arg \in DOMAIN members[k]
  /\ c.op = "remove" /\ members[k][c.arg] = "admin" =>
       P!Cardinality(P!Admins(members[k])) > 1
ProjectAt(q) ==
  q.at = "checked" =>
    /\ q.stamp \in Nat /\ q.stamp <= stamp[q.call.key]
    /\ q.stamp = stamp[q.call.key] => StillTrue(q)
SoundInv ==
  /\ ProjectCalls /\ ProjectTables
  /\ \A k \in KeysOfProjects \ raced : Sound(k)
  /\ \A r \in Requests : ProjectAt(req[r])

LEMMA ProjectCall ==
  ASSUME NEW c \in P!Calls
  PROVE  /\ c.key \in KeysOfProjects
         /\ c.op \in {"create", "patch", "archive", "remove", "replace"}
         /\ c.op = "create" => c.arg \in [name : Texts, text : Texts]
         /\ c.op = "patch" => c.arg \in [name : Texts \cup {P!None}, text : Texts \cup {P!None}]
         /\ c.op = "replace" => c.arg \in Changes
<1>1. CASE c.op = "create"
  BY <1>1 DEF P!Calls, P!Call, P!Given
<1>2. CASE c.op # "create"
  BY <1>2 DEF P!Calls, P!Call, P!Given
<1> QED
  BY <1>1, <1>2

\* What a transaction on project k writes.
OnlyProject(k) ==
  /\ DOMAIN project' = KeysOfProjects /\ DOMAIN members' = KeysOfProjects
  /\ DOMAIN ref' = KeysOfProjects
  /\ \A j \in KeysOfProjects \ {k} :
       project'[j] = project[j] /\ members'[j] = members[j] /\ ref'[j] = ref[j]

\* A commit on project k, from fresh reads unless the project is marked.
LEMMA CommitKeepsSound ==
  ASSUME SoundInv, NEW r \in Requests, req[r].at = "checked", NEW k, k = req[r].call.key,
         OnlyProject(k), NEW audited, P!Ghosts(r, audited),
         StillTrue(req[r]) /\ Sound(k) =>
           /\ SoundProject(project'[k], members'[k], ref'[k], audited)
           /\ project[k].status # "archived"
  PROVE  SoundInv' /\ P!StaysSound
<1> PICK new : new = [at |-> "done"]
  OBVIOUS
<1>1. /\ ProjectCalls /\ ProjectTables /\ ProjectAt(req[r]) /\ Table
      /\ req[r].call \in P!Calls /\ k \in KeysOfProjects
  BY ProjectCall DEF SoundInv, ProjectCalls
<1>2. /\ told' = [told EXCEPT ![k] = audited] /\ stamp' = [stamp EXCEPT ![k] = stamp[k] + 1]
      /\ raced' = IF req[r].stamp = stamp[k] THEN raced ELSE raced \cup {k}
      /\ req' = [req EXCEPT ![r] = new]
  BY <1>1 DEF P!Ghosts, ProjectTables
<1>3. Table' /\ req'[r] = new /\ \A q \in Requests : q # r => req'[q] = req[q]
  BY <1>1, <1>2, OneRequest
<1>4. /\ told'[k] = audited /\ stamp'[k] = stamp[k] + 1 /\ stamp[k] \in Nat
      /\ \A j \in KeysOfProjects : j # k =>
           /\ project'[j] = project[j] /\ members'[j] = members[j] /\ ref'[j] = ref[j]
           /\ told'[j] = told[j] /\ stamp'[j] = stamp[j]
  BY <1>1, <1>2 DEF ProjectTables, OnlyProject
<1>5. ProjectTables'
  BY <1>1, <1>2, <1>4 DEF ProjectTables, OnlyProject
<1>6. k \notin raced' => Sound(k)' /\ project[k].status # "archived"
  <2> HAVE k \notin raced'
  <2>1. req[r].stamp = stamp[k] /\ k \notin raced
    BY <1>2
  <2>2. StillTrue(req[r]) /\ Sound(k)
    BY <1>1, <2>1 DEF ProjectAt, SoundInv
  <2> QED
    BY <1>1, <1>4, <2>2 DEF Sound
<1>7. \A j \in KeysOfProjects \ raced' : Sound(j)'
  <2> TAKE j \in KeysOfProjects \ raced'
  <2>1. CASE j # k
    <3>1. Sound(j)
      BY <1>2 DEF SoundInv
    <3> QED
      BY <1>4, <2>1, <3>1 DEF Sound
  <2> QED
    BY <1>6, <2>1
<1>8. ASSUME NEW s \in Requests
      PROVE  ProjectAt(req[s])' /\ (req'[s].at = "checked" => req'[s].call \in P!Calls)
  <2>1. CASE s = r
    BY <1>3, <2>1 DEF ProjectAt
  <2>2. CASE s # r
    <3> PICK q : q = req[s] /\ q = req'[s]
      BY <1>3, <2>2
    <3>1. ProjectAt(q) /\ (q.at = "checked" => q.call \in P!Calls)
      BY DEF SoundInv, ProjectCalls
    <3>2. q.at = "checked" => q.call.key \in KeysOfProjects
      BY <3>1, ProjectCall
    <3>3. ProjectAt(q)'
      BY <1>4, <3>1, <3>2 DEF ProjectAt, StillTrue
    <3> QED
      BY <3>1, <3>3
  <2> QED
    BY <2>1, <2>2
<1>9. P!Calls' = P!Calls
  BY DEF P!Calls, P!Call, P!Given
<1>10. SoundInv'
  BY <1>3, <1>5, <1>7, <1>8, <1>9 DEF SoundInv, ProjectCalls
<1>11. P!StaysSound
  <2> SUFFICES ASSUME NEW j \in KeysOfProjects, j \notin raced'
               PROVE  /\ project'[j].status = "active" => P!Admins(members'[j]) # {}
                      /\ members'[j] = told'[j]
                      /\ ref'[j] = IF project'[j].status # "active" THEN P!None
                                   ELSE [name |-> project'[j].name, text |-> project'[j].text]
                      /\ project[j].status = "archived" =>
                           project'[j] = project[j] /\ members'[j] = members[j]
    BY DEF P!StaysSound
  <2>1. Sound(j)'
    BY <1>7
  <2>2. project[j].status = "archived" => j # k
    BY <1>6
  <2> QED
    BY <1>4, <2>1, <2>2 DEF Sound, SoundProject, Entry
<1> QED
  BY <1>10, <1>11

\* A step that writes no project: what is known of it stays.
LEMMA StillSound ==
  ASSUME SoundInv, UNCHANGED <<project, members, ref, told, stamp, raced>>,
         Table', \A s \in Requests : \/ req'[s] = req[s]
                                     \/ /\ ProjectAt(req'[s])
                                        /\ req'[s].at = "checked" => req'[s].call \in P!Calls
  PROVE  SoundInv' /\ P!StaysSound
<1>1. \A k \in KeysOfProjects \ raced : Sound(k)
  BY DEF SoundInv
<1>2. ProjectTables' /\ \A k \in KeysOfProjects \ raced' : Sound(k)'
  BY <1>1 DEF SoundInv, ProjectTables, Sound
<1>3. P!Calls' = P!Calls
  BY DEF P!Calls, P!Call, P!Given
<1>4. ASSUME NEW s \in Requests
      PROVE  ProjectAt(req[s])' /\ (req'[s].at = "checked" => req'[s].call \in P!Calls)
  <2> PICK q : q = req'[s]
    OBVIOUS
  <2>1. ProjectAt(q) /\ (q.at = "checked" => q.call \in P!Calls)
    BY DEF SoundInv, ProjectCalls
  <2>2. ProjectAt(q)'
    BY <2>1 DEF ProjectAt, StillTrue
  <2> QED
    BY <2>1, <2>2
<1>5. SoundInv'
  BY <1>2, <1>3, <1>4 DEF SoundInv, ProjectCalls
<1>6. P!StaysSound
  BY <1>1 DEF P!StaysSound, Sound, SoundProject, Entry
<1> QED
  BY <1>5, <1>6

LEMMA ProjectReceives ==
  ASSUME SoundInv, NEW r \in Requests, NEW c \in P!Calls, P!Receive(r, c)
  PROVE  SoundInv' /\ P!StaysSound
<1>0. PICK new : new = IF P!Allowed(c)
       THEN [at |-> "checked", call |-> c, project |-> project[c.key],
             members |-> members[c.key], stamp |-> stamp[c.key]]
       ELSE [at |-> IF P!Replays(kept, c.user, c.via, P!Hash(c)) THEN "replayed" ELSE "refused"]
  OBVIOUS
<1>1. /\ req' = [req EXCEPT ![r] = new]
      /\ UNCHANGED <<project, members, ref, told, stamp, raced>>
  BY <1>0 DEF P!Receive, P!dbVars, P!ghostVars
<1>2. Table' /\ req'[r] = new /\ \A q \in Requests : q # r => req'[q] = req[q]
  BY <1>1, OneRequest DEF SoundInv, ProjectCalls
<1>3. new.at = "checked" => new.call \in P!Calls
  BY <1>0
<1>4. ProjectAt(new)
  <2> SUFFICES ASSUME P!Allowed(c)
               PROVE  ProjectAt(new)
    BY <1>0 DEF ProjectAt
  <2>1. /\ new.call = c /\ new.project = project[c.key] /\ new.members = members[c.key]
        /\ new.stamp = stamp[c.key]
    BY <1>0
  <2>2. c.key \in KeysOfProjects /\ stamp[c.key] \in Nat
    BY ProjectCall DEF SoundInv, ProjectTables
  <2>3. /\ c.op = "create" => project[c.key].status = "absent"
        /\ c.op # "create" => project[c.key].status = "active"
        /\ c.op = "replace" => P!Admins(c.arg) # {}
        /\ c.op = "remove" => c.arg \in DOMAIN members[c.key]
        /\ c.op = "remove" /\ members[c.key][c.arg] = "admin" =>
             P!Cardinality(P!Admins(members[c.key])) > 1
    <3> HIDE DEF P!Admins, P!Cardinality
    <3> QED
      BY DEF P!Allowed, P!CreateAllowed, P!PatchAllowed, P!ArchiveAllowed, P!ReplaceAllowed,
             P!RemoveAllowed, P!IsActive
  <2> QED
    BY <2>1, <2>2, <2>3 DEF ProjectAt, StillTrue
<1> QED
  BY <1>1, <1>2, <1>3, <1>4, StillSound

LEMMA ProjectFails ==
  ASSUME SoundInv, NEW r \in Requests, P!Fail(r)
  PROVE  SoundInv' /\ P!StaysSound
<1> PICK new : new = [at |-> "failed"]
  OBVIOUS
<1>1. /\ req' = [req EXCEPT ![r] = new]
      /\ UNCHANGED <<project, members, ref, told, stamp, raced>>
  BY DEF P!Fail, P!dbVars, P!ghostVars
<1>2. Table' /\ req'[r] = new /\ \A q \in Requests : q # r => req'[q] = req[q]
  BY <1>1, OneRequest DEF SoundInv, ProjectCalls
<1>3. ProjectAt(new) /\ new.at # "checked"
  BY DEF ProjectAt
<1> QED
  BY <1>1, <1>2, <1>3, StillSound


LEMMA CreateKeepsSound ==
  ASSUME SoundInv, NEW r \in Requests, P!CreateProject(r)
  PROVE  SoundInv' /\ P!StaysSound
<1> PICK c, k : c = req[r].call /\ k = c.key
  OBVIOUS
<1> PICK founder : founder = [u \in {c.user} |-> "admin"]
  OBVIOUS
<1>1. CASE P!Fail(r)
  BY <1>1, ProjectFails
<1>2. CASE ~P!Fail(r)
  <2>1. /\ req[r].at = "checked" /\ c.op = "create" /\ project[k].status = "absent"
        /\ project' = [project EXCEPT ![k] =
             [status |-> "active", name |-> c.arg.name, text |-> c.arg.text]]
        /\ members' = [members EXCEPT ![k] = founder] /\ ref' = [ref EXCEPT ![k] = c.arg]
        /\ P!Ghosts(r, founder)
    BY <1>2 DEF P!CreateProject, P!Checked, P!Conflicts
  <2>2. c \in P!Calls /\ k \in KeysOfProjects /\ c.arg \in [name : Texts, text : Texts]
    BY <2>1, ProjectCall DEF SoundInv, ProjectCalls
  <2>3. OnlyProject(k)
    BY <2>1, <2>2 DEF SoundInv, ProjectTables, OnlyProject
  <2>4. SoundProject(project'[k], members'[k], ref'[k], founder)
    <3>1. /\ project'[k] = [status |-> "active", name |-> c.arg.name, text |-> c.arg.text]
          /\ members'[k] = founder /\ ref'[k] = c.arg
      BY <2>1, <2>2 DEF SoundInv, ProjectTables
    <3>2. c.user \in P!Admins(founder)
      BY DEF P!Admins
    <3>3. c.arg = [name |-> c.arg.name, text |-> c.arg.text]
      BY <2>2
    <3> QED
      BY <2>2, <3>1, <3>2, <3>3 DEF SoundProject, Entry
  <2> QED
    BY <2>1, <2>3, <2>4, CommitKeepsSound
<1> QED
  BY <1>1, <1>2

\* The columns that change are written to the row that was read.
LEMMA PatchKeepsSound ==
  ASSUME P!None \notin [name : Texts, text : Texts], SoundInv,
         NEW r \in Requests, P!PatchProject(r)
  PROVE  SoundInv' /\ P!StaysSound
<1> PICK q, c, k, mine : q = req[r] /\ c = q.call /\ k = c.key /\ mine = P!Merged(q.project, c.arg)
  OBVIOUS
<1>1. /\ q.at = "checked" /\ c.op = "patch"
      /\ project' = [project EXCEPT
           ![k].name = IF mine.name = q.project.name THEN @ ELSE mine.name,
           ![k].text = IF mine.text = q.project.text THEN @ ELSE mine.text]
      /\ ref' = [ref EXCEPT ![k] = IF @ = P!None THEN P!None ELSE mine]
      /\ members' = members /\ P!Ghosts(r, told[k])
  BY DEF P!PatchProject, P!Checked
<1>2. /\ c \in P!Calls /\ k \in KeysOfProjects
      /\ c.arg \in [name : Texts \cup {P!None}, text : Texts \cup {P!None}]
  BY <1>1, ProjectCall DEF SoundInv, ProjectCalls
<1>3. DOMAIN project = KeysOfProjects /\ DOMAIN members = KeysOfProjects
      /\ DOMAIN ref = KeysOfProjects
  BY DEF SoundInv, ProjectTables
<1>4. PICK p : p = [project[k] EXCEPT
                      !.name = IF mine.name = q.project.name THEN @ ELSE mine.name,
                      !.text = IF mine.text = q.project.text THEN @ ELSE mine.text]
  OBVIOUS
<1>5. project' = [project EXCEPT ![k] = p]
  BY <1>1, <1>2, <1>3, <1>4
<1>6. project'[k] = p /\ members'[k] = members[k]
      /\ ref'[k] = IF ref[k] = P!None THEN P!None ELSE mine
  BY <1>1, <1>2, <1>3, <1>5
<1>7. OnlyProject(k)
  BY <1>1, <1>3, <1>5 DEF OnlyProject
<1>8. ASSUME StillTrue(q), Sound(k)
      PROVE  SoundProject(p, members[k], ref'[k], told[k]) /\ project[k].status # "archived"
  <2>1. q.project = project[k] /\ project[k].status = "active"
    BY <1>1, <1>8 DEF StillTrue
  <2>2. /\ DOMAIN project[k] = {"status", "name", "text"} /\ members[k] = told[k]
        /\ P!Admins(members[k]) # {} /\ ref[k] = Entry(project[k])
        /\ project[k].name \in Texts /\ project[k].text \in Texts
        /\ Entry(project[k]) \in [name : Texts, text : Texts]
    BY <1>8, <2>1 DEF Sound, SoundProject, Entry
  <2>3. mine = [name |-> mine.name, text |-> mine.text]
        /\ mine.name \in Texts /\ mine.text \in Texts
    BY <1>2, <2>1, <2>2 DEF P!Merged
  <2>4. ref'[k] = mine
    BY <1>6, <2>2
  <2>5. DOMAIN p = {"status", "name", "text"} /\ p.status = "active"
        /\ p.name = mine.name /\ p.text = mine.text
    BY <1>4, <2>1, <2>2
  <2> QED
    BY <2>1, <2>2, <2>3, <2>4, <2>5 DEF SoundProject, Entry
<1> QED
  BY <1>1, <1>6, <1>7, <1>8, CommitKeepsSound

LEMMA ArchiveKeepsSound ==
  ASSUME SoundInv, NEW r \in Requests, P!ArchiveProject(r)
  PROVE  SoundInv' /\ P!StaysSound
<1> PICK q, c, k : q = req[r] /\ c = q.call /\ k = c.key
  OBVIOUS
<1>1. /\ q.at = "checked" /\ c.op = "archive"
      /\ project' = [project EXCEPT ![k].status = "archived"]
      /\ ref' = [ref EXCEPT ![k] = P!None] /\ members' = members /\ P!Ghosts(r, told[k])
  BY DEF P!ArchiveProject, P!Checked
<1>2. c \in P!Calls /\ k \in KeysOfProjects
  BY <1>1, ProjectCall DEF SoundInv, ProjectCalls
<1>3. DOMAIN project = KeysOfProjects /\ DOMAIN members = KeysOfProjects
      /\ DOMAIN ref = KeysOfProjects
  BY DEF SoundInv, ProjectTables
<1>4. PICK p : p = [project[k] EXCEPT !.status = "archived"]
  OBVIOUS
<1>5. project' = [project EXCEPT ![k] = p]
  BY <1>1, <1>4
<1>6. project'[k] = p /\ members'[k] = members[k] /\ ref'[k] = P!None
  BY <1>1, <1>2, <1>3, <1>5
<1>7. OnlyProject(k)
  BY <1>1, <1>3, <1>5 DEF OnlyProject
<1>8. ASSUME StillTrue(q), Sound(k)
      PROVE  SoundProject(p, members[k], P!None, told[k]) /\ project[k].status # "archived"
  <2>1. project[k].status = "active"
    BY <1>1, <1>8 DEF StillTrue
  <2>2. /\ DOMAIN project[k] = {"status", "name", "text"} /\ members[k] = told[k]
        /\ Entry(project[k]) \in [name : Texts, text : Texts]
    BY <1>8, <2>1 DEF Sound, SoundProject
  <2>3. DOMAIN p = {"status", "name", "text"} /\ p.status = "archived"
        /\ Entry(p) = Entry(project[k])
    BY <1>4, <2>2 DEF Entry
  <2> QED
    BY <2>1, <2>2, <2>3 DEF SoundProject
<1> QED
  BY <1>1, <1>6, <1>7, <1>8, CommitKeepsSound

\* Of the members that were read, the body is what is left in the end.
LEMMA ReplaceKeepsSound ==
  ASSUME \A roles \in Changes : roles \in [DOMAIN roles -> P!Roles], SoundInv,
         NEW r \in Requests, P!ReplaceMembers(r)
  PROVE  SoundInv' /\ P!StaysSound
<1> PICK q, c, k : q = req[r] /\ c = q.call /\ k = c.key
  OBVIOUS
<1>1. CASE P!Fail(r)
  BY <1>1, ProjectFails
<1>2. CASE ~P!Fail(r)
  <2> DEFINE kill == DOMAIN q.members \ DOMAIN c.arg
             update == {u \in DOMAIN q.members \cap DOMAIN c.arg : q.members[u] # c.arg[u]}
             insert == DOMAIN c.arg \ DOMAIN q.members
             now == members[k]
             new == [u \in (DOMAIN now \ kill) \cup insert |->
                       IF u \in update \cup insert THEN c.arg[u] ELSE now[u]]
  <2>1. /\ q.at = "checked" /\ c.op = "replace" /\ members' = [members EXCEPT ![k] = new]
        /\ project' = project /\ ref' = ref /\ P!Ghosts(r, c.arg)
    BY <1>2 DEF P!ReplaceMembers, P!Checked
  <2>2. c \in P!Calls /\ k \in KeysOfProjects /\ c.arg \in Changes
    BY <2>1, ProjectCall DEF SoundInv, ProjectCalls
  <2>3. DOMAIN project = KeysOfProjects /\ DOMAIN members = KeysOfProjects
        /\ DOMAIN ref = KeysOfProjects
    BY DEF SoundInv, ProjectTables
  <2>4. members'[k] = new
    BY <2>1, <2>2, <2>3
  <2>5. OnlyProject(k)
    <3> HIDE DEF new
    <3> QED
      BY <2>1, <2>3 DEF OnlyProject
  <2>6. ASSUME StillTrue(q), Sound(k)
        PROVE  SoundProject(project'[k], members'[k], ref'[k], c.arg)
               /\ project[k].status # "archived"
    <3>1. now = q.members /\ project[k].status = "active" /\ P!Admins(c.arg) # {}
      BY <2>1, <2>6 DEF StillTrue
    <3>2. new = c.arg
      <4>1. c.arg = [u \in DOMAIN c.arg |-> c.arg[u]]
        BY <2>2
      <4>2. (DOMAIN now \ kill) \cup insert = DOMAIN c.arg
        BY <3>1
      <4>3. \A u \in DOMAIN c.arg :
              (IF u \in update \cup insert THEN c.arg[u] ELSE now[u]) = c.arg[u]
        BY <3>1
      <4>4. new = [u \in DOMAIN c.arg |-> c.arg[u]]
        BY <4>2, <4>3
      <4> QED
        BY <4>1, <4>4
    <3> HIDE DEF new
    <3> QED
      BY <2>1, <2>4, <2>6, <3>1, <3>2 DEF Sound, SoundProject
  <2> HIDE DEF new
  <2> QED
    BY <2>1, <2>5, <2>6, CommitKeepsSound
<1> QED
  BY <1>1, <1>2

\* Whoever removes an admin has counted another one.
LEMMA RemoveKeepsSound ==
  ASSUME SoundInv, NEW r \in Requests, P!RemoveMember(r)
  PROVE  SoundInv' /\ P!StaysSound
<1> PICK q, c, k : q = req[r] /\ c = q.call /\ k = c.key
  OBVIOUS
<1> DEFINE Without(f) == P!Restrict(f, DOMAIN f \ {c.arg})
<1>1. /\ q.at = "checked" /\ c.op = "remove"
      /\ members' = [members EXCEPT ![k] = Without(members[k])]
      /\ project' = project /\ ref' = ref /\ P!Ghosts(r, Without(told[k]))
  BY DEF P!RemoveMember, P!Checked
<1>2. c \in P!Calls /\ k \in KeysOfProjects
  BY <1>1, ProjectCall DEF SoundInv, ProjectCalls
<1>3. DOMAIN project = KeysOfProjects /\ DOMAIN members = KeysOfProjects
      /\ DOMAIN ref = KeysOfProjects
  BY DEF SoundInv, ProjectTables
<1>4. \A f : P!Admins(Without(f)) = P!Admins(f) \ {c.arg}
  BY DEF P!Restrict, P!Admins
<1> HIDE DEF Without
<1>5. members'[k] = Without(members[k])
  BY <1>1, <1>2, <1>3
<1>6. OnlyProject(k)
  BY <1>1, <1>3 DEF OnlyProject
<1>7. ASSUME StillTrue(q), Sound(k)
      PROVE  SoundProject(project'[k], members'[k], ref'[k], Without(told[k]))
             /\ project[k].status # "archived"
  <2>1. /\ project[k].status = "active" /\ members[k] = told[k]
        /\ P!Admins(members[k]) # {} /\ c.arg \in DOMAIN members[k]
        /\ members[k][c.arg] = "admin" => P!Cardinality(P!Admins(members[k])) > 1
    BY <1>1, <1>7 DEF StillTrue, Sound, SoundProject
  <2>2. P!Admins(members[k]) \ {c.arg} # {}
    <3> SUFFICES ASSUME P!Admins(members[k]) \subseteq {c.arg}
                 PROVE  FALSE
      OBVIOUS
    <3>1. P!Admins(members[k]) = {c.arg} /\ members[k][c.arg] = "admin"
      BY <2>1 DEF P!Admins
    <3>2. \A X : P!Cardinality(X) = Cardinality(X)
      BY Zenon DEF P!Cardinality, Cardinality, P!IsFiniteSet, IsFiniteSet
    <3>3. Cardinality({c.arg}) = 1
      BY FS_Singleton
    <3> QED
      BY <2>1, <3>1, <3>2, <3>3
  <2> QED
    BY <1>1, <1>4, <1>5, <1>7, <2>1, <2>2 DEF Sound, SoundProject
<1> QED
  BY <1>1, <1>6, <1>7, CommitKeepsSound

LEMMA SoundStart == P!Init => SoundInv
<1> SUFFICES ASSUME P!Init
             PROVE  SoundInv
  OBVIOUS
<1>1. ProjectCalls /\ \A r \in Requests : req[r].at # "checked"
  BY ProjectStart DEF P!Init, P!Idle
<1>2. PICK ks \in SUBSET KeysOfProjects, first \in Founders, t \in Texts :
       /\ project = [key \in KeysOfProjects |->
            IF key \in ks THEN [status |-> "active", name |-> t, text |-> t] ELSE P!Absent]
       /\ members = [key \in KeysOfProjects |-> IF key \in ks THEN first ELSE P!NoMembers]
       /\ ref = [key \in KeysOfProjects |-> IF key \in ks THEN [name |-> t, text |-> t] ELSE P!None]
  BY DEF P!Init
<1>3. told = members /\ stamp = [k \in KeysOfProjects |-> 0]
  BY DEF P!Init
<1>4. ProjectTables
  BY <1>2, <1>3 DEF ProjectTables
<1>5. P!Admins(first) # {}
  BY <1>2, ProjectAssumption DEF P!Admins
<1>6. ASSUME NEW k \in KeysOfProjects
      PROVE  Sound(k)
  BY <1>2, <1>3, <1>5, <1>6 DEF Sound, SoundProject, Entry, P!Absent
<1> QED
  BY <1>1, <1>4, <1>6 DEF SoundInv, ProjectAt

LEMMA SoundStep ==
  SoundInv /\ [P!Next]_P!vars => SoundInv' /\ P!StaysSound
<1> SUFFICES ASSUME SoundInv, [P!Next]_P!vars
             PROVE  SoundInv' /\ P!StaysSound
  OBVIOUS
<1>1. CASE P!PruneKeys \/ UNCHANGED P!vars
  <2>1. UNCHANGED <<project, members, ref, told, stamp, raced, req>>
    BY <1>1 DEF P!PruneKeys, P!vars, P!dbVars, P!ghostVars
  <2>2. Table'
    BY <2>1 DEF SoundInv, ProjectCalls, Table
  <2> QED
    BY <2>1, <2>2, StillSound
<1>2. /\ P!None \notin [name : Texts, text : Texts]
      /\ \A roles \in Changes : roles \in [DOMAIN roles -> P!Roles]
  BY ProjectAssumption DEF P!None, P!Roles, P!RoleOrder, Roles, RoleOrder
<1> QED
  BY <1>1, <1>2, ProjectReceives, CreateKeepsSound, PatchKeepsSound, ArchiveKeepsSound,
     ReplaceKeepsSound, RemoveKeepsSound DEF P!Next

(***************************************************************************)
(* The log of a step.                                                      *)
(***************************************************************************)

LEMMA NatRounds ==
  ASSUME NEW X, 0 \in X, \A n \in Nat : n \in X => n + 1 \in X
  PROVE  Nat \subseteq X
<1> SUFFICES ASSUME Nat \ X # {}
             PROVE  FALSE
  OBVIOUS
<1>1. PICK m \in Nat \ X : \A k \in Nat \ X : <<k, m>> \notin OpToRel(<, Nat)
  BY NatLessThanWellFounded, WFMin
<1>2. \A k \in Nat \ X : ~(k < m)
  BY <1>1 DEF OpToRel
<1>3. m \in Nat /\ m # 0
  BY <1>1, Zenon
<1>4. m - 1 \in Nat /\ m - 1 < m /\ (m - 1) + 1 = m
  BY <1>3
<1>5. m - 1 \in X
  BY <1>2, <1>4
<1>6. m \in X
  BY <1>4, <1>5
<1> QED
  BY <1>1, <1>6

LEMMA LogCardinality == \A X : L!Cardinality(X) = Cardinality(X)
BY Zenon DEF L!Cardinality, Cardinality

Bytes == Nat \X Nat

LEMMA Joined ==
  ASSUME NEW a \in Seq(Bytes), NEW b \in Seq(Bytes), NEW c, c = a \o b
  PROVE  /\ c \in Seq(Bytes) /\ Len(c) = Len(a) + Len(b)
         /\ Len(a) \in Nat /\ Len(b) \in Nat /\ Len(c) \in Nat
         /\ \A i \in 1..Len(a) : c[i] = a[i]
         /\ \A i \in (Len(a) + 1)..Len(c) : c[i] = b[i - Len(a)]
<1>1. Len(a) \in Nat /\ Len(b) \in Nat
  OBVIOUS
<1> QED
  BY <1>1, ConcatProperties

\* The log after each of its n chunks, while one attempt has written them.
Tails(log, n) ==
  /\ n \in Nat /\ log \in [Nat -> Seq(Bytes)] /\ log[0] = <<>>
  /\ chunk = [k \in DOMAIN chunk |-> chunk[k]] /\ DOMAIN chunk = 0..(n - 1)
  /\ \A k \in 0..(n - 1) : chunk[k] \in Seq(Bytes) /\ log[k + 1] = log[k] \o chunk[k]

\* Chunks numbered from 0 on are listed in that order.
LEMMA ListedInOrder ==
  ASSUME NEW n \in Nat, DOMAIN chunk = 0..(n - 1)
  PROVE  L!Keys = [i \in 1..n |-> i - 1]
<1> DEFINE D == 0..(n - 1)
           Rising(s) == s \in [1..n -> D] /\ \A i, j \in 1..n : i < j => s[i] < s[j]
<1>1. Cardinality(DOMAIN chunk) = n
  <2>1. Cardinality(0..(n - 1)) = IF 0 > n - 1 THEN 0 ELSE (n - 1) - 0 + 1
    BY FS_Interval
  <2> QED
    BY <2>1
<1>2. L!Keys = CHOOSE s \in [1..n -> D] : \A i, j \in 1..n : i < j => s[i] < s[j]
  <2>1. PICK m, K : m = Cardinality(DOMAIN chunk) /\ K = DOMAIN chunk
    OBVIOUS
  <2>2. L!Keys = CHOOSE s \in [1..m -> K] : \A i, j \in 1..m : i < j => s[i] < s[j]
    BY <2>1, LogCardinality, Zenon DEF L!Keys
  <2>3. m = n /\ K = D
    BY <1>1, <2>1
  <2> QED
    BY <2>2, <2>3, Zenon
<1>3. Rising([i \in 1..n |-> i - 1])
  OBVIOUS
<1>4. Rising(L!Keys)
  BY <1>2, <1>3
<1>5. ASSUME NEW s, Rising(s), NEW i \in 1..n
      PROVE  s[i] = i - 1
  <2> DEFINE Up == {k \in Nat : i + k <= n => s[i + k] >= s[i] + k}
             Down == {k \in Nat : 1 + k <= n => s[1 + k] >= k}
  <2>1. 0 \in Up /\ 0 \in Down
    BY <1>5
  <2>2. ASSUME NEW k \in Nat, k \in Up
        PROVE  k + 1 \in Up
    <3> SUFFICES ASSUME i + (k + 1) <= n
                 PROVE  s[i + (k + 1)] >= s[i] + (k + 1)
      OBVIOUS
    <3>1. i + k \in 1..n /\ i + (k + 1) \in 1..n /\ i + k < i + (k + 1)
      OBVIOUS
    <3>2. s[i + k] < s[i + (k + 1)] /\ s[i + k] \in Int /\ s[i + (k + 1)] \in Int /\ s[i] \in Int
      BY <1>5, <3>1
    <3>3. s[i + k] >= s[i] + k
      BY <2>2, <3>1
    <3> QED
      BY <3>2, <3>3
  <2>3. ASSUME NEW k \in Nat, k \in Down
        PROVE  k + 1 \in Down
    <3> SUFFICES ASSUME 1 + (k + 1) <= n
                 PROVE  s[1 + (k + 1)] >= k + 1
      OBVIOUS
    <3>1. 1 + k \in 1..n /\ 1 + (k + 1) \in 1..n /\ 1 + k < 1 + (k + 1)
      OBVIOUS
    <3>2. s[1 + k] < s[1 + (k + 1)] /\ s[1 + k] \in Int /\ s[1 + (k + 1)] \in Int
      BY <1>5, <3>1
    <3>3. s[1 + k] >= k
      BY <2>3, <3>1
    <3> QED
      BY <3>2, <3>3
  <2> HIDE DEF Up, Down
  <2>4. Nat \subseteq Up
    BY <2>1, <2>2, NatRounds, Zenon
  <2>5. Nat \subseteq Down
    BY <2>1, <2>3, NatRounds, Zenon
  <2>6. n - i \in Up /\ i - 1 \in Down
    BY <2>4, <2>5
  <2>7. s[i + (n - i)] >= s[i] + (n - i) /\ s[1 + (i - 1)] >= i - 1
    BY <2>6 DEF Up, Down
  <2>8. i + (n - i) = n /\ 1 + (i - 1) = i /\ s[n] \in 0..(n - 1) /\ s[i] \in 0..(n - 1)
    BY <1>5
  <2> QED
    BY <2>7, <2>8
<1>6. L!Keys = [i \in 1..n |-> L!Keys[i]]
  BY <1>4
<1>7. \A i \in 1..n : L!Keys[i] = i - 1
  BY <1>4, <1>5
<1> QED
  BY <1>6, <1>7

\* What the endpoint concatenates is the log after the last chunk.
LEMMA LogIsItsChunks ==
  ASSUME NEW log, NEW n, Tails(log, n)
  PROVE  L!Log = log[n]
<1>1. PICK s : s = [i \in 1..n |-> chunk[i - 1]]
  OBVIOUS
<1>2. n \in Nat /\ Len(s) = n
  BY <1>1 DEF Tails
<1>3. L!Log = L!FlattenSeq(s)
  <2>1. L!Keys = [i \in 1..n |-> i - 1]
    BY ListedInOrder DEF Tails
  <2>2. [i \in DOMAIN L!Keys |-> chunk[L!Keys[i]]] = s
    BY <1>1, <2>1
  <2> QED
    BY <2>2 DEF L!Log
<1>4. CASE n = 0
  BY <1>1, <1>2, <1>3, <1>4 DEF L!FlattenSeq, Tails
<1>5. CASE n # 0
  <2> DEFINE Makes(f) == f = [i \in 1..n |-> IF i = 1 THEN s[i] ELSE f[i - 1] \o s[i]]
  <2>1. L!FlattenSeq(s) = (CHOOSE f : Makes(f))[n]
    BY <1>2, <1>5 DEF L!FlattenSeq
  <2>2. PICK g : g = [i \in 1..n |-> log[i]]
    OBVIOUS
  <2>3. Makes(g)
    <3>1. ASSUME NEW i \in 1..n
          PROVE  log[i] = IF i = 1 THEN s[i] ELSE g[i - 1] \o s[i]
      <4>1. i - 1 \in 0..(n - 1) /\ (i - 1) + 1 = i /\ s[i] = chunk[i - 1]
        BY <1>1, <1>2
      <4>2. log[i] = log[i - 1] \o chunk[i - 1] /\ chunk[i - 1] \in Seq(Bytes)
        BY <4>1 DEF Tails
      <4>3. CASE i = 1
        <5>1. log[i] = <<>> \o chunk[i - 1]
          <6>1. i - 1 = 0 /\ log[0] = <<>>
            BY <4>3 DEF Tails
          <6> QED
            BY <4>2, <6>1
        <5>2. log[i] = chunk[i - 1]
          BY <4>2, <5>1, ConcatEmptySeq
        <5> QED
          BY <4>1, <4>3, <5>2
      <4>4. CASE i # 1
        <5>1. i - 1 \in 1..n
          BY <1>2, <4>4
        <5>2. g[i - 1] = log[i - 1]
          BY <2>2, <5>1
        <5> QED
          BY <4>1, <4>2, <4>4, <5>2
      <4> QED
        BY <4>3, <4>4
    <3> QED
      BY <2>2, <3>1
  <2>4. PICK f : f = CHOOSE h : Makes(h)
    OBVIOUS
  <2>5. Makes(f)
    BY <2>3, <2>4
  <2> DEFINE Same == {k \in Nat : k + 1 <= n => f[k + 1] = log[k + 1]}
  <2>6. 0 \in Same
    BY <1>2, <1>5, <2>2, <2>3, <2>5
  <2>7. ASSUME NEW k \in Nat, k \in Same
        PROVE  k + 1 \in Same
    <3> SUFFICES ASSUME (k + 1) + 1 <= n
                 PROVE  f[(k + 1) + 1] = log[(k + 1) + 1]
      OBVIOUS
    <3>1. PICK i : i = (k + 1) + 1
      OBVIOUS
    <3>2. i \in 1..n /\ i # 1 /\ i - 1 = k + 1 /\ k + 1 \in 1..n
      BY <1>2, <3>1
    <3>3. f[i] = f[i - 1] \o s[i] /\ g[i] = g[i - 1] \o s[i]
      BY <2>3, <2>5, <3>2
    <3>4. f[k + 1] = log[k + 1]
      BY <2>7, <3>2
    <3> QED
      BY <2>2, <3>1, <3>2, <3>3, <3>4
  <2> HIDE DEF Same
  <2>8. Nat \subseteq Same
    BY <2>6, <2>7, NatRounds, Zenon
  <2>9. n - 1 \in Nat /\ (n - 1) + 1 = n
    BY <1>2, <1>5
  <2>10. f[n] = log[n]
    BY <2>8, <2>9 DEF Same
  <2> QED
    BY <1>3, <2>1, <2>4, <2>10
<1> QED
  BY <1>4, <1>5

\* The log only grows at its end.
LEMMA TailsGrow ==
  ASSUME NEW log, NEW n, Tails(log, n), NEW j \in 0..n
  PROVE  /\ Len(log[j]) <= Len(log[n]) /\ Len(log[j]) \in Nat /\ Len(log[n]) \in Nat
         /\ \A i \in 1..Len(log[j]) : log[n][i] = log[j][i]
<1> DEFINE Grown == {k \in Nat : j + k <= n =>
                       /\ Len(log[j]) <= Len(log[j + k])
                       /\ \A i \in 1..Len(log[j]) : log[j + k][i] = log[j][i]}
<1>1. n \in Nat /\ log \in [Nat -> Seq(Bytes)] /\ \A k \in Nat : Len(log[k]) \in Nat
  BY DEF Tails
<1>2. 0 \in Grown
  BY <1>1
<1>3. ASSUME NEW k \in Nat, k \in Grown
      PROVE  k + 1 \in Grown
  <2> SUFFICES ASSUME j + (k + 1) <= n
               PROVE  /\ Len(log[j]) <= Len(log[j + (k + 1)])
                      /\ \A i \in 1..Len(log[j]) : log[j + (k + 1)][i] = log[j][i]
    OBVIOUS
  <2>1. PICK a, b, c, d : /\ a = log[j] /\ b = log[j + k] /\ c = log[j + (k + 1)]
                          /\ d = chunk[j + k]
    OBVIOUS
  <2>2. j + k \in 0..(n - 1) /\ j + (k + 1) = (j + k) + 1 /\ j + k <= n /\ j + k \in Nat /\ j \in Nat
    BY <1>1
  <2>3. c = b \o d /\ d \in Seq(Bytes) /\ b \in Seq(Bytes)
    BY <1>1, <2>1, <2>2 DEF Tails
  <2>4. /\ Len(c) = Len(b) + Len(d) /\ Len(b) \in Nat /\ Len(d) \in Nat
        /\ \A i \in 1..Len(b) : c[i] = b[i]
    BY <2>3, Joined
  <2>5. Len(a) <= Len(b) /\ \A i \in 1..Len(a) : b[i] = a[i]
    BY <1>3, <2>1, <2>2
  <2>6. Len(a) \in Nat
    BY <1>1, <2>1, <2>2
  <2> QED
    <3>1. Len(a) <= Len(c) /\ \A i \in 1..Len(a) : c[i] = a[i]
      BY <2>4, <2>5, <2>6
    <3> QED
      BY <2>1, <3>1, Zenon
<1> HIDE DEF Grown
<1>4. Nat \subseteq Grown
  BY <1>2, <1>3, NatRounds, Zenon
<1>5. n - j \in Nat /\ j + (n - j) = n
  BY <1>1
<1>6. n - j \in Grown
  BY <1>4, <1>5
<1> QED
  BY <1>1, <1>5, <1>6 DEF Grown

\* What the next chunk adds to a reply.
LEMMA ReplyGrows ==
  ASSUME NEW a \in Seq(Bytes), NEW b \in Seq(Bytes), NEW after \in Nat
  PROVE  SubSeq(a \o b, after + 1, Len(a \o b))
           = SubSeq(a, after + 1, Len(a)) \o L!Unseen(b, Len(a), after)
<1>1. PICK k : k = IF after <= Len(a) THEN 0 ELSE after - Len(a)
  OBVIOUS
<1>2. k \in Nat /\ Len(a) \in Nat /\ Len(b) \in Nat
  BY <1>1
<1>3. L!Unseen(b, Len(a), after) = SubSeq(b, k + 1, Len(b))
  BY <1>1 DEF L!Unseen, L!GetRange
<1>4. PICK x, y, z : /\ x = SubSeq(a \o b, after + 1, Len(a \o b))
                     /\ y = SubSeq(a, after + 1, Len(a)) /\ z = SubSeq(b, k + 1, Len(b))
  OBVIOUS
<1>5. PICK c, la, lb : c = a \o b /\ la = Len(a) /\ lb = Len(b)
  OBVIOUS
<1>6. /\ la \in Nat /\ lb \in Nat /\ c \in Seq(Bytes) /\ Len(c) = la + lb
      /\ \A i \in 1..la : c[i] = a[i]
      /\ \A i \in (la + 1)..(la + lb) : c[i] = b[i - la]
  BY <1>5, Joined
<1>7. /\ x \in Seq(Bytes) /\ Len(x) = IF after + 1 <= la + lb THEN la + lb - after ELSE 0
      /\ \A i \in 1..Len(x) : x[i] = c[i + after]
  <2>1. x = SubSeq(c, after + 1, la + lb) /\ \A i \in (after + 1)..(la + lb) : c[i] \in Bytes
    BY <1>4, <1>5, <1>6, ElementOfSeq
  <2>2. after + 1 \in Int /\ la + lb \in Int
    BY <1>6
  <2>3. /\ x \in Seq(Bytes)
        /\ Len(x) = IF after + 1 <= la + lb THEN la + lb - (after + 1) + 1 ELSE 0
        /\ \A i \in 1..(la + lb - (after + 1) + 1) : x[i] = c[after + 1 + i - 1]
    BY <1>6, <2>1, <2>2, SubSeqProperties, SMTT(30)
  <2> QED
    BY <1>6, <2>3
<1>8. /\ y \in Seq(Bytes) /\ Len(y) = IF after + 1 <= la THEN la - after ELSE 0
      /\ \A i \in 1..Len(y) : y[i] = a[i + after]
  <2>1. y = SubSeq(a, after + 1, la) /\ \A i \in (after + 1)..la : a[i] \in Bytes
    BY <1>4, <1>5, <1>6, ElementOfSeq
  <2>2. after + 1 \in Int /\ la \in Int
    BY <1>6
  <2>3. /\ y \in Seq(Bytes)
        /\ Len(y) = IF after + 1 <= la THEN la - (after + 1) + 1 ELSE 0
        /\ \A i \in 1..(la - (after + 1) + 1) : y[i] = a[after + 1 + i - 1]
    BY <2>1, <2>2, SubSeqProperties
  <2> QED
    BY <1>6, <2>3
<1>9. /\ z \in Seq(Bytes) /\ Len(z) = IF k + 1 <= lb THEN lb - k ELSE 0
      /\ \A i \in 1..Len(z) : z[i] = b[i + k]
  <2>1. z = SubSeq(b, k + 1, lb) /\ \A i \in (k + 1)..lb : b[i] \in Bytes
    BY <1>2, <1>4, <1>5, <1>6, ElementOfSeq
  <2>2. k + 1 \in Int /\ lb \in Int
    BY <1>2, <1>6
  <2>3. /\ z \in Seq(Bytes)
        /\ Len(z) = IF k + 1 <= lb THEN lb - (k + 1) + 1 ELSE 0
        /\ \A i \in 1..(lb - (k + 1) + 1) : z[i] = b[k + 1 + i - 1]
    BY <2>1, <2>2, SubSeqProperties
  <2> QED
    BY <1>2, <1>6, <2>3
<1>10. PICK w : w = y \o z
  OBVIOUS
<1>11. /\ w \in Seq(Bytes) /\ Len(w) = Len(y) + Len(z)
       /\ \A i \in 1..Len(y) : w[i] = y[i]
       /\ \A i \in (Len(y) + 1)..Len(w) : w[i] = z[i - Len(y)]
  <2>1. y \in Seq(Bytes) /\ z \in Seq(Bytes)
    BY <1>8, <1>9
  <2> QED
    BY <1>10, <2>1, Joined, SMTT(30)
<1>12. k = IF after <= la THEN 0 ELSE after - la
  BY <1>1, <1>5
<1>13. Len(w) = Len(x)
  BY <1>6, <1>7, <1>8, <1>9, <1>11, <1>12
<1>14. ASSUME NEW i \in 1..Len(x)
       PROVE  x[i] = w[i]
  <2>1. x[i] = c[i + after] /\ i + after \in 1..(la + lb)
    BY <1>6, <1>7
  <2>2. CASE i + after <= la
    <3>1. i \in 1..Len(y)
      BY <1>6, <1>8, <2>2
    <3>2. x[i] = a[i + after]
      BY <1>6, <2>1, <2>2
    <3> QED
      BY <1>8, <1>11, <3>1, <3>2
  <2>3. CASE i + after > la
    <3>1. i \in (Len(y) + 1)..Len(w) /\ i - Len(y) \in 1..Len(z) /\ (i - Len(y)) + k = i + after - la
      <4>1. PICK ly, lz : ly = Len(y) /\ lz = Len(z)
        OBVIOUS
      <4>2. ly = IF after + 1 <= la THEN la - after ELSE 0
        BY <1>8, <4>1
      <4>3. lz = IF k + 1 <= lb THEN lb - k ELSE 0
        BY <1>9, <4>1
      <4>4. i \in 1..(ly + lz) /\ Len(w) = ly + lz
        BY <1>11, <1>13, <4>1
      <4>5. /\ i \in (ly + 1)..(ly + lz) /\ i - ly \in 1..lz
            /\ (i - ly) + k = i + after - la
        BY <1>6, <1>12, <2>1, <2>3, <4>2, <4>3, <4>4
      <4> QED
        BY <4>1, <4>4, <4>5
    <3>2. x[i] = b[i + after - la]
      <4>1. i + after \in (la + 1)..(la + lb)
        BY <1>6, <2>1, <2>3
      <4> QED
        BY <1>6, <2>1, <4>1
    <3>3. w[i] = z[i - Len(y)] /\ z[i - Len(y)] = b[(i - Len(y)) + k]
      BY <1>9, <1>11, <3>1
    <3> QED
      BY <3>1, <3>2, <3>3
  <2> QED
    BY <1>6, <2>1, <2>2, <2>3
<1>15. x = w
  BY <1>7, <1>11, <1>13, <1>14, SeqEqual
<1> QED
  BY <1>3, <1>4, <1>10, <1>15

\* Who has started the step, and what it has written.  A buffer is flushed as soon as
\* something is in it.
LogWriters ==
  /\ attempt \in 0..LastAttempt /\ claim \in 0..attempt /\ wrote \subseteq 1..attempt
  /\ writer = [w \in L!Attempts |-> writer[w]]
  /\ \A w \in L!Attempts : /\ w > attempt => writer[w].at = "none"
                           /\ w \notin wrote => writer[w].next = 0 /\ writer[w].total = 0
                           /\ writer[w].next \in Nat /\ writer[w].total \in Nat
                           /\ writer[w] = [at |-> writer[w].at, buffer |-> <<>>,
                                           next |-> writer[w].next, total |-> writer[w].total]

\* A step that has ended has ended for good, and the first attempt with it if it
\* succeeded.
LogEnds ==
  /\ step = [status |-> step.status, size |-> step.size]
  /\ running = "no" => step.status \notin {"queued", "running"}
  /\ attempt = 0 => step.status \in {"queued", "skipped"}
  /\ attempt = 1 /\ claim # 0 => step.status = "running"
  /\ attempt = 1 /\ step.status = "succeeded" => writer[1].at = "ended" /\ step.size = writer[1].total

\* The drawer has read to the end.
AtTheEnd == attempt = 1 /\ step.status = "succeeded" /\ running = "no"

LogWhole(log, n) ==
  /\ Tails(log, n)
  /\ wrote = {} => n = 0
  /\ \A w \in wrote : writer[w].next = n /\ writer[w].total = Len(log[n])

\* The bytes below k are on the screen.
Seen(log, n, k) == k \in Nat /\ k <= Len(log[n]) /\ \A i \in 1..k : log[n][i] \in shown

\* A reply has the log from where it was asked for to chunk j, of the m there were.
Replies(log, n, q, j, m) ==
  /\ q = [at |-> "listed", after |-> q.after, keys |-> q.keys, content |-> q.content, next |-> q.next]
  /\ j \in 0..m /\ m \in 0..n
  /\ q.keys = [i \in 1..(m - j) |-> (j + i) - 1] /\ q.next = Len(log[j])
  /\ q.content = SubSeq(log[j], q.after + 1, Len(log[j]))
  /\ AtTheEnd => m = n

LogRead(log, n) ==
  /\ Seen(log, n, offset)
  /\ AtTheEnd /\ offset > 0 => offset = Len(log[n])
  /\ poll = [r \in Reads |-> poll[r]]
  /\ \A r \in Reads : poll[r] # L!NoRead =>
       /\ Seen(log, n, poll[r].after)
       /\ poll[r].at = "listed" => \E j, m : Replies(log, n, poll[r], j, m)

Single(X) == \A x, y \in X : x = y

LogInv ==
  /\ LogWriters /\ LogEnds
  /\ Single(wrote) => \E log, n : LogWhole(log, n) /\ LogRead(log, n)

LEMMA LogStart == L!Init => LogInv
<1> SUFFICES ASSUME L!Init
             PROVE  LogInv
  OBVIOUS
<1>1. LogWriters
  BY LogAssumption DEF L!Init, LogWriters, L!NoWriter, L!Attempts
<1>2. LogEnds
  BY DEF L!Init, LogEnds
<1>3. PICK log : log = [k \in Nat |-> <<>>]
  OBVIOUS
<1>4. <<>> \in Seq(Bytes) /\ Len(<<>>) = 0
  OBVIOUS
<1>5. log \in [Nat -> Seq(Bytes)] /\ log[0] = <<>>
  BY <1>3, <1>4
<1>6. chunk = <<>> /\ DOMAIN chunk = 0..(0 - 1)
  BY DEF L!Init
<1>7. chunk = [k \in DOMAIN chunk |-> chunk[k]]
  BY <1>6
<1>8. Tails(log, 0)
  BY <1>5, <1>6, <1>7 DEF Tails
<1>9. LogWhole(log, 0)
  BY <1>8 DEF L!Init, LogWhole
<1>10. LogRead(log, 0)
  BY <1>4, <1>5 DEF L!Init, LogRead, Seen, AtTheEnd, L!NoRead
<1> QED
  BY <1>1, <1>2, <1>9, <1>10 DEF LogInv

\* The worker writes the next chunk.
LEMMA ChunkKeepsInv ==
  ASSUME LogInv, NEW w \in L!Attempts, NEW v, NEW at,
         v.buffer \in Seq(Bytes) \ {<<>>}, v.next = writer[w].next, v.total = writer[w].total,
         writer[w].at \in {"started", "building"}, at \in {"building", "written"},
         L!Flush(w, v, at), UNCHANGED <<step, claim, attempt, L!drawerVars>>
  PROVE  LogInv'
<1>1. /\ chunk' = [k \in DOMAIN chunk \cup {v.next} |-> IF k = v.next THEN v.buffer ELSE chunk[k]]
      /\ writer' = [writer EXCEPT ![w] = [at |-> at, buffer |-> <<>>, next |-> v.next + 1,
                                          total |-> v.total + Len(v.buffer)]]
      /\ wrote' = wrote \cup {w}
  BY DEF L!Flush
<1>2. w \in 1..attempt /\ LogWriters /\ LogEnds
  BY DEF LogInv, LogWriters, L!Attempts
<1>3. UNCHANGED <<running, offset, shown, poll>>
  BY DEF L!drawerVars
<1>4. /\ writer'[w] = [at |-> at, buffer |-> <<>>, next |-> v.next + 1, total |-> v.total + Len(v.buffer)]
      /\ \A u \in L!Attempts : u # w => writer'[u] = writer[u]
      /\ writer' = [u \in L!Attempts |-> writer'[u]]
  BY <1>1, <1>2 DEF LogWriters
<1>5. v.total + Len(v.buffer) \in Nat
  BY <1>2 DEF LogWriters
<1>6. LogWriters'
  BY <1>1, <1>2, <1>4, <1>5 DEF LogWriters
<1>7. ~(attempt = 1 /\ step.status = "succeeded")
  BY <1>2 DEF LogEnds
<1>8. LogEnds'
  BY <1>2, <1>3, <1>7 DEF LogEnds
<1>9. ASSUME Single(wrote')
      PROVE  \E log, n : (LogWhole(log, n) /\ LogRead(log, n))'
  <2>1. Single(wrote) /\ wrote \subseteq {w}
    BY <1>1, <1>9 DEF Single
  <2>2. PICK log, n : LogWhole(log, n) /\ LogRead(log, n)
    BY <2>1 DEF LogInv
  <2>3. n \in Nat /\ log \in [Nat -> Seq(Bytes)]
    BY <2>2 DEF LogWhole, Tails
  <2>4. v.next = n /\ v.total = Len(log[n])
    <3>1. CASE wrote = {}
      BY <1>2, <2>2, <3>1 DEF LogWriters, LogWhole, Tails
    <3>2. CASE wrote = {w}
      BY <2>2, <3>2 DEF LogWhole
    <3> QED
      BY <2>1, <3>1, <3>2
  <2>5. PICK new, b : new = [log EXCEPT ![n + 1] = log[n] \o v.buffer] /\ b = v.buffer
    OBVIOUS
  <2>6. /\ new \in [Nat -> Seq(Bytes)] /\ new[n + 1] = log[n] \o b
        /\ \A k \in 0..n : new[k] = log[k]
        /\ Len(new[n + 1]) = Len(log[n]) + Len(b) /\ Len(log[n]) \in Nat /\ Len(b) \in Nat
        /\ \A i \in 1..Len(log[n]) : new[n + 1][i] = log[n][i]
    <3>1. PICK c : c = log[n] \o b
      OBVIOUS
    <3>2. /\ c \in Seq(Bytes) /\ Len(c) = Len(log[n]) + Len(b) /\ Len(log[n]) \in Nat /\ Len(b) \in Nat
          /\ \A i \in 1..Len(log[n]) : c[i] = log[n][i]
      BY <2>3, <2>5, <3>1, Joined
    <3>3. new = [log EXCEPT ![n + 1] = c]
      BY <2>5, <3>1
    <3>4. n + 1 \in Nat /\ \A k \in 0..n : k \in Nat /\ k # n + 1
      BY <2>3
    <3>5. new \in [Nat -> Seq(Bytes)] /\ new[n + 1] = c /\ \A k \in 0..n : new[k] = log[k]
      BY <2>3, <3>2, <3>3, <3>4
    <3> QED
      BY <3>1, <3>2, <3>5
  <2>7. /\ chunk' = [k \in DOMAIN chunk' |-> chunk'[k]] /\ DOMAIN chunk' = 0..n
        /\ chunk'[n] = b /\ \A k \in 0..(n - 1) : chunk'[k] = chunk[k]
    <3>1. DOMAIN chunk = 0..(n - 1)
      BY <2>2 DEF LogWhole, Tails
    <3>2. chunk' = [k \in 0..n |-> IF k = n THEN b ELSE chunk[k]]
      <4>1. (0..(n - 1)) \cup {n} = 0..n
        BY <2>3
      <4>2. chunk' = [k \in (0..(n - 1)) \cup {n} |-> IF k = n THEN b ELSE chunk[k]]
        BY <1>1, <2>4, <2>5, <3>1
      <4> QED
        BY <4>1, <4>2
    <3> QED
      BY <2>3, <3>2
  <2>8. Tails(new, n + 1)'
    <3>1. (n + 1) - 1 = n /\ n + 1 \in Nat
      <4>1. n \in Nat
        BY <2>3, Zenon
      <4> QED
        BY <4>1
    <3>2. new[0] = <<>>
      <4>1. 0 \in 0..n
        BY <2>3
      <4>2. log[0] = <<>>
        BY <2>2 DEF LogWhole, Tails
      <4> QED
        BY <2>6, <4>1, <4>2
    <3>3. ASSUME NEW k \in 0..n
          PROVE  chunk'[k] \in Seq(Bytes) /\ new[k + 1] = new[k] \o chunk'[k]
      <4>1. CASE k = n
        BY <2>3, <2>5, <2>6, <2>7, <4>1
      <4>2. CASE k # n
        <5>1. k \in 0..(n - 1) /\ k + 1 \in 0..n
          BY <2>3, <4>2
        <5>2. chunk[k] \in Seq(Bytes) /\ log[k + 1] = log[k] \o chunk[k]
          BY <2>2, <5>1 DEF LogWhole, Tails
        <5> QED
          BY <2>6, <2>7, <5>1, <5>2
      <4> QED
        BY <4>1, <4>2
    <3> QED
      BY <2>6, <2>7, <3>1, <3>2, <3>3 DEF Tails
  <2>9. LogWhole(new, n + 1)'
    BY <1>1, <1>4, <2>1, <2>4, <2>5, <2>6, <2>8 DEF LogWhole
  <2>10. \A k : Seen(log, n, k) => Seen(new, n + 1, k)'
    <3> SUFFICES ASSUME NEW k, Seen(log, n, k)
                 PROVE  Seen(new, n + 1, k)'
      OBVIOUS
    <3>1. k \in Nat /\ k <= Len(log[n]) /\ \A i \in 1..k : log[n][i] \in shown
      BY DEF Seen
    <3>2. k <= Len(new[n + 1])
      BY <2>6, <3>1
    <3>3. \A i \in 1..k : i \in 1..Len(log[n]) /\ new[n + 1][i] = log[n][i]
      BY <2>6, <3>1
    <3> QED
      BY <1>3, <3>1, <3>2, <3>3 DEF Seen
  <2>11. ~AtTheEnd'
    BY <1>7 DEF AtTheEnd
  <2>12. \A q, j, m : Replies(log, n, q, j, m) => Replies(new, n + 1, q, j, m)'
    <3> SUFFICES ASSUME NEW q, NEW j, NEW m, Replies(log, n, q, j, m)
                 PROVE  Replies(new, n + 1, q, j, m)'
      OBVIOUS
    <3>1. j \in 0..m /\ m \in 0..n
      BY DEF Replies
    <3>2. j \in 0..n /\ m \in 0..(n + 1)
      <4>1. n \in Int /\ m \in Int /\ m <= n /\ 0 <= m /\ j \in Int /\ 0 <= j /\ j <= m
        BY <2>3, <3>1
      <4> QED
        BY <4>1
    <3>3. new[j] = log[j]
      BY <2>6, <3>2
    <3> QED
      BY <2>11, <3>1, <3>2, <3>3 DEF Replies
  <2>13. LogRead(new, n + 1)'
    BY <1>3, <2>2, <2>10, <2>11, <2>12 DEF LogRead
  <2> QED
    BY <2>9, <2>13
<1> QED
  BY <1>6, <1>8, <1>9 DEF LogInv

\* Steps of the worker and the sweep that write nothing.
LEMMA WorkerKeepsInv ==
  ASSUME LogInv, UNCHANGED <<chunk, wrote, L!drawerVars>>, LogWriters', LogEnds', ~AtTheEnd' \/ AtTheEnd,
         \A w \in L!Attempts : writer'[w].next = writer[w].next /\ writer'[w].total = writer[w].total
  PROVE  LogInv'
<1>1. UNCHANGED <<running, offset, shown, poll>>
  BY DEF L!drawerVars
<1>2. ASSUME Single(wrote')
      PROVE  \E log, n : (LogWhole(log, n) /\ LogRead(log, n))'
  <2>1. PICK log, n : LogWhole(log, n) /\ LogRead(log, n)
    BY <1>2 DEF LogInv
  <2>2. Tails(log, n)'
    BY <2>1 DEF LogWhole, Tails
  <2>3. wrote \subseteq L!Attempts
    BY LogAssumption DEF LogInv, LogWriters, L!Attempts
  <2>4. LogWhole(log, n)'
    BY <2>1, <2>2, <2>3 DEF LogWhole
  <2>5. \A k : Seen(log, n, k) => Seen(log, n, k)'
    BY <1>1 DEF Seen
  <2>6. \A q, j, m : Replies(log, n, q, j, m) => Replies(log, n, q, j, m)'
    BY DEF Replies
  <2>7. LogRead(log, n)'
    BY <1>1, <2>1, <2>5, <2>6 DEF LogRead
  <2> QED
    BY <2>4, <2>7
<1> QED
  BY <1>2 DEF LogInv

\* Line after line is flushed as a chunk.
LEMMA LinesKeepInv ==
  ASSUME LogInv, NEW w \in L!Attempts, L!Announce(w) \/ L!Conclude(w)
  PROVE  LogInv'
<1>1. PICK a, x, t : writer[w] = [at |-> a, buffer |-> <<>>, next |-> x, total |-> t] /\ t \in Nat
  BY DEF LogInv, LogWriters
<1>2. w \in Nat
  BY DEF L!Attempts
<1>3. ASSUME NEW b \in Seq(Bytes), NEW n \in Nat
      PROVE  \E c \in Seq(Bytes) :
               /\ L!Write(w, [at |-> a, buffer |-> b, next |-> x, total |-> t], n)
                    = [at |-> a, buffer |-> c, next |-> x, total |-> t]
               /\ Len(c) = Len(b) + n
  <2>1. PICK more : more = [i \in 1..n |-> <<w, t + Len(b) + i>>]
    OBVIOUS
  <2>2. \A i \in 1..n : <<w, t + Len(b) + i>> \in Bytes
    <3>1. Len(b) \in Nat
      OBVIOUS
    <3> QED
      BY <1>1, <1>2, <3>1 DEF Bytes
  <2>3. more \in Seq(Bytes) /\ Len(more) = n
    BY <2>1, <2>2
  <2>4. PICK c : c = b \o more
    OBVIOUS
  <2>5. c \in Seq(Bytes) /\ Len(c) = Len(b) + n
    BY <2>3, <2>4, Joined
  <2>6. L!Write(w, [at |-> a, buffer |-> b, next |-> x, total |-> t], n)
          = [at |-> a, buffer |-> c, next |-> x, total |-> t]
    <3>1. PICK v : v = [at |-> a, buffer |-> b, next |-> x, total |-> t]
      OBVIOUS
    <3>2. v.total = t /\ v.buffer = b
      BY <3>1
    <3>3. L!Write(w, v, n) = [v EXCEPT !.buffer = c]
      BY <2>1, <2>4, <3>2, Zenon DEF L!Write
    <3>4. [v EXCEPT !.buffer = c] = [at |-> a, buffer |-> c, next |-> x, total |-> t]
      BY <3>1
    <3> QED
      BY <3>1, <3>3, <3>4, Zenon
  <2> QED
    BY <2>5, <2>6
<1>4. <<>> \in Seq(Bytes) /\ Len(<<>>) = 0
  OBVIOUS
<1>5. ASSUME NEW n \in 1..MaxBytes, NEW b \in Seq(Bytes), NEW v, NEW at,
             v = L!Write(w, [at |-> a, buffer |-> b, next |-> x, total |-> t], n),
             a \in {"started", "building"}, at \in {"building", "written"}, L!Flush(w, v, at),
             UNCHANGED <<step, claim, attempt, L!drawerVars>>
      PROVE  LogInv'
  <2>1. n \in Nat /\ n > 0 /\ Len(b) \in Nat
    BY LogAssumption
  <2>2. PICK c \in Seq(Bytes) : v = [at |-> a, buffer |-> c, next |-> x, total |-> t] /\ Len(c) = Len(b) + n
    BY <1>3, <1>5, <2>1
  <2>3. c # <<>>
    BY <1>4, <2>1, <2>2
  <2> QED
    BY <1>1, <1>5, <2>2, <2>3, ChunkKeepsInv
<1>6. CASE L!Announce(w)
  <2>1. PICK n \in 1..MaxBytes : L!Flush(w, L!Write(w, writer[w], n), "building")
    BY <1>6 DEF L!Announce
  <2>2. writer[w].at = "started" /\ UNCHANGED <<step, claim, attempt, L!drawerVars>>
    BY <1>6 DEF L!Announce
  <2>3. PICK v : v = L!Write(w, writer[w], n)
    OBVIOUS
  <2>4. v = L!Write(w, [at |-> a, buffer |-> <<>>, next |-> x, total |-> t], n)
    BY <1>1, <2>3, Zenon
  <2>5. L!Flush(w, v, "building") /\ a = "started"
    BY <1>1, <2>1, <2>2, <2>3
  <2> QED
    BY <1>4, <1>5, <2>2, <2>4, <2>5
<1>7. CASE L!Conclude(w)
  <2>1. PICK c \in Seq(Bytes) : L!SandboxLogs(w) = [at |-> a, buffer |-> c, next |-> x, total |-> t]
    BY <1>1, <1>3, <1>4, LogAssumption DEF L!SandboxLogs
  <2> QED
    BY <1>1, <1>5, <1>7, <2>1 DEF L!Conclude
<1> QED
  BY <1>6, <1>7

\* The worker ends its step, well or not.
LEMMA EndsKeepInv ==
  ASSUME LogInv, NEW w \in L!Attempts, L!Commit(w) \/ L!Abandon(w)
  PROVE  LogInv'
<1>1. LogWriters /\ LogEnds
  BY DEF LogInv
<1>2. /\ writer[w].at \in {"started", "building", "written"}
      /\ writer' = [writer EXCEPT ![w].at = "ended"]
      /\ UNCHANGED <<attempt, chunk, wrote, L!drawerVars>>
  BY DEF L!Commit, L!Abandon
<1>3. w \in 1..attempt /\ attempt \in Nat /\ claim \in 0..attempt
  BY <1>1, <1>2 DEF LogWriters, L!Attempts
<1>4. /\ writer' = [u \in L!Attempts |-> writer'[u]]
      /\ \A u \in L!Attempts : u # w => writer'[u] = writer[u]
      /\ writer'[w] = [at |-> "ended", buffer |-> <<>>, next |-> writer[w].next, total |-> writer[w].total]
  <2>1. PICK a, x, t : writer[w] = [at |-> a, buffer |-> <<>>, next |-> x, total |-> t]
    BY <1>1 DEF LogWriters
  <2> QED
    BY <1>1, <1>2, <2>1 DEF LogWriters
<1>5. \/ claim = w /\ claim' = 0
      \/ claim # w /\ claim' = claim
  BY DEF L!Commit, L!Abandon
<1>6. LogWriters'
  BY <1>1, <1>2, <1>3, <1>4, <1>5 DEF LogWriters
<1>7. UNCHANGED <<running, offset, shown, poll>>
  BY <1>2 DEF L!drawerVars
<1>8. ~(attempt = 1 /\ step.status = "succeeded")
  BY <1>1, <1>2, <1>3 DEF LogEnds
<1>9. \/ claim = w /\ step' = [status |-> "succeeded", size |-> writer[w].total]
      \/ step' = step
      \/ step' = [step EXCEPT !.status = "failed"]
      \/ step' = [step EXCEPT !.status = "skipped"]
  <2>1. CASE L!Commit(w)
    BY <2>1 DEF L!Commit
  <2>2. CASE L!Abandon(w)
    <3>1. PICK t, z : step = [status |-> t, size |-> z]
      BY <1>1 DEF LogEnds
    <3> QED
      BY <2>2, <3>1 DEF L!Abandon
  <2> QED
    BY <2>1, <2>2
<1>10. /\ step' = [status |-> step'.status, size |-> step'.size]
       /\ \/ claim = w /\ step'.status = "succeeded" /\ step'.size = writer[w].total
          \/ step' = step
          \/ step'.status \in {"failed", "skipped"}
  BY <1>1, <1>9 DEF LogEnds
<1>11. attempt = 1 => w = 1 /\ claim' = 0
  BY <1>3, <1>5
<1>12. LogEnds'
  BY <1>1, <1>2, <1>3, <1>4, <1>7, <1>8, <1>10, <1>11 DEF LogEnds
<1>13. ~AtTheEnd'
  BY <1>1, <1>2, <1>3, <1>7, <1>8, <1>10, <1>11 DEF AtTheEnd, LogEnds
<1> QED
  BY <1>2, <1>4, <1>6, <1>12, <1>13, WorkerKeepsInv

\* The step is claimed, taken away or cancelled.
LEMMA ClaimsKeepInv ==
  ASSUME LogInv, L!Start \/ L!Requeue \/ L!CancelQueued
  PROVE  LogInv'
<1>1. LogWriters /\ LogEnds
  BY DEF LogInv
<1>2. PICK t, z : step = [status |-> t, size |-> z]
  BY <1>1 DEF LogEnds
<1>3. UNCHANGED <<chunk, wrote, L!drawerVars>>
  BY DEF L!Start, L!Requeue, L!CancelQueued, L!drawerVars
<1>4. UNCHANGED <<running, offset, shown, poll>>
  BY <1>3 DEF L!drawerVars
<1>5. CASE L!Start
  <2>1. /\ attempt' = attempt + 1 /\ claim' = attempt + 1 /\ attempt < LastAttempt
        /\ writer' = [writer EXCEPT ![attempt + 1] = [at |-> "started", buffer |-> <<>>, next |-> 0, total |-> 0]]
        /\ step' = [status |-> "running", size |-> z] /\ t = "queued"
    <3>1. /\ attempt' = attempt + 1 /\ claim' = attempt + 1 /\ attempt < LastAttempt
          /\ writer' = [writer EXCEPT ![attempt + 1] = [L!NoWriter EXCEPT !.at = "started"]]
          /\ step' = [step EXCEPT !.status = "running"] /\ step.status = "queued"
      BY <1>5 DEF L!Start
    <3>2. [L!NoWriter EXCEPT !.at = "started"] = [at |-> "started", buffer |-> <<>>, next |-> 0, total |-> 0]
      BY DEF L!NoWriter
    <3>3. [step EXCEPT !.status = "running"] = [status |-> "running", size |-> z] /\ t = step.status
      BY <1>2
    <3> QED
      BY <3>1, <3>2, <3>3
  <2>2. /\ attempt \in Nat /\ attempt + 1 \in L!Attempts /\ attempt + 1 \in Nat
        /\ attempt + 1 \notin wrote /\ LastAttempt \in Nat
    BY <1>1, <2>1, LogAssumption DEF LogWriters, L!Attempts
  <2>3. /\ writer' = [u \in L!Attempts |-> writer'[u]]
        /\ \A u \in L!Attempts : u # attempt + 1 => writer'[u] = writer[u]
        /\ writer'[attempt + 1] = [at |-> "started", buffer |-> <<>>, next |-> 0, total |-> 0]
    BY <1>1, <2>1, <2>2 DEF LogWriters
  <2>4. /\ writer[attempt + 1].next = 0 /\ writer[attempt + 1].total = 0
    BY <1>1, <2>2 DEF LogWriters
  <2>5. LogWriters'
    <3>1. attempt' \in 0..LastAttempt /\ claim' \in 0..attempt' /\ wrote' \subseteq 1..attempt'
      BY <1>1, <1>3, <2>1, <2>2 DEF LogWriters
    <3>2. ASSUME NEW w \in L!Attempts, w > attempt'
          PROVE  writer'[w].at = "none"
      <4>1. w # attempt + 1 /\ w > attempt
        BY <2>1, <2>2, <3>2 DEF L!Attempts
      <4> QED
        BY <1>1, <2>3, <4>1 DEF LogWriters
    <3> QED
      BY <1>1, <1>3, <2>3, <3>1, <3>2 DEF LogWriters
  <2>6. running # "no" /\ (attempt' = 1 => step'.status = "running") /\ attempt' # 0
    BY <1>1, <1>2, <2>1, <2>2 DEF LogEnds
  <2>7. LogEnds'
    BY <1>4, <2>1, <2>6 DEF LogEnds
  <2>8. ~AtTheEnd'
    BY <1>4, <2>6 DEF AtTheEnd
  <2> QED
    BY <1>3, <2>3, <2>4, <2>5, <2>7, <2>8, WorkerKeepsInv
<1>6. CASE L!Requeue \/ L!CancelQueued
  <2>1. /\ UNCHANGED <<attempt, writer>> /\ claim' \in {0, claim}
        /\ step' = step \/ \E y \in {"queued", "skipped"} : step' = [status |-> y, size |-> z]
        /\ step'.status = "queued" => t \in {"queued", "running"}
        /\ claim' = 0 \/ t = "queued"
    BY <1>2, <1>6 DEF L!Requeue, L!CancelQueued
  <2>2. LogWriters'
    BY <1>1, <1>3, <2>1 DEF LogWriters
  <2>3. attempt = 0 => step'.status \in {"queued", "skipped"}
    BY <1>1, <2>1 DEF LogEnds
  <2>4. attempt = 1 => claim' = 0
    BY <1>1, <1>2, <2>1 DEF LogEnds
  <2>5. LogEnds'
    BY <1>1, <1>2, <1>4, <2>1, <2>3, <2>4 DEF LogEnds
  <2>6. ~AtTheEnd' \/ AtTheEnd
    BY <1>2, <1>4, <2>1 DEF AtTheEnd
  <2> QED
    BY <1>3, <2>1, <2>2, <2>5, <2>6, WorkerKeepsInv
<1> QED
  BY <1>5, <1>6

\* A read of the drawer that does not answer yet leaves the screen.
LEMMA ReadKeepsInv ==
  ASSUME LogInv, NEW r \in Reads, NEW new, UNCHANGED <<L!workerVars, running, offset, shown>>,
         poll' = [poll EXCEPT ![r] = new],
         new # L!NoRead =>
           \A log, n : LogWhole(log, n) /\ LogRead(log, n) =>
             /\ Seen(log, n, new.after)
             /\ new.at = "listed" => \E j, m : Replies(log, n, new, j, m)
  PROVE  LogInv'
<1>1. UNCHANGED <<step, claim, attempt, writer, chunk, wrote>>
  BY DEF L!workerVars
<1>2. LogWriters' /\ LogEnds'
  BY <1>1 DEF LogInv, LogWriters, LogEnds
<1>3. ASSUME Single(wrote')
      PROVE  \E log, n : (LogWhole(log, n) /\ LogRead(log, n))'
  <2>1. PICK log, n : LogWhole(log, n) /\ LogRead(log, n)
    BY <1>1, <1>3 DEF LogInv
  <2>2. LogWhole(log, n)'
    BY <1>1, <2>1 DEF LogWhole, Tails
  <2>3. \A k : Seen(log, n, k)' <=> Seen(log, n, k)
    BY DEF Seen
  <2>4. AtTheEnd' <=> AtTheEnd
    BY <1>1 DEF AtTheEnd
  <2>5. \A q, j, m : Replies(log, n, q, j, m)' <=> Replies(log, n, q, j, m)
    BY <2>4 DEF Replies
  <2>6. /\ poll' = [q \in Reads |-> poll'[q]] /\ poll'[r] = new
        /\ \A q \in Reads : q # r => poll'[q] = poll[q]
    BY <2>1 DEF LogRead
  <2>7. \A q \in Reads : poll'[q] # L!NoRead =>
          /\ Seen(log, n, poll'[q].after)
          /\ poll'[q].at = "listed" => \E j, m : Replies(log, n, poll'[q], j, m)
    <3> TAKE q \in Reads
    <3>1. CASE q = r
      BY <2>1, <2>6, <3>1
    <3>2. CASE q # r
      BY <2>1, <2>6, <3>2 DEF LogRead
    <3> QED
      BY <3>1, <3>2
  <2>8. LogRead(log, n)'
    BY <2>1, <2>3, <2>4, <2>5, <2>6, <2>7 DEF LogRead, L!NoRead
  <2> QED
    BY <2>2, <2>8
<1> QED
  BY <1>2, <1>3 DEF LogInv

\* The endpoint lists the chunks and fetches the next one.
LEMMA EndpointKeepsLogInv ==
  ASSUME LogInv, NEW r \in Reads, L!List(r) \/ L!Fetch(r)
  PROVE  LogInv'
<1>1. poll[r] # L!NoRead
  BY DEF L!List, L!Fetch, L!NoRead
<1>2. CASE L!List(r)
  <2>1. PICK new : new = [at |-> "listed", after |-> poll[r].after, keys |-> L!Keys, content |-> <<>>, next |-> 0]
    OBVIOUS
  <2>2. /\ poll' = [poll EXCEPT ![r] = new]
        /\ UNCHANGED <<L!workerVars, running, offset, shown>>
    BY <1>2, <2>1 DEF L!List
  <2>3. ASSUME NEW log, NEW n, LogWhole(log, n), LogRead(log, n)
        PROVE  Seen(log, n, new.after) /\ \E j, m : Replies(log, n, new, j, m)
    <3>1. Seen(log, n, new.after) /\ new.after \in Nat
      BY <1>1, <2>1, <2>3 DEF LogRead, Seen
    <3>2. n \in Nat /\ log[0] = <<>> /\ DOMAIN chunk = 0..(n - 1)
      BY <2>3 DEF LogWhole, Tails
    <3>3. new.keys = [i \in 1..n |-> i - 1]
      BY <2>1, <3>2, ListedInOrder
    <3>4. [i \in 1..n |-> i - 1] = [i \in 1..(n - 0) |-> (0 + i) - 1]
      BY <3>2
    <3>5. SubSeq(log[0], new.after + 1, Len(log[0])) = <<>> /\ Len(log[0]) = 0
      <4>1. Len(<<>>) = 0 /\ new.after + 1 \in Int /\ 0 \in Int /\ 0 < new.after + 1
        BY <3>1
      <4>2. SubSeq(<<>>, new.after + 1, 0) = <<>>
        BY <4>1, SubSeqEmpty
      <4> QED
        BY <3>2, <4>1, <4>2
    <3>6. 0 \in 0..n /\ n \in 0..n
      BY <3>2
    <3>7. Replies(log, n, new, 0, n)
      BY <2>1, <3>3, <3>4, <3>5, <3>6 DEF Replies
    <3> QED
      BY <3>1, <3>7
  <2> QED
    BY <2>2, <2>3, ReadKeepsInv
<1>3. CASE L!Fetch(r)
  <2>1. PICK q, c : q = poll[r] /\ c = chunk[Head(q.keys)]
    OBVIOUS
  <2>2. PICK new : new = [q EXCEPT !.keys = Tail(@), !.content = @ \o L!Unseen(c, q.next, q.after),
                                   !.next = L!EndOf(c, q.next, q.after)]
    OBVIOUS
  <2>3. /\ poll' = [poll EXCEPT ![r] = new] /\ q.at = "listed" /\ q.keys # <<>>
        /\ UNCHANGED <<L!workerVars, running, offset, shown>>
    BY <1>3, <2>1, <2>2 DEF L!Fetch
  <2>4. ASSUME NEW log, NEW n, LogWhole(log, n), LogRead(log, n)
        PROVE  Seen(log, n, new.after) /\ \E j, m : Replies(log, n, new, j, m)
    <3>1. PICK j, m : Seen(log, n, q.after) /\ Replies(log, n, q, j, m)
      BY <1>1, <2>1, <2>3, <2>4 DEF LogRead
    <3>2. PICK after, keys, content, next :
             q = [at |-> "listed", after |-> after, keys |-> keys, content |-> content, next |-> next]
      BY <3>1 DEF Replies
    <3>3. /\ keys = [i \in 1..(m - j) |-> (j + i) - 1] /\ next = Len(log[j])
          /\ content = SubSeq(log[j], after + 1, Len(log[j]))
          /\ j \in 0..m /\ m \in 0..n /\ (AtTheEnd => m = n) /\ after \in Nat
      BY <3>1, <3>2 DEF Replies, Seen
    <3>4. /\ n \in Nat /\ log \in [Nat -> Seq(Bytes)]
          /\ \A k \in 0..(n - 1) : chunk[k] \in Seq(Bytes) /\ log[k + 1] = log[k] \o chunk[k]
      BY <2>4 DEF LogWhole, Tails
    <3>5. j \in 0..(n - 1) /\ j \in Nat /\ j + 1 \in 0..m /\ m - j \in Nat
      <4>1. m - j # 0
        <5>1. ASSUME m - j = 0
              PROVE  keys = <<>>
          BY <3>3, <5>1
        <5> QED
          BY <2>3, <3>2, <5>1
      <4>2. j \in Int /\ m \in Int /\ 0 <= j /\ j <= m /\ m <= n /\ n \in Int
        BY <3>3, <3>4
      <4> QED
        BY <4>1, <4>2
    <3>6. Len(keys) = m - j /\ keys[1] = j /\ keys \in Seq(Int)
      BY <3>3, <3>5
    <3>7. Head(keys) = j
      BY <3>6
    <3>8. Tail(keys) = [i \in 1..(m - (j + 1)) |-> ((j + 1) + i) - 1]
      <4>1. PICK l, k : l = m - (j + 1) /\ k = [i \in 1..l |-> ((j + 1) + i) - 1]
        OBVIOUS
      <4>2. l \in Nat /\ l = (m - j) - 1 /\ j \in Int
        BY <3>3, <3>5, <4>1
      <4>3. k \in Seq(Int) /\ Len(k) = l /\ \A i \in 1..l : k[i] = ((j + 1) + i) - 1
        BY <4>1, <4>2
      <4>4. PICK t : t = Tail(keys)
        OBVIOUS
      <4>5. keys # <<>>
        BY <2>3, <3>2
      <4>6. t \in Seq(Int) /\ Len(t) = l /\ \A i \in 1..l : t[i] = keys[i + 1]
        BY <3>6, <4>2, <4>4, <4>5, HeadTailProperties
      <4>7. \A i \in 1..l : keys[i + 1] = ((j + 1) + i) - 1
        BY <3>3, <4>2
      <4>8. t = k
        BY <4>3, <4>6, <4>7, SeqEqual
      <4> QED
        BY <4>1, <4>4, <4>8
    <3>9. PICK a, b, d : a = log[j] /\ b = log[j + 1] /\ d = chunk[j]
      OBVIOUS
    <3>10. c = d /\ b = a \o d /\ a \in Seq(Bytes) /\ d \in Seq(Bytes) /\ next = Len(a)
      <4>1. q.keys = keys
        BY <3>2
      <4>2. c = d
        BY <2>1, <3>7, <3>9, <4>1
      <4>3. b = a \o d /\ a \in Seq(Bytes) /\ d \in Seq(Bytes)
        BY <3>4, <3>5, <3>9
      <4> QED
        BY <3>3, <3>9, <4>2, <4>3
    <3>11. new = [at |-> "listed", after |-> after, keys |-> Tail(keys),
                  content |-> content \o L!Unseen(c, next, after), next |-> L!EndOf(c, next, after)]
      <4>1. PICK k, x, y : /\ k = Tail(keys) /\ x = content \o L!Unseen(c, next, after)
                           /\ y = L!EndOf(c, next, after)
        OBVIOUS
      <4>2. q.keys = keys /\ q.content = content /\ q.next = next /\ q.after = after
        BY <3>2
      <4>3. new = [q EXCEPT !.keys = k, !.content = x, !.next = y]
        BY <2>2, <4>1, <4>2
      <4>4. new = [at |-> "listed", after |-> after, keys |-> k, content |-> x, next |-> y]
        BY <3>2, <4>3
      <4> QED
        BY <4>1, <4>4, Zenon
    <3>12. L!EndOf(c, next, after) = Len(b)
      BY <3>10, Joined DEF L!EndOf
    <3>13. content \o L!Unseen(c, next, after) = SubSeq(b, after + 1, Len(b))
      <4>1. SubSeq(a \o d, after + 1, Len(a \o d)) = SubSeq(a, after + 1, Len(a)) \o L!Unseen(d, Len(a), after)
        BY <3>3, <3>10, ReplyGrows
      <4>2. content = SubSeq(a, after + 1, Len(a))
        BY <3>3, <3>9
      <4> QED
        BY <3>10, <4>1, <4>2, Zenon
    <3>14. Replies(log, n, new, j + 1, m)
      <4>1. PICK k, x, y : /\ k = Tail(keys) /\ x = content \o L!Unseen(c, next, after)
                           /\ y = L!EndOf(c, next, after)
        OBVIOUS
      <4>2. new = [at |-> "listed", after |-> after, keys |-> k, content |-> x, next |-> y]
        BY <3>11, <4>1
      <4>3. k = [i \in 1..(m - (j + 1)) |-> ((j + 1) + i) - 1]
        BY <3>8, <4>1
      <4>4. y = Len(log[j + 1]) /\ x = SubSeq(log[j + 1], after + 1, Len(log[j + 1]))
        BY <3>9, <3>12, <3>13, <4>1
      <4>5. /\ new.at = "listed" /\ new.after = after /\ new.keys = k /\ new.content = x /\ new.next = y
            /\ new = [at |-> "listed", after |-> new.after, keys |-> new.keys, content |-> new.content,
                      next |-> new.next]
        BY <4>2
      <4> QED
        BY <3>3, <3>5, <4>3, <4>4, <4>5 DEF Replies
    <3>15. new.after = q.after
      BY <3>2, <3>11
    <3> QED
      BY <3>1, <3>14, <3>15
  <2> QED
    BY <2>3, <2>4, ReadKeepsInv
<1> QED
  BY <1>2, <1>3

\* The drawer starts over, asks, loses a reply or shows one.
LEMMA DrawerKeepsInv ==
  ASSUME LogInv, NEW r \in Reads, L!Follow(r) \/ L!Tick(r) \/ L!Answer(r) \/ L!Lose(r)
  PROVE  LogInv'
<1>1. CASE L!Tick(r)
  <2>1. PICK new : new = [at |-> "asked", after |-> offset]
    OBVIOUS
  <2>2. poll' = [poll EXCEPT ![r] = new] /\ UNCHANGED <<L!workerVars, running, offset, shown>>
    BY <1>1, <2>1 DEF L!Tick, L!Ask
  <2>3. new.at # "listed" /\ new.after = offset
    BY <2>1
  <2> QED
    BY <2>2, <2>3, ReadKeepsInv DEF LogRead
<1>2. CASE L!Lose(r)
  BY <1>2, ReadKeepsInv DEF L!Lose
<1>3. CASE L!Follow(r)
  <2>1. /\ running' = L!Active /\ offset' = 0 /\ running # L!Active
        /\ poll' = [s \in Reads |-> IF s = r THEN L!Ask(0) ELSE L!NoRead]
        /\ UNCHANGED <<step, claim, attempt, writer, chunk, wrote, shown>>
    BY <1>3 DEF L!Follow, L!workerVars
  <2>2. LogWriters' /\ LogEnds'
    BY <2>1 DEF LogInv, LogWriters, LogEnds, L!Active
  <2>3. ASSUME Single(wrote')
        PROVE  \E log, n : (LogWhole(log, n) /\ LogRead(log, n))'
    <3>1. PICK log, n : LogWhole(log, n) /\ LogRead(log, n)
      BY <2>1, <2>3 DEF LogInv
    <3>2. LogWhole(log, n)'
      BY <2>1, <3>1 DEF LogWhole, Tails
    <3>3. Seen(log, n, 0)'
      BY <3>1 DEF LogRead, Seen
    <3>4. \A q \in Reads : poll'[q] # L!NoRead => poll'[q].after = 0 /\ poll'[q].at # "listed"
      BY <2>1 DEF L!Ask
    <3>5. LogRead(log, n)'
      BY <2>1, <3>3, <3>4 DEF LogRead, L!NoRead
    <3> QED
      BY <3>2, <3>5
  <2> QED
    BY <2>2, <2>3 DEF LogInv
<1>4. CASE L!Answer(r)
  <2>1. PICK q : q = poll[r]
    OBVIOUS
  <2>2. /\ q.at = "listed" /\ q.keys = <<>> /\ poll' = [poll EXCEPT ![r] = L!NoRead]
        /\ shown' = shown \cup L!ToSet(q.content) /\ offset' = q.next
        /\ UNCHANGED <<step, claim, attempt, writer, chunk, wrote, running>>
    BY <1>4, <2>1 DEF L!Answer, L!workerVars
  <2>3. LogWriters' /\ LogEnds'
    BY <2>2 DEF LogInv, LogWriters, LogEnds
  <2>4. ASSUME Single(wrote')
        PROVE  \E log, n : (LogWhole(log, n) /\ LogRead(log, n))'
    <3>1. PICK log, n : LogWhole(log, n) /\ LogRead(log, n)
      BY <2>2, <2>4 DEF LogInv
    <3>2. LogWhole(log, n)'
      BY <2>2, <3>1 DEF LogWhole, Tails
    <3>3. \A k : Seen(log, n, k) => Seen(log, n, k)'
      BY <2>2 DEF Seen
    <3>4. q # L!NoRead
      BY <2>2 DEF L!NoRead
    <3>5. PICK j, m : Seen(log, n, q.after) /\ Replies(log, n, q, j, m)
      BY <2>1, <2>2, <3>1, <3>4 DEF LogRead
    <3>6. n \in Nat /\ log \in [Nat -> Seq(Bytes)] /\ Tails(log, n)
      BY <3>1 DEF LogWhole, Tails
    <3>7. j \in 0..n /\ j \in Nat /\ (AtTheEnd => j = n)
      <4>1. j \in 0..m /\ m \in 0..n /\ q.keys = [i \in 1..(m - j) |-> (j + i) - 1] /\ (AtTheEnd => m = n)
        BY <3>5 DEF Replies
      <4>2. m - j \in Nat /\ Len(q.keys) = m - j
        BY <4>1
      <4>3. m - j = 0
        BY <2>2, <4>2
      <4>4. j \in Int /\ m \in Int /\ n \in Int /\ 0 <= j /\ m <= n
        BY <3>6, <4>1
      <4> QED
        BY <4>1, <4>3, <4>4
    <3>8. PICK a, b, k : a = log[j] /\ b = log[n] /\ k = q.after
      OBVIOUS
    <3>9. /\ Len(a) <= Len(b) /\ Len(a) \in Nat /\ \A i \in 1..Len(a) : b[i] = a[i]
          /\ a \in Seq(Bytes) /\ k \in Nat /\ \A i \in 1..k : b[i] \in shown
          /\ q.content = SubSeq(a, k + 1, Len(a)) /\ q.next = Len(a)
      <4>1. Len(a) <= Len(b) /\ Len(a) \in Nat /\ \A i \in 1..Len(a) : b[i] = a[i]
        <5>1. Tails(log, n) /\ j \in 0..n
          BY <3>6, <3>7
        <5>2. /\ Len(log[j]) <= Len(log[n]) /\ Len(log[j]) \in Nat
              /\ \A i \in 1..Len(log[j]) : log[n][i] = log[j][i]
          BY <5>1, TailsGrow
        <5> QED
          BY <3>8, <5>2, Zenon
      <4>2. a \in Seq(Bytes)
        BY <3>6, <3>7, <3>8
      <4>3. k \in Nat /\ \A i \in 1..k : b[i] \in shown
        BY <3>5, <3>8 DEF Seen
      <4>4. q.content = SubSeq(a, k + 1, Len(a)) /\ q.next = Len(a)
        BY <3>5, <3>8 DEF Replies
      <4> QED
        BY <4>1, <4>2, <4>3, <4>4
    <3>10. ASSUME NEW i \in 1..Len(a)
           PROVE  b[i] \in shown'
      <4>1. CASE i <= k
        BY <2>2, <3>9, <4>1
      <4>2. CASE i > k
        <5>1. k + 1 \in Int /\ Len(a) \in Int /\ \A x \in (k + 1)..Len(a) : a[x] \in Bytes
          BY <3>9, ElementOfSeq
        <5>2. /\ Len(SubSeq(a, k + 1, Len(a))) = IF k + 1 <= Len(a) THEN Len(a) - (k + 1) + 1 ELSE 0
              /\ \A x \in 1..(Len(a) - (k + 1) + 1) : SubSeq(a, k + 1, Len(a))[x] = a[k + 1 + x - 1]
          BY <5>1, SubSeqProperties
        <5>3. i - k \in 1..(Len(a) - (k + 1) + 1) /\ k + 1 + (i - k) - 1 = i
          BY <3>9, <4>2
        <5>4. Len(q.content) = Len(a) - k /\ i - k \in 1..Len(q.content)
          BY <3>9, <4>2, <5>2
        <5>5. q.content[i - k] = a[i]
          BY <3>9, <5>2, <5>3
        <5>6. q.content[i - k] \in L!ToSet(q.content)
          <6>1. q.content \in Seq(Bytes)
            BY <3>9, <5>1, SubSeqProperties
          <6> QED
            BY <5>4, <6>1 DEF L!ToSet
        <5> QED
          BY <2>2, <3>9, <5>5, <5>6
      <4> QED
        BY <3>9, <4>1, <4>2
    <3>11. Seen(log, n, offset)'
      BY <2>2, <3>8, <3>9, <3>10 DEF Seen
    <3>12. AtTheEnd' => offset' = Len(log[n])
      BY <2>2, <3>7, <3>8, <3>9 DEF AtTheEnd
    <3>13. /\ poll' = [x \in Reads |-> poll'[x]] /\ poll'[r] = L!NoRead
           /\ \A x \in Reads : x # r => poll'[x] = poll[x]
      BY <2>2, <3>1 DEF LogRead
    <3>14. \A x, y, z : Replies(log, n, x, y, z) => Replies(log, n, x, y, z)'
      BY <2>2 DEF Replies, AtTheEnd
    <3>15. ASSUME NEW x \in Reads, poll'[x] # L!NoRead
           PROVE  /\ Seen(log, n, poll[x].after)' /\ poll'[x] = poll[x]
                  /\ poll[x].at = "listed" => \E y, z : Replies(log, n, poll[x], y, z)
      <4>1. x # r /\ poll'[x] = poll[x]
        BY <3>13, <3>15
      <4>2. Seen(log, n, poll[x].after)
        BY <3>1, <3>15, <4>1 DEF LogRead
      <4>3. Seen(log, n, poll[x].after)'
        BY <2>2, <4>1, <4>2 DEF Seen
      <4> QED
        BY <3>1, <3>15, <4>1, <4>3 DEF LogRead
    <3>16. LogRead(log, n)'
      BY <3>11, <3>12, <3>13, <3>14, <3>15 DEF LogRead, L!NoRead
    <3> QED
      BY <3>2, <3>16
  <2> QED
    BY <2>3, <2>4 DEF LogInv
<1> QED
  BY <1>1, <1>2, <1>3, <1>4

LEMMA LogStep == LogInv /\ [L!Next]_L!vars => LogInv'
<1> SUFFICES ASSUME LogInv, [L!Next]_L!vars
             PROVE  LogInv'
  OBVIOUS
<1>1. CASE UNCHANGED L!vars
  <2>1. UNCHANGED <<step, claim, attempt, writer, chunk, wrote, running, offset, shown, poll>>
    BY <1>1 DEF L!vars, L!workerVars, L!drawerVars
  <2> QED
    <3>1. LogWriters' /\ LogEnds' /\ (AtTheEnd' <=> AtTheEnd)
      BY <2>1 DEF LogInv, LogWriters, LogEnds, AtTheEnd
    <3>2. \A log, n : LogWhole(log, n) => LogWhole(log, n)'
      BY <2>1 DEF LogWhole, Tails
    <3>3. \A log, n, k : Seen(log, n, k) => Seen(log, n, k)'
      BY <2>1 DEF Seen
    <3>4. \A log, n, q, j, m : Replies(log, n, q, j, m) => Replies(log, n, q, j, m)'
      BY <3>1 DEF Replies
    <3>5. \A log, n : LogRead(log, n) => LogRead(log, n)'
      BY <2>1, <3>1, <3>3, <3>4 DEF LogRead
    <3>6. Single(wrote') => Single(wrote)
      BY <2>1
    <3> QED
      BY <3>1, <3>2, <3>5, <3>6 DEF LogInv
<1>2. CASE L!Next
  <2>1. CASE L!Start \/ L!Requeue \/ L!CancelQueued
    BY <2>1, ClaimsKeepInv
  <2>2. ASSUME NEW w \in L!Attempts, L!Work(w)
        PROVE  LogInv'
    BY <2>2, LinesKeepInv, EndsKeepInv DEF L!Work
  <2>3. ASSUME NEW r \in Reads, L!Serve(r)
        PROVE  LogInv'
    BY <2>3, EndpointKeepsLogInv, DrawerKeepsInv DEF L!Serve
  <2> QED
    BY <1>2, <2>1, <2>2, <2>3 DEF L!Next
<1> QED
  BY <1>1, <1>2

LEMMA WholeTail == LogInv => L!TailMissesNothing
<1> SUFFICES ASSUME LogInv, L!Cardinality(wrote) <= 1
             PROVE  /\ \A r \in Reads : poll[r].at = "listed" /\ poll[r].keys = <<>> =>
                         poll[r].content = SubSeq(L!Log, poll[r].after + 1, poll[r].next)
                    /\ offset <= Len(L!Log) /\ \A i \in 1..offset : L!Log[i] \in shown
                    /\ attempt = 1 /\ step.status = "succeeded" =>
                         /\ step.size = Len(L!Log)
                         /\ running = "no" /\ offset > 0 => offset = Len(L!Log)
  BY DEF L!TailMissesNothing
<1>1. Single(wrote)
  <2>1. IsFiniteSet(wrote) /\ Cardinality(wrote) <= 1
    <3>1. attempt \in Int /\ wrote \subseteq 1..attempt
      BY LogAssumption DEF LogInv, LogWriters
    <3> QED
      <4>1. IsFiniteSet(1..attempt)
        BY <3>1, FS_Interval
      <4>2. IsFiniteSet(wrote)
        BY <3>1, <4>1, FS_Subset
      <4> QED
        BY <4>2, LogCardinality
  <2> SUFFICES ASSUME NEW x \in wrote, NEW y \in wrote, x # y
               PROVE  FALSE
    BY DEF Single
  <2>2. Cardinality({x, y}) = 2
    <3>2. IsFiniteSet({x}) /\ Cardinality({x}) = 1
      BY FS_Singleton
    <3>3. {x, y} = {x} \cup {y} /\ y \notin {x}
      OBVIOUS
    <3> QED
      BY <3>2, <3>3, FS_AddElement
  <2>3. Cardinality({x, y}) <= Cardinality(wrote) /\ Cardinality(wrote) \in Nat
    BY <2>1, FS_Subset, FS_CardinalityType
  <2> QED
    BY <2>1, <2>2, <2>3
<1>2. PICK log, n : LogWhole(log, n) /\ LogRead(log, n)
  BY <1>1 DEF LogInv
<1>3. Tails(log, n) /\ L!Log = log[n]
  BY <1>2, LogIsItsChunks DEF LogWhole
<1>4. Seen(log, n, offset)
  BY <1>2 DEF LogRead
<1>5. ASSUME NEW r \in Reads, poll[r].at = "listed", poll[r].keys = <<>>
      PROVE  poll[r].content = SubSeq(log[n], poll[r].after + 1, poll[r].next)
  <2>1. PICK j, m : Seen(log, n, poll[r].after) /\ Replies(log, n, poll[r], j, m)
    BY <1>2, <1>5 DEF LogRead, L!NoRead
  <2>2. PICK a, b, k : a = log[j] /\ b = log[n] /\ k = poll[r].after
    OBVIOUS
  <2>3. j \in 0..n
    <3>1. n \in Nat /\ j \in 0..m /\ m \in 0..n
      BY <1>3, <2>1 DEF Replies, Tails
    <3> QED
      BY <3>1
  <2>4. /\ Len(a) <= Len(b) /\ Len(a) \in Nat /\ \A i \in 1..Len(a) : b[i] = a[i]
        /\ a \in Seq(Bytes) /\ b \in Seq(Bytes)
    <3>1. Len(a) <= Len(b) /\ Len(a) \in Nat /\ \A i \in 1..Len(a) : b[i] = a[i]
      BY <1>3, <2>2, <2>3, TailsGrow
    <3>2. a \in Seq(Bytes) /\ b \in Seq(Bytes)
      BY <1>3, <2>2, <2>3 DEF Tails
    <3> QED
      BY <3>1, <3>2
  <2>5. k \in Nat /\ poll[r].content = SubSeq(a, k + 1, Len(a)) /\ poll[r].next = Len(a)
    BY <2>1, <2>2 DEF Replies, Seen
  <2>6. SubSeq(a, k + 1, Len(a)) = SubSeq(b, k + 1, Len(a))
    <3>1. k + 1 \in Int /\ Len(a) \in Int /\ \A i \in (k + 1)..Len(a) : i \in 1..Len(a) /\ i \in 1..Len(b)
      BY <2>4, <2>5
    <3>2. \A i \in (k + 1)..Len(a) : a[i] \in Bytes /\ b[i] \in Bytes
      BY <2>4, <3>1, ElementOfSeq
    <3>3. PICK x, y : x = SubSeq(a, k + 1, Len(a)) /\ y = SubSeq(b, k + 1, Len(a))
      OBVIOUS
    <3>4. /\ x \in Seq(Bytes) /\ Len(x) = IF k + 1 <= Len(a) THEN Len(a) - (k + 1) + 1 ELSE 0
          /\ \A i \in 1..(Len(a) - (k + 1) + 1) : x[i] = a[k + 1 + i - 1]
      BY <3>1, <3>2, <3>3, SubSeqProperties
    <3>5. /\ y \in Seq(Bytes) /\ Len(y) = IF k + 1 <= Len(a) THEN Len(a) - (k + 1) + 1 ELSE 0
          /\ \A i \in 1..(Len(a) - (k + 1) + 1) : y[i] = b[k + 1 + i - 1]
      BY <3>1, <3>2, <3>3, SubSeqProperties
    <3>6. ASSUME NEW i \in 1..Len(x)
          PROVE  x[i] = y[i]
      <4>1. i \in 1..(Len(a) - (k + 1) + 1) /\ k + 1 + i - 1 \in 1..Len(a)
        BY <2>4, <2>5, <3>4
      <4> QED
        BY <2>4, <3>4, <3>5, <4>1
    <3>7. x = y
      BY <3>4, <3>5, <3>6, SeqEqual
    <3> QED
      BY <3>3, <3>7
  <2> QED
    BY <2>2, <2>5, <2>6
<1>6. ASSUME attempt = 1, step.status = "succeeded"
      PROVE  /\ step.size = Len(log[n])
             /\ running = "no" /\ offset > 0 => offset = Len(log[n])
  <2>1. step.size = writer[1].total /\ wrote \subseteq {1}
    BY <1>6 DEF LogInv, LogEnds, LogWriters
  <2>2. CASE wrote = {}
    <3>1. log[n] = <<>> /\ Len(<<>>) = 0
      BY <1>2, <1>3, <2>2 DEF LogWhole, Tails
    <3>2. writer[1].total = 0
      BY <1>6, <2>2, LogAssumption DEF LogInv, LogWriters, L!Attempts
    <3> QED
      BY <1>2, <1>6, <2>1, <3>1, <3>2 DEF LogRead, AtTheEnd
  <2>3. CASE wrote = {1}
    BY <1>2, <1>6, <2>1, <2>3 DEF LogWhole, LogRead, AtTheEnd
  <2> QED
    BY <2>1, <2>2, <2>3
<1> QED
  BY <1>3, <1>4, <1>5, <1>6 DEF Seen

(***************************************************************************)
(* Sign-ins.                                                               *)
(***************************************************************************)

\* Handlers that the identity provider has given a token.
Exchanged == {"known", "read", "failed", "committed", "done"}
Committed == {"committed", "done"}
IsCallback(q) == q = [at |-> q.at, signin |-> q.signin, found |-> q.found]

BrowsersInv ==
  /\ signin = [s \in SignIns |-> signin[s]] /\ cookie = [b \in Browsers |-> cookie[b]]
  /\ callback = [r \in Requests |-> callback[r]]
  /\ \A s \in SignIns : signin[s].at = "back" =>
       DOMAIN signin[s] = {"at", "browser", "sub", "email", "code"}

CallbackAt(r) ==
  callback[r].at # "idle" =>
    /\ IsCallback(callback[r]) /\ callback[r].signin \in SignIns /\ S!SignInOf(r).at = "back"
    /\ callback[r].at \in Exchanged => S!SignInOf(r).code = "used"
    /\ callback[r].at = "read" /\ callback[r].found # None =>
         /\ callback[r].found.id \in DOMAIN account
         /\ account[callback[r].found.id].sub = S!SignInOf(r).sub

\* A code is exchanged once.
CodesInv ==
  \A r, q \in Requests :
    /\ callback[r].at \in Exchanged /\ callback[q].at \in Exchanged
    /\ callback[r].signin = callback[q].signin
    => r = q

AccountsInv ==
  /\ \A i \in DOMAIN account : i \in Requests /\ callback[i].at \in Committed
  /\ \A i, j \in DOMAIN account : i # j =>
       account[i].sub # account[j].sub /\ account[i].email # account[j].email

SessionRows ==
  \A t \in DOMAIN session :
    /\ t \in Requests /\ callback[t].at \in Committed
    /\ session[t] = [user |-> session[t].user, ends |-> session[t].ends]
    /\ session[t].user \in DOMAIN account
    /\ account[session[t].user].sub = S!SignInOf(t).sub

CookiesInv ==
  \A b \in Browsers : cookie[b] # None =>
    cookie[b] \in Requests /\ callback[cookie[b]].at = "done" /\ S!BrowserOf(cookie[b]) = b

SignInsInv ==
  /\ BrowsersInv /\ CodesInv /\ AccountsInv /\ SessionRows /\ CookiesInv
  /\ \A r \in Requests : CallbackAt(r)

LEMMA SignInsStart == S!Init => SignInsInv
<1> SUFFICES ASSUME S!Init
             PROVE  SignInsInv
  OBVIOUS
<1>1. /\ signin = [s \in SignIns |-> S!New] /\ cookie = [b \in Browsers |-> None]
      /\ callback = [r \in Requests |-> S!Idle] /\ DOMAIN account = {} /\ DOMAIN session = {}
  BY DEF S!Init
<1>2. S!New.at = "new" /\ S!Idle.at = "idle"
  BY DEF S!New, S!Idle
<1>3. (\A s \in SignIns : signin[s].at = "new") /\ \A r \in Requests : callback[r].at = "idle"
  BY <1>1, <1>2
<1>4. BrowsersInv
  BY <1>1, <1>3 DEF BrowsersInv
<1>5. \A r \in Requests : CallbackAt(r)
  BY <1>3 DEF CallbackAt
<1>6. CodesInv
  BY <1>3 DEF CodesInv, Exchanged
<1>7. AccountsInv /\ SessionRows /\ CookiesInv
  BY <1>1 DEF AccountsInv, SessionRows, CookiesInv
<1> QED
  BY <1>4, <1>5, <1>6, <1>7 DEF SignInsInv

\* What has come back from the identity provider stays as it is, but for its code.
Back(s) ==
  signin[s].at = "back" =>
    /\ signin'[s].at = "back" /\ DOMAIN signin'[s] = {"at", "browser", "sub", "email", "code"}
    /\ signin'[s].browser = signin[s].browser /\ signin'[s].sub = signin[s].sub
    /\ signin[s].code = "used" => signin'[s].code = "used"

\* A callback goes on.
LEMMA CallbackMoves ==
  ASSUME SignInsInv, NEW r \in Requests, callback[r].at # "idle", NEW at,
         callback' = [callback EXCEPT ![r].at = at]
  PROVE  /\ callback' = [q \in Requests |-> callback'[q]]
         /\ \A q \in Requests : q # r => callback'[q] = callback[q]
         /\ callback'[r] = [at |-> at, signin |-> callback[r].signin, found |-> callback[r].found]
<1>1. callback = [q \in Requests |-> callback[q]] /\ IsCallback(callback[r])
  BY DEF SignInsInv, BrowsersInv, CallbackAt
<1>2. callback' = [callback EXCEPT ![r] = [callback[r] EXCEPT !.at = at]]
  OBVIOUS
<1>3. [callback[r] EXCEPT !.at = at]
        = [at |-> at, signin |-> callback[r].signin, found |-> callback[r].found]
  BY <1>1 DEF IsCallback
<1> QED
  BY <1>1, <1>2, <1>3

\* Callbacks and sign-ins move while the rows of users stay.
LEMMA RowsStay ==
  ASSUME SignInsInv, UNCHANGED account, \A s \in SignIns : Back(s),
         \A q \in Requests : callback[q].at \in Committed =>
           callback'[q].at \in Committed /\ callback'[q].signin = callback[q].signin
  PROVE  /\ AccountsInv'
         /\ session' = session => SessionRows'
         /\ \A q \in Requests : callback'[q] = callback[q] => CallbackAt(q)'
<1>1. AccountsInv'
  BY DEF SignInsInv, AccountsInv
<1>2. ASSUME session' = session
      PROVE  SessionRows'
  <2> SUFFICES ASSUME NEW t \in DOMAIN session
               PROVE  /\ t \in Requests /\ callback'[t].at \in Committed
                      /\ session[t] = [user |-> session[t].user, ends |-> session[t].ends]
                      /\ session[t].user \in DOMAIN account
                      /\ account[session[t].user].sub = S!SignInOf(t)'.sub
    BY <1>2 DEF SessionRows
  <2>1. /\ t \in Requests /\ callback[t].at \in Committed
        /\ session[t] = [user |-> session[t].user, ends |-> session[t].ends]
        /\ session[t].user \in DOMAIN account
        /\ account[session[t].user].sub = S!SignInOf(t).sub
    BY DEF SignInsInv, SessionRows
  <2>2. callback'[t].at \in Committed /\ callback'[t].signin = callback[t].signin
    BY <2>1
  <2>3. callback[t].signin \in SignIns /\ S!SignInOf(t).at = "back"
    BY <2>1 DEF SignInsInv, CallbackAt, Committed
  <2>4. S!SignInOf(t)'.sub = S!SignInOf(t).sub
    BY <2>2, <2>3 DEF S!SignInOf, Back
  <2> QED
    BY <2>1, <2>2, <2>4
<1>3. ASSUME NEW q \in Requests, callback'[q] = callback[q]
      PROVE  CallbackAt(q)'
  <2> SUFFICES ASSUME callback[q].at # "idle"
               PROVE  CallbackAt(q)'
    BY <1>3 DEF CallbackAt
  <2>1. CallbackAt(q) /\ callback[q].signin \in SignIns /\ S!SignInOf(q).at = "back"
    BY DEF SignInsInv, CallbackAt
  <2>2. /\ S!SignInOf(q)'.at = "back" /\ S!SignInOf(q)'.sub = S!SignInOf(q).sub
        /\ S!SignInOf(q).code = "used" => S!SignInOf(q)'.code = "used"
    BY <1>3, <2>1 DEF S!SignInOf, Back
  <2> QED
    BY <1>3, <2>1, <2>2 DEF CallbackAt
<1> QED
  BY <1>1, <1>2, <1>3

\* The cookies of browsers that take no part.
LEMMA CookiesStay ==
  ASSUME SignInsInv, \A s \in SignIns : Back(s), NEW b \in Browsers, cookie'[b] = cookie[b],
         \A q \in Requests : callback[q].at = "done" =>
           callback'[q].at = "done" /\ callback'[q].signin = callback[q].signin
  PROVE  cookie'[b] # None =>
           cookie'[b] \in Requests /\ callback'[cookie'[b]].at = "done" /\ S!BrowserOf(cookie[b])' = b
<1> SUFFICES ASSUME cookie[b] # None
             PROVE  cookie[b] \in Requests /\ callback'[cookie[b]].at = "done" /\ S!BrowserOf(cookie[b])' = b
  OBVIOUS
<1>1. cookie[b] \in Requests /\ callback[cookie[b]].at = "done" /\ S!BrowserOf(cookie[b]) = b
  BY DEF SignInsInv, CookiesInv
<1>2. PICK t : t = cookie[b]
  OBVIOUS
<1>3. callback[t].signin \in SignIns /\ S!SignInOf(t).at = "back" /\ S!SignInOf(t).browser = b
  BY <1>1, <1>2 DEF SignInsInv, CallbackAt, S!BrowserOf
<1>4. callback'[t].at = "done" /\ callback'[t].signin = callback[t].signin
  BY <1>1, <1>2
<1>5. signin'[callback'[t].signin].browser = b
  BY <1>3, <1>4 DEF S!SignInOf, Back
<1> QED
  BY <1>1, <1>2, <1>4, <1>5 DEF S!BrowserOf, S!SignInOf

\* Sign-ins begin and come back; callbacks, rows and cookies of sessions stay.
LEMMA BrowsingKeepsInv ==
  ASSUME SignInsInv, NEW s \in SignIns, S!Authenticate(s) \/ \E b \in Browsers : S!Login(s, b)
  PROVE  SignInsInv'
<1>1. UNCHANGED <<cookie, callback, account, session>>
  BY DEF S!Authenticate, S!Login, S!tables
<1>2. PICK new : /\ signin' = [signin EXCEPT ![s] = new] /\ signin[s].at # "back"
                 /\ new.at = "back" => DOMAIN new = {"at", "browser", "sub", "email", "code"}
  <2>1. CASE S!Authenticate(s)
    <3>1. PICK u \in Subs, e \in Emails :
            signin' = [signin EXCEPT ![s] =
              [at |-> "back", browser |-> @.browser, sub |-> u, email |-> e, code |-> "fresh"]]
      BY <2>1 DEF S!Authenticate
    <3>2. PICK new : new = [at |-> "back", browser |-> signin[s].browser, sub |-> u, email |-> e,
                            code |-> "fresh"]
      OBVIOUS
    <3>3. DOMAIN new = {"at", "browser", "sub", "email", "code"}
      BY <3>2
    <3> QED
      BY <2>1, <3>1, <3>2, <3>3 DEF S!Authenticate
  <2>2. ASSUME NEW b \in Browsers, S!Login(s, b)
        PROVE  \E new : /\ signin' = [signin EXCEPT ![s] = new] /\ signin[s].at # "back"
                        /\ new.at = "back" => DOMAIN new = {"at", "browser", "sub", "email", "code"}
    <3>1. PICK new : new = [at |-> "sent", browser |-> b]
      OBVIOUS
    <3>2. new.at = "sent"
      BY <3>1
    <3>3. signin[s].at # "back"
      <4>1. S!New.at = "new"
        BY DEF S!New
      <4> QED
        BY <2>2, <4>1 DEF S!Login
    <3> QED
      BY <2>2, <3>1, <3>2, <3>3 DEF S!Login
  <2> QED
    BY <2>1, <2>2
<1>3. signin' = [q \in SignIns |-> signin'[q]] /\ signin'[s] = new
      /\ \A q \in SignIns : q # s => signin'[q] = signin[q]
  BY <1>2 DEF SignInsInv, BrowsersInv
<1>4. \A q \in SignIns : Back(q)
  BY <1>2, <1>3 DEF Back, SignInsInv, BrowsersInv
<1>5. BrowsersInv'
  BY <1>1, <1>2, <1>3 DEF BrowsersInv, SignInsInv
<1>6. CodesInv'
  BY <1>1 DEF CodesInv, SignInsInv
<1>7. AccountsInv' /\ SessionRows' /\ \A q \in Requests : CallbackAt(q)'
  BY <1>1, <1>4, RowsStay
<1>8. CookiesInv'
  <2> SUFFICES ASSUME NEW b \in Browsers
               PROVE  (cookie[b] # None =>
                 cookie[b] \in Requests /\ callback[cookie[b]].at = "done" /\ S!BrowserOf(cookie[b]) = b)'
    BY Zenon DEF CookiesInv
  <2> QED
    BY <1>1, <1>4, CookiesStay
<1> QED
  BY <1>5, <1>6, <1>7, <1>8 DEF SignInsInv

\* A callback goes on, while rows and cookies stay.  Only a code that nobody has
\* exchanged makes it one that has exchanged its code.
LEMMA CallbackKeepsInv ==
  ASSUME SignInsInv, NEW r \in Requests, callback[r].at \notin Committed,
         UNCHANGED <<cookie, account, session>>,
         signin' = [s \in SignIns |-> signin'[s]], \A s \in SignIns : Back(s),
         \A s \in SignIns : signin'[s].at = "back" => signin[s].at = "back",
         callback' = [q \in Requests |-> callback'[q]],
         \A q \in Requests : q # r => callback'[q] = callback[q],
         CallbackAt(r)',
         callback'[r].at \in Exchanged =>
           \/ callback[r].at \in Exchanged /\ callback'[r].signin = callback[r].signin
           \/ callback'[r].signin \in SignIns /\ signin[callback'[r].signin].at = "back"
                /\ signin[callback'[r].signin].code # "used"
  PROVE  SignInsInv'
<1>1. \A q \in Requests : callback[q].at \in Committed => callback'[q] = callback[q]
  OBVIOUS
<1>2. AccountsInv' /\ SessionRows' /\ \A q \in Requests : CallbackAt(q)'
  BY <1>1, RowsStay
<1>3. BrowsersInv'
  BY DEF BrowsersInv, SignInsInv, Back
<1>4. CookiesInv'
  <2> SUFFICES ASSUME NEW b \in Browsers
               PROVE  (cookie[b] # None =>
                 cookie[b] \in Requests /\ callback[cookie[b]].at = "done" /\ S!BrowserOf(cookie[b]) = b)'
    BY Zenon DEF CookiesInv
  <2>1. \A q \in Requests : callback[q].at = "done" => callback'[q] = callback[q]
    BY <1>1 DEF Committed
  <2> QED
    BY <2>1, CookiesStay
<1>5. ASSUME NEW p \in Requests, NEW q \in Requests, p # q,
             callback'[p].at \in Exchanged, callback'[q].at \in Exchanged,
             callback'[p].signin = callback'[q].signin
      PROVE  FALSE
  <2>1. \A o \in Requests : callback[o].at \in Exchanged => S!SignInOf(o).code = "used"
    BY DEF SignInsInv, CallbackAt, Exchanged
  <2>2. CASE p # r /\ q # r
    BY <1>5, <2>2 DEF SignInsInv, CodesInv
  <2>3. CASE p = r
    BY <1>5, <2>1, <2>3 DEF SignInsInv, CodesInv, S!SignInOf
  <2>4. CASE q = r
    BY <1>5, <2>1, <2>4 DEF SignInsInv, CodesInv, S!SignInOf
  <2> QED
    BY <2>2, <2>3, <2>4
<1>6. CodesInv'
  BY <1>5 DEF CodesInv
<1> QED
  BY <1>2, <1>3, <1>4, <1>6 DEF SignInsInv

LEMMA ExchangeKeepsInv ==
  ASSUME SignInsInv, NEW r \in Requests,
         (\E s \in SignIns : S!Receive(r, s)) \/ S!Exchange(r) \/ S!Lookup(r)
  PROVE  SignInsInv'
<1>1. UNCHANGED <<cookie, account, session>>
  BY DEF S!Receive, S!Exchange, S!Lookup, S!tables, S!browserVars
<1>2. BrowsersInv
  BY DEF SignInsInv
<1>3. ASSUME signin' = signin
      PROVE  /\ signin' = [s \in SignIns |-> signin'[s]] /\ \A s \in SignIns : Back(s)
             /\ \A s \in SignIns : signin'[s].at = "back" => signin[s].at = "back"
  BY <1>2, <1>3 DEF Back, BrowsersInv
<1>4. ASSUME NEW s \in SignIns, S!Receive(r, s)
      PROVE  SignInsInv'
  <2>1. PICK at \in {"matched", "refused"} :
          callback' = [callback EXCEPT ![r] = [at |-> at, signin |-> s, found |-> None]]
    BY <1>4 DEF S!Receive
  <2>2. PICK new : new = [at |-> at, signin |-> s, found |-> None]
    OBVIOUS
  <2>3. /\ callback' = [q \in Requests |-> callback'[q]] /\ callback'[r] = new
        /\ \A q \in Requests : q # r => callback'[q] = callback[q]
    BY <1>2, <2>1, <2>2 DEF BrowsersInv
  <2>4. new.at = at /\ new.signin = s /\ IsCallback(new)
    BY <2>2 DEF IsCallback
  <2>5. signin' = signin /\ signin[s].at = "back" /\ callback[r].at = "idle"
    BY <1>4 DEF S!Receive, S!Idle
  <2>6. CallbackAt(r)'
    BY <2>3, <2>4, <2>5 DEF CallbackAt, S!SignInOf, Exchanged
  <2> QED
    BY <1>1, <1>3, <2>3, <2>4, <2>5, <2>6, CallbackKeepsInv DEF Exchanged, Committed
<1>5. ASSUME callback[r].at \in {"matched", "known"}, NEW at, signin' = signin,
             callback' = [callback EXCEPT ![r].at = at], at = "refused"
      PROVE  SignInsInv'
  <2>1. /\ callback' = [q \in Requests |-> callback'[q]]
        /\ \A q \in Requests : q # r => callback'[q] = callback[q]
        /\ callback'[r] = [at |-> at, signin |-> callback[r].signin, found |-> callback[r].found]
    BY <1>5, CallbackMoves
  <2>2. CallbackAt(r)'
    <3>1. callback'[r].at = "refused" /\ callback'[r].signin = callback[r].signin
          /\ IsCallback(callback'[r])
      BY <1>5, <2>1 DEF IsCallback
    <3>2. callback[r].signin \in SignIns /\ S!SignInOf(r).at = "back"
      BY <1>5 DEF SignInsInv, CallbackAt
    <3>3. S!SignInOf(r)' = S!SignInOf(r)
      BY <1>5, <3>1 DEF S!SignInOf
    <3> QED
      BY <3>1, <3>2, <3>3 DEF CallbackAt, IsCallback, Exchanged
  <2> QED
    BY <1>1, <1>3, <1>5, <2>1, <2>2, CallbackKeepsInv DEF Exchanged, Committed
<1>6. CASE S!Exchange(r)
  <2>1. PICK s : s = callback[r].signin
    OBVIOUS
  <2>2. callback[r].at = "matched" /\ s \in SignIns /\ signin[s].at = "back"
    BY <1>6, <2>1 DEF S!Exchange, SignInsInv, CallbackAt, S!SignInOf
  <2>3. CASE signin' = signin /\ S!Answered(r, "refused")
    BY <1>5, <2>2, <2>3 DEF S!Answered
  <2>4. CASE /\ signin[s].code = "fresh" /\ signin' = [signin EXCEPT ![s].code = "used"]
             /\ callback' = [callback EXCEPT ![r].at = "known"]
    <3>1. /\ callback' = [q \in Requests |-> callback'[q]]
          /\ \A q \in Requests : q # r => callback'[q] = callback[q]
          /\ callback'[r] = [at |-> "known", signin |-> s, found |-> callback[r].found]
      BY <2>1, <2>2, <2>4, CallbackMoves
    <3>2. DOMAIN signin[s] = {"at", "browser", "sub", "email", "code"}
      BY <1>2, <2>2 DEF BrowsersInv
    <3>3. /\ signin' = [q \in SignIns |-> signin'[q]]
          /\ \A q \in SignIns : q # s => signin'[q] = signin[q]
          /\ signin'[s] = [signin[s] EXCEPT !.code = "used"]
      BY <1>2, <2>2, <2>4 DEF BrowsersInv
    <3>4. /\ signin'[s].code = "used" /\ signin'[s].at = "back" /\ signin'[s].sub = signin[s].sub
          /\ signin'[s].browser = signin[s].browser
          /\ DOMAIN signin'[s] = {"at", "browser", "sub", "email", "code"}
      BY <2>2, <3>2, <3>3
    <3>5. \A q \in SignIns : Back(q)
      BY <1>2, <3>3, <3>4 DEF Back, BrowsersInv
    <3>6. \A q \in SignIns : signin'[q].at = "back" => signin[q].at = "back"
      BY <2>2, <3>3
    <3>7. CallbackAt(r)'
      BY <2>2, <3>1, <3>4 DEF CallbackAt, S!SignInOf, IsCallback
    <3> QED
      BY <1>1, <2>2, <2>4, <3>1, <3>3, <3>5, <3>6, <3>7, CallbackKeepsInv DEF Committed
  <2> QED
    BY <1>6, <2>1, <2>3, <2>4 DEF S!Exchange, S!SignInOf
<1>7. CASE S!Lookup(r)
  <2>1. PICK rows, i : rows = S!Rows(S!SignInOf(r).sub) /\ i = CHOOSE j \in rows : TRUE
    OBVIOUS
  <2>2. PICK found : found = IF rows = {} THEN None ELSE [id |-> i, email |-> account[i].email]
    OBVIOUS
  <2>3. /\ callback[r].at = "known" /\ signin' = signin
        /\ callback' = [callback EXCEPT ![r] = [callback[r] EXCEPT !.at = "read", !.found = found]]
    BY <1>7, <2>1, <2>2 DEF S!Lookup, S!browserVars
  <2>4. IsCallback(callback[r]) /\ callback[r].signin \in SignIns /\ S!SignInOf(r).at = "back"
        /\ S!SignInOf(r).code = "used"
    BY <2>3 DEF SignInsInv, CallbackAt, Exchanged
  <2>5. [callback[r] EXCEPT !.at = "read", !.found = found]
          = [at |-> "read", signin |-> callback[r].signin, found |-> found]
    <3>1. PICK a, s, f : a = callback[r].at /\ s = callback[r].signin /\ f = callback[r].found
      OBVIOUS
    <3>2. callback[r] = [at |-> a, signin |-> s, found |-> f]
      BY <2>4, <3>1 DEF IsCallback
    <3>3. PICK q : q = callback[r]
      OBVIOUS
    <3>4. q = [at |-> a, signin |-> s, found |-> f]
      BY <3>2, <3>3
    <3>5. [q EXCEPT !.at = "read", !.found = found] = [at |-> "read", signin |-> s, found |-> found]
      <4>1. PICK q1 : q1 = [q EXCEPT !.at = "read"]
        OBVIOUS
      <4>2. q1 = [at |-> "read", signin |-> s, found |-> f]
        BY <3>4, <4>1
      <4>3. [q1 EXCEPT !.found = found] = [at |-> "read", signin |-> s, found |-> found]
        BY <4>2
      <4> QED
        BY <4>1, <4>3
    <3> QED
      BY <3>1, <3>3, <3>5, Zenon
  <2>6. /\ callback' = [q \in Requests |-> callback'[q]]
        /\ \A q \in Requests : q # r => callback'[q] = callback[q]
        /\ callback'[r] = [at |-> "read", signin |-> callback[r].signin, found |-> found]
    BY <1>2, <2>3, <2>5 DEF BrowsersInv
  <2>7. found # None => found.id \in DOMAIN account /\ account[found.id].sub = S!SignInOf(r).sub
    <3> SUFFICES ASSUME rows # {}
                 PROVE  i \in DOMAIN account /\ account[i].sub = S!SignInOf(r).sub
      BY <2>2
    <3>1. i \in rows
      BY <2>1
    <3> QED
      BY <2>1, <3>1 DEF S!Rows
  <2>8. CallbackAt(r)'
    <3>1. callback'[r].at = "read" /\ callback'[r].signin = callback[r].signin /\ callback'[r].found = found
          /\ IsCallback(callback'[r])
      BY <2>6 DEF IsCallback
    <3>2. S!SignInOf(r)' = S!SignInOf(r)
      BY <2>3, <3>1 DEF S!SignInOf
    <3> QED
      BY <1>1, <2>4, <2>7, <3>1, <3>2 DEF CallbackAt, IsCallback
  <2> QED
    BY <1>1, <1>3, <2>3, <2>6, <2>8, CallbackKeepsInv DEF Exchanged, Committed
<1> QED
  BY <1>4, <1>6, <1>7

\* provision_user and create_session: a new row of users belongs to the request, a row
\* that was found keeps its person.
LEMMA ProvisionKeepsInv ==
  ASSUME SignInsInv, NEW r \in Requests, S!Provision(r)
  PROVE  SignInsInv'
<1>1. /\ callback[r].at = "read" /\ signin' = signin /\ cookie' = cookie
  BY DEF S!Provision, S!browserVars
<1>2. /\ callback[r].signin \in SignIns /\ S!SignInOf(r).at = "back" /\ S!SignInOf(r).code = "used"
      /\ callback[r].found # None =>
           /\ callback[r].found.id \in DOMAIN account
           /\ account[callback[r].found.id].sub = S!SignInOf(r).sub
  BY <1>1 DEF SignInsInv, CallbackAt, Exchanged
<1>3. BrowsersInv /\ \A s \in SignIns : Back(s) /\ (signin'[s].at = "back" => signin[s].at = "back")
  BY <1>1 DEF Back, SignInsInv, BrowsersInv
<1> PICK s, found : s = S!SignInOf(r) /\ found = callback[r].found
  OBVIOUS
<1> PICK id : id = IF found = None THEN r ELSE found.id
  OBVIOUS
<1>4. PICK row : row = [sub |-> s.sub, email |-> IF found # None /\ found.email = s.email
                                                THEN account[id].email ELSE s.email]
  OBVIOUS
<1>5. \/ callback' = [callback EXCEPT ![r].at = "failed"] /\ UNCHANGED <<account, session>>
      \/ /\ ~S!Clashes(id, row)
         /\ account' = [i \in DOMAIN account \cup {id} |-> IF i = id THEN row ELSE account[i]]
         /\ session' = [t \in DOMAIN session \cup {r} |->
              IF t = r THEN [user |-> id, ends |-> "later"] ELSE session[t]]
         /\ callback' = [callback EXCEPT ![r].at = "committed"]
  BY <1>4 DEF S!Provision, S!tables
<1>6. CASE callback' = [callback EXCEPT ![r].at = "failed"] /\ UNCHANGED <<account, session>>
  <2>1. /\ callback' = [q \in Requests |-> callback'[q]]
        /\ \A q \in Requests : q # r => callback'[q] = callback[q]
        /\ callback'[r] = [at |-> "failed", signin |-> callback[r].signin, found |-> callback[r].found]
    BY <1>1, <1>6, CallbackMoves
  <2>2. callback'[r].at = "failed" /\ callback'[r].signin = callback[r].signin
        /\ IsCallback(callback'[r])
    BY <2>1 DEF IsCallback
  <2>3. CallbackAt(r)'
    BY <1>1, <1>2, <2>2 DEF CallbackAt, S!SignInOf, IsCallback
  <2> QED
    BY <1>1, <1>3, <1>6, <2>1, <2>2, <2>3, CallbackKeepsInv DEF Exchanged, Committed, BrowsersInv
<1>7. CASE /\ ~S!Clashes(id, row)
           /\ account' = [i \in DOMAIN account \cup {id} |-> IF i = id THEN row ELSE account[i]]
           /\ session' = [t \in DOMAIN session \cup {r} |->
                IF t = r THEN [user |-> id, ends |-> "later"] ELSE session[t]]
           /\ callback' = [callback EXCEPT ![r].at = "committed"]
  <2>1. /\ callback' = [q \in Requests |-> callback'[q]]
        /\ \A q \in Requests : q # r => callback'[q] = callback[q]
        /\ callback'[r] = [at |-> "committed", signin |-> callback[r].signin, found |-> callback[r].found]
    BY <1>1, <1>7, CallbackMoves
  <2>2. callback'[r].at = "committed" /\ callback'[r].signin = callback[r].signin
        /\ IsCallback(callback'[r])
    BY <2>1 DEF IsCallback
  <2>3. \A q \in Requests : /\ callback'[q].signin = callback[q].signin
                            /\ S!SignInOf(q)' = S!SignInOf(q)
                            /\ callback[q].at \in Committed => callback'[q].at \in Committed
                            /\ callback[q].at = "done" => callback'[q] = callback[q]
    BY <1>1, <2>1, <2>2 DEF S!SignInOf, Committed
  <2>4. /\ DOMAIN account' = DOMAIN account \cup {id} /\ account'[id] = row
        /\ \A i \in DOMAIN account : i # id => account'[i] = account[i]
    BY <1>7
  <2>5. /\ DOMAIN session' = DOMAIN session \cup {r} /\ session'[r] = [user |-> id, ends |-> "later"]
        /\ \A t \in DOMAIN session : t # r => session'[t] = session[t]
    BY <1>7
  <2>6. r \notin DOMAIN account /\ r \notin DOMAIN session
    BY <1>1 DEF SignInsInv, AccountsInv, SessionRows, Committed
  <2>7. row.sub = s.sub /\ (id \in DOMAIN account => account[id].sub = s.sub)
    BY <1>2, <1>4, <2>6
  <2>8. id = r \/ id \in DOMAIN account
    BY <1>2, <1>4
  <2>9. \A i \in DOMAIN account : i \in DOMAIN account' /\ account'[i].sub = account[i].sub
    BY <2>4, <2>7
  <2>10. AccountsInv'
    <3>1. \A i \in DOMAIN account' : i \in Requests /\ callback'[i].at \in Committed
      BY <2>2, <2>3, <2>4, <2>8 DEF SignInsInv, AccountsInv, Committed
    <3>2. \A i \in DOMAIN account : i # id => account[i].sub # row.sub /\ account[i].email # row.email
      BY <1>7 DEF S!Clashes
    <3>3. \A i, j \in DOMAIN account' : i # j =>
            account'[i].sub # account'[j].sub /\ account'[i].email # account'[j].email
      BY <2>4, <3>2 DEF SignInsInv, AccountsInv
    <3> QED
      BY <3>1, <3>3 DEF AccountsInv
  <2>11. SessionRows'
    <3> SUFFICES ASSUME NEW t \in DOMAIN session'
                 PROVE  /\ t \in Requests /\ callback'[t].at \in Committed
                        /\ session'[t] = [user |-> session'[t].user, ends |-> session'[t].ends]
                        /\ session'[t].user \in DOMAIN account'
                        /\ account'[session'[t].user].sub = S!SignInOf(t)'.sub
      BY DEF SessionRows
    <3>1. CASE t = r
      BY <1>4, <2>2, <2>3, <2>4, <2>5, <2>7, <3>1 DEF Committed
    <3>2. CASE t # r
      <4>1. t \in DOMAIN session /\ session'[t] = session[t]
        BY <2>5, <3>2
      <4>2. /\ t \in Requests /\ callback[t].at \in Committed
            /\ session[t] = [user |-> session[t].user, ends |-> session[t].ends]
            /\ session[t].user \in DOMAIN account
            /\ account[session[t].user].sub = S!SignInOf(t).sub
        BY <4>1 DEF SignInsInv, SessionRows
      <4> QED
        BY <2>3, <2>9, <4>1, <4>2
    <3> QED
      BY <3>1, <3>2
  <2>12. ASSUME NEW q \in Requests
         PROVE  CallbackAt(q)'
    <3>1. CASE q = r
      BY <1>2, <2>2, <2>3, <3>1 DEF CallbackAt, IsCallback
    <3>2. CASE q # r
      <4> SUFFICES ASSUME callback[q].at # "idle"
                   PROVE  CallbackAt(q)'
        BY <2>1, <3>2 DEF CallbackAt
      <4>1. CallbackAt(q) /\ callback'[q] = callback[q] /\ S!SignInOf(q)' = S!SignInOf(q)
        BY <2>1, <2>3, <3>2 DEF SignInsInv
      <4> QED
        BY <2>9, <4>1 DEF CallbackAt
    <3> QED
      BY <3>1, <3>2
  <2>13. CodesInv'
    <3>1. \A q \in Requests : callback'[q].at \in Exchanged => callback[q].at \in Exchanged
      BY <1>1, <2>1 DEF Exchanged
    <3> QED
      BY <2>3, <3>1 DEF SignInsInv, CodesInv
  <2>14. CookiesInv'
    <3> SUFFICES ASSUME NEW b \in Browsers
                 PROVE  (cookie[b] # None =>
                   cookie[b] \in Requests /\ callback[cookie[b]].at = "done" /\ S!BrowserOf(cookie[b]) = b)'
      BY Zenon DEF CookiesInv
    <3> QED
      BY <1>1, <1>3, <2>3, CookiesStay
  <2>15. BrowsersInv'
    BY <1>1, <1>3, <2>1 DEF BrowsersInv
  <2> QED
    BY <2>10, <2>11, <2>12, <2>13, <2>14, <2>15 DEF SignInsInv
<1> QED
  BY <1>5, <1>6, <1>7

\* The browser of the sign-in gets the session.
LEMMA RedirectKeepsInv ==
  ASSUME SignInsInv, NEW r \in Requests, S!Redirect(r)
  PROVE  SignInsInv'
<1>1. /\ callback[r].at = "committed" /\ UNCHANGED <<signin, account, session>>
      /\ callback' = [callback EXCEPT ![r].at = "done"]
      /\ cookie' = [cookie EXCEPT ![S!BrowserOf(r)] = r]
  BY DEF S!Redirect, S!tables, S!Answered
<1>2. BrowsersInv /\ \A s \in SignIns : Back(s)
  BY <1>1 DEF Back, SignInsInv, BrowsersInv
<1>3. /\ callback' = [q \in Requests |-> callback'[q]]
      /\ \A q \in Requests : q # r => callback'[q] = callback[q]
      /\ callback'[r] = [at |-> "done", signin |-> callback[r].signin, found |-> callback[r].found]
  BY <1>1, CallbackMoves
<1>4. callback'[r].at = "done" /\ callback'[r].signin = callback[r].signin
      /\ IsCallback(callback'[r])
  BY <1>3 DEF IsCallback
<1>5. \A q \in Requests : /\ callback'[q].signin = callback[q].signin
                          /\ S!SignInOf(q)' = S!SignInOf(q)
                          /\ callback[q].at \in Committed => callback'[q].at \in Committed
                          /\ callback[q].at = "done" => callback'[q].at = "done"
  BY <1>1, <1>3, <1>4 DEF S!SignInOf, Committed
<1>6. AccountsInv' /\ SessionRows' /\ \A q \in Requests : q # r => CallbackAt(q)'
  BY <1>1, <1>2, <1>3, <1>5, RowsStay
<1>7. CallbackAt(r)'
  <2>1. callback[r].signin \in SignIns /\ S!SignInOf(r).at = "back" /\ S!SignInOf(r).code = "used"
    BY <1>1 DEF SignInsInv, CallbackAt, Exchanged
  <2> QED
    BY <1>4, <1>5, <2>1 DEF CallbackAt, IsCallback
<1>8. CodesInv'
  <2>1. \A q \in Requests : callback'[q].at \in Exchanged => callback[q].at \in Exchanged
    BY <1>1, <1>3 DEF Exchanged
  <2> QED
    BY <1>5, <2>1 DEF SignInsInv, CodesInv
<1>9. cookie' = [b \in Browsers |-> cookie'[b]]
      /\ \A b \in Browsers : cookie'[b] = IF b = S!BrowserOf(r) THEN r ELSE cookie[b]
  BY <1>1, <1>2 DEF BrowsersInv
<1>10. CookiesInv'
  <2> SUFFICES ASSUME NEW b \in Browsers
               PROVE  (cookie[b] # None =>
                 cookie[b] \in Requests /\ callback[cookie[b]].at = "done" /\ S!BrowserOf(cookie[b]) = b)'
    BY Zenon DEF CookiesInv
  <2>1. CASE b = S!BrowserOf(r)
    <3>1. cookie'[b] = r
      BY <1>9, <2>1
    <3>2. S!BrowserOf(r)' = b
      BY <1>5, <2>1 DEF S!BrowserOf
    <3>3. S!BrowserOf(cookie[b])' = b
      BY <3>1, <3>2 DEF S!BrowserOf, S!SignInOf
    <3> QED
      BY <1>4, <3>1, <3>3
  <2>2. CASE b # S!BrowserOf(r)
    BY <1>2, <1>5, <1>9, <2>2, CookiesStay
  <2> QED
    BY <2>1, <2>2
<1>11. BrowsersInv'
  BY <1>1, <1>2, <1>3, <1>9 DEF BrowsersInv
<1> QED
  BY <1>6, <1>7, <1>8, <1>10, <1>11 DEF SignInsInv

\* Sessions end.
LEMMA SessionsEnd ==
  ASSUME SignInsInv, (\E t \in DOMAIN session : S!Expire(t)) \/ \E b \in Browsers : S!Me(b) \/ S!Logout(b)
  PROVE  SignInsInv'
<1>1. UNCHANGED <<signin, cookie, callback, account>>
  BY DEF S!Expire, S!Me, S!Logout, S!browserVars
<1>2. \A u \in DOMAIN session' :
        u \in DOMAIN session /\ session'[u].user = session[u].user
        /\ session'[u] = [user |-> session'[u].user, ends |-> session'[u].ends]
  <2>1. \A u \in DOMAIN session : session[u] = [user |-> session[u].user, ends |-> session[u].ends]
    BY DEF SignInsInv, SessionRows
  <2>2. ASSUME NEW t \in DOMAIN session, S!Expire(t), NEW u \in DOMAIN session'
        PROVE  u \in DOMAIN session /\ session'[u].user = session[u].user
               /\ session'[u] = [user |-> session'[u].user, ends |-> session'[u].ends]
    <3>1. session' = [session EXCEPT ![t].ends = "past"] /\ DOMAIN session' = DOMAIN session
      BY <2>2 DEF S!Expire
    <3>2. CASE u # t
      BY <2>1, <2>2, <3>1, <3>2
    <3>3. CASE u = t
      <4>1. PICK x, y : session[t] = [user |-> x, ends |-> y]
        BY <2>1, <2>2
      <4>2. session'[t] = [user |-> x, ends |-> "past"]
        BY <2>2, <3>1, <4>1
      <4> QED
        BY <2>2, <3>3, <4>1, <4>2
    <3> QED
      BY <3>2, <3>3
  <2>3. ASSUME NEW b \in Browsers, S!Me(b) \/ S!Logout(b), NEW u \in DOMAIN session'
        PROVE  u \in DOMAIN session /\ session'[u].user = session[u].user
               /\ session'[u] = [user |-> session'[u].user, ends |-> session'[u].ends]
    BY <2>1, <2>3 DEF S!Me, S!Logout, S!Without
  <2> QED
    BY <2>2, <2>3
<1>3. SessionRows'
  <2> SUFFICES ASSUME NEW t \in DOMAIN session'
               PROVE  /\ t \in Requests /\ callback'[t].at \in Committed
                      /\ session'[t] = [user |-> session'[t].user, ends |-> session'[t].ends]
                      /\ session'[t].user \in DOMAIN account'
                      /\ account'[session'[t].user].sub = S!SignInOf(t)'.sub
    BY DEF SessionRows
  <2>1. S!SignInOf(t)' = S!SignInOf(t)
    BY <1>1 DEF S!SignInOf
  <2> QED
    BY <1>1, <1>2, <2>1 DEF SignInsInv, SessionRows
<1>4. BrowsersInv' /\ CodesInv' /\ AccountsInv'
  BY <1>1 DEF SignInsInv, BrowsersInv, CodesInv, AccountsInv
<1>5. CookiesInv' /\ \A r \in Requests : CallbackAt(r)'
  BY <1>1 DEF SignInsInv, CookiesInv, CallbackAt, S!BrowserOf, S!SignInOf
<1> QED
  BY <1>3, <1>4, <1>5 DEF SignInsInv

LEMMA SignInsStep == SignInsInv /\ [S!Next]_S!vars => SignInsInv'
<1> SUFFICES ASSUME SignInsInv, [S!Next]_S!vars
             PROVE  SignInsInv'
  OBVIOUS
<1>1. ASSUME NEW s \in SignIns, S!Authenticate(s) \/ \E b \in Browsers : S!Login(s, b)
      PROVE  SignInsInv'
  BY <1>1, BrowsingKeepsInv
<1>2. ASSUME NEW r \in Requests, \/ \E s \in SignIns : S!Receive(r, s)
                                 \/ S!Exchange(r) \/ S!Lookup(r) \/ S!Provision(r) \/ S!Redirect(r)
      PROVE  SignInsInv'
  BY <1>2, ExchangeKeepsInv, ProvisionKeepsInv, RedirectKeepsInv
<1>3. CASE (\E t \in DOMAIN session : S!Expire(t)) \/ \E b \in Browsers : S!Me(b) \/ S!Logout(b)
  BY <1>3, SessionsEnd
<1>4. CASE UNCHANGED S!vars
  <2>1. UNCHANGED <<signin, cookie, callback, account, session>>
    BY <1>4 DEF S!vars, S!browserVars, S!tables
  <2>2. BrowsersInv' /\ CodesInv' /\ AccountsInv'
    BY <2>1 DEF SignInsInv, BrowsersInv, CodesInv, AccountsInv
  <2>3. CookiesInv' /\ SessionRows' /\ \A r \in Requests : CallbackAt(r)'
    BY <2>1 DEF SignInsInv, CookiesInv, SessionRows, CallbackAt, S!BrowserOf, S!SignInOf
  <2> QED
    BY <2>2, <2>3 DEF SignInsInv
<1> QED
  BY <1>1, <1>2, <1>3, <1>4 DEF S!Next

LEMMA EveryoneIsOneself == SignInsInv => S!SignedInAsOneself
<1> SUFFICES ASSUME SignInsInv
             PROVE  S!SignedInAsOneself
  OBVIOUS
<1>1. \A i, j \in DOMAIN account : i # j =>
        account[i].sub # account[j].sub /\ account[i].email # account[j].email
  BY DEF SignInsInv, AccountsInv
<1>2. \A t, u \in DOMAIN session : callback[t].signin = callback[u].signin => t = u
  BY DEF SignInsInv, SessionRows, CodesInv, Committed, Exchanged
<1>3. ASSUME NEW b \in Browsers, S!Resolve(b) # None
      PROVE  /\ S!BrowserOf(cookie[b]) = b
             /\ account[S!Resolve(b)].sub = S!SignInOf(cookie[b]).sub
  <2>1. cookie[b] \in DOMAIN session /\ S!Resolve(b) = session[cookie[b]].user
    BY <1>3 DEF S!Resolve
  <2>2. cookie[b] # None
    BY <2>1, IdAssumption DEF SignInsInv, SessionRows, None
  <2> QED
    BY <2>1, <2>2 DEF SignInsInv, SessionRows, CookiesInv
<1> QED
  BY <1>1, <1>2, <1>3 DEF S!SignedInAsOneself

(***************************************************************************)
(* The routers together: a request goes to the router of the behaviour.    *)
(***************************************************************************)
Focuses == {"projects", "catalog", "endpoints", "registry", "logs", "sessions"}
HandlersInv ==
  /\ focus \in Focuses
  /\ focus = "projects" => SoundInv /\ OneEffectPerKey
  /\ focus = "catalog" => CatalogInv /\ SourceInv /\ OneEffectPerKey
  /\ focus = "endpoints" => EndpointInv /\ NamesInv
  /\ focus = "registry" => RegistryCalls /\ OneEffectPerKey /\ HistoryInv /\ LimitInv
  /\ focus = "logs" => LogInv /\ OneEffectPerKey
  /\ focus = "sessions" => SignInsInv /\ OneEffectPerKey

LEMMA HandlersStart == Init => HandlersInv
<1> SUFFICES ASSUME Init
             PROVE  HandlersInv
  OBVIOUS
<1>1. CASE focus = "projects" /\ P!Init
  BY <1>1, ProjectStart, SoundStart DEF HandlersInv, Focuses
<1>2. CASE focus = "catalog" /\ C!Init
  <2>1. OneEffectPerKey
    BY <1>2, NoneKept DEF C!Init, OneEffectPerKey
  <2> QED
    BY <1>2, <2>1, CatalogStart, SourceStart DEF HandlersInv, Focuses
<1>3. CASE focus = "endpoints" /\ E!Init
  BY <1>3, EndpointStart, NamesStart DEF HandlersInv, Focuses
<1>4. CASE focus = "registry" /\ R!Init
  BY <1>4, RegistryStart, HistoryStart, LimitStart DEF HandlersInv, Focuses
<1>5. CASE focus \in {"logs", "sessions"} /\ NoRequests
             /\ (focus = "logs" => L!Init) /\ (focus = "sessions" => S!Init)
  <2>1. OneEffectPerKey
    BY <1>5, NoneKept DEF NoRequests, OneEffectPerKey
  <2>2. focus = "logs" => LogInv
    BY <1>5, LogStart
  <2>3. focus = "sessions" => SignInsInv
    BY <1>5, SignInsStart
  <2> QED
    BY <1>5, <2>1, <2>2, <2>3 DEF HandlersInv, Focuses
<1> QED
  BY <1>1, <1>2, <1>3, <1>4, <1>5 DEF Init

\* One step is a step of the router, or leaves its tables alone.
LEMMA StepOfRouter ==
  ASSUME [Next]_vars
  PROVE  /\ focus' = focus
         /\ focus = "projects" => [P!Next]_P!vars
         /\ focus = "catalog" => [C!Next]_C!vars
         /\ focus = "endpoints" => [E!Next]_E!vars
         /\ focus = "registry" => [R!Next]_R!vars
         /\ focus = "logs" => [L!Next]_L!vars
         /\ focus = "sessions" => [S!Next]_S!vars
         /\ focus \in {"logs", "sessions"} => UNCHANGED <<kept, effects>>
<1>1. CASE UNCHANGED vars
  <2>1. UNCHANGED <<focus, kept, req, effects, raced, stamp, told>>
    BY <1>1 DEF vars, requestVars
  <2>2. UNCHANGED P!vars
    BY <1>1, <2>1 DEF vars, projectVars, P!vars, P!dbVars, P!ghostVars
  <2>3. UNCHANGED C!vars
    BY <1>1, <2>1 DEF vars, catalogVars, C!vars, C!tables
  <2>4. UNCHANGED E!vars
    BY <1>1, <2>1 DEF vars, endpointVars, E!vars, E!tables
  <2>5. UNCHANGED R!vars
    BY <1>1, <2>1 DEF vars, registryVars, R!vars, R!tables
  <2>6. UNCHANGED L!vars
    BY <1>1 DEF vars, logVars, L!vars, L!workerVars, L!drawerVars
  <2>7. UNCHANGED S!vars
    BY <1>1 DEF vars, sessionVars, S!vars, S!browserVars, S!tables
  <2> QED
    BY <2>1, <2>2, <2>3, <2>4, <2>5, <2>6, <2>7
<1>2. CASE Next
  BY <1>2 DEF Next, requestVars
<1> QED
  BY <1>1, <1>2

LEMMA HandlersStep == HandlersInv /\ [Next]_vars => HandlersInv'
<1> SUFFICES ASSUME HandlersInv, [Next]_vars
             PROVE  HandlersInv'
  OBVIOUS
<1>1. CASE focus = "projects"
  <2>1. SoundInv' /\ OneEffectPerKey'
    BY <1>1, StepOfRouter, SoundStep, ProjectKeysStep DEF HandlersInv, SoundInv
  <2> QED
    BY <1>1, <2>1, StepOfRouter DEF HandlersInv, Focuses
<1>2. CASE focus = "catalog"
  <2>1. CatalogInv' /\ OneEffectPerKey'
    BY <1>2, UploadAssumption, StepOfRouter, CatalogStep, CatalogKeysStep DEF HandlersInv, C!None
  <2>2. SourceInv'
    BY <1>2, IdAssumption, StepOfRouter, SourceStep DEF HandlersInv, C!None
  <2> QED
    BY <1>2, <2>1, <2>2, StepOfRouter DEF HandlersInv, Focuses
<1>3. CASE focus = "endpoints"
  <2>1. EndpointInv' /\ NamesInv'
    BY <1>3, StepOfRouter, EndpointStep, NamesStep DEF HandlersInv
  <2> QED
    BY <1>3, <2>1, StepOfRouter DEF HandlersInv, Focuses
<1>4. CASE focus = "registry"
  <2>1. RegistryCalls' /\ OneEffectPerKey' /\ HistoryInv' /\ LimitInv'
    BY <1>4, StepOfRouter, RegistryStep, HistoryStep, LimitStep DEF HandlersInv
  <2> QED
    BY <1>4, <2>1, StepOfRouter DEF HandlersInv, Focuses
<1>5. CASE focus \in {"logs", "sessions"}
  <2>1. OneEffectPerKey'
    BY <1>5, StepOfRouter DEF HandlersInv, OneEffectPerKey
  <2>2. focus = "logs" => LogInv'
    BY StepOfRouter, LogStep DEF HandlersInv
  <2>3. focus = "sessions" => SignInsInv'
    BY StepOfRouter, SignInsStep DEF HandlersInv
  <2> QED
    BY <1>5, <2>1, <2>2, <2>3, StepOfRouter DEF HandlersInv, Focuses
<1> QED
  BY <1>1, <1>2, <1>3, <1>4, <1>5 DEF HandlersInv, Focuses

\* OneEffectPerKey: however requests to a router overlap, one that is sent twice with a
\* key takes effect once, as long as the key is kept.
THEOREM RequestsTakeEffectOnce == Spec => []OneEffectPerKey
<1>1. HandlersInv => OneEffectPerKey
  BY DEF HandlersInv, Focuses, EndpointInv
<1> QED
  BY <1>1, HandlersStart, HandlersStep, PTL DEF Spec

\* HistoryIsWhole: however saves of prompts overlap, the versions of each have no gap, and
\* the rows of prompts are what those who saved them were told.
THEOREM PromptsAppendOnly == Spec => []HistoryIsWhole
<1>1. HandlersInv => HistoryIsWhole
  BY WholeHistory DEF HandlersInv, HistoryIsWhole
<1> QED
  BY <1>1, HandlersStart, HandlersStep, PTL DEF Spec

\* KeyWithItsEndpoint: however patches fall between the two reads of a model call, it sends
\* a key only with a configuration that the endpoint held together with that key.
THEOREM KeysGoWithTheirEndpoint == Spec => []KeyWithItsEndpoint
<1>1. EndpointInv => E!KeyWithItsEndpoint
  BY DEF EndpointInv, EndpointRequests, EndpointAt, E!KeyWithItsEndpoint
<1>2. HandlersInv => KeyWithItsEndpoint
  BY <1>1 DEF HandlersInv, KeyWithItsEndpoint
<1> QED
  BY <1>2, HandlersStart, HandlersStep, PTL DEF Spec

\* VersionIsItsUpload: a dataset made from a file has its data, and it is of the upload its
\* row tells, with the counts and the profile of that upload, for every name that no two
\* requests were about at a time.
THEOREM FilesAreTheirUploads == Spec => []VersionIsItsUpload
<1>1. CatalogInv => C!VersionIsItsUpload
  BY DEF CatalogInv, DataInv, OfOneUpload, C!VersionIsItsUpload
<1>2. HandlersInv => VersionIsItsUpload
  BY <1>1 DEF HandlersInv, VersionIsItsUpload
<1> QED
  BY <1>2, HandlersStart, HandlersStep, PTL DEF Spec

\* TailMissesNothing: however the reads of a log overlap with the writes of the one attempt
\* that wrote it, and whatever is lost on the way, a reply is the piece of the log it says
\* it is, what is below the offset of the drawer is on the screen, and of a step that
\* succeeded at once all is there when the reading ends.
THEOREM TailsAreWhole == Spec => []TailMissesNothing
<1>1. HandlersInv => TailMissesNothing
  BY WholeTail DEF HandlersInv, TailMissesNothing
<1> QED
  BY <1>1, HandlersStart, HandlersStep, PTL DEF Spec

\* SoundUnlessRaced: whatever requests to one router overlap, as long as none has committed
\* from reads that were stale by then, a project keeps an admin, its members are those its
\* audit rows tell, its search entry shows it as it is and an archived one does not change;
\* an active dataset has an active connection; the names of global endpoints and policies
\* are unique and no endpoint declares what its provider excludes; a budget keeps a limit.
\* However sign-ins overlap, an account is one person's and its sessions are theirs.
THEOREM PromisesHoldUnlessRaced == Spec => SoundUnlessRaced
<1>1. ASSUME HandlersInv, HandlersInv', [Next]_vars
      PROVE  /\ focus = "projects" => P!StaysSound
             /\ focus = "catalog" => C!SourceStaysActive'
             /\ focus = "endpoints" => E!NamesUnique' /\ E!NothingMisdeclared'
             /\ focus = "registry" => R!LimitRemains'
             /\ focus = "sessions" => S!SignedInAsOneself'
  <2>1. focus = "projects" => P!StaysSound
    BY <1>1, StepOfRouter, SoundStep DEF HandlersInv
  <2>2. focus' = focus
    BY <1>1, StepOfRouter
  <2>3. focus = "catalog" => C!SourceStaysActive'
    BY <1>1, <2>2 DEF HandlersInv, SourceInv
  <2>4. focus = "endpoints" => E!NamesUnique' /\ E!NothingMisdeclared'
    <3>1. (NamesInv => E!NamesUnique /\ E!NothingMisdeclared)'
      BY NamesAreUnique, PTL
    <3> QED
      BY <1>1, <2>2, <3>1 DEF HandlersInv
  <2>5. focus = "registry" => R!LimitRemains'
    BY <1>1, <2>2 DEF HandlersInv, LimitInv
  <2>6. focus = "sessions" => S!SignedInAsOneself'
    <3>1. (SignInsInv => S!SignedInAsOneself)'
      BY EveryoneIsOneself, PTL
    <3> QED
      BY <1>1, <2>2, <3>1 DEF HandlersInv
  <2> QED
    BY <2>1, <2>3, <2>4, <2>5, <2>6
<1> QED
  BY <1>1, HandlersStart, HandlersStep, PTL DEF Spec, SoundUnlessRaced
=============================================================================
