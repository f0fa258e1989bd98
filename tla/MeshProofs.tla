------------------------------ MODULE MeshProofs ------------------------------
(***************************************************************************)
(* What MeshPipeline promises for every set of calls, scopes and budgets.  *)
(***************************************************************************)
EXTENDS MCMeshPipeline, FiniteSetTheorems, WellFoundedInduction, TLAPS

(***************************************************************************)
(* Types.                                                                  *)
(***************************************************************************)

Holds == [scopes : SUBSET Scopes, ts : Nat, settled : Nat \cup {None}]
Ledger == [ts : Nat, cost : Nat, status : {"ok", "blocked", "error"}, hit : BOOLEAN]
Entries == [answer : Calls, until : Nat]

Fields == {"at", "outcome", "since", "left", "quota", "spent", "calls", "crossed",
           "answer", "cost"}
IsRequest(r) == r = [f \in Fields |-> r[f]]

TablesOK ==
  /\ now \in 0..MaxTime
  /\ lock \in [Scopes -> Calls \cup {None}]
  /\ hold \in [Calls -> Holds \cup {None}]
  /\ row \in [Calls -> Ledger \cup {None}]
  /\ cache \in [Keys -> Entries \cup {None}]
  /\ notices \subseteq Quotas \X Calls

Requests ==
  /\ call = [c \in Calls |-> call[c]]
  /\ \A c \in Calls : IsRequest(call[c])

RequestOK(c) ==
  /\ call[c].at \in {"new", "done"} \cup Reserving \cup Calling
  /\ call[c].since \in 0..now
  /\ call[c].left \subseteq QuotasOf(c)
  /\ call[c].at = "held" => call[c].quota \in call[c].left
  /\ call[c].crossed \subseteq Quotas
  /\ call[c].answer \in Calls \cup {None}
  /\ call[c].cost \in Nat
  /\ hold[c] # None => hold[c].scopes = HeldScopes(c) /\ hold[c].ts = call[c].since
  /\ row[c] # None => row[c].ts \in 0..now

TypeInv ==
  /\ TablesOK
  /\ Requests
  /\ \A c \in Calls : RequestOK(c)

(***************************************************************************)
(* What each action does to the requests, field by field.                  *)
(***************************************************************************)

Others(c) == \A d \in Calls : d # c => call'[d] = call[d]

\* The fields that are set once, when the reservation starts or the provider answers.
Kept(c) ==
  /\ call'[c].since = call[c].since
  /\ call'[c].answer = call[c].answer
  /\ call'[c].cost = call[c].cost

\* The fields that the reservation works with.
Aside(c) ==
  /\ call'[c].left = call[c].left
  /\ call'[c].quota = call[c].quota
  /\ call'[c].spent = call[c].spent
  /\ call'[c].calls = call[c].calls
  /\ call'[c].crossed = call[c].crossed

LEMMA OneRequest ==
  ASSUME Requests, NEW c \in Calls, NEW r, IsRequest(r), call' = [call EXCEPT ![c] = r]
  PROVE  Requests' /\ Others(c) /\ call'[c] = r
<1>1. \A d \in Calls : call'[d] = IF d = c THEN r ELSE call[d]
  BY DEF Requests
<1>2. call' = [d \in Calls |-> call'[d]]
  BY DEF Requests
<1>3. \A d \in Calls : IsRequest(call'[d])
  BY <1>1 DEF Requests
<1> QED
  BY <1>1, <1>2, <1>3, Zenon DEF Requests, Others

LEMMA EndFields ==
  ASSUME Requests, NEW c \in Calls, NEW outcome,
         call' = [call EXCEPT ![c].at = "done", ![c].outcome = outcome]
  PROVE  /\ Requests' /\ Others(c) /\ Kept(c) /\ Aside(c)
         /\ call'[c].at = "done" /\ call'[c].outcome = outcome
BY DEF Requests, Others, Kept, Aside, IsRequest, Fields

LEMMA StartReserveFields ==
  ASSUME Requests, NEW c \in Calls, StartReserve(c)
  PROVE  /\ Requests' /\ Others(c)
         /\ call'[c].at = IF QuotasOf(c) = {} THEN "lookup" ELSE "lock"
         /\ call'[c].since = now /\ call'[c].left = QuotasOf(c)
         /\ call'[c].crossed = call[c].crossed /\ call'[c].outcome = call[c].outcome
         /\ call'[c].answer = call[c].answer /\ call'[c].cost = call[c].cost
<1> DEFINE old == call[c]
           at == IF QuotasOf(c) = {} THEN "lookup" ELSE "lock"
           left == QuotasOf(c)
           r == [old EXCEPT !.at = at, !.since = now, !.left = left]
<1>1. IsRequest(old) /\ call' = [call EXCEPT ![c] = r]
  BY DEF Requests, StartReserve
<1>2. /\ IsRequest(r)
      /\ \A f \in Fields : r[f] = IF f = "at" THEN at ELSE IF f = "since" THEN now
                                  ELSE IF f = "left" THEN left ELSE old[f]
  <2> HIDE DEF old, at, left
  <2> QED BY <1>1 DEF IsRequest, Fields
<1>3. Requests' /\ Others(c) /\ call'[c] = r
  BY <1>1, <1>2, OneRequest
<1> HIDE DEF r
<1> QED
  BY <1>2, <1>3 DEF Fields

LEMMA SumLedgerFields ==
  ASSUME Requests, NEW c \in Calls, SumLedger(c)
  PROVE  /\ Requests' /\ Others(c) /\ Kept(c)
         /\ call'[c].at = "held" /\ call'[c].outcome = call[c].outcome
         /\ call'[c].left = call[c].left /\ call'[c].crossed = call[c].crossed
         /\ call'[c].quota \in NextQuotas(c)
         /\ LET q == call'[c].quota
                rows == LedgerRows(q.scope, WindowStart(q.period, call[c].since))
            IN  /\ lock[q.scope] \in {None, c}
                /\ lock' = [lock EXCEPT ![q.scope] = c]
                /\ call'[c].spent = CostOf(rows) /\ call'[c].calls = Cardinality(rows)
<1>1. PICK q \in NextQuotas(c) :
        LET rows == LedgerRows(q.scope, WindowStart(q.period, call[c].since)) IN
        /\ lock[q.scope] \in {None, c}
        /\ lock' = [lock EXCEPT ![q.scope] = c]
        /\ call' = [call EXCEPT ![c].at = "held", ![c].quota = q,
                                ![c].spent = CostOf(rows), ![c].calls = Cardinality(rows)]
  BY DEF SumLedger
<1> DEFINE rows == LedgerRows(q.scope, WindowStart(q.period, call[c].since))
           cost == CostOf(rows)
           number == Cardinality(rows)
<1>2. call' = [call EXCEPT ![c].at = "held", ![c].quota = q,
                           ![c].spent = cost, ![c].calls = number]
  BY <1>1
<1>3. /\ Requests' /\ Others(c) /\ Kept(c)
      /\ call'[c].at = "held" /\ call'[c].outcome = call[c].outcome
      /\ call'[c].left = call[c].left /\ call'[c].crossed = call[c].crossed
      /\ call'[c].quota = q /\ call'[c].spent = cost /\ call'[c].calls = number
  <2> HIDE DEF cost, number
  <2> QED
    BY <1>2 DEF Requests, Others, Kept, IsRequest, Fields
<1> QED
  BY <1>1, <1>3, Zenon

Figures(c) ==
  LET q == call[c].quota
      held == OpenHolds(q.scope, WindowStart(q.period, call[c].since), call[c].since)
  IN  <<call[c].spent + Estimate * Cardinality(held), call[c].calls + Cardinality(held)>>

LEMMA SumHoldsFields ==
  ASSUME Requests, NEW c \in Calls, SumHolds(c)
  PROVE  LET q == call[c].quota
             spent == Figures(c)[1]
             calls == Figures(c)[2]
             left == call[c].left \ {q}
         IN
         /\ Requests' /\ Others(c) /\ Kept(c)
         /\ \/ /\ Exceeds(q, spent, calls) /\ Blocks(q)
               /\ call'[c].at = "done" /\ call'[c].outcome = "over" /\ call'[c].left = {}
               /\ call'[c].crossed = call[c].crossed
               /\ lock' = Released(c)
            \/ /\ ~(Exceeds(q, spent, calls) /\ Blocks(q))
               /\ call'[c].at = IF left = {} THEN "commit" ELSE "lock"
               /\ call'[c].left = left /\ call'[c].outcome = call[c].outcome
               /\ call'[c].crossed \in {call[c].crossed, call[c].crossed \cup {q}}
               /\ lock' = lock
<1> DEFINE q == call[c].quota
           spent == Figures(c)[1]
           calls == Figures(c)[2]
           left == call[c].left \ {q}
           over == Exceeds(q, spent, calls) /\ Blocks(q)
           just == Exceeds(q, spent, calls) /\ JustCrosses(q, spent, calls)
<1>1. IF over
      THEN /\ call' = [call EXCEPT ![c].at = "done", ![c].outcome = "over", ![c].left = {}]
           /\ lock' = Released(c)
      ELSE /\ call' = [call EXCEPT ![c].at = IF left = {} THEN "commit" ELSE "lock",
                         ![c].left = left,
                         ![c].crossed = IF just THEN @ \cup {q} ELSE @]
           /\ UNCHANGED lock
  BY DEF SumHolds, Figures
<1> HIDE DEF spent, calls, over, just, left
<1>2. CASE over
  <2>1. /\ Requests' /\ Others(c) /\ Kept(c)
        /\ call'[c].at = "done" /\ call'[c].outcome = "over" /\ call'[c].left = {}
        /\ call'[c].crossed = call[c].crossed
    <3> DEFINE old == call[c]
               r == [old EXCEPT !.at = "done", !.outcome = "over", !.left = {}]
    <3>1. IsRequest(old) /\ call' = [call EXCEPT ![c] = r]
      BY <1>1, <1>2 DEF Requests
    <3>2. /\ IsRequest(r)
          /\ \A f \in Fields : r[f] = IF f = "at" THEN "done" ELSE IF f = "outcome" THEN "over"
                                      ELSE IF f = "left" THEN {} ELSE old[f]
      <4> HIDE DEF old
      <4> QED BY <3>1 DEF IsRequest, Fields
    <3>3. Requests' /\ Others(c) /\ call'[c] = r
      BY <3>1, <3>2, OneRequest
    <3> HIDE DEF r
    <3> QED
      BY <3>2, <3>3 DEF Fields, Kept
  <2> QED
    BY <1>1, <1>2, <2>1 DEF over, spent, calls
<1>3. CASE ~over
  <2>1. /\ Requests' /\ Others(c) /\ Kept(c)
        /\ call'[c].at = IF left = {} THEN "commit" ELSE "lock"
        /\ call'[c].left = left /\ call'[c].outcome = call[c].outcome
        /\ call'[c].crossed \in {call[c].crossed, call[c].crossed \cup {q}}
    <3> DEFINE old == call[c]
               at == IF left = {} THEN "commit" ELSE "lock"
               crossed == IF just THEN old.crossed \cup {q} ELSE old.crossed
               r == [old EXCEPT !.at = at, !.left = left, !.crossed = crossed]
    <3>1. IsRequest(old) /\ call' = [call EXCEPT ![c] = r]
      BY <1>1, <1>3 DEF Requests
    <3>2. /\ IsRequest(r)
          /\ \A f \in Fields : r[f] = IF f = "at" THEN at ELSE IF f = "left" THEN left
                                      ELSE IF f = "crossed" THEN crossed ELSE old[f]
      <4> HIDE DEF old, at, crossed
      <4> QED BY <3>1 DEF IsRequest, Fields
    <3>3. Requests' /\ Others(c) /\ call'[c] = r
      BY <3>1, <3>2, OneRequest
    <3> HIDE DEF r
    <3> QED
      BY <3>2, <3>3 DEF Fields, Kept
  <2> QED
    BY <1>1, <1>3, <2>1, Zenon DEF over, spent, calls, left
<1> QED
  BY <1>2, <1>3

LEMMA CommitReserveFields ==
  ASSUME Requests, NEW c \in Calls, CommitReserve(c)
  PROVE  /\ Requests' /\ Others(c) /\ Kept(c) /\ Aside(c)
         /\ call'[c].at = "lookup" /\ call'[c].outcome = call[c].outcome
BY DEF Requests, Others, Kept, Aside, CommitReserve, IsRequest, Fields

LEMMA CacheLookupFields ==
  ASSUME Requests, NEW c \in Calls, CacheLookup(c)
  PROVE  /\ Requests' /\ Others(c) /\ Aside(c)
         /\ call'[c].at = IF Fresh(KeyOf[c]) THEN "post" ELSE "provider"
         /\ call'[c].answer = IF Fresh(KeyOf[c]) THEN cache[KeyOf[c]].answer ELSE None
         /\ call'[c].since = call[c].since /\ call'[c].cost = call[c].cost
         /\ call'[c].outcome = call[c].outcome
<1> DEFINE fresh == Fresh(KeyOf[c])
           answer == cache[KeyOf[c]].answer
<1>1. call' = [call EXCEPT ![c].at = IF fresh THEN "post" ELSE "provider",
                           ![c].answer = IF fresh THEN answer ELSE None]
  BY DEF CacheLookup
<1> HIDE DEF fresh, answer
<1>2. /\ Requests' /\ Others(c) /\ Aside(c)
      /\ call'[c].at = IF fresh THEN "post" ELSE "provider"
      /\ call'[c].answer = IF fresh THEN answer ELSE None
      /\ call'[c].since = call[c].since /\ call'[c].cost = call[c].cost
      /\ call'[c].outcome = call[c].outcome
  <2> DEFINE old == call[c]
             at == IF fresh THEN "post" ELSE "provider"
             got == IF fresh THEN answer ELSE None
             r == [old EXCEPT !.at = at, !.answer = got]
  <2>1. IsRequest(old) /\ call' = [call EXCEPT ![c] = r]
    BY <1>1 DEF Requests
  <2>2. /\ IsRequest(r)
        /\ \A f \in Fields : r[f] = IF f = "at" THEN at ELSE IF f = "answer" THEN got
                                    ELSE old[f]
    <3> HIDE DEF old, at, got
    <3> QED BY <2>1 DEF IsRequest, Fields
  <2>3. Requests' /\ Others(c) /\ call'[c] = r
    BY <2>1, <2>2, OneRequest
  <2> HIDE DEF r
  <2> QED
    BY <2>2, <2>3 DEF Fields, Aside
<1> QED
  BY <1>2 DEF fresh, answer

LEMMA InvokeFields ==
  ASSUME Requests, NEW c \in Calls, Invoke(c)
  PROVE  /\ Requests' /\ Others(c) /\ Aside(c)
         /\ call'[c].at = "post" /\ call'[c].answer = c /\ call'[c].cost \in Costs
         /\ call'[c].since = call[c].since /\ call'[c].outcome = call[c].outcome
<1>1. PICK cost \in Costs :
        call' = [call EXCEPT ![c].at = "post", ![c].answer = c, ![c].cost = cost]
  BY DEF Invoke
<1> DEFINE old == call[c]
           r == [old EXCEPT !.at = "post", !.answer = c, !.cost = cost]
<1>2. IsRequest(old) /\ call' = [call EXCEPT ![c] = r]
  BY <1>1 DEF Requests
<1>3. /\ IsRequest(r)
      /\ \A f \in Fields : r[f] = IF f = "at" THEN "post" ELSE IF f = "answer" THEN c
                                  ELSE IF f = "cost" THEN cost ELSE old[f]
  <2> HIDE DEF old
  <2> QED BY <1>2 DEF IsRequest, Fields
<1>4. Requests' /\ Others(c) /\ call'[c] = r
  BY <1>2, <1>3, OneRequest
<1> HIDE DEF r
<1> QED
  BY <1>3, <1>4 DEF Fields, Aside
(***************************************************************************)
(* The tables and the requests keep their types.                           *)
(***************************************************************************)

LEMMA TypeStart == Init => TypeInv
<1> SUFFICES ASSUME Init PROVE TypeInv
  OBVIOUS
<1>1. TablesOK
  BY TimesAssumption DEF Init, TablesOK
<1>2. Requests
  BY DEF Init, Requests, IsRequest, Fields, Idle
<1>3. ASSUME NEW c \in Calls PROVE RequestOK(c)
  <2>1. /\ call[c].at = "new" /\ call[c].since = 0 /\ call[c].left = {} /\ call[c].crossed = {}
        /\ call[c].answer = None /\ call[c].cost = 0
    BY DEF Init, Idle
  <2> QED
    BY <2>1, TimesAssumption DEF Init, RequestOK
<1> QED
  BY <1>1, <1>2, <1>3 DEF TypeInv

\* A step that leaves time and the tables of the other requests alone.
LEMMA TypeFrame ==
  ASSUME TypeInv, NEW c \in Calls, Others(c), now' = now,
         \A d \in Calls : d # c => hold'[d] = hold[d] /\ row'[d] = row[d],
         TablesOK', Requests', RequestOK(c)'
  PROVE  TypeInv'
<1>1. ASSUME NEW d \in Calls, d # c PROVE RequestOK(d)'
  <2>1. call'[d] = call[d] /\ hold'[d] = hold[d] /\ row'[d] = row[d] /\ RequestOK(d)
    BY <1>1 DEF TypeInv, Others
  <2> QED
    BY <2>1 DEF RequestOK, QuotasOf, HeldScopes
<1> QED
  BY <1>1 DEF TypeInv

LEMMA TypeRefuse ==
  ASSUME TypeInv, NEW c \in Calls, Refuse(c)
  PROVE  TypeInv'
<1>1. /\ Requests' /\ Others(c) /\ Kept(c) /\ Aside(c)
      /\ call'[c].at = "done"
  BY EndFields DEF TypeInv, Refuse
<1>2. TablesOK'
  BY DEF TypeInv, TablesOK, Refuse
<1>3. RequestOK(c)'
  BY <1>1 DEF TypeInv, RequestOK, Kept, Aside, Refuse, QuotasOf, HeldScopes
<1> QED
  BY <1>1, <1>2, <1>3, TypeFrame DEF Refuse

LEMMA TypeStartReserve ==
  ASSUME TypeInv, NEW c \in Calls, StartReserve(c), hold[c] = None
  PROVE  TypeInv'
<1>1. /\ Requests' /\ Others(c)
      /\ call'[c].at = IF QuotasOf(c) = {} THEN "lookup" ELSE "lock"
      /\ call'[c].since = now /\ call'[c].left = QuotasOf(c)
      /\ call'[c].crossed = call[c].crossed
      /\ call'[c].answer = call[c].answer /\ call'[c].cost = call[c].cost
  BY StartReserveFields DEF TypeInv
<1>2. TablesOK'
  BY DEF TypeInv, TablesOK, StartReserve
<1>3. RequestOK(c)'
  <2>1. /\ RequestOK(c) /\ call'[c].at \in {"lookup", "lock"}
        /\ hold'[c] = hold[c] /\ row'[c] = row[c] /\ now' = now
    BY <1>1 DEF TypeInv, StartReserve
  <2>2. now \in Nat
    BY TimesAssumption DEF TypeInv, TablesOK
  <2>3. call'[c].since \in 0..now
    BY <1>1, <2>2
  <2> QED
    BY <1>1, <2>1, <2>3 DEF RequestOK, QuotasOf, HeldScopes, Reserving, Calling
<1> QED
  BY <1>1, <1>2, <1>3, TypeFrame DEF StartReserve

LEMMA TypeSumLedger ==
  ASSUME TypeInv, NEW c \in Calls, SumLedger(c)
  PROVE  TypeInv'
<1>1. /\ Requests' /\ Others(c) /\ Kept(c)
      /\ call'[c].at = "held"
      /\ call'[c].left = call[c].left /\ call'[c].crossed = call[c].crossed
      /\ call'[c].quota \in NextQuotas(c)
      /\ lock' = [lock EXCEPT ![call'[c].quota.scope] = c]
  BY SumLedgerFields DEF TypeInv
<1>2. TablesOK'
  BY <1>1 DEF TypeInv, TablesOK, SumLedger
<1>3. RequestOK(c)'
  BY <1>1 DEF TypeInv, RequestOK, SumLedger, Kept, QuotasOf, HeldScopes, Reserving, NextQuotas
<1> QED
  BY <1>1, <1>2, <1>3, TypeFrame DEF SumLedger

LEMMA TypeSumHolds ==
  ASSUME TypeInv, NEW c \in Calls, SumHolds(c)
  PROVE  TypeInv'
<1>1. /\ Requests' /\ Others(c) /\ Kept(c)
      /\ call'[c].at \in {"done", "lock", "commit"}
      /\ call'[c].left \in {{}, call[c].left \ {call[c].quota}}
      /\ call'[c].crossed \in {call[c].crossed, call[c].crossed \cup {call[c].quota}}
      /\ lock' \in {lock, Released(c)}
  BY SumHoldsFields DEF TypeInv
<1>2. TablesOK'
  BY <1>1 DEF TypeInv, TablesOK, SumHolds, Released
<1>3. RequestOK(c)'
  <2>1. RequestOK(c) /\ call[c].at = "held" /\ hold'[c] = hold[c] /\ row'[c] = row[c] /\ now' = now
    BY DEF TypeInv, SumHolds
  <2>2. call[c].quota \in Quotas
    BY <2>1 DEF RequestOK, QuotasOf
  <2> QED
    BY <1>1, <2>1, <2>2 DEF RequestOK, Kept, QuotasOf, HeldScopes, Reserving
<1> QED
  BY <1>1, <1>2, <1>3, TypeFrame DEF SumHolds

LEMMA TypeCommitReserve ==
  ASSUME TypeInv, NEW c \in Calls, CommitReserve(c)
  PROVE  /\ TypeInv'
         /\ hold' = [hold EXCEPT ![c] = hold'[c]]
         /\ hold'[c] # None /\ hold'[c].settled = None
         /\ hold'[c].scopes = HeldScopes(c) /\ hold'[c].ts = call[c].since
<1>1. /\ Requests' /\ Others(c) /\ Kept(c) /\ Aside(c)
      /\ call'[c].at = "lookup"
  BY CommitReserveFields DEF TypeInv
<1> DEFINE new == [scopes |-> HeldScopes(c), ts |-> call[c].since, settled |-> None]
<1>2. new \in Holds
  <2>1. HeldScopes(c) \subseteq Scopes
    BY QuotasAssumption DEF HeldScopes, QuotasOf
  <2>2. call[c].since \in Nat
    BY TimesAssumption DEF TypeInv, TablesOK, RequestOK
  <2> QED
    BY <2>1, <2>2 DEF Holds
<1>3. hold' = [hold EXCEPT ![c] = new]
  BY DEF CommitReserve
<1>4. new # None
  BY <1>2, NoneAssumption DEF Holds
<1>5. new.scopes = HeldScopes(c) /\ new.ts = call[c].since /\ new.settled = None
  OBVIOUS
<1> HIDE DEF new
<1>6. TablesOK'
  BY <1>2, <1>3 DEF TypeInv, TablesOK, CommitReserve, Released
<1>7. hold'[c] = new
  BY <1>3 DEF TypeInv, TablesOK
<1>8. RequestOK(c)'
  BY <1>1, <1>5, <1>7
  DEF TypeInv, RequestOK, CommitReserve, Kept, Aside, QuotasOf, HeldScopes, Calling
<1>9. TypeInv'
  BY <1>1, <1>3, <1>6, <1>8, TypeFrame DEF CommitReserve, TypeInv, TablesOK
<1> QED
  BY <1>3, <1>4, <1>5, <1>7, <1>9

LEMMA TypeCacheLookup ==
  ASSUME TypeInv, NEW c \in Calls, CacheLookup(c)
  PROVE  TypeInv'
<1>1. /\ Requests' /\ Others(c) /\ Aside(c)
      /\ call'[c].at = IF Fresh(KeyOf[c]) THEN "post" ELSE "provider"
      /\ call'[c].answer = IF Fresh(KeyOf[c]) THEN cache[KeyOf[c]].answer ELSE None
      /\ call'[c].since = call[c].since /\ call'[c].cost = call[c].cost
  BY CacheLookupFields DEF TypeInv
<1>2. TablesOK'
  BY DEF TypeInv, TablesOK, CacheLookup
<1>3. call'[c].answer \in Calls \cup {None}
  BY <1>1, KeysAssumption DEF TypeInv, TablesOK, Fresh, Entries
<1>4. RequestOK(c)'
  <2>1. /\ RequestOK(c) /\ call'[c].at \in Calling
        /\ hold'[c] = hold[c] /\ row'[c] = row[c] /\ now' = now
    BY <1>1 DEF TypeInv, CacheLookup, Calling
  <2> QED
    BY <1>1, <1>3, <2>1 DEF RequestOK, Aside, QuotasOf, HeldScopes, Calling
<1> QED
  BY <1>1, <1>2, <1>4, TypeFrame DEF CacheLookup

LEMMA TypeInvoke ==
  ASSUME TypeInv, NEW c \in Calls, Invoke(c)
  PROVE  TypeInv'
<1>1. /\ Requests' /\ Others(c) /\ Aside(c)
      /\ call'[c].at = "post" /\ call'[c].answer = c /\ call'[c].cost \in Costs
      /\ call'[c].since = call[c].since
  BY InvokeFields DEF TypeInv
<1>2. TablesOK'
  BY DEF TypeInv, TablesOK, Invoke
<1>3. RequestOK(c)'
  BY <1>1, CostsAssumption DEF TypeInv, RequestOK, Invoke, Aside, QuotasOf, HeldScopes, Calling
<1> QED
  BY <1>1, <1>2, <1>3, TypeFrame DEF Invoke
\* Closing a hold that was opened writes its cost and nothing else; a call without a
\* hold has nothing to close.
LEMMA SettledHold ==
  ASSUME TypeInv, NEW c \in Calls, NEW cost \in Nat, hold' = Settled(c, cost)
  PROVE  /\ hold' \in [Calls -> Holds \cup {None}]
         /\ \A d \in Calls : d # c => hold'[d] = hold[d]
         /\ hold'[c] # None <=> hold[c] # None
         /\ hold[c] # None => /\ hold'[c].scopes = hold[c].scopes
                              /\ hold'[c].ts = hold[c].ts /\ hold'[c].settled = cost
<1>1. /\ hold \in [Calls -> Holds \cup {None}]
      /\ hold' = [hold EXCEPT ![c] = IF hold[c] = None THEN None
                                     ELSE [hold[c] EXCEPT !.settled = cost]]
  BY DEF TypeInv, TablesOK, Settled
<1>2. CASE hold[c] = None
  BY <1>1, <1>2
<1>3. CASE hold[c] # None
  <2> DEFINE closed == [hold[c] EXCEPT !.settled = cost]
  <2>1. hold[c] \in Holds
    BY <1>1, <1>3
  <2>2. /\ closed \in Holds /\ closed.scopes = hold[c].scopes /\ closed.ts = hold[c].ts
        /\ closed.settled = cost
    BY <2>1 DEF Holds
  <2>3. closed # None
    BY <2>2, NoneAssumption DEF Holds
  <2>4. hold' = [hold EXCEPT ![c] = closed]
    BY <1>1, <1>3
  <2> HIDE DEF closed
  <2> QED
    BY <1>1, <2>2, <2>3, <2>4
<1> QED
  BY <1>2, <1>3

\* The row that ends call c, whatever ends it.
Entered(c, cost, status, hit) ==
  /\ row' = [row EXCEPT ![c] = row'[c]]
  /\ row'[c] # None
  /\ row'[c].ts = now /\ row'[c].cost = cost /\ row'[c].status = status /\ row'[c].hit = hit

LEMMA EnteredRow ==
  ASSUME TypeInv, NEW c \in Calls, NEW cost \in Nat, NEW status \in {"ok", "blocked", "error"},
         NEW hit \in BOOLEAN,
         row' = [row EXCEPT ![c] = [ts |-> now, cost |-> cost, status |-> status, hit |-> hit]]
  PROVE  /\ row' \in [Calls -> Ledger \cup {None}]
         /\ Entered(c, cost, status, hit)
<1> DEFINE new == [ts |-> now, cost |-> cost, status |-> status, hit |-> hit]
<1>1. row \in [Calls -> Ledger \cup {None}] /\ now \in Nat
  BY TimesAssumption DEF TypeInv, TablesOK
<1>2. new \in Ledger
  BY <1>1 DEF Ledger
<1>3. new # None
  BY <1>2, NoneAssumption DEF Ledger
<1>4. new.ts = now /\ new.cost = cost /\ new.status = status /\ new.hit = hit
  OBVIOUS
<1>5. row' = [row EXCEPT ![c] = new]
  OBVIOUS
<1> HIDE DEF new
<1> QED
  BY <1>1, <1>2, <1>3, <1>4, <1>5 DEF Entered

LEMMA TypeRecordFailure ==
  ASSUME TypeInv, NEW c \in Calls, RecordFailure(c)
  PROVE  TypeInv' /\ Entered(c, 0, "error", FALSE)
<1>1. /\ Requests' /\ Others(c) /\ Kept(c) /\ Aside(c)
      /\ call'[c].at = "done"
  BY EndFields DEF TypeInv, RecordFailure
<1>2. /\ row' \in [Calls -> Ledger \cup {None}]
      /\ Entered(c, 0, "error", FALSE)
  BY EnteredRow DEF RecordFailure
<1>3. /\ hold' \in [Calls -> Holds \cup {None}]
      /\ \A d \in Calls : d # c => hold'[d] = hold[d]
      /\ hold'[c] # None <=> hold[c] # None
      /\ hold[c] # None => hold'[c].scopes = hold[c].scopes /\ hold'[c].ts = hold[c].ts
  BY SettledHold DEF RecordFailure
<1>4. TablesOK'
  BY <1>2, <1>3 DEF TypeInv, TablesOK, RecordFailure
<1>5. now' = now /\ now \in Nat /\ RequestOK(c)
  BY TimesAssumption DEF TypeInv, TablesOK, RecordFailure
<1>6. RequestOK(c)'
  BY <1>1, <1>2, <1>3, <1>5
  DEF RequestOK, Kept, Aside, QuotasOf, HeldScopes, Entered
<1>7. \A d \in Calls : d # c => row'[d] = row[d]
  BY <1>2 DEF Entered, TypeInv, TablesOK
<1> QED
  BY <1>1, <1>2, <1>3, <1>4, <1>5, <1>6, <1>7, TypeFrame

LEMMA TypeSettleCall ==
  ASSUME TypeInv, NEW c \in Calls, NEW status \in {"ok", "blocked"}, SettleCall(c, status)
  PROVE  TypeInv' /\ Entered(c, call[c].cost, status, call[c].answer # c)
<1>1. /\ Requests' /\ Others(c) /\ Kept(c) /\ Aside(c)
      /\ call'[c].at = "done"
  BY EndFields DEF TypeInv, SettleCall
<1>2. call[c].cost \in Nat /\ RequestOK(c) /\ now' = now /\ now \in Nat
  BY TimesAssumption DEF TypeInv, TablesOK, RequestOK, SettleCall
<1>3. /\ row' \in [Calls -> Ledger \cup {None}]
      /\ Entered(c, call[c].cost, status, call[c].answer # c)
  <2> DEFINE hit == call[c].answer # c
  <2>1. hit \in BOOLEAN /\ status \in {"ok", "blocked", "error"}
    OBVIOUS
  <2>2. row' = [row EXCEPT ![c] = [ts |-> now, cost |-> call[c].cost, status |-> status,
                                   hit |-> hit]]
    BY DEF SettleCall
  <2> HIDE DEF hit
  <2>3. /\ row' \in [Calls -> Ledger \cup {None}]
        /\ Entered(c, call[c].cost, status, hit)
    BY <1>2, <2>1, <2>2, EnteredRow
  <2> QED
    BY <2>3 DEF hit
<1>4. /\ hold' \in [Calls -> Holds \cup {None}]
      /\ \A d \in Calls : d # c => hold'[d] = hold[d]
      /\ hold'[c] # None <=> hold[c] # None
      /\ hold[c] # None => hold'[c].scopes = hold[c].scopes /\ hold'[c].ts = hold[c].ts
  BY <1>2, SettledHold DEF SettleCall
<1>5. cache' \in [Keys -> Entries \cup {None}]
  <2> DEFINE entry == [answer |-> c, until |-> now + CacheTtl]
  <2>1. entry \in Entries
    BY <1>2, TimesAssumption DEF Entries
  <2>2. cache' = cache \/ cache' = [cache EXCEPT ![KeyOf[c]] = entry]
    BY DEF SettleCall
  <2> HIDE DEF entry
  <2> QED
    BY <2>1, <2>2 DEF TypeInv, TablesOK
<1>6. notices' \subseteq Quotas \X Calls
  BY <1>2 DEF TypeInv, TablesOK, RequestOK, SettleCall
<1>7. TablesOK'
  BY <1>3, <1>4, <1>5, <1>6 DEF TypeInv, TablesOK, SettleCall
<1>8. RequestOK(c)'
  BY <1>1, <1>2, <1>3, <1>4
  DEF RequestOK, Kept, Aside, QuotasOf, HeldScopes, Entered
<1>9. \A d \in Calls : d # c => row'[d] = row[d]
  BY <1>3 DEF Entered, TypeInv, TablesOK
<1> QED
  BY <1>1, <1>2, <1>3, <1>4, <1>7, <1>8, <1>9, TypeFrame

LEMMA TypeCrash ==
  ASSUME TypeInv, NEW c \in Calls, Crash(c)
  PROVE  TypeInv'
<1>1. /\ Requests' /\ Others(c) /\ Kept(c) /\ Aside(c)
      /\ call'[c].at = "done"
  BY EndFields DEF TypeInv, Crash
<1>2. TablesOK'
  BY DEF TypeInv, TablesOK, Crash, Released
<1>3. RequestOK(c)'
  BY <1>1 DEF TypeInv, RequestOK, Kept, Aside, Crash, QuotasOf, HeldScopes
<1> QED
  BY <1>1, <1>2, <1>3, TypeFrame DEF Crash

LEMMA TypeTick ==
  ASSUME TypeInv, Tick
  PROVE  TypeInv'
<1>1. now \in Nat /\ now' = now + 1 /\ now' \in 0..MaxTime
  BY TimesAssumption DEF TypeInv, TablesOK, Tick
<1>2. TablesOK' /\ Requests'
  BY <1>1 DEF TypeInv, TablesOK, Requests, Tick
<1>3. ASSUME NEW c \in Calls PROVE RequestOK(c)'
  <2>1. RequestOK(c) /\ hold' = hold /\ row' = row /\ call' = call
    BY DEF TypeInv, Tick
  <2>2. \A t \in 0..now : t \in 0..now'
    BY <1>1
  <2> QED
    BY <2>1, <2>2 DEF RequestOK, QuotasOf, HeldScopes
<1> QED
  BY <1>2, <1>3 DEF TypeInv

LEMMA TypePruneHolds ==
  ASSUME TypeInv, PruneHolds
  PROVE  TypeInv'
<1>1. \A c \in Calls : hold'[c] \in {hold[c], None}
  BY DEF PruneHolds
<1>2. TablesOK' /\ Requests'
  BY DEF TypeInv, TablesOK, Requests, PruneHolds
<1>3. ASSUME NEW c \in Calls PROVE RequestOK(c)'
  <2>1. RequestOK(c) /\ now' = now /\ row' = row /\ call' = call
    BY DEF TypeInv, PruneHolds
  <2> QED
    BY <1>1, <2>1 DEF RequestOK, QuotasOf, HeldScopes
<1> QED
  BY <1>2, <1>3 DEF TypeInv
(***************************************************************************)
(* The hold and the ledger row of a call, and the answers of the cache.    *)
(***************************************************************************)

CallLedger(c) ==
  /\ call[c].at \in {"new"} \cup Reserving =>
       hold[c] = None /\ row[c] = None /\ call[c].answer = None
  /\ call[c].at \in Calling =>
       /\ row[c] = None
       /\ QuotasOf(c) # {} => hold[c] # None /\ hold[c].settled = None
  /\ hold[c] # None =>
       IF row[c] = None THEN hold[c].settled = None ELSE hold[c].settled = row[c].cost

LedgerInv == \A c \in Calls : CallLedger(c)

Accepted(a) == row[a] # None /\ row[a].status = "ok" /\ ~row[a].hit

CacheInv ==
  /\ \A key \in Keys : cache[key] # None => Accepted(cache[key].answer)
  /\ \A c \in Calls : call[c].answer \notin {None, c} => Accepted(call[c].answer)
LEMMA TypeStep == TypeInv /\ LedgerInv /\ [Next]_vars => TypeInv'
<1> SUFFICES ASSUME TypeInv, LedgerInv, [Next]_vars PROVE TypeInv'
  OBVIOUS
<1>1. CASE UNCHANGED vars
  BY <1>1
  DEF vars, TypeInv, TablesOK, Requests, RequestOK, QuotasOf, HeldScopes
<1>2. ASSUME NEW c \in Calls, Progress(c) PROVE TypeInv'
  <2>1. CASE StartReserve(c)
    BY <2>1, TypeStartReserve DEF LedgerInv, CallLedger, StartReserve
  <2> QED
    BY <1>2, <2>1, TypeSumLedger, TypeSumHolds, TypeCommitReserve, TypeCacheLookup,
       TypeInvoke, TypeRecordFailure, TypeSettleCall DEF Progress
<1> QED
  BY <1>1, <1>2, TypeRefuse, TypeCrash, TypeTick, TypePruneHolds DEF Next
LEMMA LedgerFrame ==
  ASSUME LedgerInv, NEW c \in Calls, Others(c),
         \A d \in Calls : d # c => hold'[d] = hold[d] /\ row'[d] = row[d],
         CallLedger(c)'
  PROVE  LedgerInv'
<1>1. ASSUME NEW d \in Calls, d # c PROVE CallLedger(d)'
  <2>1. call'[d] = call[d] /\ hold'[d] = hold[d] /\ row'[d] = row[d] /\ CallLedger(d)
    BY <1>1 DEF LedgerInv, Others
  <2> QED
    BY <2>1 DEF CallLedger, QuotasOf
<1> QED
  BY <1>1 DEF LedgerInv

\* A step of the reservation before it commits, a look into the cache, the
\* provider's answer and a crash leave the hold and the row as they are.
LEMMA LedgerUntouched ==
  ASSUME TypeInv, LedgerInv, NEW c \in Calls, Requests', Others(c), hold' = hold, row' = row,
         \/ call'[c].at = "done"
         \/ call[c].at \in {"new"} \cup Reserving /\ call'[c].at \in Reserving
            /\ call'[c].answer = call[c].answer
         \/ call[c].at \in Calling /\ call'[c].at \in Calling
         \/ call[c].at = "new" /\ call'[c].at = "lookup" /\ QuotasOf(c) = {}
  PROVE  LedgerInv'
<1>1. CallLedger(c)
  BY DEF LedgerInv
<1>2. CallLedger(c)'
  BY <1>1 DEF CallLedger, QuotasOf, Reserving, Calling
<1> QED
  BY <1>2, LedgerFrame

LEMMA LedgerStep == TypeInv /\ LedgerInv /\ [Next]_vars => LedgerInv'
<1> SUFFICES ASSUME TypeInv, LedgerInv, [Next]_vars PROVE LedgerInv'
  OBVIOUS
<1> USE DEF Reserving, Calling
<1>1. CASE UNCHANGED vars
  BY <1>1 DEF vars, LedgerInv, CallLedger, QuotasOf
<1>2. ASSUME NEW c \in Calls, Refuse(c) PROVE LedgerInv'
  BY <1>2, EndFields, LedgerUntouched DEF Refuse, TypeInv
<1>3. ASSUME NEW c \in Calls, StartReserve(c) PROVE LedgerInv'
  BY <1>3, StartReserveFields, LedgerUntouched DEF StartReserve, TypeInv
<1>4. ASSUME NEW c \in Calls, SumLedger(c) PROVE LedgerInv'
  BY <1>4, SumLedgerFields, LedgerUntouched DEF SumLedger, TypeInv, Kept
<1>5. ASSUME NEW c \in Calls, SumHolds(c) PROVE LedgerInv'
  <2>1. /\ Requests' /\ Others(c) /\ Kept(c)
        /\ call'[c].at \in {"done", "lock", "commit"}
    BY <1>5, SumHoldsFields DEF TypeInv
  <2> QED
    BY <1>5, <2>1, LedgerUntouched DEF SumHolds, Kept
<1>6. ASSUME NEW c \in Calls, CommitReserve(c) PROVE LedgerInv'
  <2>1. /\ Others(c) /\ call'[c].at = "lookup"
    BY <1>6, CommitReserveFields DEF TypeInv
  <2>2. /\ hold' = [hold EXCEPT ![c] = hold'[c]]
        /\ hold'[c] # None /\ hold'[c].settled = None
    BY <1>6, TypeCommitReserve
  <2>3. CallLedger(c) /\ call[c].at = "commit" /\ row' = row
    BY <1>6 DEF LedgerInv, CommitReserve
  <2>4. CallLedger(c)'
    BY <2>1, <2>2, <2>3 DEF CallLedger
  <2>5. \A d \in Calls : d # c => hold'[d] = hold[d]
    BY <2>2 DEF TypeInv, TablesOK
  <2> QED
    BY <2>1, <2>3, <2>4, <2>5, LedgerFrame
<1>7. ASSUME NEW c \in Calls, CacheLookup(c) PROVE LedgerInv'
  BY <1>7, CacheLookupFields, LedgerUntouched DEF CacheLookup, TypeInv
<1>8. ASSUME NEW c \in Calls, Invoke(c) PROVE LedgerInv'
  BY <1>8, InvokeFields, LedgerUntouched DEF Invoke, TypeInv
<1>9. ASSUME NEW c \in Calls, NEW cost \in Nat, NEW status, NEW hit, TypeInv',
             Others(c), call'[c].at = "done", hold' = Settled(c, cost),
             Entered(c, cost, status, hit)
      PROVE  LedgerInv'
  <2>1. /\ \A d \in Calls : d # c => hold'[d] = hold[d]
        /\ hold'[c] # None => hold'[c].settled = cost
    BY <1>9, SettledHold
  <2>2. /\ \A d \in Calls : d # c => row'[d] = row[d]
        /\ row'[c] # None /\ row'[c].cost = cost
    BY <1>9 DEF Entered, TypeInv, TablesOK
  <2>3. CallLedger(c)'
    BY <1>9, <2>1, <2>2 DEF CallLedger
  <2> QED
    BY <1>9, <2>1, <2>2, <2>3, LedgerFrame
<1>10. ASSUME NEW c \in Calls, RecordFailure(c) PROVE LedgerInv'
  <2>1. Others(c) /\ call'[c].at = "done"
    BY <1>10, EndFields DEF RecordFailure, TypeInv
  <2>2. TypeInv' /\ Entered(c, 0, "error", FALSE) /\ hold' = Settled(c, 0)
    BY <1>10, TypeRecordFailure DEF RecordFailure
  <2> QED
    BY <1>9, <2>1, <2>2
<1>11. ASSUME NEW c \in Calls, NEW status \in {"ok", "blocked"}, SettleCall(c, status)
       PROVE  LedgerInv'
  <2>1. Others(c) /\ call'[c].at = "done"
    BY <1>11, EndFields DEF SettleCall, TypeInv
  <2>2. TypeInv' /\ Entered(c, call[c].cost, status, call[c].answer # c)
    BY <1>11, TypeSettleCall
  <2>3. call[c].cost \in Nat /\ hold' = Settled(c, call[c].cost)
    BY <1>11 DEF SettleCall, TypeInv, RequestOK
  <2> QED
    BY <1>9, <2>1, <2>2, <2>3
<1>12. ASSUME NEW c \in Calls, Crash(c) PROVE LedgerInv'
  BY <1>12, EndFields, LedgerUntouched DEF Crash, TypeInv
<1>13. CASE Tick
  BY <1>13 DEF Tick, LedgerInv, CallLedger, QuotasOf
<1>14. CASE PruneHolds
  <2>1. ASSUME NEW c \in Calls PROVE CallLedger(c)'
    <3>1. call' = call /\ row' = row /\ CallLedger(c)
      BY <1>14 DEF PruneHolds, LedgerInv
    <3>2. hold'[c] = hold[c] \/ (hold'[c] = None /\ hold[c] # None /\ hold[c].settled # None)
      BY <1>14 DEF PruneHolds, Prunable
    <3> QED
      BY <3>1, <3>2 DEF CallLedger, QuotasOf
  <2> QED
    BY <2>1 DEF LedgerInv
<1> QED
  BY <1>1, <1>2, <1>3, <1>4, <1>5, <1>6, <1>7, <1>8, <1>10, <1>11, <1>12, <1>13, <1>14
  DEF Next, Progress

StillAccepted(a) == row'[a] # None /\ row'[a].status = "ok" /\ ~row'[a].hit

LEMMA AcceptedStays ==
  ASSUME TypeInv, LedgerInv, [Next]_vars, NEW a \in Calls, Accepted(a)
  PROVE  StillAccepted(a)
<1>1. row'[a] = row[a]
  <2>1. call[a].at \notin {"new"} \cup Reserving \cup Calling
    BY DEF LedgerInv, CallLedger, Accepted
  <2>2. ASSUME NEW c \in Calls, Progress(c) PROVE row'[a] = row[a]
    BY <2>1, <2>2
    DEF TypeInv, TablesOK, Progress, StartReserve, SumLedger, SumHolds, CommitReserve, CacheLookup,
        Invoke, RecordFailure, SettleCall, Calling
  <2>3. ASSUME NEW c \in Calls, Refuse(c) \/ Crash(c) PROVE row'[a] = row[a]
    BY <2>3 DEF Refuse, Crash
  <2> QED
    BY <2>2, <2>3 DEF Next, Tick, PruneHolds, vars
<1> QED
  BY <1>1 DEF Accepted, StillAccepted

LEMMA CacheStep == TypeInv /\ LedgerInv /\ CacheInv /\ [Next]_vars => CacheInv'
<1> SUFFICES ASSUME TypeInv, LedgerInv, CacheInv, [Next]_vars PROVE CacheInv'
  OBVIOUS
<1>1. TypeInv'
  BY TypeStep
\* Every step but an answer accepted for the cache leaves the cache as it is.
<1>2. ASSUME NEW key \in Keys, cache'[key] # None PROVE StillAccepted(cache'[key].answer)
  <2>1. CASE cache'[key] = cache[key]
    <3>1. cache[key].answer \in Calls /\ Accepted(cache[key].answer)
      BY <1>2, <2>1 DEF TypeInv, TablesOK, Entries, CacheInv
    <3> QED
      BY <2>1, <3>1, AcceptedStays
  <2>2. CASE cache'[key] # cache[key]
    <3>1. PICK c \in Calls, status \in {"ok", "blocked"} : SettleCall(c, status)
      BY <2>2
      DEF Next, vars, Progress, StartReserve, SumLedger, SumHolds, CommitReserve, CacheLookup,
          Invoke, RecordFailure, Refuse, Crash, Tick, PruneHolds
    <3>2. /\ call[c].answer = c /\ status = "ok"
          /\ cache' = [cache EXCEPT ![KeyOf[c]] = [answer |-> c, until |-> now + CacheTtl]]
      BY <2>2, <3>1 DEF SettleCall, Stores
    <3>3. cache'[key].answer = c
      BY <2>2, <3>2 DEF TypeInv, TablesOK
    <3>4. Entered(c, call[c].cost, status, call[c].answer # c)
      BY <3>1, TypeSettleCall
    <3> QED
      BY <3>2, <3>3, <3>4 DEF Entered, StillAccepted
  <2> QED
    BY <2>1, <2>2
<1>3. ASSUME NEW c \in Calls, call'[c].answer \notin {None, c}
      PROVE  StillAccepted(call'[c].answer)
  <2>1. CASE call'[c].answer = call[c].answer
    <3>1. call[c].answer \in Calls /\ Accepted(call[c].answer)
      BY <1>3, <2>1 DEF TypeInv, RequestOK, CacheInv
    <3> QED
      BY <2>1, <3>1, AcceptedStays
  <2>2. CASE call'[c].answer # call[c].answer
    <3>1. CacheLookup(c)
      <4>1. ASSUME NEW d \in Calls, ~CacheLookup(d), Progress(d) \/ Refuse(d) \/ Crash(d)
            PROVE  FALSE
        <5>1. Requests
          BY DEF TypeInv
        <5>2. CASE Refuse(d) \/ Crash(d) \/ RecordFailure(d)
                     \/ \E status \in {"ok", "blocked"} : SettleCall(d, status)
          <6>1. Others(d) /\ Kept(d)
            BY <5>1, <5>2, EndFields DEF Refuse, Crash, RecordFailure, SettleCall
          <6> QED
            BY <1>3, <2>2, <6>1 DEF Others, Kept
        <5>3. CASE StartReserve(d)
          BY <1>3, <2>2, <5>1, <5>3, StartReserveFields DEF Others
        <5>4. CASE SumLedger(d) \/ SumHolds(d) \/ CommitReserve(d)
          <6>1. Others(d) /\ Kept(d)
            BY <5>1, <5>4, SumLedgerFields, SumHoldsFields, CommitReserveFields
          <6> QED
            BY <1>3, <2>2, <6>1 DEF Others, Kept
        <5>5. CASE Invoke(d)
          BY <1>3, <2>2, <5>1, <5>5, InvokeFields DEF Others
        <5> QED
          BY <4>1, <5>2, <5>3, <5>4, <5>5 DEF Progress
      <4>2. ASSUME NEW d \in Calls, CacheLookup(d), d # c PROVE FALSE
        BY <2>2, <4>2, CacheLookupFields DEF TypeInv, Others
      <4> QED
        BY <2>2, <4>1, <4>2 DEF Next, Progress, Tick, PruneHolds, vars
    <3>2. /\ Fresh(KeyOf[c])
          /\ call'[c].answer = cache[KeyOf[c]].answer
      BY <1>3, <3>1, CacheLookupFields DEF TypeInv
    <3>3. cache[KeyOf[c]] # None /\ KeyOf[c] \in Keys
      BY <3>2, KeysAssumption DEF Fresh
    <3>4. cache[KeyOf[c]].answer \in Calls /\ Accepted(cache[KeyOf[c]].answer)
      BY <3>3 DEF TypeInv, TablesOK, Entries, CacheInv
    <3> QED
      BY <3>2, <3>4, AcceptedStays
  <2> QED
    BY <2>1, <2>2
<1> QED
  BY <1>2, <1>3 DEF CacheInv, Accepted, StillAccepted

LEMMA CallsStart == Init => TypeInv /\ LedgerInv /\ CacheInv
<1> SUFFICES ASSUME Init PROVE LedgerInv /\ CacheInv
  BY TypeStart
<1>1. \A c \in Calls : call[c].at = "new" /\ call[c].answer = None
  BY DEF Init, Idle
<1> QED
  BY <1>1 DEF Init, LedgerInv, CallLedger, CacheInv, Calling

\* TypeOK: whatever the calls, scopes and budgets, a hold is made for scopes of its
\* call and nothing is dated after the clock.
THEOREM TypeCorrect == Spec => []TypeOK
<1>1. TypeInv => TypeOK
  <2> SUFFICES ASSUME TypeInv, NEW c \in Calls
      PROVE /\ hold[c] # None => hold[c].scopes \subseteq ScopesOf[c] /\ hold[c].ts \in 0..now
            /\ row[c] # None => row[c].ts \in 0..now /\ row[c].status \in {"ok", "blocked", "error"}
            /\ call[c].at \in {"new", "done"} \cup Reserving \cup Calling
            /\ call[c].left \subseteq Quotas
            /\ call[c].answer \in Calls \cup {None}
    BY DEF TypeOK, TypeInv, TablesOK, Entries
  <2>1. RequestOK(c) /\ row[c] \in Ledger \cup {None}
    BY DEF TypeInv, TablesOK
  <2> QED
    BY <2>1 DEF RequestOK, QuotasOf, HeldScopes, Ledger
<1> QED
  BY CallsStart, TypeStep, LedgerStep, <1>1, PTL DEF Spec

\* HoldsMatchLedger: for every set of calls, scopes and budgets, a call that may
\* spend has an open hold on every scope with a budget, and a hold is closed by the
\* row of its call at the same cost, over crashes, pruning and failed calls.
THEOREM SpendMatchesReservation == Spec => []HoldsMatchLedger
<1>1. TypeInv /\ LedgerInv => HoldsMatchLedger
  <2> SUFFICES ASSUME TypeInv, LedgerInv, NEW c \in Calls
      PROVE /\ call[c].at \in Calling /\ QuotasOf(c) # {} =>
                 /\ hold[c] # None /\ hold[c].settled = None
                 /\ \A q \in QuotasOf(c) : q.scope \in hold[c].scopes
            /\ hold[c] # None =>
                 IF row[c] = None THEN hold[c].settled = None ELSE hold[c].settled = row[c].cost
    BY DEF HoldsMatchLedger
  <2> QED
    BY DEF TypeInv, RequestOK, LedgerInv, CallLedger, HeldScopes
<1> QED
  BY CallsStart, TypeStep, LedgerStep, <1>1, PTL DEF Spec

\* CacheServesAccepted: an answer that the cache gives to another call was paid for
\* by a call that the post guardrails let pass, however calls interleave.
THEOREM OnlyAcceptedServed == Spec => []CacheServesAccepted
<1>1. CacheInv => CacheServesAccepted
  BY DEF CacheInv, CacheServesAccepted, Accepted
<1> QED
  BY CallsStart, TypeStep, LedgerStep, CacheStep, <1>1, PTL DEF Spec
(***************************************************************************)
(* Sums.  What CostOf is for any table of rows: the recursion it is built  *)
(* from has a solution, it has only one, and the order in which it takes   *)
(* the calls does not matter.  Each argument looks at a smallest set that  *)
(* would be an exception.                                                  *)
(***************************************************************************)

LEMMA LeastExists ==
  ASSUME NEW S \in SUBSET Nat, S # {}
  PROVE  \E n \in S : \A m \in S : n =< m
<1>1. PICK n \in S : \A m \in S : <<m, n>> \notin OpToRel(<, Nat)
  BY NatLessThanWellFounded, WFMin
<1>2. \A m \in S : ~(m < n)
  BY <1>1 DEF OpToRel
<1> QED
  BY <1>2

CostIn(w, C) == MapThenSumSet(LAMBDA c : w[c].cost, C)

Pick(s) == CHOOSE x \in s : TRUE
Summed(w, f, s) == IF s = {} THEN 0 ELSE w[Pick(s)].cost + f[s \ {Pick(s)}]
IsSum(w, f, C) == f = [s \in SUBSET C |-> Summed(w, f, s)]

\* The rows of C have a cost.
Costed(w, C) == IsFiniteSet(C) /\ \A c \in C : w[c].cost \in Nat

LEMMA CostIsChosen ==
  ASSUME NEW w, NEW C
  PROVE  CostIn(w, C) = (CHOOSE f : IsSum(w, f, C))[C]
BY Zenon DEF CostIn, MapThenSumSet, MapThenFoldSet, IsSum, Summed, Pick

\* Without the call that is picked a set is smaller by one.
LEMMA PickSmaller ==
  ASSUME NEW C, IsFiniteSet(C), NEW s \in SUBSET C, NEW x \in s
  PROVE  /\ s \ {x} \in SUBSET C
         /\ Cardinality(s) \in Nat /\ Cardinality(s \ {x}) \in Nat
         /\ Cardinality(s) = Cardinality(s \ {x}) + 1
<1>1. IsFiniteSet(s)
  BY FS_Subset
<1>2. Cardinality(s \ {x}) = Cardinality(s) - 1
  BY <1>1, FS_RemoveElement
<1>3. Cardinality(s) \in Nat /\ Cardinality(s \ {x}) \in Nat
  BY <1>1, FS_CardinalityType, FS_RemoveElement
<1> QED
  BY <1>2, <1>3

LEMMA PickIn ==
  ASSUME NEW s, s # {}
  PROVE  Pick(s) \in s
BY DEF Pick

\* A solution for all sets of n calls or less.
SumUpTo(w, C, n) ==
  \E f \in [SUBSET C -> Nat] :
    \A s \in SUBSET C : Cardinality(s) =< n => f[s] = Summed(w, f, s)

LEMMA SumNone ==
  ASSUME NEW w, NEW C, Costed(w, C)
  PROVE  SumUpTo(w, C, 0)
<1> DEFINE f == [s \in SUBSET C |-> 0]
<1>1. f \in [SUBSET C -> Nat]
  OBVIOUS
<1>2. ASSUME NEW s \in SUBSET C, Cardinality(s) =< 0 PROVE f[s] = Summed(w, f, s)
  <2>1. IsFiniteSet(s)
    BY FS_Subset DEF Costed
  <2>2. s = {}
    BY <1>2, <2>1, FS_EmptySet, FS_CardinalityType
  <2> QED
    BY <2>2 DEF Summed
<1> QED
  BY <1>1, <1>2 DEF SumUpTo

LEMMA SumOneMore ==
  ASSUME NEW w, NEW C, Costed(w, C), NEW n \in Nat, SumUpTo(w, C, n)
  PROVE  SumUpTo(w, C, n + 1)
<1>1. PICK f \in [SUBSET C -> Nat] :
        \A s \in SUBSET C : Cardinality(s) =< n => f[s] = Summed(w, f, s)
  BY DEF SumUpTo
<1> DEFINE g == [s \in SUBSET C |-> Summed(w, f, s)]
<1>2. ASSUME NEW s \in SUBSET C, s # {}
      PROVE  /\ s \ {Pick(s)} \in SUBSET C /\ Pick(s) \in C /\ w[Pick(s)].cost \in Nat
             /\ Cardinality(s) =< n + 1 => Cardinality(s \ {Pick(s)}) =< n
  <2>1. Pick(s) \in s
    BY <1>2, PickIn
  <2>2. /\ s \ {Pick(s)} \in SUBSET C
        /\ Cardinality(s) \in Nat /\ Cardinality(s \ {Pick(s)}) \in Nat
        /\ Cardinality(s) = Cardinality(s \ {Pick(s)}) + 1
    BY <2>1, PickSmaller DEF Costed
  <2> QED
    BY <2>1, <2>2 DEF Costed
<1>3. g \in [SUBSET C -> Nat]
  <2>1. ASSUME NEW s \in SUBSET C PROVE Summed(w, f, s) \in Nat
    <3>1. CASE s = {}
      BY <3>1 DEF Summed
    <3>2. CASE s # {}
      <4>1. w[Pick(s)].cost \in Nat /\ f[s \ {Pick(s)}] \in Nat
        BY <1>2, <3>2
      <4> QED
        BY <3>2, <4>1 DEF Summed
    <3> QED
      BY <3>1, <3>2
  <2> QED
    BY <2>1
<1>4. ASSUME NEW s \in SUBSET C, Cardinality(s) =< n + 1 PROVE g[s] = Summed(w, g, s)
  <2>1. CASE s = {}
    BY <2>1 DEF Summed
  <2>2. CASE s # {}
    <3> DEFINE t == s \ {Pick(s)}
    <3>1. t \in SUBSET C /\ Cardinality(t) =< n
      BY <1>2, <1>4, <2>2
    <3>2. g[t] = f[t]
      BY <1>1, <3>1
    <3>3. g[s] = w[Pick(s)].cost + f[t]
      BY <2>2 DEF Summed
    <3>4. Summed(w, g, s) = w[Pick(s)].cost + g[t]
      BY <2>2 DEF Summed
    <3> QED
      BY <3>2, <3>3, <3>4
  <2> QED
    BY <2>1, <2>2
<1> HIDE DEF g
<1> QED
  BY <1>3, <1>4 DEF SumUpTo

LEMMA SumExists ==
  ASSUME NEW w, NEW C, Costed(w, C)
  PROVE  \E f \in [SUBSET C -> Nat] : IsSum(w, f, C)
<1>1. ASSUME NEW m \in Nat, ~SumUpTo(w, C, m) PROVE FALSE
  <2> DEFINE Bad == {n \in Nat : ~SumUpTo(w, C, n)}
  <2>1. PICK n \in Bad : \A m2 \in Bad : n =< m2
    <3>1. Bad \in SUBSET Nat /\ Bad # {}
      BY <1>1
    <3> QED
      BY <3>1, LeastExists
  <2>2. n # 0
    BY <2>1, SumNone
  <2>3. n - 1 \in Nat /\ (n - 1) + 1 = n /\ ~(n =< n - 1)
    BY <2>1, <2>2
  <2>4. SumUpTo(w, C, n - 1)
    BY <2>1, <2>3
  <2> QED
    BY <2>1, <2>3, <2>4, SumOneMore
<1>2. Cardinality(C) \in Nat
  BY FS_CardinalityType DEF Costed
<1>3. PICK f \in [SUBSET C -> Nat] :
        \A s \in SUBSET C : Cardinality(s) =< Cardinality(C) => f[s] = Summed(w, f, s)
  BY <1>1, <1>2 DEF SumUpTo
<1>4. \A s \in SUBSET C : Cardinality(s) =< Cardinality(C)
  BY FS_Subset DEF Costed
<1>5. f = [s \in SUBSET C |-> Summed(w, f, s)]
  BY <1>3, <1>4
<1> QED
  BY <1>5 DEF IsSum

\* Two solutions agree wherever both are defined.
LEMMA SumUnique ==
  ASSUME NEW w, NEW C, NEW D, Costed(w, C), NEW f, NEW g, IsSum(w, f, C), IsSum(w, g, D)
  PROVE  \A s \in SUBSET C : s \in SUBSET D => f[s] = g[s]
<1> SUFFICES ASSUME NEW s1 \in SUBSET C, s1 \in SUBSET D, f[s1] # g[s1] PROVE FALSE
  OBVIOUS
<1> DEFINE Worse(n) == \E s \in SUBSET C : s \in SUBSET D /\ f[s] # g[s] /\ Cardinality(s) = n
           Bad == {n \in Nat : Worse(n)}
<1>1. PICK n \in Bad : \A m \in Bad : n =< m
  <2>1. Cardinality(s1) \in Nat
    BY FS_Subset, FS_CardinalityType DEF Costed
  <2>2. Bad \in SUBSET Nat /\ Bad # {}
    BY <2>1
  <2> QED
    BY <2>2, LeastExists
<1>2. PICK s \in SUBSET C : s \in SUBSET D /\ f[s] # g[s] /\ Cardinality(s) = n
  BY <1>1
<1>3. f[s] = Summed(w, f, s) /\ g[s] = Summed(w, g, s)
  BY <1>2 DEF IsSum
<1>4. s # {}
  BY <1>2, <1>3 DEF Summed
<1> DEFINE t == s \ {Pick(s)}
<1>5. /\ t \in SUBSET C /\ t \in SUBSET D
      /\ Cardinality(t) \in Nat /\ Cardinality(s) \in Nat /\ Cardinality(s) = Cardinality(t) + 1
  BY <1>2, <1>4, PickIn, PickSmaller DEF Costed
<1>6. f[t] = g[t]
  <2>1. ~(n =< Cardinality(t))
    BY <1>2, <1>5
  <2>2. Cardinality(t) \notin Bad
    BY <1>1, <2>1
  <2> QED
    BY <1>5, <2>2
<1> QED
  BY <1>2, <1>3, <1>4, <1>6 DEF Summed

LEMMA CostIsSum ==
  ASSUME NEW w, NEW C, Costed(w, C), NEW f, IsSum(w, f, C)
  PROVE  CostIn(w, C) = f[C]
<1>1. IsSum(w, CHOOSE g : IsSum(w, g, C), C)
  BY SumExists
<1>2. C \in SUBSET C
  OBVIOUS
<1> DEFINE h == CHOOSE g : IsSum(w, g, C)
<1> HIDE DEF h
<1>3. IsSum(w, h, C)
  BY <1>1 DEF h
<1>4. h[C] = f[C]
  BY <1>2, <1>3, SumUnique
<1> QED
  BY <1>4, CostIsChosen DEF h

\* Any call of a set can be taken out of its sum first.
InAnyOrder(w, f, C) == \A s \in SUBSET C : \A x \in s : f[s] = w[x].cost + f[s \ {x}]

LEMMA SumTakesAny ==
  ASSUME NEW w, NEW C, Costed(w, C), NEW f, IsSum(w, f, C)
  PROVE  InAnyOrder(w, f, C)
<1>0. \A s \in SUBSET C : f[s] \in Nat
  <2>1. PICK g \in [SUBSET C -> Nat] : IsSum(w, g, C)
    BY SumExists
  <2>2. \A s \in SUBSET C : f[s] = g[s]
    BY <2>1, SumUnique
  <2> QED
    BY <2>1, <2>2
<1> DEFINE Right(s) == \A x \in s : f[s] = w[x].cost + f[s \ {x}]
           Bad == {n \in Nat : \E s \in SUBSET C : ~Right(s) /\ Cardinality(s) = n}
<1> SUFFICES ASSUME NEW s1 \in SUBSET C, ~Right(s1) PROVE FALSE
  BY DEF InAnyOrder
<1> HIDE DEF Right
<1>1. PICK n \in Bad : \A m \in Bad : n =< m
  <2>1. Cardinality(s1) \in Nat
    BY FS_Subset, FS_CardinalityType DEF Costed
  <2>2. Bad \in SUBSET Nat /\ Bad # {}
    BY <2>1
  <2> QED
    BY <2>2, LeastExists
<1>2. PICK s \in SUBSET C : ~Right(s) /\ Cardinality(s) = n
  BY <1>1
<1>3. ASSUME NEW t \in SUBSET C, Cardinality(t) \in Nat, Cardinality(s) = Cardinality(t) + 1
      PROVE  Right(t)
  <2>1. ~(n =< Cardinality(t))
    BY <1>2, <1>3
  <2>2. Cardinality(t) \notin Bad
    BY <1>1, <2>1
  <2> QED
    BY <1>3, <2>2
<1>4. PICK x \in s : f[s] # w[x].cost + f[s \ {x}]
  BY <1>2 DEF Right
<1> DEFINE p == Pick(s)
<1>5. p \in s
  BY <1>4, PickIn
<1>6. f[s] = w[p].cost + f[s \ {p}]
  BY <1>4 DEF IsSum, Summed
<1> HIDE DEF p
<1>7. x # p
  BY <1>4, <1>6
<1>8. f[s \ {p}] = w[x].cost + f[(s \ {p}) \ {x}]
  <2>1. /\ s \ {p} \in SUBSET C /\ Cardinality(s \ {p}) \in Nat
        /\ Cardinality(s) = Cardinality(s \ {p}) + 1
    BY <1>5, PickSmaller DEF Costed
  <2>2. Right(s \ {p})
    BY <1>3, <2>1
  <2> QED
    BY <1>4, <1>7, <2>2 DEF Right
<1>9. f[s \ {x}] = w[p].cost + f[(s \ {x}) \ {p}]
  <2>1. /\ s \ {x} \in SUBSET C /\ Cardinality(s \ {x}) \in Nat
        /\ Cardinality(s) = Cardinality(s \ {x}) + 1
    BY <1>4, PickSmaller DEF Costed
  <2>2. Right(s \ {x})
    BY <1>3, <2>1
  <2> QED
    BY <1>5, <1>7, <2>2 DEF Right
<1>10. (s \ {p}) \ {x} = (s \ {x}) \ {p} /\ (s \ {x}) \ {p} \in SUBSET C
  OBVIOUS
<1>11. w[p].cost \in Nat /\ w[x].cost \in Nat /\ f[(s \ {x}) \ {p}] \in Nat
  BY <1>0, <1>4, <1>5, <1>10 DEF Costed
<1> DEFINE a == w[p].cost
           b == w[x].cost
           rest == f[(s \ {x}) \ {p}]
<1>12. f[s] = a + (b + rest) /\ f[s \ {x}] = a + rest /\ a \in Nat /\ b \in Nat /\ rest \in Nat
  BY <1>6, <1>8, <1>9, <1>10, <1>11
<1>13. f[s] # b + f[s \ {x}]
  BY <1>4
<1> HIDE DEF a, b, rest
<1> QED
  BY <1>12, <1>13

\* The sum is a number, it is zero for no call, a call adds its cost, and fewer calls
\* never cost more.
LEMMA CostNat ==
  ASSUME NEW w, NEW C, Costed(w, C)
  PROVE  CostIn(w, C) \in Nat
<1>1. PICK f \in [SUBSET C -> Nat] : IsSum(w, f, C)
  BY SumExists
<1>2. C \in SUBSET C
  OBVIOUS
<1> QED
  BY <1>1, <1>2, CostIsSum

LEMMA CostEmpty ==
  ASSUME NEW w
  PROVE  CostIn(w, {}) = 0
<1>1. Costed(w, {}) /\ {} \in SUBSET {}
  BY FS_EmptySet DEF Costed
<1>2. PICK f \in [SUBSET {} -> Nat] : IsSum(w, f, {})
  BY <1>1, SumExists
<1>3. f[{}] = Summed(w, f, {})
  BY <1>1, <1>2 DEF IsSum
<1>4. CostIn(w, {}) = f[{}]
  BY <1>1, <1>2, CostIsSum
<1> QED
  BY <1>3, <1>4 DEF Summed

LEMMA CostSubset ==
  ASSUME NEW w, NEW C, Costed(w, C), NEW D \in SUBSET C
  PROVE  CostIn(w, D) =< CostIn(w, C)
<1>1. PICK f \in [SUBSET C -> Nat] : IsSum(w, f, C)
  BY SumExists
<1>2. Costed(w, D)
  BY FS_Subset DEF Costed
<1>3. PICK g \in [SUBSET D -> Nat] : IsSum(w, g, D)
  BY <1>2, SumExists
<1>4. D \in SUBSET D /\ C \in SUBSET C
  OBVIOUS
<1>5. CostIn(w, D) = f[D] /\ CostIn(w, C) = f[C]
  BY <1>1, <1>2, <1>3, <1>4, CostIsSum, SumUnique
<1> DEFINE Right(s) == D \subseteq s => f[D] =< f[s]
           Bad == {n \in Nat : \E s \in SUBSET C : ~Right(s) /\ Cardinality(s) = n}
<1> SUFFICES ASSUME ~Right(C) PROVE FALSE
  BY <1>5
<1> HIDE DEF Right
<1>6. PICK n \in Bad : \A m \in Bad : n =< m
  <2>1. Cardinality(C) \in Nat
    BY FS_CardinalityType DEF Costed
  <2>2. Bad \in SUBSET Nat /\ Bad # {}
    BY <1>4, <2>1
  <2> QED
    BY <2>2, LeastExists
<1>7. PICK s \in SUBSET C : ~Right(s) /\ Cardinality(s) = n
  BY <1>6
<1>8. D \subseteq s /\ ~(f[D] =< f[s])
  BY <1>7 DEF Right
<1>9. PICK x \in s : x \notin D
  <2>1. s # D
    BY <1>1, <1>8
  <2> QED
    BY <1>8, <2>1
<1>10. /\ s \ {x} \in SUBSET C /\ Cardinality(s \ {x}) \in Nat
       /\ Cardinality(s) \in Nat /\ Cardinality(s) = Cardinality(s \ {x}) + 1
  <2>1. IsFiniteSet(C) /\ s \in SUBSET C /\ x \in s
    BY <1>7, <1>9 DEF Costed
  <2> QED
    BY <2>1, PickSmaller
<1>11. f[D] =< f[s \ {x}]
  <2>1. Cardinality(s) = n
    BY <1>7
  <2>2. ~(n =< Cardinality(s \ {x}))
    BY <1>10, <2>1
  <2>3. Cardinality(s \ {x}) \notin Bad
    BY <1>6, <2>2
  <2>4. Right(s \ {x})
    BY <1>10, <2>3
  <2> QED
    BY <1>8, <1>9, <2>4 DEF Right
<1>12. f[s] = w[x].cost + f[s \ {x}]
  <2>1. InAnyOrder(w, f, C)
    BY <1>1, SumTakesAny
  <2> QED
    BY <1>7, <1>9, <2>1 DEF InAnyOrder
<1>13. w[x].cost \in Nat /\ f[s \ {x}] \in Nat /\ f[D] \in Nat
  BY <1>1, <1>9, <1>10 DEF Costed
<1> QED
  BY <1>8, <1>11, <1>12, <1>13

LEMMA CostAdd ==
  ASSUME NEW w, NEW C, NEW c, c \notin C, Costed(w, C \cup {c})
  PROVE  CostIn(w, C \cup {c}) = CostIn(w, C) + w[c].cost
<1> DEFINE S == C \cup {c}
<1>1. PICK f \in [SUBSET S -> Nat] : IsSum(w, f, S)
  BY SumExists
<1>2. Costed(w, C)
  BY FS_Subset DEF Costed
<1>3. PICK g \in [SUBSET C -> Nat] : IsSum(w, g, C)
  BY <1>2, SumExists
<1>4. C \in SUBSET C /\ C \in SUBSET S /\ S \in SUBSET S /\ c \in S /\ S \ {c} = C
  OBVIOUS
<1>5. CostIn(w, S) = f[S]
  BY <1>1, CostIsSum
<1>6. CostIn(w, C) = f[C]
  BY <1>1, <1>2, <1>3, <1>4, CostIsSum, SumUnique
<1>7. f[S] = w[c].cost + f[C]
  <2>1. InAnyOrder(w, f, S)
    BY <1>1, SumTakesAny
  <2> QED
    BY <1>4, <2>1 DEF InAnyOrder
<1>8. w[c].cost \in Nat /\ f[C] \in Nat
  BY <1>1, <1>4 DEF Costed
<1> QED
  BY <1>5, <1>6, <1>7, <1>8

\* The sum depends on the rows of the set only.
LEMMA CostSame ==
  ASSUME NEW w, NEW v, NEW C, Costed(w, C), \A c \in C : v[c] = w[c]
  PROVE  CostIn(v, C) = CostIn(w, C)
<1>1. PICK f \in [SUBSET C -> Nat] : IsSum(w, f, C)
  BY SumExists
<1>2. Costed(v, C)
  BY DEF Costed
<1>3. ASSUME NEW s \in SUBSET C PROVE Summed(v, f, s) = Summed(w, f, s)
  BY PickIn DEF Summed
<1>4. IsSum(v, f, C)
  BY <1>1, <1>3 DEF IsSum
<1> QED
  BY <1>1, <1>2, <1>4, CostIsSum
(***************************************************************************)
(* A budget's figures, and what each step does to them.                    *)
(***************************************************************************)

\* What the code's reservation relies on: a call settles while no other call is
\* between its two sums, no window rolls over and no hold lapses under a call, and an
\* answer costs no more than the worst case that was held for it.
Orderly == ~MaySlip /\ ~MayStraddle /\ ~MayOutlive /\ \A cost \in Costs : cost =< Estimate

Start(q) == WindowStart(q.period, now)
Rows(q) == LedgerRows(q.scope, Start(q))

LEMMA RemainderUnique ==
  ASSUME NEW t \in Nat, NEW n \in Nat \ {0}, NEW a \in Nat, NEW r \in 0..(n - 1), t = n * a + r
  PROVE  t % n = r
OBVIOUS

LEMMA RemainderStep ==
  ASSUME NEW t \in Nat, NEW n \in Nat \ {0}
  PROVE  (t + 1) % n = 0 \/ (t + 1) % n = (t % n) + 1
<1> DEFINE a == t \div n
           r == t % n
<1>1. t = n * a + r /\ r \in 0..(n - 1) /\ a \in Nat
  <2>1. t % n \in 0..(n - 1)
    OBVIOUS
  <2>2. t = n * (t \div n) + (t % n)
    OBVIOUS
  <2>3. t \div n \in Nat
    OBVIOUS
  <2> QED
    BY <2>1, <2>2, <2>3
<1> HIDE DEF a
<1>2. CASE r + 1 =< n - 1
  <2> HIDE DEF r
  <2>1. t + 1 = n * a + (r + 1) /\ r + 1 \in 0..(n - 1)
    BY <1>1, <1>2
  <2>2. (t + 1) % n = r + 1
    BY <1>1, <2>1, RemainderUnique
  <2> QED
    BY <2>2 DEF r
<1>3. CASE ~(r + 1 =< n - 1)
  <2> HIDE DEF r
  <2>1. r + 1 = n
    BY <1>1, <1>3
  <2>2. n * (a + 1) = n * a + n
    BY <1>1
  <2>3. t + 1 = n * (a + 1) + 0 /\ 0 \in 0..(n - 1) /\ a + 1 \in Nat /\ t + 1 \in Nat
    BY <1>1, <2>1, <2>2
  <2>4. (t + 1) % n = 0
    BY <2>3, RemainderUnique
  <2> QED
    BY <2>4
<1> QED
  BY <1>2, <1>3

\* A window starts at or before the moment it is taken at; from one tick to the next
\* it stays, or a new one starts with the tick.
LEMMA WindowFacts ==
  ASSUME NEW p \in DOMAIN Length, NEW t \in Nat
  PROVE  /\ WindowStart(p, t) \in Nat /\ WindowStart(p, t) =< t
         /\ WindowStart(p, t + 1) = WindowStart(p, t) \/ WindowStart(p, t + 1) = t + 1
<1> DEFINE n == Length[p]
<1>1. n \in Nat \ {0}
  BY TimesAssumption
<1> HIDE DEF n
<1>2. t % n \in 0..(n - 1) /\ t % n =< t
  BY <1>1
<1>3. (t + 1) % n = 0 \/ (t + 1) % n = (t % n) + 1
  BY <1>1, RemainderStep
<1>4. /\ t - (t % n) \in Nat /\ t - (t % n) =< t
      /\ \/ (t + 1) - ((t + 1) % n) = t - (t % n)
         \/ (t + 1) - ((t + 1) % n) = t + 1
  <2> DEFINE r == t % n
             s == (t + 1) % n
  <2>1. r \in Nat /\ r =< t /\ (s = 0 \/ s = r + 1)
    BY <1>2, <1>3
  <2> HIDE DEF r, s
  <2>2. t - r \in Nat /\ t - r =< t /\ ((t + 1) - s = t - r \/ (t + 1) - s = t + 1)
    BY <2>1
  <2> QED
    BY <2>2 DEF r, s
<1> QED
  BY <1>4 DEF WindowStart, n

LEMMA RowsCosted ==
  ASSUME TypeInv, NEW q \in Quotas
  PROVE  /\ Rows(q) \subseteq Calls /\ Costed(row, Rows(q))
         /\ SpentIn(q) = CostIn(row, Rows(q)) /\ SpentIn(q) \in Nat
         /\ CallsIn(q) = Cardinality(Rows(q)) /\ CallsIn(q) \in Nat
         /\ IsFiniteSet(Promised(q)) /\ Promised(q) \subseteq Calls
         /\ Cardinality(Promised(q)) \in Nat
<1>1. Rows(q) \subseteq Calls /\ Promised(q) \subseteq Calls
  BY DEF Rows, LedgerRows, Promised, OpenHolds
<1>2. IsFiniteSet(Rows(q)) /\ IsFiniteSet(Promised(q))
  BY <1>1, FiniteAssumption, FS_Subset
<1>3. \A c \in Rows(q) : row[c].cost \in Nat
  BY DEF Rows, LedgerRows, TypeInv, TablesOK, Ledger
<1>4. Costed(row, Rows(q))
  BY <1>2, <1>3 DEF Costed
<1>5. SpentIn(q) = CostIn(row, Rows(q)) /\ CallsIn(q) = Cardinality(Rows(q))
  BY DEF SpentIn, CallsIn, CostOf, CostIn, Rows, Start
<1> QED
  BY <1>1, <1>2, <1>4, <1>5, CostNat, FS_CardinalityType

\* The ways a step can change the figures of q.
StillFigures(q) ==
  SpentIn(q)' = SpentIn(q) /\ CallsIn(q)' = CallsIn(q) /\ Promised(q)' = Promised(q)

Promises(q, c) ==
  /\ c \notin Promised(q) /\ Promised(q)' = Promised(q) \cup {c}
  /\ SpentIn(q)' = SpentIn(q) /\ CallsIn(q)' = CallsIn(q)

Closes(q, c, cost) ==
  /\ c \in Promised(q) /\ Promised(q)' = Promised(q) \ {c}
  /\ SpentIn(q)' = SpentIn(q) + cost /\ CallsIn(q)' = CallsIn(q) + 1

Lapses(q) ==
  /\ Promised(q)' \subseteq Promised(q)
  /\ SpentIn(q)' = SpentIn(q) /\ CallsIn(q)' = CallsIn(q)

Restarts(q) == SpentIn(q)' = 0 /\ CallsIn(q)' = 0 /\ Promised(q)' = {}

LEMMA FiguresNext ==
  ASSUME NEW q
  PROVE  SpentIn(q)' = CostIn(row', Rows(q)') /\ CallsIn(q)' = Cardinality(Rows(q)')
BY DEF SpentIn, CallsIn, CostOf, CostIn, Rows, Start, MapThenSumSet, MapThenFoldSet

LEMMA FiguresNow ==
  ASSUME NEW q
  PROVE  SpentIn(q) = CostIn(row, Rows(q)) /\ CallsIn(q) = Cardinality(Rows(q))
BY DEF SpentIn, CallsIn, CostOf, CostIn, Rows, Start

LEMMA SameFigures ==
  ASSUME now' = now, row' = row, hold' = hold, NEW q
  PROVE  StillFigures(q)
<1>1. Rows(q)' = Rows(q)
  BY DEF Rows, Start, WindowStart, LedgerRows
<1>2. Promised(q)' = Promised(q)
  BY DEF Promised, OpenHolds, WindowStart, Counts
<1> QED
  BY <1>1, <1>2, FiguresNow, FiguresNext DEF StillFigures

\* Time, while a call is under way, stands still for windows and holds.
UnderWay(c) ==
  InFlight(c) =>
    /\ \A p \in DOMAIN Length : WindowStart(p, call[c].since) = WindowStart(p, now)
    /\ call[c].since + HoldTtl > now

TimeInv == \A c \in Calls : UnderWay(c)

\* A budget has the scopes of a call exactly if the call has a hold for its scope.
LEMMA QuotaScopes ==
  ASSUME NEW c \in Calls, NEW q \in Quotas
  PROVE  q \in QuotasOf(c) <=> q.scope \in HeldScopes(c)
BY QuotasAssumption DEF QuotasOf, HeldScopes

LEMMA CommitFigures ==
  ASSUME TypeInv, LedgerInv, TimeInv, NEW c \in Calls, CommitReserve(c), NEW q \in Quotas
  PROVE  IF q \in QuotasOf(c) THEN Promises(q, c) ELSE StillFigures(q)
<1>1. /\ hold' = [hold EXCEPT ![c] = hold'[c]]
      /\ hold'[c] # None /\ hold'[c].settled = None
      /\ hold'[c].scopes = HeldScopes(c) /\ hold'[c].ts = call[c].since
  BY TypeCommitReserve
<1>2. now' = now /\ row' = row /\ call[c].at = "commit" /\ hold[c] = None
  BY DEF CommitReserve, LedgerInv, CallLedger, Reserving
<1>3. Rows(q)' = Rows(q)
  BY <1>2 DEF Rows, Start, WindowStart, LedgerRows
<1>4. SpentIn(q)' = SpentIn(q) /\ CallsIn(q)' = CallsIn(q)
  BY <1>2, <1>3, FiguresNext, FiguresNow
<1>5. \A d \in Calls : d # c => hold'[d] = hold[d]
  BY <1>1 DEF TypeInv, TablesOK
<1>6. c \notin Promised(q)
  BY <1>2 DEF Promised, OpenHolds
<1>7. \A d \in Calls : d # c => (d \in Promised(q)' <=> d \in Promised(q))
  BY <1>2, <1>5 DEF Promised, OpenHolds, Counts, WindowStart
<1>8. Promised(q)' \subseteq Calls /\ Promised(q) \subseteq Calls
  BY DEF Promised, OpenHolds
<1>9. c \in Promised(q)' <=> q.scope \in HeldScopes(c)
  <2>1. call[c].since \in Nat /\ q.period \in DOMAIN Length
    BY TimesAssumption, QuotasAssumption DEF TypeInv, TablesOK, RequestOK
  <2>2. /\ WindowStart(q.period, call[c].since) = WindowStart(q.period, now)
        /\ call[c].since + HoldTtl > now
    BY <1>2, <2>1 DEF TimeInv, UnderWay, InFlight, Reserving
  <2>3. WindowStart(q.period, call[c].since) =< call[c].since
        /\ WindowStart(q.period, call[c].since) \in Nat
    BY <2>1, WindowFacts
  <2>4. call[c].since >= WindowStart(q.period, now)
    BY <2>1, <2>2, <2>3
  <2>5. WindowStart(q.period, now)' = WindowStart(q.period, now)
    BY <1>2 DEF WindowStart
  <2> QED
    BY <1>1, <1>2, <2>2, <2>4, <2>5 DEF Promised, OpenHolds, Counts
<1>10. q \in QuotasOf(c) => Promised(q)' = Promised(q) \cup {c}
  BY <1>7, <1>8, <1>9, QuotaScopes
<1>11. q \notin QuotasOf(c) => Promised(q)' = Promised(q)
  BY <1>6, <1>7, <1>8, <1>9, QuotaScopes
<1> QED
  BY <1>4, <1>6, <1>10, <1>11 DEF Promises, StillFigures

\* A call that ends with a row: what it cost takes the place of its hold.
LEMMA EndFigures ==
  ASSUME TypeInv, LedgerInv, TimeInv, TypeInv', NEW c \in Calls, call[c].at \in Calling,
         NEW cost \in Nat, NEW status, NEW hit, Entered(c, cost, status, hit),
         hold' = Settled(c, cost), now' = now, NEW q \in Quotas
  PROVE  IF q \in QuotasOf(c) THEN Closes(q, c, cost) ELSE StillFigures(q)
<1>1. /\ \A d \in Calls : d # c => hold'[d] = hold[d]
      /\ hold'[c] # None <=> hold[c] # None
      /\ hold[c] # None => /\ hold'[c].scopes = hold[c].scopes
                           /\ hold'[c].ts = hold[c].ts /\ hold'[c].settled = cost
  BY SettledHold
<1>2. \A d \in Calls : d # c => row'[d] = row[d]
  BY DEF Entered, TypeInv, TablesOK
<1>3. row[c] = None /\ row'[c] # None /\ row'[c].ts = now /\ row'[c].cost = cost
  BY DEF LedgerInv, CallLedger, Entered
<1>4. WindowStart(q.period, now)' = WindowStart(q.period, now)
  BY DEF WindowStart
<1>5. \A d \in Calls : d # c => (d \in Promised(q)' <=> d \in Promised(q))
  BY <1>1, <1>4 DEF Promised, OpenHolds, Counts
<1>6. \A d \in Calls : d # c => (d \in Rows(q)' <=> d \in Rows(q))
  BY <1>2, <1>4 DEF Rows, Start, LedgerRows
<1>7. /\ Promised(q)' \subseteq Calls /\ Promised(q) \subseteq Calls
      /\ Rows(q)' \subseteq Calls /\ Rows(q) \subseteq Calls
  BY DEF Promised, OpenHolds, Rows, LedgerRows
<1>8. c \notin Promised(q)' /\ c \notin Rows(q)
  BY <1>1, <1>3, NoneAssumption DEF Promised, OpenHolds, Counts, Rows, LedgerRows
<1>9. now \in Nat /\ q.period \in DOMAIN Length
  BY TimesAssumption, QuotasAssumption DEF TypeInv, TablesOK
<1>10. c \in Rows(q)' <=> q \in QuotasOf(c)
  <2>1. now >= WindowStart(q.period, now)
    BY <1>9, WindowFacts
  <2> QED
    BY <1>3, <1>4, <2>1 DEF Rows, Start, LedgerRows, QuotasOf
<1>11. c \in Promised(q) <=> q \in QuotasOf(c)
  <2>1. call[c].since \in Nat /\ RequestOK(c)
    BY TimesAssumption DEF TypeInv, TablesOK, RequestOK
  <2>2. CASE q \in QuotasOf(c)
    <3>1. /\ hold[c] # None /\ hold[c].settled = None
          /\ hold[c].scopes = HeldScopes(c) /\ hold[c].ts = call[c].since
      BY <2>1, <2>2 DEF LedgerInv, CallLedger, RequestOK
    <3>2. /\ WindowStart(q.period, call[c].since) = WindowStart(q.period, now)
          /\ call[c].since + HoldTtl > now
      BY <1>9 DEF TimeInv, UnderWay, InFlight
    <3>3. /\ WindowStart(q.period, call[c].since) =< call[c].since
          /\ WindowStart(q.period, call[c].since) \in Nat
      BY <1>9, <2>1, WindowFacts
    <3>4. call[c].since >= WindowStart(q.period, now)
      BY <2>1, <3>2, <3>3
    <3> QED
      BY <2>2, <3>1, <3>2, <3>4, QuotaScopes DEF Promised, OpenHolds, Counts
  <2>3. CASE q \notin QuotasOf(c)
    BY <2>1, <2>3, QuotaScopes DEF RequestOK, Promised, OpenHolds
  <2> QED
    BY <2>2, <2>3
<1>12. CASE q \in QuotasOf(c)
  <2>1. Promised(q)' = Promised(q) \ {c} /\ c \in Promised(q)
    BY <1>5, <1>7, <1>8, <1>11, <1>12
  <2>2. Rows(q)' = Rows(q) \cup {c}
    BY <1>6, <1>7, <1>8, <1>10, <1>12
  <2>3. Costed(row', Rows(q) \cup {c})
    <3>1. Costed(row, Rows(q))
      BY RowsCosted
    <3>2. IsFiniteSet(Rows(q) \cup {c})
      BY <3>1, FS_AddElement DEF Costed
    <3> QED
      BY <1>2, <1>3, <1>7, <1>8, <3>1, <3>2 DEF Costed
  <2>4. CostIn(row', Rows(q) \cup {c}) = CostIn(row', Rows(q)) + cost
    BY <1>3, <1>8, <2>3, CostAdd
  <2>5. CostIn(row', Rows(q)) = CostIn(row, Rows(q))
    <3>1. \A d \in Rows(q) : row'[d] = row[d]
      BY <1>2, <1>7, <1>8
    <3>2. Costed(row, Rows(q))
      BY RowsCosted
    <3> QED
      BY <3>1, <3>2, CostSame
  <2>6. Cardinality(Rows(q) \cup {c}) = Cardinality(Rows(q)) + 1
    BY <1>8, RowsCosted, FS_AddElement DEF Costed
  <2> QED
    BY <1>12, <2>1, <2>2, <2>4, <2>5, <2>6, FiguresNow, FiguresNext DEF Closes
<1>13. CASE q \notin QuotasOf(c)
  <2>1. Promised(q)' = Promised(q) /\ Rows(q)' = Rows(q)
    BY <1>5, <1>6, <1>7, <1>8, <1>10, <1>11, <1>13
  <2>2. CostIn(row', Rows(q)) = CostIn(row, Rows(q))
    <3>1. \A d \in Rows(q) : row'[d] = row[d]
      BY <1>2, <1>7, <1>8
    <3>2. Costed(row, Rows(q))
      BY RowsCosted
    <3> QED
      BY <3>1, <3>2, CostSame
  <2> QED
    BY <1>13, <2>1, <2>2, FiguresNow, FiguresNext DEF StillFigures
<1> QED
  BY <1>12, <1>13

LEMMA TickFigures ==
  ASSUME TypeInv, Tick, NEW q \in Quotas
  PROVE  /\ Lapses(q) \/ Restarts(q)
         /\ (\E c \in Calls : InFlight(c)) /\ ~MayStraddle => Lapses(q)
<1>1. now \in Nat /\ now' = now + 1 /\ row' = row /\ hold' = hold /\ q.period \in DOMAIN Length
  BY TimesAssumption, QuotasAssumption DEF TypeInv, TablesOK, Tick
<1> DEFINE old == WindowStart(q.period, now)
           new == WindowStart(q.period, now + 1)
<1>2. WindowStart(q.period, now)' = new
  BY <1>1 DEF WindowStart
<1>3. (new = old \/ new = now + 1) /\ old \in Nat
  BY <1>1, WindowFacts
<1>4. ASSUME new = old PROVE Lapses(q)
  <2>1. Rows(q)' = Rows(q)
    BY <1>1, <1>2, <1>4 DEF Rows, Start, LedgerRows
  <2>2. ASSUME NEW c \in Promised(q)' PROVE c \in Promised(q)
    <3>1. /\ c \in Calls /\ hold[c] # None /\ q.scope \in hold[c].scopes
          /\ hold[c].ts >= new /\ hold[c].settled = None /\ hold[c].ts + HoldTtl > now + 1
      BY <1>1, <1>2, <2>2 DEF Promised, OpenHolds, Counts
    <3>2. hold[c].ts \in Nat
      BY <3>1 DEF TypeInv, TablesOK, Holds
    <3>3. hold[c].ts + HoldTtl > now
      BY <1>1, <3>1, <3>2, TimesAssumption
    <3> QED
      BY <1>4, <3>1, <3>3 DEF Promised, OpenHolds, Counts
  <2> QED
    BY <1>1, <2>1, <2>2, FiguresNow, FiguresNext DEF Lapses
<1>5. ASSUME new = now + 1 PROVE Restarts(q)
  <2>1. \A c \in Calls : /\ hold[c] # None => ~(hold[c].ts >= new)
                         /\ row[c] # None => ~(row[c].ts >= new)
    <3> SUFFICES ASSUME NEW c \in Calls
        PROVE /\ hold[c] # None => ~(hold[c].ts >= new)
              /\ row[c] # None => ~(row[c].ts >= new)
      OBVIOUS
    <3>1. RequestOK(c)
      BY DEF TypeInv
    <3>2. \A t \in 0..now : ~(t >= new)
      BY <1>1, <1>5
    <3> QED
      BY <3>1, <3>2 DEF RequestOK
  <2>2. Rows(q)' = {} /\ Promised(q)' = {}
    BY <1>1, <1>2, <2>1 DEF Rows, Start, LedgerRows, Promised, OpenHolds
  <2> QED
    BY <2>2, CostEmpty, FS_EmptySet, FiguresNext DEF Restarts
<1>6. (\E c \in Calls : InFlight(c)) /\ ~MayStraddle => new = old
  BY <1>1 DEF Tick
<1> QED
  BY <1>3, <1>4, <1>5, <1>6

LEMMA PruneFigures ==
  ASSUME TypeInv, PruneHolds, NEW q \in Quotas
  PROVE  StillFigures(q)
<1>1. now' = now /\ row' = row
  BY DEF PruneHolds
<1>2. \A c \in Calls : \/ hold'[c] = hold[c]
                       \/ hold'[c] = None /\ hold[c] # None /\ hold[c].settled # None
  BY DEF PruneHolds, Prunable
<1>3. Promised(q)' = Promised(q)
  BY <1>1, <1>2 DEF Promised, OpenHolds, Counts, WindowStart
<1>4. Rows(q)' = Rows(q)
  BY <1>1 DEF Rows, Start, WindowStart, LedgerRows
<1> QED
  BY <1>1, <1>3, <1>4, FiguresNow, FiguresNext DEF StillFigures
(***************************************************************************)
(* Budgets.  A call that is checked against a budget and has not committed *)
(* holds the lock of its scope, so the room that was found for it is still *)
(* there: meanwhile other calls of the scope only end, and holds lapse.    *)
(***************************************************************************)

Worst(q) == Estimate * Cardinality(Promised(q))
Number(q) == Cardinality(Promised(q))

FiguresFit(q) ==
  ~Above(SpentIn(q) + Worst(q), q.cost) /\ ~Above(CallsIn(q) + Number(q), q.calls)
Room(q) == ~Exceeds(q, SpentIn(q) + Worst(q), CallsIn(q) + Number(q))

Reservation(c) ==
  /\ call[c].at \in Reserving =>
       \A q \in QuotasOf(c) \ call[c].left : lock[q.scope] = c /\ (Blocks(q) => Room(q))
  /\ call[c].at = "held" => /\ lock[call[c].quota.scope] = c
                            /\ call[c].spent = SpentIn(call[c].quota)
                            /\ call[c].calls = CallsIn(call[c].quota)
  /\ call[c].at = "commit" => call[c].left = {}
  /\ call[c].cost =< Estimate

BudgetInv ==
  /\ TimeInv
  /\ \A q \in Quotas : Blocks(q) => FiguresFit(q)
  /\ \A c \in Calls : Reservation(c)

\* A product grows and shrinks with its factor.
LEMMA Products ==
  ASSUME NEW n \in Nat, NEW m \in Nat
  PROVE  /\ Estimate * n \in Nat
         /\ m = n + 1 => Estimate * m = Estimate * n + Estimate
         /\ m =< n => Estimate * m =< Estimate * n
<1>1. Estimate \in Nat
  BY CostsAssumption
<1>2. Estimate * n \in Nat
  BY <1>1
<1>3. ASSUME m = n + 1 PROVE Estimate * m = Estimate * n + Estimate
  BY <1>1, <1>3
<1>4. ASSUME m =< n PROVE Estimate * m =< Estimate * n
  <2>1. PICK e \in Nat : n = m + e
    <3>1. n - m \in Nat /\ n = m + (n - m)
      BY <1>4
    <3> QED BY <3>1
  <2>2. Estimate * n = Estimate * m + Estimate * e
    BY <1>1, <2>1
  <2>3. Estimate * m \in Nat /\ Estimate * e \in Nat
    BY <1>1
  <2> QED
    BY <2>2, <2>3
<1> QED
  BY <1>2, <1>3, <1>4

LEMMA WorstNat ==
  ASSUME TypeInv, NEW q \in Quotas
  PROVE  /\ Worst(q) \in Nat /\ Number(q) \in Nat
         /\ SpentIn(q) \in Nat /\ CallsIn(q) \in Nat
         /\ Estimate \in Nat /\ q.cost \in Nat \cup {None} /\ q.calls \in Nat \cup {None}
BY RowsCosted, Products, CostsAssumption, QuotasAssumption DEF Worst, Number

LEMMA PromisesWorst ==
  ASSUME TypeInv, NEW q \in Quotas, NEW c \in Calls, Promises(q, c)
  PROVE  Worst(q)' = Worst(q) + Estimate /\ Number(q)' = Number(q) + 1
<1>1. Number(q)' = Number(q) + 1 /\ Number(q) \in Nat
  BY RowsCosted, FS_AddElement DEF Promises, Number
<1>2. Worst(q) = Estimate * Number(q) /\ Worst(q)' = Estimate * Number(q)'
  BY DEF Worst, Number
<1> QED
  BY <1>1, <1>2, Products

LEMMA ClosesWorst ==
  ASSUME TypeInv, NEW q \in Quotas, NEW c \in Calls, NEW cost, Closes(q, c, cost)
  PROVE  /\ Worst(q) = Worst(q)' + Estimate /\ Number(q) = Number(q)' + 1
         /\ Worst(q)' \in Nat /\ Number(q)' \in Nat
<1>1. Number(q) = Number(q)' + 1 /\ Number(q)' \in Nat /\ Number(q) \in Nat
  <2> DEFINE P == Promised(q)
  <2>1. IsFiniteSet(P) /\ c \in P /\ Promised(q)' = P \ {c}
    BY RowsCosted DEF Closes
  <2>2. Cardinality(P \ {c}) = Cardinality(P) - 1 /\ IsFiniteSet(P \ {c})
    BY <2>1, FS_RemoveElement
  <2>3. Cardinality(P) \in Nat /\ Cardinality(P \ {c}) \in Nat
    BY <2>1, <2>2, FS_CardinalityType
  <2> QED
    BY <2>1, <2>2, <2>3 DEF Number
<1>2. Worst(q) = Estimate * Number(q) /\ Worst(q)' = Estimate * Number(q)'
  BY DEF Worst, Number
<1> QED
  BY <1>1, <1>2, Products

LEMMA LapsesWorst ==
  ASSUME TypeInv, NEW q \in Quotas, Promised(q)' \subseteq Promised(q)
  PROVE  /\ Worst(q)' =< Worst(q) /\ Number(q)' =< Number(q)
         /\ Worst(q)' \in Nat /\ Number(q)' \in Nat
<1>1. Number(q)' =< Number(q) /\ Number(q)' \in Nat /\ Number(q) \in Nat
  BY RowsCosted, FS_Subset, FS_CardinalityType DEF Number
<1>2. Worst(q) = Estimate * Number(q) /\ Worst(q)' = Estimate * Number(q)'
  BY DEF Worst, Number
<1> QED
  BY <1>1, <1>2, Products

\* Steps that keep what fits and what room there is.
Eases(q) ==
  \/ StillFigures(q)
  \/ \E c \in Calls, cost \in 0..Estimate : Closes(q, c, cost)
  \/ Lapses(q)

LEMMA EasesLess ==
  ASSUME TypeInv, NEW q \in Quotas, Eases(q)
  PROVE  /\ SpentIn(q)' + Worst(q)' =< SpentIn(q) + Worst(q)
         /\ CallsIn(q)' + Number(q)' =< CallsIn(q) + Number(q)
         /\ SpentIn(q)' + Worst(q)' \in Nat /\ SpentIn(q) + Worst(q) \in Nat
         /\ CallsIn(q)' + Number(q)' \in Nat /\ CallsIn(q) + Number(q) \in Nat
<1>1. /\ Worst(q) \in Nat /\ Number(q) \in Nat /\ SpentIn(q) \in Nat /\ CallsIn(q) \in Nat
      /\ Estimate \in Nat
  BY WorstNat
<1>2. CASE StillFigures(q) \/ Lapses(q)
  <2>1. /\ SpentIn(q)' = SpentIn(q) /\ CallsIn(q)' = CallsIn(q)
        /\ Promised(q)' \subseteq Promised(q)
    BY <1>2 DEF StillFigures, Lapses
  <2>2. /\ Worst(q)' =< Worst(q) /\ Number(q)' =< Number(q)
        /\ Worst(q)' \in Nat /\ Number(q)' \in Nat
    BY <2>1, LapsesWorst
  <2> QED
    BY <1>1, <2>1, <2>2
<1>3. ASSUME NEW c \in Calls, NEW cost \in 0..Estimate, Closes(q, c, cost)
      PROVE  /\ SpentIn(q)' + Worst(q)' =< SpentIn(q) + Worst(q)
             /\ CallsIn(q)' + Number(q)' =< CallsIn(q) + Number(q)
             /\ SpentIn(q)' + Worst(q)' \in Nat
             /\ CallsIn(q)' + Number(q)' \in Nat
  <2>1. /\ Worst(q) = Worst(q)' + Estimate /\ Number(q) = Number(q)' + 1
        /\ Worst(q)' \in Nat /\ Number(q)' \in Nat
    BY <1>3, ClosesWorst
  <2>2. SpentIn(q)' = SpentIn(q) + cost /\ CallsIn(q)' = CallsIn(q) + 1
    BY <1>3 DEF Closes
  <2> QED
    BY <1>1, <2>1, <2>2
<1> QED
  BY <1>1, <1>2, <1>3 DEF Eases

LEMMA EasesKeeps ==
  ASSUME TypeInv, NEW q \in Quotas, Eases(q)
  PROVE  (FiguresFit(q) => FiguresFit(q)') /\ (Room(q) => Room(q)')
<1> DEFINE s == SpentIn(q) + Worst(q)
           n == CallsIn(q) + Number(q)
           t == SpentIn(q)' + Worst(q)'
           m == CallsIn(q)' + Number(q)'
<1>1. t =< s /\ m =< n /\ s \in Nat /\ t \in Nat /\ n \in Nat /\ m \in Nat
  BY EasesLess
<1>2. Estimate \in Nat /\ q.cost \in Nat \cup {None} /\ q.calls \in Nat \cup {None}
  BY WorstNat
<1>3. /\ FiguresFit(q) <=> ~Above(s, q.cost) /\ ~Above(n, q.calls)
      /\ FiguresFit(q)' <=> ~Above(t, q.cost) /\ ~Above(m, q.calls)
      /\ Room(q) <=> ~Above(s + Estimate, q.cost) /\ ~Above(n + 1, q.calls)
      /\ Room(q)' <=> ~Above(t + Estimate, q.cost) /\ ~Above(m + 1, q.calls)
  BY DEF FiguresFit, Room, Exceeds, Above
<1> HIDE DEF s, n, t, m
<1>4. \A limit \in Nat \cup {None} : \A a, b \in Nat : a =< b /\ ~Above(b, limit) => ~Above(a, limit)
  BY DEF Above
<1>5. t + Estimate \in Nat /\ s + Estimate \in Nat /\ t + Estimate =< s + Estimate
      /\ m + 1 \in Nat /\ n + 1 \in Nat /\ m + 1 =< n + 1
  BY <1>1, <1>2
<1> QED
  BY <1>1, <1>2, <1>3, <1>4, <1>5

\* With room for a call its promise fits.
LEMMA PromiseFits ==
  ASSUME TypeInv, NEW q \in Quotas, NEW c \in Calls, Promises(q, c), Room(q)
  PROVE  FiguresFit(q)'
<1>1. Worst(q)' = Worst(q) + Estimate /\ Number(q)' = Number(q) + 1
  BY PromisesWorst
<1>2. /\ Worst(q) \in Nat /\ Number(q) \in Nat /\ SpentIn(q) \in Nat /\ CallsIn(q) \in Nat
      /\ Estimate \in Nat
  BY WorstNat
<1>3. SpentIn(q)' = SpentIn(q) /\ CallsIn(q)' = CallsIn(q)
  BY DEF Promises
<1>4. /\ SpentIn(q)' + Worst(q)' = (SpentIn(q) + Worst(q)) + Estimate
      /\ CallsIn(q)' + Number(q)' = (CallsIn(q) + Number(q)) + 1
  BY <1>1, <1>2, <1>3
<1> QED
  BY <1>4 DEF Room, FiguresFit, Exceeds, Above

LEMMA RestartFits ==
  ASSUME TypeInv, NEW q \in Quotas, Restarts(q)
  PROVE  FiguresFit(q)'
<1>1. Number(q)' = 0 /\ Worst(q)' = Estimate * 0
  BY FS_EmptySet DEF Restarts, Number, Worst
<1>2. Worst(q)' = 0
  BY <1>1, CostsAssumption
<1>3. q.cost \in Nat \cup {None} /\ q.calls \in Nat \cup {None}
  BY QuotasAssumption
<1> QED
  BY <1>1, <1>2, <1>3 DEF FiguresFit, Restarts, Above
\* A step of call c, of any kind.
StepOf(c) == Progress(c) \/ Refuse(c) \/ Crash(c)

LEMMA StepFields ==
  ASSUME TypeInv, NEW c \in Calls, StepOf(c)
  PROVE  /\ Others(c) /\ now' = now
         /\ InFlight(c)' => \/ StartReserve(c) /\ call'[c].since = now
                            \/ InFlight(c) /\ call'[c].since = call[c].since
<1> USE DEF Reserving, Calling, InFlight
<1>1. Requests
  BY DEF TypeInv
<1>2. CASE Refuse(c) \/ Crash(c) \/ RecordFailure(c)
             \/ \E status \in {"ok", "blocked"} : SettleCall(c, status)
  BY <1>1, <1>2, EndFields DEF Refuse, Crash, RecordFailure, SettleCall
<1>3. CASE StartReserve(c)
  BY <1>1, <1>3, StartReserveFields DEF StartReserve
<1>4. CASE SumLedger(c)
  BY <1>1, <1>4, SumLedgerFields DEF SumLedger, Kept
<1>5. CASE SumHolds(c)
  <2>1. Others(c) /\ Kept(c)
    BY <1>1, <1>5, SumHoldsFields
  <2> QED
    BY <1>5, <2>1 DEF SumHolds, Kept
<1>6. CASE CommitReserve(c)
  BY <1>1, <1>6, CommitReserveFields DEF CommitReserve, Kept
<1>7. CASE CacheLookup(c)
  BY <1>1, <1>7, CacheLookupFields DEF CacheLookup
<1>8. CASE Invoke(c)
  BY <1>1, <1>8, InvokeFields DEF Invoke
<1> QED
  BY <1>2, <1>3, <1>4, <1>5, <1>6, <1>7, <1>8 DEF StepOf, Progress

LEMMA TimeStep ==
  ASSUME ~MayStraddle, ~MayOutlive, TypeInv, TimeInv, [Next]_vars
  PROVE  TimeInv'
<1>1. CASE UNCHANGED vars
  BY <1>1 DEF vars, TimeInv, UnderWay, InFlight, WindowStart
<1>2. ASSUME NEW c \in Calls, StepOf(c) PROVE TimeInv'
  <2>1. Others(c) /\ now' = now
    BY <1>2, StepFields
  <2>2. ASSUME NEW d \in Calls, d # c PROVE UnderWay(d)'
    <3>1. call'[d] = call[d] /\ UnderWay(d)
      BY <2>1, <2>2 DEF Others, TimeInv
    <3> QED
      BY <2>1, <3>1 DEF UnderWay, InFlight, WindowStart
  <2>3. UnderWay(c)'
    <3> SUFFICES ASSUME InFlight(c)' PROVE UnderWay(c)'
      BY DEF UnderWay
    <3>1. CASE call'[c].since = now
      <4>1. now \in Nat /\ now + HoldTtl > now
        BY TimesAssumption DEF TypeInv, TablesOK
      <4> QED
        BY <2>1, <3>1, <4>1 DEF UnderWay, WindowStart
    <3>2. CASE InFlight(c) /\ call'[c].since = call[c].since
      BY <2>1, <3>2 DEF TimeInv, UnderWay, WindowStart
    <3> QED
      BY <1>2, <3>1, <3>2, StepFields
  <2> QED
    BY <2>2, <2>3 DEF TimeInv
<1>3. CASE Tick
  <2>1. ASSUME NEW c \in Calls, InFlight(c)
        PROVE  /\ \A p \in DOMAIN Length : WindowStart(p, call[c].since) = WindowStart(p, now + 1)
               /\ call[c].since + HoldTtl > now + 1
    BY <1>3, <2>1 DEF Tick, TimeInv, UnderWay
  <2>2. now' = now + 1 /\ call' = call
    BY <1>3 DEF Tick
  <2> QED
    BY <2>1, <2>2 DEF TimeInv, UnderWay, InFlight, WindowStart
<1>4. CASE PruneHolds
  BY <1>4 DEF PruneHolds, TimeInv, UnderWay, InFlight, WindowStart
<1> QED
  BY <1>1, <1>2, <1>3, <1>4 DEF Next, StepOf

\* What a step of a call does to the figures of a budget: it promises when it
\* commits, closes when it ends, and leaves them alone otherwise.  None closes while
\* a call is between its two sums.
LEMMA FiguresStep ==
  ASSUME Orderly, TypeInv, LedgerInv, BudgetInv, NEW c \in Calls, StepOf(c), NEW q \in Quotas
  PROVE  \/ StillFigures(q)
         \/ CommitReserve(c) /\ q \in QuotasOf(c) /\ Promises(q, c)
         \/ /\ \E cost \in 0..Estimate : Closes(q, c, cost)
            /\ \A d \in Calls : call[d].at # "held"
<1>1. TimeInv /\ call[c].cost \in 0..Estimate /\ 0 \in 0..Estimate
  BY CostsAssumption DEF BudgetInv, Reservation, TypeInv, RequestOK
<1>2. CASE CommitReserve(c)
  BY <1>1, <1>2, CommitFigures
<1>3. CASE RecordFailure(c)
  <2>1. TypeInv' /\ Entered(c, 0, "error", FALSE)
    BY <1>3, TypeRecordFailure
  <2>2. call[c].at \in Calling /\ hold' = Settled(c, 0) /\ now' = now
    BY <1>3 DEF RecordFailure, Calling
  <2>3. StillFigures(q) \/ Closes(q, c, 0)
    BY <1>1, <2>1, <2>2, EndFigures
  <2> QED
    BY <1>1, <1>3, <2>3 DEF RecordFailure, Unobserved, Orderly
<1>4. ASSUME NEW status \in {"ok", "blocked"}, SettleCall(c, status)
      PROVE  \/ StillFigures(q)
             \/ /\ \E cost \in 0..Estimate : Closes(q, c, cost)
                /\ \A d \in Calls : call[d].at # "held"
  <2>1. TypeInv' /\ Entered(c, call[c].cost, status, call[c].answer # c)
    BY <1>4, TypeSettleCall
  <2>2. /\ call[c].at \in Calling /\ hold' = Settled(c, call[c].cost) /\ now' = now
        /\ call[c].cost \in Nat
    BY <1>4 DEF SettleCall, Calling, TypeInv, RequestOK
  <2>3. StillFigures(q) \/ Closes(q, c, call[c].cost)
    BY <1>1, <2>1, <2>2, EndFigures
  <2> QED
    BY <1>1, <1>4, <2>3 DEF SettleCall, Unobserved, Orderly
<1>5. CASE ~CommitReserve(c) /\ ~RecordFailure(c)
             /\ ~\E status \in {"ok", "blocked"} : SettleCall(c, status)
  <2>1. now' = now /\ row' = row /\ hold' = hold
    BY <1>5
    DEF StepOf, Progress, Refuse, Crash, StartReserve, SumLedger, SumHolds, CacheLookup, Invoke
  <2> QED
    BY <2>1, SameFigures
<1> QED
  BY <1>2, <1>3, <1>4, <1>5

\* No step of a call takes a lock that another call has.
LEMMA LocksKept ==
  ASSUME TypeInv, NEW c \in Calls, StepOf(c), NEW d \in Calls, d # c, NEW s \in Scopes,
         lock[s] = d
  PROVE  lock'[s] = d
<1>1. CASE SumLedger(c)
  <2>1. /\ lock[call'[c].quota.scope] \in {None, c}
        /\ lock' = [lock EXCEPT ![call'[c].quota.scope] = c]
    BY <1>1, SumLedgerFields DEF TypeInv
  <2> QED
    BY <2>1, NoneAssumption DEF TypeInv, TablesOK
<1>2. CASE ~SumLedger(c)
  <2>1. lock' = lock \/ lock' = Released(c)
    BY <1>2
    DEF StepOf, Progress, Refuse, Crash, StartReserve, SumHolds, CommitReserve, CacheLookup,
        Invoke, RecordFailure, SettleCall
  <2> QED
    BY <2>1 DEF Released, TypeInv, TablesOK
<1> QED
  BY <1>1, <1>2
\* The other calls keep the room they found.
LEMMA OthersKeepRoom ==
  ASSUME Orderly, TypeInv, LedgerInv, BudgetInv, NEW c \in Calls, StepOf(c),
         NEW d \in Calls, d # c
  PROVE  Reservation(d)'
<1>1. call'[d] = call[d] /\ Reservation(d) /\ RequestOK(d)
  BY StepFields DEF Others, BudgetInv, TypeInv
<1>2. ASSUME call[d].at \in Reserving, NEW q \in QuotasOf(d) \ call[d].left
      PROVE  lock'[q.scope] = d /\ (Blocks(q) => Room(q)')
  <2>1. lock[q.scope] = d /\ (Blocks(q) => Room(q)) /\ q \in Quotas /\ q.scope \in Scopes
    BY <1>1, <1>2, QuotasAssumption DEF Reservation, QuotasOf
  <2>2. lock'[q.scope] = d
    BY <2>1, LocksKept
  <2>3. ~(CommitReserve(c) /\ q \in QuotasOf(c))
    BY <2>1 DEF BudgetInv, Reservation, CommitReserve, Reserving
  <2>4. Eases(q)
    BY <2>1, <2>3, FiguresStep DEF Eases
  <2> QED
    BY <2>1, <2>2, <2>4, EasesKeeps
<1>3. ASSUME call[d].at = "held"
      PROVE  \E q \in Quotas : /\ q = call[d].quota /\ lock'[q.scope] = d
                               /\ call[d].spent = SpentIn(q)' /\ call[d].calls = CallsIn(q)'
  <2>1. PICK q \in Quotas : q = call[d].quota
    BY <1>1, <1>3 DEF RequestOK, QuotasOf
  <2>2. /\ lock[q.scope] = d /\ call[d].spent = SpentIn(q) /\ call[d].calls = CallsIn(q)
        /\ q.scope \in Scopes
    BY <1>1, <1>3, <2>1, QuotasAssumption DEF Reservation
  <2>3. lock'[q.scope] = d
    BY <2>2, LocksKept
  <2>4. SpentIn(q)' = SpentIn(q) /\ CallsIn(q)' = CallsIn(q)
    <3>1. \/ StillFigures(q)
          \/ Promises(q, c)
          \/ \A e \in Calls : call[e].at # "held"
      BY FiguresStep
    <3> QED
      BY <1>3, <3>1 DEF StillFigures, Promises
  <2> QED
    BY <2>1, <2>2, <2>3, <2>4
<1>4. ASSUME NEW q, q = call'[d].quota
      PROVE  SpentIn(call[d].quota)' = SpentIn(q)' /\ CallsIn(call[d].quota)' = CallsIn(q)'
  BY <1>4, Zenon DEF SpentIn, CallsIn
<1>5. call'[d].at = "held" =>
        /\ lock'[call'[d].quota.scope] = d
        /\ call'[d].spent = SpentIn(call[d].quota)' /\ call'[d].calls = CallsIn(call[d].quota)'
  BY <1>1, <1>3, <1>4
<1> QED
  BY <1>1, <1>2, <1>5 DEF Reservation, QuotasOf, Blocks

\* A call that sums the ledger finds what the window holds at this moment.
LEMMA SumLedgerReservation ==
  ASSUME TypeInv, BudgetInv, NEW c \in Calls, SumLedger(c)
  PROVE  Reservation(c)'
<1>1. /\ Kept(c) /\ call'[c].at = "held" /\ call'[c].left = call[c].left
      /\ call'[c].quota \in NextQuotas(c)
      /\ LET q == call'[c].quota
             rows == LedgerRows(q.scope, WindowStart(q.period, call[c].since))
         IN  /\ lock' = [lock EXCEPT ![q.scope] = c]
             /\ call'[c].spent = CostOf(rows) /\ call'[c].calls = Cardinality(rows)
  BY SumLedgerFields DEF TypeInv
<1>2. Reservation(c) /\ RequestOK(c) /\ UnderWay(c) /\ call[c].at = "lock"
  BY DEF BudgetInv, TimeInv, TypeInv, SumLedger
<1>3. now' = now /\ row' = row /\ hold' = hold
  BY DEF SumLedger
<1>0. PICK q \in Quotas : q = call'[c].quota
  BY <1>1, <1>2 DEF NextQuotas, RequestOK, QuotasOf
<1>4. q \in Quotas /\ q.scope \in Scopes /\ q.period \in DOMAIN Length
  BY QuotasAssumption
<1>5. WindowStart(q.period, call[c].since) = WindowStart(q.period, now)
  BY <1>2, <1>4 DEF UnderWay, InFlight, Reserving
<1>6. lock' = [lock EXCEPT ![q.scope] = c]
  BY <1>1, <1>0
<1>7. call'[c].spent = SpentIn(q) /\ call'[c].calls = CallsIn(q)
  BY <1>1, <1>0, <1>5 DEF SpentIn, CallsIn
<1>8. \A p \in Quotas : /\ SpentIn(p)' = SpentIn(p) /\ CallsIn(p)' = CallsIn(p)
                        /\ Room(p) => Room(p)'
  <2>1. \A p \in Quotas : StillFigures(p)
    BY <1>3, SameFigures
  <2>2. \A p \in Quotas : Eases(p)
    BY <2>1 DEF Eases
  <2> QED
    BY <2>1, <2>2, EasesKeeps DEF StillFigures
<1>9. \A p \in QuotasOf(c) \ call[c].left :
        p \in Quotas /\ lock[p.scope] = c /\ p.scope \in Scopes /\ (Blocks(p) => Room(p))
  BY <1>2, QuotasAssumption DEF Reservation, QuotasOf, Reserving
<1>10. \A p \in QuotasOf(c) \ call[c].left : lock'[p.scope] = c
  BY <1>6, <1>9 DEF TypeInv, TablesOK
<1>11. lock'[q.scope] = c
  BY <1>4, <1>6 DEF TypeInv, TablesOK
<1>12. \A p \in (QuotasOf(c) \ call[c].left) : lock'[p.scope] = c /\ (Blocks(p) => Room(p)')
  BY <1>8, <1>9, <1>10
<1>13. call'[c].spent = SpentIn(q)' /\ call'[c].calls = CallsIn(q)' /\ call'[c].cost =< Estimate
  BY <1>1, <1>2, <1>4, <1>7, <1>8 DEF Kept, Reservation
<1>14. /\ call'[c].at = "held" /\ call'[c].left = call[c].left /\ call'[c].quota = q
  BY <1>1, <1>0
<1>15. SpentIn(call[c].quota)' = SpentIn(q)' /\ CallsIn(call[c].quota)' = CallsIn(q)'
  BY <1>0, Zenon DEF SpentIn, CallsIn
<1> QED
  BY <1>15, <1>11, <1>12, <1>13, <1>14 DEF Reservation, QuotasOf, Blocks

\* The open holds that a call counts are at least those the window still counts.
LEMMA CountsEnough ==
  ASSUME TypeInv, BudgetInv, NEW c \in Calls, call[c].at = "held"
  PROVE  LET q == call[c].quota
             held == OpenHolds(q.scope, WindowStart(q.period, call[c].since), call[c].since)
         IN  /\ q \in Quotas
             /\ Figures(c)[1] = SpentIn(q) + Estimate * Cardinality(held)
             /\ Figures(c)[2] = CallsIn(q) + Cardinality(held)
             /\ Cardinality(held) \in Nat
             /\ Number(q) =< Cardinality(held)
             /\ Worst(q) =< Estimate * Cardinality(held)
<1> DEFINE q == call[c].quota
           held == OpenHolds(q.scope, WindowStart(q.period, call[c].since), call[c].since)
<1>1. RequestOK(c) /\ UnderWay(c) /\ Reservation(c)
  BY DEF TypeInv, BudgetInv, TimeInv
<1>2. q \in Quotas /\ q.period \in DOMAIN Length
  BY <1>1, QuotasAssumption DEF RequestOK, QuotasOf
<1>3. WindowStart(q.period, call[c].since) = WindowStart(q.period, now)
  BY <1>1, <1>2 DEF UnderWay, InFlight, Reserving
<1>4. now \in Nat /\ call[c].since \in Nat /\ call[c].since =< now
  BY <1>1, TimesAssumption DEF TypeInv, TablesOK, RequestOK
<1>5. Promised(q) \subseteq held
  <2> SUFFICES ASSUME NEW d \in Promised(q) PROVE d \in held
    OBVIOUS
  <2>1. /\ d \in Calls /\ hold[d] # None /\ q.scope \in hold[d].scopes
        /\ hold[d].ts >= WindowStart(q.period, now)
        /\ hold[d].settled = None /\ hold[d].ts + HoldTtl > now
    BY DEF Promised, OpenHolds, Counts
  <2>2. hold[d].ts \in Nat
    BY <2>1 DEF TypeInv, TablesOK, Holds
  <2>3. hold[d].ts + HoldTtl > call[c].since
    BY <1>4, <2>1, <2>2, TimesAssumption
  <2> QED
    BY <1>3, <2>1, <2>3 DEF OpenHolds, Counts
<1>6. IsFiniteSet(held) /\ Cardinality(held) \in Nat
  <2>1. held \subseteq Calls
    BY DEF OpenHolds
  <2> QED
    BY <2>1, FiniteAssumption, FS_Subset, FS_CardinalityType
<1>7. Number(q) =< Cardinality(held) /\ Number(q) \in Nat
  BY <1>2, <1>5, <1>6, FS_Subset, RowsCosted DEF Number
<1>8. Worst(q) =< Estimate * Cardinality(held)
  BY <1>6, <1>7, Products DEF Worst, Number
<1>9. call[c].spent = SpentIn(q) /\ call[c].calls = CallsIn(q)
  BY <1>1 DEF Reservation
<1>10. /\ Figures(c)[1] = call[c].spent + Estimate * Cardinality(held)
       /\ Figures(c)[2] = call[c].calls + Cardinality(held)
  BY DEF Figures
<1> QED
  BY <1>2, <1>6, <1>7, <1>8, <1>9, <1>10

LEMMA SumHoldsReservation ==
  ASSUME TypeInv, BudgetInv, NEW c \in Calls, SumHolds(c)
  PROVE  Reservation(c)'
<1> DEFINE q == call[c].quota
           left == call[c].left \ {q}
<1>1. Reservation(c) /\ RequestOK(c) /\ call[c].at = "held" /\ q \in Quotas
  BY CountsEnough DEF BudgetInv, TypeInv, SumHolds
<1>2. CASE call'[c].at = "done"
  BY <1>1, <1>2, SumHoldsFields DEF Reservation, Reserving, Kept, TypeInv
<1>3. CASE call'[c].at # "done"
  <2>1. /\ Kept(c) /\ ~(Exceeds(q, Figures(c)[1], Figures(c)[2]) /\ Blocks(q))
        /\ call'[c].at = IF left = {} THEN "commit" ELSE "lock"
        /\ call'[c].left = left /\ lock' = lock
    BY <1>3, SumHoldsFields DEF TypeInv
  <2>2. Blocks(q) => Room(q)
    <3> DEFINE held == OpenHolds(q.scope, WindowStart(q.period, call[c].since), call[c].since)
               h == Cardinality(held)
               e == Estimate * Cardinality(held)
    <3>1. /\ Figures(c)[1] = SpentIn(q) + e /\ Figures(c)[2] = CallsIn(q) + h
          /\ h \in Nat /\ Number(q) =< h /\ Worst(q) =< e
      BY <1>1, CountsEnough
    <3>2. e \in Nat
      BY <3>1, Products
    <3> HIDE DEF e, h, held
    <3>3. /\ Worst(q) \in Nat /\ Number(q) \in Nat /\ SpentIn(q) \in Nat /\ CallsIn(q) \in Nat
          /\ Estimate \in Nat /\ q.cost \in Nat \cup {None} /\ q.calls \in Nat \cup {None}
      BY <1>1, WorstNat
    <3> SUFFICES ASSUME ~Above((SpentIn(q) + e) + Estimate, q.cost),
                        ~Above((CallsIn(q) + h) + 1, q.calls)
        PROVE  ~Above((SpentIn(q) + Worst(q)) + Estimate, q.cost)
               /\ ~Above((CallsIn(q) + Number(q)) + 1, q.calls)
      BY <2>1, <3>1 DEF Room, Exceeds
    <3> QED
      BY <3>1, <3>2, <3>3 DEF Above
  <2>3. \A p \in Quotas : Room(p) => Room(p)'
    <3>1. \A p \in Quotas : StillFigures(p)
      BY SameFigures DEF SumHolds
    <3> QED
      BY <3>1, EasesKeeps DEF Eases
  <2>4. ASSUME NEW p \in QuotasOf(c) \ left
        PROVE  lock'[p.scope] = c /\ (Blocks(p) => Room(p)')
    <3>1. p \in Quotas
      BY <2>4 DEF QuotasOf
    <3>2. CASE p = q
      BY <1>1, <2>1, <2>2, <2>3, <3>1, <3>2 DEF Reservation
    <3>3. CASE p # q
      <4>1. p \in QuotasOf(c) \ call[c].left
        BY <2>4, <3>3
      <4>2. lock[p.scope] = c /\ (Blocks(p) => Room(p))
        BY <1>1, <4>1 DEF Reservation, Reserving
      <4> QED
        BY <2>1, <2>3, <3>1, <4>2
    <3> QED
      BY <3>2, <3>3
  <2>5. call'[c].cost =< Estimate
    BY <1>1, <2>1 DEF Reservation, Kept
  <2> HIDE DEF left
  <2> QED
    BY <2>1, <2>4, <2>5 DEF Reservation, QuotasOf, Blocks
<1> QED
  BY <1>2, <1>3

LEMMA OwnReservation ==
  ASSUME Orderly, TypeInv, BudgetInv, NEW c \in Calls, StepOf(c)
  PROVE  Reservation(c)'
<1>1. Requests /\ Reservation(c)
  BY DEF TypeInv, BudgetInv
<1>2. CASE SumLedger(c) \/ SumHolds(c)
  BY <1>2, SumLedgerReservation, SumHoldsReservation
<1>3. CASE StartReserve(c)
  BY <1>1, <1>3, StartReserveFields DEF Reservation, QuotasOf, Reserving
<1>4. ASSUME call'[c].at \notin Reserving, call'[c].cost =< Estimate
      PROVE  Reservation(c)'
  BY <1>4 DEF Reservation, Reserving
<1>5. CASE Refuse(c) \/ Crash(c) \/ RecordFailure(c)
             \/ \E status \in {"ok", "blocked"} : SettleCall(c, status)
  <2>1. call'[c].at = "done" /\ call'[c].cost = call[c].cost
    BY <1>1, <1>5, EndFields DEF Refuse, Crash, RecordFailure, SettleCall, Kept
  <2> QED
    BY <1>1, <1>4, <2>1 DEF Reservation, Reserving
<1>6. CASE CommitReserve(c)
  BY <1>1, <1>4, <1>6, CommitReserveFields DEF Reservation, Reserving, Kept
<1>7. CASE CacheLookup(c)
  BY <1>1, <1>4, <1>7, CacheLookupFields DEF Reservation, Reserving
<1>8. CASE Invoke(c)
  BY <1>1, <1>4, <1>8, InvokeFields DEF Reservation, Reserving, Orderly
<1> QED
  BY <1>2, <1>3, <1>5, <1>6, <1>7, <1>8 DEF StepOf, Progress

LEMMA BudgetStep == Orderly /\ TypeInv /\ LedgerInv /\ BudgetInv /\ [Next]_vars => BudgetInv'
<1> SUFFICES ASSUME Orderly, TypeInv, LedgerInv, BudgetInv, [Next]_vars PROVE BudgetInv'
  OBVIOUS
<1>1. TimeInv'
  BY TimeStep DEF Orderly, BudgetInv
<1>2. ASSUME NEW c \in Calls, StepOf(c) PROVE BudgetInv'
  <2>1. ASSUME NEW q \in Quotas, Blocks(q) PROVE FiguresFit(q)'
    <3>1. FiguresFit(q)
      BY <2>1 DEF BudgetInv
    <3>2. CASE CommitReserve(c) /\ q \in QuotasOf(c) /\ Promises(q, c)
      <4>1. Room(q)
        BY <2>1, <3>2 DEF BudgetInv, Reservation, CommitReserve, Reserving
      <4> QED
        BY <3>2, <4>1, PromiseFits
    <3>3. CASE ~(CommitReserve(c) /\ q \in QuotasOf(c) /\ Promises(q, c))
      <4>1. Eases(q)
        BY <1>2, <3>3, FiguresStep DEF Eases
      <4> QED
        BY <3>1, <4>1, EasesKeeps
    <3> QED
      BY <3>2, <3>3
  <2>2. ASSUME NEW d \in Calls PROVE Reservation(d)'
    BY <1>2, OthersKeepRoom, OwnReservation
  <2> QED
    BY <1>1, <2>1, <2>2 DEF BudgetInv, Blocks
<1>3. ASSUME call' = call, lock' = lock,
             \A q \in Quotas : Eases(q) \/ Restarts(q),
             \A c \in Calls : InFlight(c) =>
               \A q \in Quotas : /\ Eases(q)
                                 /\ SpentIn(q)' = SpentIn(q) /\ CallsIn(q)' = CallsIn(q)
      PROVE  BudgetInv'
  <2>1. ASSUME NEW q \in Quotas, Blocks(q) PROVE FiguresFit(q)'
    BY <1>3, <2>1, EasesKeeps, RestartFits DEF BudgetInv
  <2>2. ASSUME NEW c \in Calls PROVE Reservation(c)'
    <3>1. Reservation(c) /\ RequestOK(c) /\ call'[c] = call[c]
      BY <1>3 DEF BudgetInv, TypeInv
    <3>2. CASE InFlight(c)
      <4>1. ASSUME NEW q \in QuotasOf(c) \ call[c].left, call[c].at \in Reserving
            PROVE  lock'[q.scope] = c /\ (Blocks(q) => Room(q)')
        <5>1. q \in Quotas /\ lock[q.scope] = c /\ (Blocks(q) => Room(q))
          BY <3>1, <4>1 DEF Reservation, QuotasOf
        <5> QED
          BY <1>3, <3>2, <5>1, EasesKeeps
      <4>2. call[c].at = "held" =>
              /\ lock'[call[c].quota.scope] = c
              /\ call[c].spent = SpentIn(call[c].quota)'
              /\ call[c].calls = CallsIn(call[c].quota)'
        <5>1. call[c].at = "held" => call[c].quota \in Quotas
          BY <3>1 DEF RequestOK, QuotasOf
        <5> QED
          BY <1>3, <3>1, <3>2, <5>1 DEF Reservation
      <4> QED
        BY <3>1, <4>1, <4>2 DEF Reservation, QuotasOf, Blocks
    <3>3. CASE ~InFlight(c)
      BY <3>1, <3>3 DEF Reservation, InFlight, Reserving
    <3> QED
      BY <3>2, <3>3
  <2> QED
    BY <1>1, <2>1, <2>2 DEF BudgetInv, Blocks
<1>4. CASE Tick
  <2>1. call' = call /\ lock' = lock
    BY <1>4 DEF Tick
  <2> QED
    BY <1>3, <1>4, <2>1, TickFigures DEF Orderly, Eases, Lapses
<1>5. CASE PruneHolds
  <2>1. call' = call /\ lock' = lock
    BY <1>5 DEF PruneHolds
  <2> QED
    BY <1>3, <1>5, <2>1, PruneFigures DEF Eases, StillFigures
<1>6. CASE UNCHANGED vars
  <2>1. call' = call /\ lock' = lock /\ \A q \in Quotas : StillFigures(q)
    BY <1>6, SameFigures DEF vars
  <2> QED
    BY <1>3, <2>1 DEF Eases, StillFigures
<1> QED
  BY <1>2, <1>4, <1>5, <1>6 DEF Next, StepOf

LEMMA BudgetStart == Orderly /\ Init => BudgetInv
<1> SUFFICES ASSUME Init PROVE BudgetInv
  OBVIOUS
<1>1. \A c \in Calls : call[c].at = "new" /\ call[c].cost = 0
  BY DEF Init, Idle
<1>2. TimeInv /\ \A c \in Calls : Reservation(c)
  BY <1>1, CostsAssumption DEF TimeInv, UnderWay, InFlight, Reservation, Reserving, Calling
<1>3. ASSUME NEW q \in Quotas PROVE FiguresFit(q)
  <2>1. Rows(q) = {} /\ Promised(q) = {}
    BY DEF Init, Rows, LedgerRows, Promised, OpenHolds
  <2>2. SpentIn(q) = 0 /\ CallsIn(q) = 0 /\ Number(q) = 0
    BY <2>1, FiguresNow, CostEmpty, FS_EmptySet DEF Number
  <2>3. Worst(q) = 0
    BY <2>2, CostsAssumption DEF Worst, Number
  <2> QED
    BY <2>2, <2>3, QuotasAssumption DEF FiguresFit, Above
<1> QED
  BY <1>2, <1>3 DEF BudgetInv

\* WithinBudget: for every set of calls, scopes, budgets and costs up to the worst
\* case, concurrent calls never spend more than a blocking budget allows nor make
\* more calls, while a call settles outside the two sums of others and windows and
\* holds outlast the calls that started in them.
THEOREM BudgetsHold == ASSUME Orderly PROVE Spec => []WithinBudget
<1>1. TypeInv /\ BudgetInv => WithinBudget
  <2> SUFFICES ASSUME TypeInv, BudgetInv, NEW q \in Quotas, Blocks(q) PROVE ~OverBudget(q)
    BY DEF WithinBudget
  <2>1. FiguresFit(q)
    BY DEF BudgetInv
  <2>2. /\ Worst(q) \in Nat /\ Number(q) \in Nat /\ SpentIn(q) \in Nat /\ CallsIn(q) \in Nat
        /\ q.cost \in Nat \cup {None} /\ q.calls \in Nat \cup {None}
    BY WorstNat
  <2> QED
    BY <2>1, <2>2 DEF FiguresFit, OverBudget, Above
<1>2. Init => TypeInv /\ LedgerInv /\ BudgetInv
  BY CallsStart, BudgetStart
<1>3. TypeInv /\ LedgerInv /\ BudgetInv /\ [Next]_vars => (TypeInv /\ LedgerInv /\ BudgetInv)'
  BY TypeStep, LedgerStep, BudgetStep
<1> QED
  BY <1>1, <1>2, <1>3, PTL DEF Spec
(***************************************************************************)
(* Refusals.                                                               *)
(***************************************************************************)

LEMMA OnlySumHoldsTurnsAway ==
  ASSUME TypeInv, [Next]_vars, NEW c \in Calls, call'[c].outcome = "over",
         call[c].outcome # "over"
  PROVE  /\ SumHolds(c)
         /\ Exceeds(call[c].quota, Figures(c)[1], Figures(c)[2])
<1>1. Requests
  BY DEF TypeInv
<1>2. ASSUME NEW d \in Calls, StepOf(d) PROVE SumHolds(d) /\ d = c
  <2>1. Others(d)
    BY <1>2, StepFields
  <2>2. d = c
    BY <2>1 DEF Others
  <2>3. CASE Refuse(c) \/ Crash(c) \/ RecordFailure(c)
               \/ \E status \in {"ok", "blocked"} : SettleCall(c, status)
    <3>1. call'[c].outcome \in {"refused", "crashed", "error", "ok", "blocked"}
      BY <1>1, <2>3, EndFields DEF Refuse, Crash, RecordFailure, SettleCall
    <3> QED
      BY <3>1
  <2>4. CASE StartReserve(c)
    BY <1>1, <2>4, StartReserveFields
  <2>5. CASE SumLedger(c)
    BY <1>1, <2>5, SumLedgerFields
  <2>6. CASE CommitReserve(c) \/ CacheLookup(c) \/ Invoke(c)
    BY <1>1, <2>6, CommitReserveFields, CacheLookupFields, InvokeFields
  <2> QED
    BY <1>2, <2>2, <2>3, <2>4, <2>5, <2>6 DEF StepOf, Progress
<1>3. SumHolds(c)
  BY <1>2 DEF Next, StepOf, Tick, PruneHolds, vars
<1> QED
  BY <1>1, <1>3, SumHoldsFields

LEMMA RefusalFair ==
  ASSUME TypeInv, LedgerInv, BudgetInv, NEW c \in Calls, SumHolds(c),
         Exceeds(call[c].quota, Figures(c)[1], Figures(c)[2])
  PROVE  LET q == call[c].quota
             since == WindowStart(q.period, call[c].since)
             rows == LedgerRows(q.scope, since)
             open == {b \in Calls : /\ hold[b] # None /\ hold[b].settled = None
                                    /\ q.scope \in hold[b].scopes
                                    /\ InFlight(b) \/ hold[b].ts + HoldTtl > call[c].since}
         IN  \/ Above(CostOf(rows) + Estimate * (Cardinality(open) + 1), q.cost)
             \/ Above(Cardinality(rows) + Cardinality(open) + 1, q.calls)
<1> DEFINE q == call[c].quota
           since == WindowStart(q.period, call[c].since)
           rows == LedgerRows(q.scope, since)
           open == {b \in Calls : /\ hold[b] # None /\ hold[b].settled = None
                                  /\ q.scope \in hold[b].scopes
                                  /\ InFlight(b) \/ hold[b].ts + HoldTtl > call[c].since}
           held == OpenHolds(q.scope, since, call[c].since)
           h == Cardinality(held)
           n == Cardinality(open)
<1>1. call[c].at = "held" /\ UnderWay(c)
  BY DEF SumHolds, BudgetInv, TimeInv
<1>2. /\ q \in Quotas /\ Figures(c)[1] = SpentIn(q) + Estimate * h
      /\ Figures(c)[2] = CallsIn(q) + h /\ h \in Nat
  BY <1>1, CountsEnough
<1>3. since = WindowStart(q.period, now)
  <2>1. q.period \in DOMAIN Length
    BY <1>2, QuotasAssumption
  <2> QED
    BY <1>1, <2>1 DEF UnderWay, InFlight, Reserving
<1>4. SpentIn(q) = CostOf(rows) /\ CallsIn(q) = Cardinality(rows)
  BY <1>3 DEF SpentIn, CallsIn
<1>5. held \subseteq open
  BY DEF OpenHolds, Counts
<1>6. n \in Nat /\ h =< n
  <2>1. IsFiniteSet(open)
    BY FiniteAssumption, FS_Subset
  <2> QED
    BY <1>5, <2>1, FS_Subset, FS_CardinalityType
<1>7. /\ SpentIn(q) \in Nat /\ CallsIn(q) \in Nat /\ Estimate \in Nat
      /\ q.cost \in Nat \cup {None} /\ q.calls \in Nat \cup {None}
  BY <1>2, WorstNat
<1> HIDE DEF h, n, held, open
<1>8. /\ Estimate * h \in Nat /\ Estimate * n \in Nat /\ Estimate * h =< Estimate * n
      /\ Estimate * (n + 1) = Estimate * n + Estimate
  <2>1. n + 1 \in Nat
    BY <1>6
  <2> QED
    BY <1>2, <1>6, <2>1, Products
<1>9. \/ Above((SpentIn(q) + Estimate * h) + Estimate, q.cost)
      \/ Above((CallsIn(q) + h) + 1, q.calls)
  BY <1>2 DEF Exceeds
<1> DEFINE x == Estimate * h
           y == Estimate * n
<1>10. /\ (SpentIn(q) + x) + Estimate =< SpentIn(q) + (y + Estimate)
       /\ (CallsIn(q) + h) + 1 =< CallsIn(q) + n + 1
       /\ (SpentIn(q) + x) + Estimate \in Nat /\ SpentIn(q) + (y + Estimate) \in Nat
  <2>1. x \in Nat /\ y \in Nat /\ x =< y
    BY <1>8
  <2> HIDE DEF x, y
  <2> QED
    BY <1>2, <1>6, <1>7, <2>1
<1>11. \/ Above(SpentIn(q) + (y + Estimate), q.cost)
       \/ Above(CallsIn(q) + n + 1, q.calls)
  <2> HIDE DEF x, y
  <2>1. \/ Above((SpentIn(q) + x) + Estimate, q.cost)
        \/ Above((CallsIn(q) + h) + 1, q.calls)
    BY <1>9 DEF x
  <2> QED
    BY <1>2, <1>6, <1>7, <1>10, <2>1 DEF Above
<1>12. \/ Above(CostOf(rows) + Estimate * (n + 1), q.cost)
       \/ Above(Cardinality(rows) + n + 1, q.calls)
  BY <1>4, <1>8, <1>11
<1> QED
  BY <1>12 DEF n, open

\* TurnedAwayFairly: for every set of calls, scopes and budgets, a call is refused
\* only over a budget that the calls that ended and those that may still end fill,
\* while calls settle outside the two sums of others.
THEOREM RefusalsAreFair == ASSUME Orderly PROVE Spec => TurnedAwayFairly
<1> DEFINE Fairly ==
      \A c \in Calls : call'[c].outcome = "over" /\ call[c].outcome # "over" =>
         LET q == call[c].quota
             since == WindowStart(q.period, call[c].since)
             rows == LedgerRows(q.scope, since)
             open == {b \in Calls : /\ hold[b] # None /\ hold[b].settled = None
                                    /\ q.scope \in hold[b].scopes
                                    /\ InFlight(b) \/ hold[b].ts + HoldTtl > call[c].since}
         IN  \/ Above(CostOf(rows) + Estimate * (Cardinality(open) + 1), q.cost)
             \/ Above(Cardinality(rows) + Cardinality(open) + 1, q.calls)
<1>1. TypeInv /\ LedgerInv /\ BudgetInv /\ [Next]_vars => [Fairly]_vars
  <2> SUFFICES ASSUME TypeInv, LedgerInv, BudgetInv, [Next]_vars PROVE Fairly
    OBVIOUS
  <2> QED
    BY OnlySumHoldsTurnsAway, RefusalFair
<1>2. Init => TypeInv /\ LedgerInv /\ BudgetInv
  BY CallsStart, BudgetStart
<1>3. TypeInv /\ LedgerInv /\ BudgetInv /\ [Next]_vars => (TypeInv /\ LedgerInv /\ BudgetInv)'
  BY TypeStep, LedgerStep, BudgetStep
<1> QED
  BY <1>1, <1>2, <1>3, PTL DEF Spec, TurnedAwayFairly

(***************************************************************************)
(* The abstract budget.                                                    *)
(***************************************************************************)

\* A step of the mesh is a step of the budget, or leaves its figures alone.
LEMMA BudgetRefined ==
  ASSUME Orderly, Tight \in Quotas, TypeInv, LedgerInv, BudgetInv, [Next]_vars
  PROVE  [TightBudget!Next]_(TightBudget!vars)
<1> DEFINE q == Tight
<1>1. Tight \in Quotas /\ Blocks(Tight) /\ Tight.cost \in Nat /\ Tight.cost # None
  BY NoneAssumption DEF Tight, Quota, Blocks
<1>2. ASSUME StillFigures(Tight) PROVE UNCHANGED TightBudget!vars
  BY <1>2 DEF StillFigures, TightBudget!vars
<1>3. ASSUME Lapses(Tight) PROVE [TightBudget!Next]_(TightBudget!vars)
  <2> DEFINE C == Promised(Tight) \ Promised(Tight)'
  <2>1. CASE C = {}
    <3>1. Promised(Tight)' = Promised(Tight) /\ SpentIn(Tight)' = SpentIn(Tight)
      BY <1>3, <2>1 DEF Lapses
    <3> QED
      BY <3>1 DEF TightBudget!vars
  <2>2. CASE C # {}
    <3>1. /\ C \in SUBSET Calls /\ C \subseteq Promised(Tight)
          /\ Promised(Tight)' = Promised(Tight) \ C /\ SpentIn(Tight)' = SpentIn(Tight)
      BY <1>1, <1>3, RowsCosted DEF Lapses
    <3> HIDE DEF C
    <3> QED
      BY <2>2, <3>1 DEF TightBudget!Next, TightBudget!Lapse
  <2> QED
    BY <2>1, <2>2
<1>4. ASSUME Restarts(Tight) PROVE TightBudget!Next
  BY <1>4 DEF Restarts, TightBudget!Next, TightBudget!NewWindow
<1>5. ASSUME NEW c \in Calls, NEW cost \in 0..Estimate, Closes(Tight, c, cost)
      PROVE  TightBudget!Next
  BY <1>5 DEF Closes, TightBudget!Next, TightBudget!Close
<1>6. ASSUME NEW c \in Calls, CommitReserve(c), Tight \in QuotasOf(c), Promises(Tight, c)
      PROVE  TightBudget!Next
  <2>1. Room(Tight)
    BY <1>1, <1>6 DEF BudgetInv, Reservation, CommitReserve, Reserving
  <2>2. TightBudget!Fits
    <3> DEFINE n == Cardinality(Promised(Tight))
    <3>1. ~(SpentIn(Tight) + Estimate * n + Estimate > Tight.cost)
      BY <1>1, <2>1 DEF Room, Exceeds, Above, Worst
    <3>2. n \in Nat /\ SpentIn(Tight) \in Nat /\ Estimate \in Nat
      BY <1>1, WorstNat DEF Number
    <3>3. n + 1 \in Nat /\ Estimate * (n + 1) = Estimate * n + Estimate /\ Estimate * n \in Nat
      BY <3>2, Products
    <3> HIDE DEF n
    <3>4. SpentIn(Tight) + Estimate * (n + 1) =< Tight.cost
      BY <1>1, <3>1, <3>2, <3>3
    <3>5. SpentIn(Tight) + Estimate * (Cardinality(Promised(Tight)) + 1) =< Tight.cost
      BY <3>4 DEF n
    <3> QED
      <4>1. \A S : TightBudget!Cardinality(S) = Cardinality(S)
        BY Zenon DEF TightBudget!Cardinality, Cardinality
      <4> QED
        BY <3>5, <4>1, Zenon DEF TightBudget!Fits
  <2> QED
    BY <1>6, <2>2 DEF Promises, TightBudget!Next, TightBudget!Admit
<1>7. ASSUME NEW c \in Calls, StepOf(c) PROVE [TightBudget!Next]_(TightBudget!vars)
  BY <1>1, <1>2, <1>5, <1>6, <1>7, FiguresStep
<1>8. CASE Tick
  BY <1>1, <1>3, <1>4, <1>8, TickFigures
<1>9. CASE PruneHolds
  BY <1>1, <1>2, <1>9, PruneFigures
<1>10. CASE UNCHANGED vars
  BY <1>2, <1>10, SameFigures DEF vars
<1> QED
  BY <1>7, <1>8, <1>9, <1>10 DEF Next, StepOf

\* ImplementsBudget: seen from one blocking budget, every step of the mesh is a step
\* of the abstract budget or changes nothing it can see, for every set of calls that
\* share it, whatever other budgets and scopes they have.
THEOREM BudgetImplemented ==
  ASSUME Orderly, Tight \in Quotas PROVE Spec => ImplementsBudget
<1>1. Init => TypeInv /\ LedgerInv /\ BudgetInv
  BY CallsStart, BudgetStart
<1>2. TypeInv /\ LedgerInv /\ BudgetInv /\ [Next]_vars => (TypeInv /\ LedgerInv /\ BudgetInv)'
  BY TypeStep, LedgerStep, BudgetStep
<1>3. Init => TightBudget!Init
  <2> SUFFICES ASSUME Init PROVE SpentIn(Tight) = 0 /\ Promised(Tight) = {}
    BY DEF TightBudget!Init
  <2>1. Rows(Tight) = {} /\ Promised(Tight) = {}
    BY DEF Init, Rows, LedgerRows, Promised, OpenHolds
  <2> QED
    BY <2>1, FiguresNow, CostEmpty
<1>4. TypeInv /\ LedgerInv /\ BudgetInv /\ [Next]_vars => [TightBudget!Next]_(TightBudget!vars)
  BY BudgetRefined
<1> QED
  BY <1>1, <1>2, <1>3, <1>4, PTL DEF Spec, ImplementsBudget, TightBudget!Spec
=============================================================================
