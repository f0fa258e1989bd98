---------------------------- MODULE MeshPipeline -----------------------------
(***************************************************************************)
(* One model call through the mesh (pipeline.py run_pipeline): the checks  *)
(* that can refuse it, the reservation of its worst case against every     *)
(* budget it is under (quotas.py), the response cache, the provider, the   *)
(* post guardrails and the settlement.                                     *)
(*                                                                         *)
(* Reserving is a transaction of several statements under one advisory     *)
(* lock per scope.  Each SELECT sees what is committed when it runs: the   *)
(* engine is created with PostgreSQL's default isolation, READ COMMITTED.  *)
(* Settling is one transaction and takes no scope lock.                    *)
(*                                                                         *)
(* Messages, redaction, traces and the audit of the texts are left out.  A *)
(* call's answer is the call that the provider answered.  Time is in ticks.*)
(***************************************************************************)
EXTENDS Naturals, FiniteSets, FiniteSetsExt

CONSTANTS
  Calls,
  Scopes,        (* natural numbers, in the order of _SCOPE_ORDER          *)
  ScopesOf,      (* the scopes of a call                                   *)
  Quotas,        (* rows of quotas: scope, period, action, cost and calls  *)
  Length,        (* the length of a period                                 *)
  Keys, KeyOf,   (* request_hash                                           *)
  Estimate,      (* _worst_case_micros                                     *)
  Costs,         (* what an answer may cost                                *)
  HoldTtl,       (* RESERVATION_TTL                                        *)
  CacheTtl,      (* the connection's cache_ttl_s; 0 turns the cache off    *)
  Retention,     (* RESERVATION_RETENTION_DAYS                             *)
  MaxTime,       (* bound                                                  *)
  MayCrash,      (* may the mesh die during a call?                        *)
  MayFail,       (* may the provider or a guardrail fail a call?           *)
  MaySlip,       (* may a call settle between another's two sums?          *)
  MayStraddle,   (* may a window roll over while a call is under way?      *)
  MayOutlive,    (* may a call take longer than HoldTtl?                   *)
  None

ASSUME ScopesAssumption == Scopes \subseteq Nat /\ ScopesOf \in [Calls -> SUBSET Scopes]
ASSUME QuotasAssumption ==
  Quotas \subseteq [scope : Scopes, period : DOMAIN Length, action : {"warn", "block"},
                    cost : Nat \cup {None}, calls : Nat \cup {None}]
ASSUME TimesAssumption ==
  /\ \A p \in DOMAIN Length : Length[p] \in Nat \ {0}
  /\ HoldTtl \in Nat \ {0} /\ CacheTtl \in Nat /\ Retention \in Nat /\ MaxTime \in Nat
ASSUME CostsAssumption == Estimate \in Nat /\ Costs \subseteq Nat
ASSUME KeysAssumption == KeyOf \in [Calls -> Keys]
\* None is no call and no row of a table.
ASSUME NoneAssumption ==
  /\ None \notin Calls /\ None \notin Nat
  /\ None \notin [scopes : SUBSET Scopes, ts : Nat, settled : Nat \cup {None}]
  /\ None \notin [ts : Nat, cost : Nat, status : {"ok", "blocked", "error"}, hit : BOOLEAN]
  /\ None \notin [answer : Calls, until : Nat]
ASSUME FiniteAssumption == IsFiniteSet(Calls) /\ IsFiniteSet(Quotas) /\ IsFiniteSet(Scopes)

VARIABLES
  now,
  lock,      (* the advisory locks: scope -> holder                        *)
  hold,      (* quota_reservations of a call, one row for each scope       *)
  row,       (* llm_calls                                                  *)
  cache,     (* llm_cache                                                  *)
  notices,   (* the quota.warning notifications: the quota and the call    *)
  call       (* where each request is, and its local variables             *)

vars == <<now, lock, hold, row, cache, notices, call>>

Reserving == {"lock", "held", "commit"}
Calling == {"lookup", "provider", "post"}

TypeOK ==
  /\ now \in 0..MaxTime
  /\ lock \in [Scopes -> Calls \cup {None}]
  /\ \A c \in Calls :
       /\ hold[c] # None => /\ hold[c].scopes \subseteq ScopesOf[c]
                            /\ hold[c].ts \in 0..now
       /\ row[c] # None => row[c].ts \in 0..now /\ row[c].status \in {"ok", "blocked", "error"}
       /\ call[c].at \in {"new", "done"} \cup Reserving \cup Calling
       /\ call[c].left \subseteq Quotas
       /\ call[c].answer \in Calls \cup {None}
  /\ cache \in [Keys -> {None} \cup [answer : Calls, until : Nat]]
  /\ notices \subseteq Quotas \X Calls

Idle == [at |-> "new", outcome |-> None, since |-> 0, left |-> {}, quota |-> None,
         spent |-> 0, calls |-> 0, crossed |-> {}, answer |-> None, cost |-> 0]

Init ==
  /\ now = 0
  /\ lock = [s \in Scopes |-> None]
  /\ hold = [c \in Calls |-> None]
  /\ row = [c \in Calls |-> None]
  /\ cache = [k \in Keys |-> None]
  /\ notices = {}
  /\ call = [c \in Calls |-> Idle]

OnePerScope(c) ==
  {q \in Quotas : q.scope \in ScopesOf[c] /\ q = CHOOSE p \in Quotas : p.scope = q.scope}
QuotasOf(c) == {q \in Quotas : q.scope \in ScopesOf[c]}
InFlight(c) == call[c].at \in Reserving \cup Calling

(***************************************************************************)
(* Window sums.                                                            *)
(***************************************************************************)

WindowStart(period, t) == t - (t % Length[period])

LedgerRows(s, from) == {c \in Calls : row[c] # None /\ s \in ScopesOf[c] /\ row[c].ts >= from}

AnyOpen(c, t) == hold[c].settled = None

\* A hold that was not closed within HoldTtl counts as abandoned.
Counts(c, t) == hold[c].settled = None /\ hold[c].ts + HoldTtl > t

OpenHolds(s, from, t) ==
  {c \in Calls : hold[c] # None /\ s \in hold[c].scopes /\ hold[c].ts >= from /\ Counts(c, t)}

CostOf(C) == MapThenSumSet(LAMBDA c : row[c].cost, C)

(***************************************************************************)
(* Reserve.                                                                *)
(***************************************************************************)

\* A foreign project's connection, the residency gate, a pre guardrail or the
\* provider's construction refuses the call before anything is held.
Refuse(c) ==
  /\ call[c].at = "new" /\ MayFail
  /\ call' = [call EXCEPT ![c].at = "done", ![c].outcome = "refused"]
  /\ UNCHANGED <<now, lock, hold, row, cache, notices>>

StartReserve(c) ==
  /\ call[c].at = "new"
  /\ call' = [call EXCEPT ![c].at = IF QuotasOf(c) = {} THEN "lookup" ELSE "lock",
                          ![c].since = now, ![c].left = QuotasOf(c)]
  /\ UNCHANGED <<now, lock, hold, row, cache, notices>>

AnyLeft(c) == call[c].left
\* The quotas to look at next: scope by scope, in the order of the scopes.
NextQuotas(c) == {q \in call[c].left : \A p \in call[c].left : q.scope =< p.scope}

\* Takes the lock of the scope, unless this call has it, and sums the ledger.
SumLedger(c) ==
  /\ call[c].at = "lock"
  /\ \E q \in NextQuotas(c) :
       LET rows == LedgerRows(q.scope, WindowStart(q.period, call[c].since)) IN
       /\ lock[q.scope] \in {None, c}
       /\ lock' = [lock EXCEPT ![q.scope] = c]
       /\ call' = [call EXCEPT ![c].at = "held", ![c].quota = q,
                               ![c].spent = CostOf(rows), ![c].calls = Cardinality(rows)]
  /\ UNCHANGED <<now, hold, row, cache, notices>>

Released(c) == [s \in Scopes |-> IF lock[s] = c THEN None ELSE lock[s]]

Above(x, limit) == limit # None /\ x > limit

\* exceeded_dimension looks at the cost first; just_crossed at the same figure
\* without this call.
Exceeds(q, spent, calls) == Above(spent + Estimate, q.cost) \/ Above(calls + 1, q.calls)
JustCrosses(q, spent, calls) ==
  IF Above(spent + Estimate, q.cost) THEN ~Above(spent, q.cost) ELSE ~Above(calls, q.calls)

NeverBlocks(q) == FALSE
Blocks(q) == q.action = "block"

\* Adds the open holds and decides.
SumHolds(c) ==
  LET q == call[c].quota
      held == OpenHolds(q.scope, WindowStart(q.period, call[c].since), call[c].since)
      spent == call[c].spent + Estimate * Cardinality(held)
      calls == call[c].calls + Cardinality(held)
      left == call[c].left \ {q}
  IN
  /\ call[c].at = "held"
  /\ IF Exceeds(q, spent, calls) /\ Blocks(q)
       THEN /\ call' = [call EXCEPT ![c].at = "done", ![c].outcome = "over", ![c].left = {}]
            /\ lock' = Released(c)
       ELSE /\ call' = [call EXCEPT ![c].at = IF left = {} THEN "commit" ELSE "lock",
                          ![c].left = left,
                          ![c].crossed = IF Exceeds(q, spent, calls) /\ JustCrosses(q, spent, calls)
                                           THEN @ \cup {q} ELSE @]
            /\ UNCHANGED lock
  /\ UNCHANGED <<now, hold, row, cache, notices>>

\* One hold for each scope with a budget, whatever its periods.
HeldScopes(c) == {q.scope : q \in QuotasOf(c)}

CommitReserve(c) ==
  /\ call[c].at = "commit"
  /\ hold' = [hold EXCEPT ![c] = [scopes |-> HeldScopes(c),
                                  ts |-> call[c].since, settled |-> None]]
  /\ lock' = Released(c)
  /\ call' = [call EXCEPT ![c].at = "lookup"]
  /\ UNCHANGED <<now, row, cache, notices>>

(***************************************************************************)
(* Cache, provider, settle.                                                *)
(***************************************************************************)

Fresh(k) == cache[k] # None /\ cache[k].until > now

CacheLookup(c) ==
  /\ call[c].at = "lookup"
  /\ call' = [call EXCEPT ![c].at = IF Fresh(KeyOf[c]) THEN "post" ELSE "provider",
                          ![c].answer = IF Fresh(KeyOf[c]) THEN cache[KeyOf[c]].answer ELSE None]
  /\ UNCHANGED <<now, lock, hold, row, cache, notices>>

Invoke(c) ==
  /\ call[c].at = "provider"
  /\ \E cost \in Costs :
       call' = [call EXCEPT ![c].at = "post", ![c].answer = c, ![c].cost = cost]
  /\ UNCHANGED <<now, lock, hold, row, cache, notices>>

LeaveOpen(c, cost) == hold
Settled(c, cost) == [hold EXCEPT ![c] = IF @ = None THEN None ELSE [@ EXCEPT !.settled = cost]]

\* A settlement waits for other calls that are between their two sums.
Unobserved == MaySlip \/ \A c \in Calls : call[c].at # "held"

RecordFailure(c) ==
  /\ call[c].at = "provider" /\ MayFail /\ Unobserved
  /\ row' = [row EXCEPT ![c] = [ts |-> now, cost |-> 0, status |-> "error", hit |-> FALSE]]
  /\ hold' = Settled(c, 0)
  /\ call' = [call EXCEPT ![c].at = "done", ![c].outcome = "error"]
  /\ UNCHANGED <<now, lock, cache, notices>>

StoresAny(c, status) == CacheTtl > 0 /\ call[c].answer = c
Stores(c, status) == CacheTtl > 0 /\ call[c].answer = c /\ status = "ok"

\* The post guardrails accept the answer or block it; both are billed alike.
SettleCall(c, status) ==
  /\ call[c].at = "post" /\ Unobserved
  /\ status = "ok" \/ MayFail
  /\ row' = [row EXCEPT ![c] = [ts |-> now, cost |-> call[c].cost, status |-> status,
                                hit |-> call[c].answer # c]]
  /\ cache' = IF Stores(c, status)
                THEN [cache EXCEPT ![KeyOf[c]] = [answer |-> c, until |-> now + CacheTtl]]
                ELSE cache
  /\ hold' = Settled(c, call[c].cost)
  /\ notices' = notices \cup (call[c].crossed \X {c})
  /\ call' = [call EXCEPT ![c].at = "done", ![c].outcome = status]
  /\ UNCHANGED <<now, lock>>

\* The process dies, and the transaction it is in with it.
Crash(c) ==
  /\ MayCrash /\ InFlight(c)
  /\ lock' = Released(c)
  /\ call' = [call EXCEPT ![c].at = "done", ![c].outcome = "crashed"]
  /\ UNCHANGED <<now, hold, row, cache, notices>>

(***************************************************************************)
(* Time, and the worker's retention sweep.                                 *)
(***************************************************************************)

Tick ==
  /\ now < MaxTime
  /\ \A c \in Calls : InFlight(c) =>
       /\ MayStraddle \/ \A p \in DOMAIN Length : WindowStart(p, now + 1) = WindowStart(p, now)
       /\ MayOutlive \/ call[c].since + HoldTtl > now + 1
  /\ now' = now + 1
  /\ UNCHANGED <<lock, hold, row, cache, notices, call>>

Prunable(c) == hold[c].settled # None /\ hold[c].ts + Retention < now

PruneHolds ==
  LET gone == {c \in Calls : hold[c] # None /\ Prunable(c)} IN
  /\ gone # {}
  /\ hold' = [c \in Calls |-> IF c \in gone THEN None ELSE hold[c]]
  /\ UNCHANGED <<now, lock, row, cache, notices, call>>

Progress(c) ==
  \/ StartReserve(c) \/ SumLedger(c) \/ SumHolds(c) \/ CommitReserve(c)
  \/ CacheLookup(c) \/ Invoke(c) \/ RecordFailure(c)
  \/ \E status \in {"ok", "blocked"} : SettleCall(c, status)

Next ==
  \/ \E c \in Calls : Progress(c) \/ Refuse(c) \/ Crash(c)
  \/ Tick \/ PruneHolds

Spec == Init /\ [][Next]_vars

\* Requests are served, the provider answers or times out, and the worker runs.
Fairness ==
  /\ \A c \in Calls : WF_vars(Progress(c))
  /\ WF_vars(Tick) /\ WF_vars(PruneHolds)

FairSpec == Spec /\ Fairness

-----------------------------------------------------------------------------
(***************************************************************************)
(* Properties.                                                             *)
(***************************************************************************)

\* What the ledger holds in q's window at this moment.
SpentIn(q) == CostOf(LedgerRows(q.scope, WindowStart(q.period, now)))
CallsIn(q) == Cardinality(LedgerRows(q.scope, WindowStart(q.period, now)))
OverBudget(q) == Above(SpentIn(q), q.cost) \/ Above(CallsIn(q), q.calls)

\* Concurrent calls never spend more than a blocking budget allows, nor make
\* more calls (ADR-0008 3, quotas.py 202-203).
WithinBudget == \A q \in Quotas : Blocks(q) => ~OverBudget(q)

\* Spend and reservation never disagree (pipeline.py 169-174, 398-399): while the
\* provider may spend, the call has an open hold on every scope with a budget, and
\* a hold is closed by the ledger row of its call, at the same cost.
HoldsMatchLedger ==
  \A c \in Calls :
    /\ call[c].at \in Calling /\ QuotasOf(c) # {} =>
         /\ hold[c] # None /\ hold[c].settled = None
         /\ \A q \in QuotasOf(c) : q.scope \in hold[c].scopes
    /\ hold[c] # None =>
         IF row[c] = None THEN hold[c].settled = None ELSE hold[c].settled = row[c].cost

\* A call is only turned away over budgets that are really used up by calls that
\* ended and by calls that may still end (quotas.py 122-128).
TurnedAwayFairly ==
  [][\A c \in Calls : call'[c].outcome = "over" /\ call[c].outcome # "over" =>
       LET q == call[c].quota
           since == WindowStart(q.period, call[c].since)
           rows == LedgerRows(q.scope, since)
           open == {b \in Calls : /\ hold[b] # None /\ hold[b].settled = None
                                  /\ q.scope \in hold[b].scopes
                                  /\ InFlight(b) \/ hold[b].ts + HoldTtl > call[c].since}
       IN  \/ Above(CostOf(rows) + Estimate * (Cardinality(open) + 1), q.cost)
           \/ Above(Cardinality(rows) + Cardinality(open) + 1, q.calls)]_vars

\* An answer served from the cache was paid for by a call whose answer the post
\* guardrails let pass (pipeline.py 248-249).
CacheServesAccepted ==
  \A c \in Calls : LET a == call[c].answer IN
    a \notin {None, c} => row[a] # None /\ row[a].status = "ok" /\ ~row[a].hit

\* A warn budget is reported at most once in a window (pipeline.py 519-520).
OneNotice ==
  \A q \in Quotas : \A n, m \in notices :
    /\ n[1] = q /\ m[1] = q
    /\ WindowStart(q.period, row[n[2]].ts) = WindowStart(q.period, row[m[2]].ts)
    => n = m

\* A warn budget that is over when all calls have ended has been reported
\* (pipeline.py 519-520).
NoMissedNotice ==
  (\A c \in Calls : ~InFlight(c)) =>
    \A q \in Quotas : ~Blocks(q) /\ OverBudget(q) =>
      \E n \in notices : n[1] = q /\ row[n[2]].ts >= WindowStart(q.period, now)

\* Every request is answered: the scope locks never deadlock (quotas.py 24-26).
EveryCallEnds == \A c \in Calls : call[c].at = "new" ~> call[c].at = "done"

\* The worker removes the holds that crashed calls leave (ADR-0008 3).
AbandonedSwept ==
  \A c \in Calls : (hold[c] # None /\ call[c].outcome = "crashed") ~> hold[c] = None

\* The admitted calls that q's window still counts as open.
Promised(q) == OpenHolds(q.scope, WindowStart(q.period, now), now)
=============================================================================
