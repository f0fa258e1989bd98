----------------------------- MODULE AuditProofs -----------------------------
(***************************************************************************)
(* Proofs about the audit log, for any number of transactions, any lock    *)
(* orders and any readers.                                                 *)
(***************************************************************************)
EXTENDS AuditReaders, FiniteSetTheorems, WellFoundedInduction, TLAPS

-----------------------------------------------------------------------------
(* One transaction at a time has rows to commit, and they lie behind the log.*)

Places == {"idle", "work", "locked", "insert", "done"}
IsRow(r) ==
  /\ r = [seq |-> r.seq, prev |-> r.prev, body |-> r.body, hash |-> r.hash]
  /\ r.seq \in Nat /\ r.seq < nextSeq

TypeInv ==
  /\ nextSeq \in Nat
  /\ owner \in [Locks -> Writers \cup {None}]
  /\ pc \in [Writers -> Places] /\ plan \in [Writers -> Seq(Locks)]
  /\ DOMAIN pend = Writers /\ DOMAIN head = Writers
  /\ \A r \in log : IsRow(r)
  /\ \A w \in Writers : \A r \in pend[w] : IsRow(r)

\* From the lock to the end of the transaction the lock is held.
LockInv ==
  \A w \in Writers :
    pend[w] # {} \/ pc[w] \in {"locked", "insert"} => owner["audit"] = w

EndedInv == \A w \in Writers : pc[w] \in {"idle", "done"} => pend[w] = {}

BehindInv ==
  \A w \in Writers : \A r \in pend[w] : \A s \in log : s.seq < r.seq

ChainInv == TypeInv /\ LockInv /\ EndedInv /\ BehindInv

LEMMA InitChain == Init => ChainInv
BY DEF Init, ChainInv, TypeInv, LockInv, EndedInv, BehindInv, Places, Locks

\* What others do to the lock while a transaction has pending rows or reads the head.
LEMMA OneAtATime ==
  ASSUME ChainInv, NEW v \in Writers, NEW w \in Writers, v # w,
         pend[w] # {} \/ pc[w] \in {"locked", "insert"}
  PROVE  pend[v] = {} /\ pc[v] \notin {"locked", "insert"}
BY DEF ChainInv, LockInv

LEMMA BeginKeeps == ASSUME ChainInv, NEW w \in Writers, Begin(w) PROVE ChainInv'
<1> USE DEF Begin, ChainInv
<1>1. TypeInv'
  <2>1. PICK k \in Kinds : plan' = [plan EXCEPT ![w] = k]
    OBVIOUS
  <2>2. k \in Seq(Locks)
    BY KindsAssumption
  <2> QED
    BY <2>1, <2>2 DEF TypeInv, IsRow, Places
<1>2. LockInv' /\ EndedInv' /\ BehindInv'
  BY DEF TypeInv, LockInv, EndedInv, BehindInv
<1> QED
  BY <1>1, <1>2

LEMMA TakeLockKeeps == ASSUME ChainInv, NEW w \in Writers, TakeLock(w) PROVE ChainInv'
<1>1. PICK l \in Locks :
        /\ Asks(w, l) /\ Free(l, w)
        /\ owner' = [owner EXCEPT ![l] = w]
        /\ pc' = [pc EXCEPT ![w] = IF l = "audit" THEN "locked" ELSE @]
        /\ plan' = [plan EXCEPT ![w] = Tail(@)]
        /\ UNCHANGED <<log, nextSeq, head, pend>>
  BY DEF TakeLock
<1>2. /\ plan[w] \in Seq(Locks) /\ plan[w] # <<>> /\ Tail(plan[w]) \in Seq(Locks)
      /\ pc[w] \in {"work", "locked"}
  BY <1>1 DEF Asks, ChainInv, TypeInv
<1>4. TypeInv'
  BY <1>2, <1>1 DEF ChainInv, TypeInv, IsRow, Places
<1>5. LockInv'
  <2> SUFFICES ASSUME NEW v \in Writers,
                      pend'[v] # {} \/ pc'[v] \in {"locked", "insert"}
               PROVE  owner'["audit"] = v
    BY DEF LockInv
  <2>1. CASE v = w /\ l = "audit"
    BY <1>2, <1>1, <2>1 DEF ChainInv, TypeInv
  <2>2. CASE v = w /\ l # "audit"
    BY <1>2, <1>1, <2>2 DEF ChainInv, TypeInv, LockInv
  <2>3. CASE v # w
    <3>1. owner["audit"] = v
      BY <1>1, <2>3 DEF ChainInv, TypeInv, LockInv
    <3>2. l # "audit"
      BY <1>1, <2>3, <3>1, NoneAssumption DEF Free
    <3> QED
      BY <1>2, <1>1, <3>1, <3>2 DEF ChainInv, TypeInv
  <2> QED
    BY <2>1, <2>2, <2>3
<1>6. EndedInv' /\ BehindInv'
  BY <1>1 DEF ChainInv, TypeInv, EndedInv, BehindInv
<1> QED
  BY <1>4, <1>5, <1>6 DEF ChainInv

LEMMA ReadHeadKeeps == ASSUME ChainInv, NEW w \in Writers, ReadHead(w) PROVE ChainInv'
BY DEF ReadHead, ChainInv, TypeInv, LockInv, EndedInv, BehindInv, IsRow, Places

LEMMA InsertKeeps == ASSUME ChainInv, NEW w \in Writers, Insert(w) PROVE ChainInv'
<1> DEFINE new == Row(nextSeq, head[w], nextSeq)
<1>1. /\ pc[w] = "insert" /\ pend' = [pend EXCEPT ![w] = @ \cup {new}]
      /\ nextSeq' = nextSeq + 1 /\ pc' = [pc EXCEPT ![w] = "work"]
      /\ UNCHANGED <<log, owner, plan, head>>
  BY DEF Insert
<1>2. new.seq = nextSeq
      /\ new = [seq |-> new.seq, prev |-> new.prev, body |-> new.body, hash |-> new.hash]
  BY DEF Row
<1> HIDE DEF new
<1>3. TypeInv'
  BY <1>1, <1>2 DEF ChainInv, TypeInv, IsRow, Places
<1>4. LockInv'
  BY <1>1 DEF ChainInv, TypeInv, LockInv
<1>5. EndedInv'
  BY <1>1 DEF ChainInv, TypeInv, EndedInv
<1>6. BehindInv'
  BY <1>1, <1>2 DEF ChainInv, TypeInv, IsRow, BehindInv
<1> QED
  BY <1>3, <1>4, <1>5, <1>6 DEF ChainInv

LEMMA EndKeeps ==
  ASSUME ChainInv, NEW w \in Writers, End(w), log' \in {log, log \cup pend[w]}
  PROVE  ChainInv'
<1>1. /\ owner' = Released(w) /\ pc' = [pc EXCEPT ![w] = "done"]
      /\ pend' = [pend EXCEPT ![w] = {}] /\ UNCHANGED <<nextSeq, plan, head>>
  BY DEF End
<1>2. TypeInv'
  BY <1>1 DEF ChainInv, TypeInv, IsRow, Places, Released
<1>3. LockInv'
  BY <1>1 DEF ChainInv, TypeInv, LockInv, Released, Locks
<1>4. EndedInv'
  BY <1>1 DEF ChainInv, TypeInv, EndedInv
<1>5. BehindInv'
  <2> SUFFICES ASSUME NEW v \in Writers, NEW r \in pend'[v], NEW s \in log'
               PROVE  s.seq < r.seq
    BY DEF BehindInv
  <2>1. v # w /\ r \in pend[v]
    BY <1>1 DEF ChainInv, TypeInv
  <2>2. pend[w] = {}
    BY <2>1, OneAtATime
  <2> QED
    BY <2>1, <2>2 DEF ChainInv, BehindInv
<1> QED
  BY <1>2, <1>3, <1>4, <1>5 DEF ChainInv

LEMMA WriterKeeps ==
  ASSUME ChainInv, NEW w \in Writers, Step(w) \/ Rollback(w)
  PROVE  ChainInv'
<1>1. CASE Commit(w)
  BY <1>1, EndKeeps DEF Commit
<1>2. CASE Rollback(w)
  BY <1>2, EndKeeps DEF Rollback
<1> QED
  BY <1>1, <1>2, BeginKeeps, TakeLockKeeps, ReadHeadKeeps, InsertKeeps DEF Step

LEMMA IdleKeeps == ASSUME ChainInv, UNCHANGED chainVars PROVE ChainInv'
BY DEF chainVars, writerVars, ChainInv, TypeInv, LockInv, EndedInv, BehindInv, IsRow

LEMMA ForgeKeeps == ASSUME ChainInv, Forge PROVE ChainInv'
<1>1. PICK r \in log : \/ log' = (log \ {r}) \cup {[r EXCEPT !.body = 0]}
                       \/ log' = log \ {r}
  BY DEF Forge
<1>2. UNCHANGED <<nextSeq, owner, pc, plan, head, pend>>
  BY DEF Forge, writerVars
<1> DEFINE edited == [r EXCEPT !.body = 0]
<1>3. r = [seq |-> r.seq, prev |-> r.prev, body |-> r.body, hash |-> r.hash]
  BY <1>1 DEF ChainInv, TypeInv, IsRow
<1>4. edited.seq = r.seq
      /\ edited = [seq |-> edited.seq, prev |-> edited.prev, body |-> edited.body,
                   hash |-> edited.hash]
  BY <1>3
<1>5. log' \subseteq log \cup {edited}
  BY <1>1
<1> HIDE DEF edited
<1>6. TypeInv'
  BY <1>1, <1>2, <1>4, <1>5 DEF ChainInv, TypeInv, IsRow
<1>7. LockInv' /\ EndedInv'
  BY <1>2 DEF ChainInv, LockInv, EndedInv
<1>8. BehindInv'
  BY <1>1, <1>2, <1>4, <1>5 DEF ChainInv, BehindInv
<1> QED
  BY <1>6, <1>7, <1>8 DEF ChainInv

LEMMA ReadersKeep == ASSUME ChainInv, [ReadersNext]_vars PROVE ChainInv'
<1>1. CASE \E w \in Writers : Chain(Step(w)) \/ Chain(Rollback(w))
  BY <1>1, WriterKeeps DEF Chain
<1>2. CASE Forge
  BY <1>2, ForgeKeeps
<1>3. CASE StartVerify \/ VerifyBatch \/ NextPage \/ UNCHANGED vars
  BY <1>3, IdleKeeps DEF StartVerify, VerifyBatch, NextPage, vars
<1> QED
  BY <1>1, <1>2, <1>3 DEF ReadersNext

\* Whoever has rows to commit holds the audit lock, alone, and they lie behind the log.
THEOREM ReadersKeepOrder == ReadersSpec => []ChainInv
<1>1. ReadersInit => ChainInv
  BY InitChain DEF ReadersInit
<1>2. ChainInv /\ [ReadersNext]_vars => ChainInv'
  BY ReadersKeep
<1> QED
  BY <1>1, <1>2, PTL DEF ReadersSpec

\* What a transaction of the program does to the committed rows.
LEMMA WriterAppends ==
  ASSUME ChainInv, NEW w \in Writers, Step(w) \/ Rollback(w)
  PROVE  /\ log \subseteq log'
         /\ \A new \in log' \ log, old \in log : new.seq > old.seq
<1>1. log' \in {log, log \cup pend[w]}
  BY DEF Step, Begin, TakeLock, ReadHead, Insert, Commit, Rollback
<1>2. ASSUME NEW new \in log' \ log, NEW old \in log PROVE new.seq > old.seq
  BY <1>1, <1>2 DEF ChainInv, BehindInv, TypeInv, IsRow
<1> QED
  BY <1>1, <1>2

\* The committed log grows behind its last row only, however the transactions overlap
\* (write_audit, audit.py:97).
THEOREM LogGrowsAtTheEnd == ReadersSpec => GrowsAtTheEnd
<1>1. ASSUME ChainInv, [ReadersNext]_vars, forged' = forged
      PROVE  /\ log \subseteq log'
             /\ \A new \in log' \ log, old \in log : new.seq > old.seq
  <2>1. CASE \E w \in Writers : Chain(Step(w)) \/ Chain(Rollback(w))
    BY <1>1, <2>1, WriterAppends DEF Chain
  <2>2. CASE Forge
    BY <1>1, <2>2 DEF Forge
  <2>3. CASE StartVerify \/ VerifyBatch \/ NextPage \/ UNCHANGED vars
    BY <2>3 DEF StartVerify, VerifyBatch, NextPage, vars, chainVars
  <2> QED
    BY <1>1, <2>1, <2>2, <2>3 DEF ReadersNext
<1> QED
  BY <1>1, ReadersKeepOrder, PTL DEF ReadersSpec, GrowsAtTheEnd

-----------------------------------------------------------------------------
(* Which locks can cross.                                                  *)

NoEventsAfterAudit(s) ==
  \A i, j \in 1..Len(s) : i < j /\ s[i] = "audit" => s[j] # "events"
EventsFirst == \A k \in Kinds : NoEventsAfterAudit(k)

\* The orders the handlers have publish before they audit.
LEMMA HandlersPublishFirst == Kinds = HandlerKinds => EventsFirst
BY SMTT(30) DEF HandlerKinds, EventsFirst, NoEventsAfterAudit

\* Whoever has the audit lock no longer wants the events lock.
OrderInv ==
  \A w \in Writers :
    /\ NoEventsAfterAudit(plan[w])
    /\ owner["audit"] = w => \A i \in 1..Len(plan[w]) : plan[w][i] # "events"
    /\ pc[w] = "idle" => owner["audit"] # w

LEMMA TailOrdered ==
  ASSUME NEW s \in Seq(Locks), s # <<>>, NoEventsAfterAudit(s)
  PROVE  /\ NoEventsAfterAudit(Tail(s))
         /\ Head(s) = "audit" => \A i \in 1..Len(Tail(s)) : Tail(s)[i] # "events"
         /\ (\A i \in 1..Len(s) : s[i] # "events")
              => \A i \in 1..Len(Tail(s)) : Tail(s)[i] # "events"
<1>1. Tail(s) \in Seq(Locks) /\ Len(Tail(s)) = Len(s) - 1 /\ Len(s) \in Nat \ {0}
  OBVIOUS
<1>2. \A i \in 1..Len(Tail(s)) : Tail(s)[i] = s[i + 1] /\ i + 1 \in 1..Len(s)
  BY <1>1
<1>3. Head(s) = s[1] /\ 1 \in 1..Len(s)
  BY <1>1
<1> QED
  BY <1>1, <1>2, <1>3 DEF NoEventsAfterAudit

LEMMA WriterOrders ==
  ASSUME EventsFirst, ChainInv, OrderInv, NEW w \in Writers, Step(w) \/ Rollback(w)
  PROVE  OrderInv'
<1>1. CASE Begin(w)
  <2>1. PICK k \in Kinds : plan' = [plan EXCEPT ![w] = k]
    BY <1>1 DEF Begin
  <2>2. UNCHANGED owner /\ owner["audit"] # w /\ pc' = [pc EXCEPT ![w] = "work"]
    BY <1>1 DEF Begin, OrderInv
  <2> QED
    BY <2>1, <2>2 DEF EventsFirst, OrderInv, ChainInv, TypeInv
<1>2. CASE TakeLock(w)
  <2>1. PICK l \in Locks : /\ Asks(w, l) /\ owner' = [owner EXCEPT ![l] = w]
                           /\ plan' = [plan EXCEPT ![w] = Tail(@)]
                           /\ pc' = [pc EXCEPT ![w] = IF l = "audit" THEN "locked" ELSE @]
    BY <1>2 DEF TakeLock
  <2>2. plan[w] \in Seq(Locks) /\ plan[w] # <<>> /\ l = Head(plan[w])
        /\ pc[w] # "idle"
    BY <2>1 DEF Asks, ChainInv, TypeInv
  <2>3. ASSUME NEW v \in Writers
        PROVE  /\ NoEventsAfterAudit(plan'[v])
               /\ owner'["audit"] = v => \A i \in 1..Len(plan'[v]) : plan'[v][i] # "events"
               /\ pc'[v] = "idle" => owner'["audit"] # v
    <3>1. CASE v = w
      <4>1. plan'[v] = Tail(plan[w])
        BY <2>1, <3>1 DEF ChainInv, TypeInv
      <4>2. pc'[v] # "idle"
        BY <2>1, <2>2, <3>1 DEF ChainInv, TypeInv
      <4>3. owner'["audit"] = v => owner["audit"] = w \/ Head(plan[w]) = "audit"
        BY <2>1, <2>2, <3>1 DEF ChainInv, TypeInv
      <4> QED
        BY <2>2, <3>1, <4>1, <4>2, <4>3, TailOrdered DEF OrderInv
    <3>2. CASE v # w
      <4>1. plan'[v] = plan[v] /\ (owner'["audit"] = v => owner["audit"] = v)
            /\ pc'[v] = pc[v]
        BY <2>1, <3>2 DEF ChainInv, TypeInv, Locks
      <4> QED
        BY <4>1 DEF OrderInv
    <3> QED
      BY <3>1, <3>2
  <2> QED
    BY <2>3 DEF OrderInv
<1>3. CASE Commit(w) \/ Rollback(w)
  <2>1. owner' = Released(w) /\ UNCHANGED plan /\ pc' = [pc EXCEPT ![w] = "done"]
    BY <1>3 DEF Commit, Rollback, End
  <2>2. \A v \in Writers : owner'["audit"] = v => owner["audit"] = v
    BY <2>1, NoneAssumption DEF Released, Locks
  <2> QED
    BY <2>1, <2>2 DEF OrderInv, ChainInv, TypeInv
<1>4. CASE ReadHead(w) \/ Insert(w)
  BY <1>4 DEF ReadHead, Insert, OrderInv, ChainInv, TypeInv
<1> QED
  BY <1>1, <1>2, <1>3, <1>4 DEF Step

LEMMA OrderTells == ChainInv /\ OrderInv => OnlyRowsEntangle
<1> SUFFICES ASSUME ChainInv, OrderInv, NEW S \in SUBSET Writers, Entangled(S),
                    \A w \in S : ~Asks(w, "row")
             PROVE  FALSE
  BY DEF OnlyRowsEntangle
<1>1. ASSUME NEW w \in S
      PROVE  \E v \in S : v # w /\ \/ Asks(w, "audit") /\ owner["audit"] = v
                                   \/ Asks(w, "events") /\ owner["events"] = v
  BY DEF Entangled, BlockedBy, Locks
<1>2. ASSUME NEW w \in S, owner["audit"] = w
      PROVE  FALSE
  <2>1. Asks(w, "events")
    BY <1>1, <1>2
  <2>2. plan[w] # <<>> /\ plan[w][1] = "events" /\ plan[w] \in Seq(Locks)
    BY <2>1 DEF Asks, ChainInv, TypeInv
  <2> QED
    BY <1>2, <2>2 DEF OrderInv
<1>3. ASSUME NEW w \in S, owner["events"] = w
      PROVE  FALSE
  BY <1>1, <1>2, <1>3
<1>4. PICK w \in S : TRUE
  BY DEF Entangled
<1> QED
  BY <1>1, <1>2, <1>3, <1>4

\* However many transactions there are and however they lock rows: if each publishes
\* before it audits, as every handler does, the two advisory locks never make a
\* deadlock by themselves (datasets.py:562, datasets.py:569).
THEOREM OnlyRowsCross == EventsFirst => (ReadersSpec => []OnlyRowsEntangle)
<1> SUFFICES ASSUME EventsFirst PROVE ReadersSpec => []OnlyRowsEntangle
  OBVIOUS
<1>1. ReadersInit => OrderInv
  <2>1. NoEventsAfterAudit(<<>>)
    BY DEF NoEventsAfterAudit
  <2>2. ReadersInit => \A w \in Writers : plan[w] = <<>> /\ owner["audit"] # w
    BY NoneAssumption DEF ReadersInit, Init, Locks
  <2> QED
    BY <2>1, <2>2 DEF OrderInv
<1>2. ChainInv /\ OrderInv /\ [ReadersNext]_vars => OrderInv'
  <2> SUFFICES ASSUME ChainInv, OrderInv, [ReadersNext]_vars PROVE OrderInv'
    OBVIOUS
  <2>1. CASE \E w \in Writers : Chain(Step(w)) \/ Chain(Rollback(w))
    BY <2>1, WriterOrders DEF Chain
  <2>2. CASE UNCHANGED <<owner, plan, pc>>
    BY <2>2 DEF OrderInv
  <2>3. CASE StartVerify \/ VerifyBatch \/ NextPage \/ Forge \/ UNCHANGED vars
    BY <2>2, <2>3 DEF StartVerify, VerifyBatch, NextPage, Forge, vars, chainVars, writerVars
  <2> QED
    BY <2>1, <2>3 DEF ReadersNext
<1> QED
  BY <1>1, <1>2, OrderTells, ReadersKeepOrder, PTL DEF ReadersSpec

-----------------------------------------------------------------------------
(* The chain of the writers alone, with nobody who forges.                   *)

\* What a transaction sees is linked, and the head it has read is the last hash of it.
LinkInv ==
  /\ Linked(log)
  /\ \A w \in Writers :
       /\ Linked(log \cup pend[w])
       /\ pc[w] = "insert" => head[w] = HeadHash(log \cup pend[w])

LEMMA LinkedGrows ==
  ASSUME NEW rows, NEW new, Linked(rows), new.seq \in Nat,
         \A r \in rows : r.seq \in Nat /\ r.seq < new.seq,
         new.prev = HeadHash(rows), new.hash = RowHash(new.prev, new.body)
  PROVE  Linked(rows \cup {new})
<1>1. Before(rows \cup {new}, new.seq) = rows
  BY DEF Before
<1>2. ASSUME NEW r \in rows PROVE Before(rows \cup {new}, r.seq) = Before(rows, r.seq)
  BY <1>2 DEF Before
<1> QED
  BY <1>1, <1>2 DEF Linked

LEMMA EndLinks ==
  ASSUME ChainInv, LinkInv, NEW w \in Writers, End(w), log' \in {log, log \cup pend[w]}
  PROVE  LinkInv'
<1>1. pc' = [pc EXCEPT ![w] = "done"] /\ pend' = [pend EXCEPT ![w] = {}] /\ head' = head
  BY DEF End
<1>2. Linked(log')
  BY DEF LinkInv
<1>3. ASSUME NEW v \in Writers
      PROVE  /\ Linked(log' \cup pend'[v])
             /\ pc'[v] = "insert" => head'[v] = HeadHash(log' \cup pend'[v])
  <2>1. CASE v = w
    BY <1>1, <1>2, <2>1 DEF ChainInv, TypeInv
  <2>2. CASE v # w /\ (pend[v] # {} \/ pc[v] = "insert")
    <3>1. pend[w] = {}
      BY <2>2, OneAtATime
    <3>2. log' = log /\ pend'[v] = pend[v] /\ pc'[v] = pc[v] /\ head'[v] = head[v]
      BY <1>1, <2>2, <3>1 DEF ChainInv, TypeInv
    <3> QED
      BY <3>2 DEF LinkInv
  <2>3. CASE v # w /\ pend[v] = {} /\ pc[v] # "insert"
    BY <1>1, <1>2, <2>3 DEF ChainInv, TypeInv
  <2> QED
    BY <2>1, <2>2, <2>3
<1> QED
  BY <1>2, <1>3 DEF LinkInv

LEMMA InsertLinks == ASSUME ChainInv, LinkInv, NEW w \in Writers, Insert(w) PROVE LinkInv'
<1> DEFINE new == Row(nextSeq, head[w], nextSeq)
<1>1. /\ pc[w] = "insert" /\ pend' = [pend EXCEPT ![w] = @ \cup {new}]
      /\ pc' = [pc EXCEPT ![w] = "work"] /\ log' = log /\ head' = head
  BY DEF Insert
<1>2. /\ new.seq = nextSeq /\ new.prev = head[w] /\ new.hash = RowHash(new.prev, new.body)
  BY DEF Row
<1> HIDE DEF new
<1>3. Linked((log \cup pend[w]) \cup {new})
  <2>1. \A r \in log \cup pend[w] : r.seq \in Nat /\ r.seq < new.seq
    BY <1>2 DEF ChainInv, TypeInv, IsRow
  <2>2. new.prev = HeadHash(log \cup pend[w]) /\ Linked(log \cup pend[w])
    BY <1>1, <1>2 DEF LinkInv
  <2>3. new.seq \in Nat
    BY <1>2 DEF ChainInv, TypeInv
  <2> QED
    BY <1>2, <2>1, <2>2, <2>3, LinkedGrows
<1>4. ASSUME NEW v \in Writers
      PROVE  /\ Linked(log' \cup pend'[v])
             /\ pc'[v] = "insert" => head'[v] = HeadHash(log' \cup pend'[v])
  <2>1. CASE v = w
    <3>1. log' \cup pend'[w] = (log \cup pend[w]) \cup {new}
      BY <1>1 DEF ChainInv, TypeInv
    <3>2. pc'[w] = "work"
      BY <1>1 DEF ChainInv, TypeInv
    <3> QED
      BY <1>3, <2>1, <3>1, <3>2
  <2>2. CASE v # w
    BY <1>1, <2>2 DEF ChainInv, TypeInv, LinkInv
  <2> QED
    BY <2>1, <2>2
<1> QED
  BY <1>1, <1>4 DEF LinkInv

LEMMA StepLinks ==
  ASSUME ChainInv, LinkInv, [Next]_chainVars
  PROVE  LinkInv'
<1>1. ASSUME NEW w \in Writers, Begin(w) \/ TakeLock(w) PROVE LinkInv'
  <2>1. log' = log /\ pend' = pend /\ head' = head
        /\ \A v \in Writers : pc'[v] = "insert" => pc[v] = "insert"
    BY <1>1 DEF Begin, TakeLock, ChainInv, TypeInv
  <2> QED
    BY <2>1 DEF LinkInv
<1>2. ASSUME NEW w \in Writers, ReadHead(w) PROVE LinkInv'
  <2>1. log' = log /\ pend' = pend
        /\ head' = [head EXCEPT ![w] = HeadHash(log \cup pend[w])]
        /\ pc' = [pc EXCEPT ![w] = "insert"]
    BY <1>2 DEF ReadHead, Visible
  <2>2. \A v \in Writers : pc'[v] = "insert" => head'[v] = HeadHash(log \cup pend[v])
    BY <2>1 DEF ChainInv, TypeInv, LinkInv
  <2> QED
    BY <2>1, <2>2 DEF LinkInv
<1>3. ASSUME NEW w \in Writers, Commit(w) \/ Rollback(w) PROVE LinkInv'
  BY <1>3, EndLinks DEF Commit, Rollback
<1>4. CASE UNCHANGED chainVars
  BY <1>4 DEF chainVars, writerVars, LinkInv
<1> QED
  BY <1>1, <1>2, <1>3, <1>4, InsertLinks DEF Next, Step

\* The committed log is one chain from GENESIS_HASH in the order of seq (ADR-0005):
\* what verify_chain walks is linked for any transactions that overlap.
THEOREM ChainStaysLinked == Spec => []ChainIsLinked
<1>1. Init => ChainInv /\ LinkInv
  <2>1. Init => LinkInv
    BY DEF Init, LinkInv, Linked
  <2> QED
    BY <2>1, InitChain
<1>2. ChainInv /\ LinkInv /\ [Next]_chainVars => (ChainInv /\ LinkInv)'
  BY WriterKeeps, IdleKeeps, StepLinks DEF Next
<1>3. ChainInv /\ LinkInv => ChainIsLinked
  BY DEF LinkInv, ChainIsLinked
<1> QED
  BY <1>1, <1>2, <1>3, PTL DEF Spec

-----------------------------------------------------------------------------
(* What verify_chain says of a log, while writers commit between its batches.*)

LEMMA LastFacts ==
  ASSUME NEW R, R # {}, NEW n \in Nat, \A r \in R : r.seq \in Nat /\ r.seq <= n
  PROVE  LastOf(R) \in R /\ \A r \in R : r.seq <= LastOf(R).seq
<1> DEFINE T == {n - r.seq : r \in R}
<1>1. (\A r \in R : n - r.seq \in T) /\ \A t \in T : \E r \in R : t = n - r.seq
  OBVIOUS
<1> HIDE DEF T
<1>2. T \subseteq Nat
  <2>1. \A r \in R : n - r.seq \in Nat
    OBVIOUS
  <2> QED
    BY <1>1, <2>1
<1>3. T # {}
  BY <1>1
<1>4. PICK t \in T : \A u \in T : <<u, t>> \notin OpToRel(<, Nat)
  BY <1>2, <1>3, NatLessThanWellFounded, WFMin
<1>5. \A u \in T : ~(u < t)
  BY <1>2, <1>4 DEF OpToRel
<1>6. PICK m \in R : t = n - m.seq
  BY <1>1
<1>7. \A r \in R : r.seq <= m.seq
  <2>1. \A r \in R : ~(n - r.seq < n - m.seq)
    BY <1>1, <1>5, <1>6
  <2> QED
    BY <2>1
<1> QED
  BY <1>7 DEF LastOf

\* The last row of a set is the last row of any part that holds its upper end.
LEMMA LastOfPart ==
  ASSUME NEW B, NEW A, A \subseteq B, A # {}, NEW n \in Nat,
         \A r \in B : r.seq \in Nat /\ r.seq <= n,
         \A r \in B, s \in B : r.seq = s.seq => r = s,
         \A b \in B \ A, a \in A : b.seq < a.seq
  PROVE  LastOf(A) = LastOf(B) /\ LastOf(A) \in A
<1>1. /\ LastOf(A) \in A /\ \A r \in A : r.seq <= LastOf(A).seq
      /\ LastOf(B) \in B /\ \A r \in B : r.seq <= LastOf(B).seq
  BY LastFacts
<1>2. PICK a, b : a = LastOf(A) /\ b = LastOf(B)
  OBVIOUS
<1>3. a \in A /\ b \in B /\ a.seq \in Nat /\ b.seq \in Nat /\ a.seq <= b.seq
  BY <1>1, <1>2
<1>4. b.seq <= a.seq
  BY <1>1, <1>2, <1>3
<1> QED
  BY <1>1, <1>2, <1>3, <1>4

\* Rows are numbered once, from 1.
RowsInv ==
  /\ nextSeq > 0 /\ IsFiniteSet(log) /\ \A w \in Writers : IsFiniteSet(pend[w])
  /\ \A r \in log : r.seq > 0
  /\ \A w \in Writers : \A r \in pend[w] : r.seq > 0
  /\ \A r \in log, s \in log : r.seq = s.seq => r = s
  /\ \A w \in Writers : \A r \in pend[w], s \in pend[w] : r.seq = s.seq => r = s

\* A defect of the log is a row whose link or hash is wrong.
Defect(d) ==
  d \in log /\ (d.prev # HeadHash(Before(log, d.seq)) \/ d.hash # RowHash(d.prev, d.body))
Untouched ==
  /\ LinkInv /\ \A r \in log : r.body = r.seq
  /\ \A w \in Writers : \A r \in pend[w] : r.body = r.seq
TouchInv == (~forged => Untouched) /\ (forged => \E d \in log : Defect(d))

\* The walk: it knows the hash of the last row it has passed, and has not passed
\* the defect of a log that was forged before it began.
Passed == {r \in log : r.seq <= verify.last}
WalkInv ==
  /\ verify = [at |-> verify.at, prev |-> verify.prev, last |-> verify.last, late |-> verify.late]
  /\ verify.last \in Nat /\ verify.last < nextSeq
  /\ \A w \in Writers : \A r \in pend[w] : verify.last < r.seq
  /\ verify.late \in BOOLEAN /\ (verify.late => forged)
  /\ verify.at = "idle" => verify.prev = Genesis /\ verify.last = 0
  /\ verify.at = "walk" /\ (verify.late \/ ~forged) => verify.prev = HeadHash(Passed)
  /\ verify.at = "walk" /\ verify.late => \E d \in log : Defect(d) /\ d.seq > verify.last

VerdictInv ==
  forged \in BOOLEAN /\ ChainInv /\ RowsInv /\ TouchInv /\ WalkInv /\ VerdictIsRight

LEMMA LogFacts ==
  ASSUME ChainInv
  PROVE  nextSeq \in Nat /\ \A r \in log : r.seq \in Nat /\ r.seq <= nextSeq
BY DEF ChainInv, TypeInv, IsRow

\* One batch: it is the lower end of what lies ahead.
LEMMA BatchFacts ==
  ASSUME ChainInv, RowsInv, NEW last \in Nat, NEW T, T = {r \in log : r.seq > last},
         NEW F, F = First(T, BatchSize)
  PROVE  /\ F \subseteq T /\ (T # {} => F # {})
         /\ \A r \in F, s \in T : s.seq < r.seq => s \in F
<1>1. IsFiniteSet(T) /\ T \subseteq log /\ F \subseteq T
  <2>1. T \subseteq log /\ F \subseteq T
    BY DEF First
  <2> QED
    BY <2>1, FS_Subset DEF RowsInv
<1>2. \A n : IsFiniteSet(Before(T, n)) /\ Cardinality(Before(T, n)) \in Nat
  <2>1. \A n : Before(T, n) \subseteq T
    BY DEF Before
  <2> QED
    BY <1>1, <2>1, FS_Subset, FS_CardinalityType
<1>3. \A r \in T : r.seq \in Nat /\ r.seq <= nextSeq
  BY <1>1, LogFacts
<1>4. ASSUME NEW r \in F, NEW s \in T, s.seq < r.seq
      PROVE  s \in F
  <2>1. Before(T, s.seq) \subseteq Before(T, r.seq)
    BY <1>1, <1>3, <1>4 DEF Before
  <2>2. Cardinality(Before(T, s.seq)) <= Cardinality(Before(T, r.seq))
    BY <1>2, <2>1, FS_Subset
  <2>3. Cardinality(Before(T, r.seq)) < BatchSize
    BY <1>4 DEF First
  <2> QED
    BY <1>2, <2>2, <2>3, SizeAssumption DEF First
<1>5. ASSUME T # {}
      PROVE  F # {}
  <2>1. PICK m \in T : \A s \in T : m.seq <= s.seq
    <3> DEFINE U == {r.seq : r \in T}
    <3>1. U \subseteq Nat /\ U # {}
      BY <1>3, <1>5
    <3>2. PICK u \in U : \A v \in U : <<v, u>> \notin OpToRel(<, Nat)
      BY <3>1, NatLessThanWellFounded, WFMin
    <3>3. \A v \in U : ~(v < u)
      BY <3>1, <3>2 DEF OpToRel
    <3>4. PICK m \in T : u = m.seq
      OBVIOUS
    <3>5. \A s \in T : ~(s.seq < m.seq)
      BY <3>3, <3>4
    <3> QED
      BY <1>3, <3>5
  <2>2. Before(T, m.seq) = {}
    BY <1>3, <2>1 DEF Before
  <2>3. Cardinality(Before(T, m.seq)) < BatchSize
    <3>1. Cardinality(Before(T, m.seq)) = 0
      BY <2>2, FS_EmptySet
    <3>2. BatchSize \in Nat \ {0}
      BY SizeAssumption
    <3> QED
      BY <3>1, <3>2
  <2> QED
    BY <2>3 DEF First
<1> QED
  BY <1>1, <1>4, <1>5

\* The hash a row of the batch is measured by is the one of the row before it in
\* the log, the first row of the batch included.
LEMMA ExpectedFacts ==
  ASSUME ChainInv, RowsInv, verify.last \in Nat, verify.prev = HeadHash(Passed),
         NEW T, T = {r \in log : r.seq > verify.last},
         NEW F, F = First(T, BatchSize), NEW r \in F
  PROVE  Expected(F, r) = HeadHash(Before(log, r.seq))
<1>1. /\ F \subseteq T /\ T \subseteq log
      /\ \A s \in T : s.seq < r.seq => s \in F
  BY BatchFacts
<1>2. nextSeq \in Nat /\ \A s \in log : s.seq \in Nat /\ s.seq <= nextSeq
  BY LogFacts
<1>3. CASE Before(F, r.seq) = {}
  <2>1. Before(log, r.seq) = Passed
    <3>1. r.seq > verify.last /\ r \in log
      BY <1>1
    <3>2. \A s \in log : s.seq < r.seq => s.seq <= verify.last
      BY <1>1, <1>2, <1>3 DEF Before
    <3> QED
      BY <1>2, <3>1, <3>2 DEF Before, Passed
  <2> QED
    BY <1>3, <2>1 DEF Expected
<1>4. CASE Before(F, r.seq) # {}
  <2>1. PICK A, B : A = Before(F, r.seq) /\ B = Before(log, r.seq)
    OBVIOUS
  <2>2. A \subseteq B /\ A # {} /\ B \subseteq log
    BY <1>1, <1>4, <2>1 DEF Before
  <2>3. ASSUME NEW b \in B \ A, NEW a \in A
        PROVE  b.seq < a.seq
    <3>1. b \in log /\ b.seq < r.seq /\ b \notin F
      BY <2>1, <2>3 DEF Before
    <3>2. b.seq <= verify.last
      BY <1>1, <1>2, <3>1
    <3>3. a \in log /\ a.seq > verify.last
      BY <1>1, <2>1 DEF Before
    <3> QED
      BY <1>2, <3>1, <3>2, <3>3
  <2>4. \A s \in B : s.seq \in Nat /\ s.seq <= nextSeq
    BY <1>2, <2>2
  <2>5. \A s \in B, t \in B : s.seq = t.seq => s = t
    BY <2>2 DEF RowsInv
  <2>6. LastOf(A) = LastOf(B)
    BY <1>2, <2>2, <2>3, <2>4, <2>5, LastOfPart
  <2> QED
    BY <1>4, <2>1, <2>2, <2>6 DEF Expected, HeadHash
<1> QED
  BY <1>3, <1>4

\* The rows passed after a batch, and the hash of the last of them.
LEMMA PassedFacts ==
  ASSUME ChainInv, RowsInv, verify.last \in Nat,
         NEW T, T = {r \in log : r.seq > verify.last},
         NEW F, F = First(T, BatchSize), F # {}
  PROVE  /\ LastOf(F) \in F /\ LastOf(F) \in log /\ \A r \in F : r.seq <= LastOf(F).seq
         /\ HeadHash({r \in log : r.seq <= LastOf(F).seq}) = LastOf(F).hash
<1>1. F \subseteq T /\ T \subseteq log /\ \A r \in F, s \in T : s.seq < r.seq => s \in F
  BY BatchFacts
<1>2. nextSeq \in Nat /\ \A s \in log : s.seq \in Nat /\ s.seq <= nextSeq
  BY LogFacts
<1>3. PICK z : z = LastOf(F)
  OBVIOUS
<1>4. z \in F /\ z \in log /\ \A r \in F : r.seq <= z.seq
  <2>1. \A s \in F : s.seq \in Nat /\ s.seq <= nextSeq
    BY <1>1, <1>2
  <2> QED
    BY <1>1, <1>2, <1>3, <2>1, LastFacts
<1>5. PICK B : B = {r \in log : r.seq <= z.seq}
  OBVIOUS
<1>6. {z} \subseteq B /\ {z} # {} /\ \A b \in B \ {z}, a \in {z} : b.seq < a.seq
  BY <1>2, <1>4, <1>5 DEF RowsInv
<1>7. (\A s \in B : s.seq \in Nat /\ s.seq <= nextSeq) /\ \A s \in B, t \in B : s.seq = t.seq => s = t
  BY <1>2, <1>5 DEF RowsInv
<1>8. LastOf({z}) = LastOf(B) /\ LastOf({z}) \in {z}
  BY <1>2, <1>6, <1>7, LastOfPart
<1> QED
  BY <1>3, <1>4, <1>5, <1>6, <1>8 DEF HeadHash

\* What a transaction does to the rows.
LEMMA WriterRows ==
  ASSUME ChainInv, NEW w \in Writers, Step(w) \/ Rollback(w)
  PROVE  \/ UNCHANGED <<log, nextSeq, pend>>
         \/ /\ UNCHANGED log /\ nextSeq' = nextSeq + 1
            /\ pend' = [pend EXCEPT ![w] = @ \cup {Row(nextSeq, head[w], nextSeq)}]
         \/ /\ UNCHANGED nextSeq /\ log' \in {log, log \cup pend[w]}
            /\ pend' = [pend EXCEPT ![w] = {}]
BY DEF Step, Begin, TakeLock, ReadHead, Insert, Commit, Rollback, End

LEMMA WriterNumbers ==
  ASSUME ChainInv, RowsInv, NEW w \in Writers, Step(w) \/ Rollback(w)
  PROVE  RowsInv'
<1>1. /\ nextSeq \in Nat /\ DOMAIN pend = Writers
      /\ \A r \in log : r.seq \in Nat /\ r.seq < nextSeq
      /\ \A v \in Writers : \A r \in pend[v] : r.seq \in Nat /\ r.seq < nextSeq
      /\ \A v \in Writers : \A r \in pend[v], s \in log : s.seq < r.seq
  BY DEF ChainInv, TypeInv, IsRow, BehindInv
<1>2. CASE UNCHANGED <<log, nextSeq, pend>>
  BY <1>2 DEF RowsInv
<1>3. CASE /\ UNCHANGED log /\ nextSeq' = nextSeq + 1
           /\ pend' = [pend EXCEPT ![w] = @ \cup {Row(nextSeq, head[w], nextSeq)}]
  <2>1. PICK new : new = Row(nextSeq, head[w], nextSeq)
    OBVIOUS
  <2>2. new.seq = nextSeq
    BY <2>1 DEF Row
  <2>3. pend'[w] = pend[w] \cup {new} /\ \A v \in Writers \ {w} : pend'[v] = pend[v]
    BY <1>1, <1>3, <2>1
  <2>4. ASSUME NEW v \in Writers
        PROVE  IsFiniteSet(pend'[v])
    <3>1. IsFiniteSet(pend[v])
      BY DEF RowsInv
    <3>2. pend'[v] = pend[v] \/ pend'[v] = pend[v] \cup {new}
      BY <2>3
    <3> QED
      BY <3>1, <3>2, FS_AddElement
  <2>5. \A v \in Writers : \A r \in pend'[v], s \in pend'[v] : r.seq = s.seq => r = s
    BY <1>1, <2>2, <2>3 DEF RowsInv
  <2>6. \A v \in Writers : \A r \in pend'[v] : r.seq > 0
    BY <1>1, <2>2, <2>3 DEF RowsInv
  <2>7. nextSeq' > 0
    BY <1>1, <1>3 DEF RowsInv
  <2> QED
    BY <1>3, <2>4, <2>5, <2>6, <2>7 DEF RowsInv
<1>4. CASE /\ UNCHANGED nextSeq /\ log' \in {log, log \cup pend[w]}
           /\ pend' = [pend EXCEPT ![w] = {}]
  <2>1. \A v \in Writers : pend'[v] = {} \/ pend'[v] = pend[v]
    BY <1>1, <1>4
  <2>2. \A v \in Writers : IsFiniteSet(pend'[v])
    BY <2>1, FS_EmptySet DEF RowsInv
  <2>3. IsFiniteSet(log')
    <3>1. IsFiniteSet(log) /\ IsFiniteSet(pend[w])
      BY DEF RowsInv
    <3>2. IsFiniteSet(log \cup pend[w])
      BY <3>1, FS_Union
    <3> QED
      BY <1>4, <3>1, <3>2
  <2>4. \A r \in log', s \in log' : r.seq = s.seq => r = s
    BY <1>1, <1>4 DEF RowsInv
  <2>5. \A r \in log' : r.seq > 0
    BY <1>4 DEF RowsInv
  <2>6. nextSeq' > 0
    BY <1>4 DEF RowsInv
  <2>7. \A v \in Writers : /\ \A r \in pend'[v] : r.seq > 0
                           /\ \A r \in pend'[v], s \in pend'[v] : r.seq = s.seq => r = s
    BY <2>1 DEF RowsInv
  <2> QED
    BY <2>2, <2>3, <2>4, <2>5, <2>6, <2>7 DEF RowsInv
<1> QED
  BY <1>2, <1>3, <1>4, WriterRows

\* Rows that come later change nothing of what is before a row.
LEMMA DefectStays ==
  ASSUME ChainInv, NEW w \in Writers, Step(w) \/ Rollback(w), NEW d, Defect(d)
  PROVE  Defect(d)'
<1>1. log \subseteq log' /\ \A new \in log' \ log, old \in log : new.seq > old.seq
  BY WriterAppends
<1>2. log' \in {log, log \cup pend[w]} /\ d \in log
  BY WriterRows DEF Defect
<1>3. \A r \in log' \ log : ~(r.seq < d.seq)
  <2>1. \A r \in log \cup pend[w] : r.seq \in Nat
    BY DEF ChainInv, TypeInv, IsRow
  <2> QED
    BY <1>1, <1>2, <2>1
<1>4. Before(log', d.seq) = Before(log, d.seq)
  BY <1>1, <1>3 DEF Before
<1> QED
  BY <1>1, <1>2, <1>4 DEF Defect

LEMMA WriterTouches ==
  ASSUME ChainInv, TouchInv, NEW w \in Writers, Step(w) \/ Rollback(w), UNCHANGED forged
  PROVE  TouchInv'
<1>1. CASE forged
  <2>1. PICK d \in log : Defect(d)
    BY <1>1 DEF TouchInv
  <2>2. Defect(d)'
    BY <2>1, DefectStays
  <2>3. d \in log'
    BY <2>2 DEF Defect
  <2> QED
    BY <1>1, <2>2, <2>3 DEF TouchInv
<1>2. CASE ~forged
  <2>1. LinkInv'
    BY <1>2, StepLinks DEF TouchInv, Untouched, Next
  <2>2. \A r \in log' : r.body = r.seq
    BY <1>2, WriterRows DEF TouchInv, Untouched
  <2>3. \A v \in Writers : \A r \in pend'[v] : r.body = r.seq
    <3>1. Row(nextSeq, head[w], nextSeq).body = Row(nextSeq, head[w], nextSeq).seq
      BY DEF Row
    <3>2. DOMAIN pend = Writers
      BY DEF ChainInv, TypeInv
    <3> QED
      BY <1>2, <3>1, <3>2, WriterRows DEF TouchInv, Untouched
  <2> QED
    BY <1>2, <2>1, <2>2, <2>3 DEF TouchInv, Untouched
<1> QED
  BY <1>1, <1>2

LEMMA WriterWalks ==
  ASSUME ChainInv, WalkInv, NEW w \in Writers, Step(w) \/ Rollback(w), UNCHANGED <<forged, verify>>
  PROVE  WalkInv'
<1>1. nextSeq \in Nat /\ DOMAIN pend = Writers
  BY DEF ChainInv, TypeInv
<1>2. /\ verify.last \in Nat /\ verify.last < nextSeq
      /\ \A v \in Writers : \A r \in pend[v] : verify.last < r.seq /\ r.seq \in Nat
  BY DEF WalkInv, ChainInv, TypeInv, IsRow
<1>3. verify.last < nextSeq' /\ \A v \in Writers : \A r \in pend'[v] : verify.last < r.seq
  <2>1. Row(nextSeq, head[w], nextSeq).seq = nextSeq
    BY DEF Row
  <2> QED
    BY <1>1, <1>2, <2>1, WriterRows
<1>4. Passed' = Passed
  <2>1. \A r \in pend[w] : ~(r.seq <= verify.last)
    BY <1>2
  <2> QED
    BY <2>1, WriterRows DEF Passed
<1>5. ASSUME NEW d \in log, Defect(d)
      PROVE  d \in log' /\ Defect(d)'
  BY <1>5, DefectStays, WriterAppends
<1>6. verify.at = "walk" /\ verify.late => \E d \in log' : Defect(d)' /\ d.seq > verify.last
  BY <1>5 DEF WalkInv
<1> QED
  BY <1>2, <1>3, <1>4, <1>6 DEF WalkInv

\* An edited row no longer has its hash, a deleted row is missed by the next one.
LEMMA ForgeLeavesDefect ==
  ASSUME ChainInv, RowsInv, TouchInv, Forge
  PROVE  \E d \in log' : Defect(d)'
<1>1. /\ Linked(log) /\ \A r \in log : r.body = r.seq
  BY DEF TouchInv, Untouched, LinkInv, Forge
<1>2. nextSeq \in Nat /\ \A r \in log : r.seq \in Nat /\ r.seq <= nextSeq /\ r.seq > 0
  BY LogFacts DEF RowsInv
<1>3. PICK r \in log : \/ log' = (log \ {r}) \cup {[r EXCEPT !.body = 0]}
                       \/ r # LastOf(log) /\ log' = log \ {r}
  BY DEF Forge
<1>4. CASE log' = (log \ {r}) \cup {[r EXCEPT !.body = 0]}
  <2>1. PICK d : d = [r EXCEPT !.body = 0]
    OBVIOUS
  <2>2. r = [seq |-> r.seq, prev |-> r.prev, body |-> r.body, hash |-> r.hash]
    BY DEF ChainInv, TypeInv, IsRow
  <2>3. d.body = 0 /\ d.hash = r.hash /\ d.prev = r.prev
    BY <2>1, <2>2
  <2>4. r.hash = <<r.prev, r.body>> /\ r.body # 0
    BY <1>1, <1>2 DEF Linked, RowHash
  <2>5. d.hash # RowHash(d.prev, d.body)
    BY <2>3, <2>4 DEF RowHash
  <2> QED
    BY <1>4, <2>1, <2>5 DEF Defect
<1>5. CASE r # LastOf(log) /\ log' = log \ {r}
  <2>1. PICK z \in log : z.seq > r.seq
    <3>1. LastOf(log) \in log /\ r.seq <= LastOf(log).seq
      BY <1>2, LastFacts
    <3> QED
      BY <1>2, <1>5, <3>1 DEF RowsInv
  <2>2. PICK d \in log : d.seq > r.seq /\ \A s \in log : s.seq > r.seq => d.seq <= s.seq
    <3> DEFINE U == {s.seq : s \in {t \in log : t.seq > r.seq}}
    <3>1. U \subseteq Nat /\ U # {}
      BY <1>2, <2>1
    <3>2. PICK u \in U : \A v \in U : <<v, u>> \notin OpToRel(<, Nat)
      BY <3>1, NatLessThanWellFounded, WFMin
    <3>3. \A v \in U : ~(v < u)
      BY <3>1, <3>2 DEF OpToRel
    <3>4. PICK d \in log : d.seq > r.seq /\ u = d.seq
      OBVIOUS
    <3>5. \A s \in log : s.seq > r.seq => ~(s.seq < d.seq)
      BY <3>3, <3>4
    <3> QED
      BY <1>2, <3>4, <3>5
  <2>3. PICK B : B = Before(log, d.seq)
    OBVIOUS
  <2>4. B \subseteq log /\ r \in B /\ \A s \in B \ {r} : s.seq < r.seq
    <3>1. \A s \in B : s \in log /\ s.seq < d.seq /\ ~(s.seq > r.seq)
      BY <1>2, <2>2, <2>3 DEF Before
    <3>2. r \in B
      BY <1>2, <2>2, <2>3 DEF Before
    <3> QED
      BY <1>2, <3>1, <3>2 DEF RowsInv
  <2>5. LastOf(B) = r
    <3>1. {r} \subseteq B /\ {r} # {} /\ \A b \in B \ {r}, a \in {r} : b.seq < a.seq
      BY <2>4
    <3>2. (\A s \in B : s.seq \in Nat /\ s.seq <= nextSeq) /\ \A s \in B, t \in B : s.seq = t.seq => s = t
      BY <1>2, <2>4 DEF RowsInv
    <3>3. LastOf({r}) = LastOf(B) /\ LastOf({r}) \in {r}
      BY <1>2, <3>1, <3>2, LastOfPart
    <3> QED
      BY <3>3
  <2>6. d.prev = r.hash
    BY <1>1, <2>3, <2>4, <2>5 DEF Linked, HeadHash
  <2>7. PICK A : A = Before(log', d.seq)
    OBVIOUS
  <2>8. A = B \ {r}
    BY <1>5, <2>3, <2>7 DEF Before
  <2>9. HeadHash(A) # r.hash
    <3>1. r.hash = <<r.prev, r.seq>>
      BY <1>1 DEF Linked, RowHash
    <3>2. CASE A = {}
      BY <3>1, <3>2 DEF HeadHash, Genesis
    <3>3. CASE A # {}
      <4>1. LastOf(A) \in A
        <5>1. \A s \in A : s.seq \in Nat /\ s.seq <= nextSeq
          BY <1>2, <2>4, <2>8
        <5> QED
          BY <1>2, <3>3, <5>1, LastFacts
      <4>2. PICK p \in A : p = LastOf(A)
        BY <4>1
      <4>3. p.hash = <<p.prev, p.seq>> /\ p.seq < r.seq /\ p.seq \in Nat /\ r.seq \in Nat
        BY <1>1, <1>2, <2>4, <2>8 DEF Linked, RowHash
      <4>4. p.hash # r.hash
        BY <3>1, <4>3
      <4> QED
        BY <3>3, <4>2, <4>4 DEF HeadHash
    <3> QED
      BY <3>2, <3>3
  <2>10. d \in log'
    BY <1>2, <1>5, <2>2
  <2> QED
    BY <2>6, <2>7, <2>9, <2>10 DEF Defect
<1> QED
  BY <1>3, <1>4, <1>5

LEMMA ForgeTouches ==
  ASSUME VerdictInv, Forge
  PROVE  RowsInv' /\ TouchInv' /\ WalkInv' /\ VerdictIsRight'
<1>1. /\ ChainInv /\ RowsInv /\ TouchInv /\ WalkInv /\ VerdictIsRight /\ ~forged /\ forged'
      /\ UNCHANGED <<nextSeq, pend, verify>>
  BY DEF VerdictInv, Forge, writerVars
<1>2. TouchInv'
  BY <1>1, ForgeLeavesDefect DEF TouchInv
<1>3. RowsInv'
  <2>1. PICK r \in log : \/ log' = (log \ {r}) \cup {[r EXCEPT !.body = 0]} \/ log' = log \ {r}
    BY DEF Forge
  <2>2. PICK e : e = [r EXCEPT !.body = 0]
    OBVIOUS
  <2>3. r = [seq |-> r.seq, prev |-> r.prev, body |-> r.body, hash |-> r.hash]
    BY <1>1 DEF ChainInv, TypeInv, IsRow
  <2>4. e.seq = r.seq
    BY <2>2, <2>3
  <2>5. IsFiniteSet(log')
    <3>1. IsFiniteSet(log \ {r})
      BY <1>1, FS_Subset DEF RowsInv
    <3> QED
      BY <2>1, <3>1, FS_AddElement
  <2>6. \A s \in log', t \in log' : s.seq = t.seq => s = t
    BY <1>1, <2>1, <2>2, <2>4 DEF RowsInv
  <2>7. \A s \in log' : s.seq > 0
    BY <1>1, <2>1, <2>2, <2>4 DEF RowsInv
  <2> QED
    BY <1>1, <2>5, <2>6, <2>7 DEF RowsInv
<1>4. WalkInv'
  BY <1>1 DEF WalkInv
<1>5. VerdictIsRight'
  BY <1>1 DEF VerdictIsRight
<1> QED
  BY <1>2, <1>3, <1>4, <1>5

LEMMA StartVerifies ==
  ASSUME VerdictInv, StartVerify
  PROVE  RowsInv' /\ TouchInv' /\ WalkInv' /\ VerdictIsRight'
<1>1. /\ RowsInv /\ TouchInv /\ WalkInv /\ ChainInv
      /\ UNCHANGED <<log, nextSeq, pend, pc, head, forged>>
  BY DEF VerdictInv, StartVerify, chainVars, writerVars
<1>2. /\ verify.at = "idle" /\ verify'.at = "walk" /\ verify'.late = forged
      /\ verify'.prev = verify.prev /\ verify'.last = verify.last
      /\ verify' = [at |-> verify'.at, prev |-> verify'.prev, last |-> verify'.last,
                    late |-> verify'.late]
  BY <1>1 DEF StartVerify, WalkInv
<1>3. RowsInv'
  BY <1>1 DEF RowsInv
<1>4. \A d : Defect(d)' <=> Defect(d)
  BY <1>1 DEF Defect, Before, HeadHash
<1>5. TouchInv'
  BY <1>1, <1>4 DEF TouchInv, Untouched, LinkInv
<1>6. verify.last = 0 /\ verify.prev = Genesis
  BY <1>1, <1>2 DEF WalkInv
<1>7. Passed' = {}
  <2>1. \A r \in log : ~(r.seq <= 0)
    BY <1>1, LogFacts DEF RowsInv
  <2> QED
    BY <1>1, <1>2, <1>6, <2>1 DEF Passed
<1>8. forged => \E d \in log : Defect(d) /\ d.seq > 0
  BY <1>1 DEF TouchInv, RowsInv, Defect
<1>9. forged \in BOOLEAN
  BY DEF VerdictInv
<1>10. WalkInv'
  BY <1>1, <1>2, <1>4, <1>6, <1>7, <1>8, <1>9 DEF WalkInv, HeadHash
<1>11. VerdictIsRight'
  BY <1>2 DEF VerdictIsRight
<1> QED
  BY <1>3, <1>5, <1>10, <1>11

LEMMA BatchVerifies ==
  ASSUME VerdictInv, VerifyBatch
  PROVE  RowsInv' /\ TouchInv' /\ WalkInv' /\ VerdictIsRight'
<1>1. /\ RowsInv /\ TouchInv /\ WalkInv /\ ChainInv /\ verify.at = "walk"
      /\ UNCHANGED <<log, nextSeq, pend, pc, head, forged>>
  BY DEF VerdictInv, VerifyBatch, chainVars, writerVars
<1>2. PICK T, F : T = {r \in log : r.seq > verify.last} /\ F = First(T, BatchSize)
  OBVIOUS
<1>3. verify' = IF F = {} THEN [verify EXCEPT !.at = "ok"]
                ELSE IF Bad(F) # {} THEN [verify EXCEPT !.at = "bad"]
                ELSE [verify EXCEPT !.prev = LastOf(F).hash, !.last = LastOf(F).seq]
  BY <1>2 DEF VerifyBatch
<1>4. /\ verify = [at |-> verify.at, prev |-> verify.prev, last |-> verify.last, late |-> verify.late]
      /\ verify.last \in Nat /\ verify.late \in BOOLEAN /\ (verify.late => forged)
      /\ verify.late \/ ~forged => verify.prev = HeadHash(Passed)
      /\ verify.late => \E d \in log : Defect(d) /\ d.seq > verify.last
  BY <1>1 DEF WalkInv
<1>5. /\ F \subseteq T /\ (T # {} => F # {}) /\ T \subseteq log
      /\ \A r \in F, s \in T : s.seq < r.seq => s \in F
  BY <1>1, <1>2, <1>4, BatchFacts
<1>6. verify.late \/ ~forged => \A r \in F : Expected(F, r) = HeadHash(Before(log, r.seq))
  BY <1>1, <1>2, <1>4, ExpectedFacts
<1>7. RowsInv'
  BY <1>1 DEF RowsInv
<1>8. \A d : Defect(d)' <=> Defect(d)
  BY <1>1 DEF Defect, Before, HeadHash
<1>9. TouchInv'
  BY <1>1, <1>8 DEF TouchInv, Untouched, LinkInv
<1>10. CASE F = {}
  <2>1. verify' = [verify EXCEPT !.at = "ok"] /\ ~verify.late
    BY <1>2, <1>3, <1>4, <1>5, <1>10
  <2>2. verify'.at = "ok" /\ verify'.last = verify.last /\ ~verify'.late
        /\ verify' = [at |-> verify'.at, prev |-> verify'.prev, last |-> verify'.last,
                      late |-> verify'.late] /\ verify'.late \in BOOLEAN
    BY <1>4, <2>1
  <2>3. WalkInv'
    BY <1>1, <2>2 DEF WalkInv
  <2> QED
    BY <1>7, <1>9, <2>2, <2>3 DEF VerdictIsRight
<1>11. CASE F # {} /\ Bad(F) # {}
  <2>1. verify' = [verify EXCEPT !.at = "bad"]
    BY <1>3, <1>11
  <2>2. verify'.at = "bad" /\ verify'.last = verify.last /\ verify'.late = verify.late
        /\ verify' = [at |-> verify'.at, prev |-> verify'.prev, last |-> verify'.last,
                      late |-> verify'.late]
    BY <1>4, <2>1
  <2>3. WalkInv'
    BY <1>1, <2>2 DEF WalkInv
  <2>4. ASSUME ~forged
        PROVE  FALSE
    <3>1. PICK r \in F : r.prev # Expected(F, r) \/ r.hash # RowHash(r.prev, r.body)
      BY <1>11 DEF Bad
    <3>2. Linked(log)
      BY <1>1, <2>4 DEF TouchInv, Untouched, LinkInv
    <3>3. r.prev = HeadHash(Before(log, r.seq)) /\ r.hash = RowHash(r.prev, r.body)
      BY <1>5, <3>2 DEF Linked
    <3> QED
      BY <1>6, <2>4, <3>1, <3>3
  <2> QED
    BY <1>1, <1>7, <1>9, <2>2, <2>3, <2>4 DEF VerdictIsRight
<1>12. CASE F # {} /\ Bad(F) = {}
  <2>1. PICK z : z = LastOf(F)
    OBVIOUS
  <2>2. /\ z \in F /\ z \in log /\ \A r \in F : r.seq <= z.seq
        /\ HeadHash({r \in log : r.seq <= z.seq}) = z.hash
    BY <1>1, <1>2, <1>4, <1>12, <2>1, PassedFacts
  <2>3. verify' = [verify EXCEPT !.prev = z.hash, !.last = z.seq]
    BY <1>3, <1>12, <2>1
  <2>4. /\ verify'.at = "walk" /\ verify'.prev = z.hash /\ verify'.last = z.seq
        /\ verify'.late = verify.late
        /\ verify' = [at |-> verify'.at, prev |-> verify'.prev, last |-> verify'.last,
                      late |-> verify'.late]
    BY <1>1, <1>4, <2>3
  <2>5. Passed' = {r \in log : r.seq <= z.seq}
    BY <1>1, <2>4 DEF Passed
  <2>6. z.seq \in Nat /\ z.seq < nextSeq /\ \A w \in Writers : \A r \in pend[w] : z.seq < r.seq
    BY <1>1, <2>2 DEF ChainInv, TypeInv, IsRow, BehindInv
  <2>7. ASSUME verify.late
        PROVE  \E d \in log : Defect(d) /\ d.seq > z.seq
    <3>1. PICK d \in log : Defect(d) /\ d.seq > verify.last
      BY <1>4, <2>7
    <3>2. d \notin F
      <4>1. d \in F => d \in Bad(F)
        BY <1>6, <2>7, <3>1 DEF Bad, Defect
      <4> QED
        BY <1>12, <4>1
    <3>3. d \in T /\ ~(d.seq < z.seq) /\ d.seq # z.seq
      BY <1>1, <1>2, <1>5, <2>2, <3>1, <3>2 DEF RowsInv
    <3>4. d.seq \in Nat
      BY <1>1, <3>1, LogFacts
    <3> QED
      BY <2>6, <3>1, <3>3, <3>4
  <2>8. WalkInv'
    BY <1>1, <1>4, <1>8, <2>2, <2>4, <2>5, <2>6, <2>7 DEF WalkInv, HeadHash
  <2>9. VerdictIsRight'
    BY <2>4 DEF VerdictIsRight
  <2> QED
    BY <1>7, <1>9, <2>8, <2>9
<1> QED
  BY <1>10, <1>11, <1>12

LEMMA VerdictStep == VerdictInv /\ [ReadersNext]_vars => VerdictInv'
<1> SUFFICES ASSUME VerdictInv, [ReadersNext]_vars
             PROVE  VerdictInv'
  OBVIOUS
<1>1. ChainInv' /\ ChainInv /\ RowsInv /\ TouchInv /\ WalkInv /\ VerdictIsRight
  BY ReadersKeep DEF VerdictInv
<1>2. forged \in BOOLEAN /\ forged' \in BOOLEAN
  BY DEF VerdictInv, ReadersNext, Chain, StartVerify, VerifyBatch, NextPage, Forge, readerVars, vars
<1>3. CASE \E w \in Writers : Chain(Step(w)) \/ Chain(Rollback(w))
  <2>1. PICK w \in Writers : Step(w) \/ Rollback(w)
    BY <1>3 DEF Chain
  <2>2. UNCHANGED <<verify, forged>>
    BY <1>3 DEF Chain, readerVars
  <2>3. RowsInv' /\ TouchInv' /\ WalkInv'
    BY <1>1, <2>1, <2>2, WriterNumbers, WriterTouches, WriterWalks
  <2> QED
    BY <1>1, <1>2, <2>2, <2>3 DEF VerdictInv, VerdictIsRight
<1>4. CASE UNCHANGED <<chainVars, verify, forged>>
  <2>1. UNCHANGED <<log, nextSeq, pend, pc, head, verify, forged>>
    BY <1>4 DEF chainVars, writerVars
  <2>2. \A d : Defect(d)' <=> Defect(d)
    BY <2>1 DEF Defect, Before, HeadHash
  <2>3. RowsInv' /\ VerdictIsRight'
    BY <1>1, <2>1 DEF RowsInv, VerdictIsRight
  <2>4. TouchInv'
    BY <1>1, <2>1, <2>2 DEF TouchInv, Untouched, LinkInv
  <2>5. WalkInv'
    BY <1>1, <2>1, <2>2 DEF WalkInv, Passed
  <2> QED
    BY <1>1, <1>2, <2>3, <2>4, <2>5 DEF VerdictInv
<1>5. CASE Forge
  BY <1>1, <1>2, <1>5, ForgeTouches DEF VerdictInv
<1>6. CASE StartVerify
  BY <1>1, <1>2, <1>6, StartVerifies DEF VerdictInv
<1>7. CASE VerifyBatch
  BY <1>1, <1>2, <1>7, BatchVerifies DEF VerdictInv
<1>8. CASE NextPage \/ UNCHANGED vars
  BY <1>4, <1>8 DEF NextPage, vars, readerVars
<1> QED
  BY <1>3, <1>5, <1>6, <1>7, <1>8 DEF ReadersNext

LEMMA VerdictInit == ReadersInit => VerdictInv
<1> SUFFICES ASSUME ReadersInit
             PROVE  VerdictInv
  OBVIOUS
<1>1. /\ log = {} /\ nextSeq = 1 /\ pend = [w \in Writers |-> {}] /\ ~forged /\ forged \in BOOLEAN
      /\ pc = [w \in Writers |-> "idle"]
      /\ verify = [at |-> "idle", prev |-> Genesis, last |-> 0, late |-> FALSE]
  BY DEF ReadersInit, Init
<1>2. ChainInv
  BY InitChain DEF ReadersInit
<1>3. RowsInv
  BY <1>1, FS_EmptySet DEF RowsInv
<1>4. TouchInv
  BY <1>1 DEF TouchInv, Untouched, LinkInv, Linked
<1>5. WalkInv /\ VerdictIsRight
  BY <1>1 DEF WalkInv, VerdictIsRight
<1> QED
  BY <1>1, <1>2, <1>3, <1>4, <1>5 DEF VerdictInv

\* VerdictIsRight: for any writers that commit between the batches of verify_chain
\* and any batch size, it raises no alarm over an untouched log and finds the row
\* that was edited or deleted before it began.
THEOREM VerificationIsRight == ReadersSpec => []VerdictIsRight
<1>1. VerdictInv => VerdictIsRight
  BY DEF VerdictInv
<1> QED
  BY VerdictInit, VerdictStep, <1>1, PTL DEF ReadersSpec

-----------------------------------------------------------------------------
(* The pages of the audit view.  A row of a finite set has a rank, the       *)
(* number of rows from the newest down to it; it is the place of the row in  *)
(* the set sorted newest first.                                              *)

Numbered(T) ==
  /\ IsFiniteSet(T) /\ \A r \in T : r.seq \in Nat
  /\ \A r \in T, s \in T : r.seq = s.seq => r = s
AtLeast(T, r) == {s \in T : s.seq >= r.seq}
Rank(T, r) == Cardinality(AtLeast(T, r))

Falling(f) == \A i \in DOMAIN f, j \in DOMAIN f : i < j => f[i].seq > f[j].seq
In(r, f) == \E i \in DOMAIN f : f[i] = r
Covers(f, T) == \A r \in T : In(r, f)

LEMMA RankFacts ==
  ASSUME NEW T, Numbered(T), NEW r \in T
  PROVE  /\ Rank(T, r) \in 1..Cardinality(T) /\ Cardinality(T) \in Nat
         /\ \A s \in T : r.seq < s.seq => Rank(T, s) < Rank(T, r)
<1>1. \A s : AtLeast(T, s) \subseteq T
  BY DEF AtLeast
<1>2. IsFiniteSet(T) /\ Cardinality(T) \in Nat
  BY FS_CardinalityType DEF Numbered
<1>3. \A s : IsFiniteSet(AtLeast(T, s)) /\ Rank(T, s) \in Nat /\ Rank(T, s) <= Cardinality(T)
  BY <1>1, <1>2, FS_Subset, FS_CardinalityType DEF Rank
<1>4. \A s \in T : s \in AtLeast(T, s)
  BY DEF AtLeast, Numbered
<1>5. Rank(T, r) # 0
  BY <1>3, <1>4, FS_EmptySet DEF Rank
<1>6. ASSUME NEW s \in T, r.seq < s.seq
      PROVE  Rank(T, s) < Rank(T, r)
  <2>1. AtLeast(T, s) \subseteq AtLeast(T, r) /\ r \notin AtLeast(T, s)
    BY <1>6 DEF AtLeast, Numbered
  <2>2. /\ Cardinality(AtLeast(T, s)) <= Cardinality(AtLeast(T, r))
        /\ Cardinality(AtLeast(T, r)) = Cardinality(AtLeast(T, s)) =>
             AtLeast(T, r) = AtLeast(T, s)
    BY <1>3, <2>1, FS_Subset
  <2> QED
    BY <1>3, <1>4, <2>1, <2>2 DEF Rank
<1> QED
  BY <1>2, <1>3, <1>5, <1>6

LEMMA RankTells ==
  ASSUME NEW T, Numbered(T), NEW r \in T, NEW s \in T, Rank(T, r) = Rank(T, s)
  PROVE  r = s
<1>1. Rank(T, r) \in Nat /\ Rank(T, s) \in Nat
  BY RankFacts
<1>2. ~(r.seq < s.seq) /\ ~(s.seq < r.seq)
  BY <1>1, RankFacts
<1> QED
  BY <1>2 DEF Numbered

\* A falling enumeration of a set has each row at its rank.
LEMMA RankOfPlace ==
  ASSUME NEW T, Numbered(T), NEW n \in Nat, NEW f \in [1..n -> T], Falling(f), Covers(f, T),
         NEW i \in 1..n
  PROVE  Rank(T, f[i]) = i
<1>1. PICK A : A = AtLeast(T, f[i])
  OBVIOUS
<1>2. PICK g : g = [j \in 1..i |-> f[j]]
  OBVIOUS
<1>3. \A j \in 1..n : f[j] \in T /\ f[j].seq \in Nat
  BY DEF Numbered
<1>4. \A j, k \in 1..n : j < k => f[j].seq > f[k].seq
  BY DEF Falling
<1>5. g \in [1..i -> A]
  <2>1. \A j \in 1..i : j \in 1..n /\ f[j].seq >= f[i].seq
    BY <1>3, <1>4
  <2> QED
    BY <1>1, <1>2, <1>3, <2>1 DEF AtLeast
<1>6. \A j, k \in 1..i : g[j] = g[k] => j = k
  BY <1>2, <1>3, <1>4
<1>7. \A r \in A : \E j \in 1..i : g[j] = r
  <2> SUFFICES ASSUME NEW r \in A
               PROVE  \E j \in 1..i : g[j] = r
    OBVIOUS
  <2>1. r \in T /\ r.seq >= f[i].seq
    BY <1>1 DEF AtLeast
  <2>2. PICK j \in 1..n : f[j] = r
    BY <2>1 DEF Covers, In
  <2>3. ~(i < j)
    BY <1>3, <1>4, <2>1, <2>2
  <2> QED
    BY <1>2, <2>2, <2>3
<1>8. g \in Bijection(1..i, A)
  BY <1>5, <1>6, <1>7 DEF Bijection, Injection, Surjection, IsInjective
<1>9. IsFiniteSet(1..i) /\ Cardinality(1..i) = i
  BY FS_Interval
<1> QED
  BY <1>1, <1>8, <1>9, FS_Bijection DEF ExistsBijection, Rank

\* ORDER BY seq DESC has one answer.
LEMMA DescendingFacts ==
  ASSUME NEW T, Numbered(T)
  PROVE  /\ Cardinality(T) \in Nat /\ Descending(T) \in [1..Cardinality(T) -> T]
         /\ Falling(Descending(T)) /\ Covers(Descending(T), T)
<1>1. PICK n \in Nat : n = Cardinality(T)
  BY FS_CardinalityType DEF Numbered
<1>2. IsFiniteSet(1..n) /\ Cardinality(1..n) = n
  BY FS_Interval
<1>3. PICK rank : rank = [r \in T |-> Rank(T, r)]
  OBVIOUS
<1>4. rank \in Surjection(T, 1..n)
  <2>1. rank \in Injection(T, 1..n)
    BY <1>1, <1>3, RankFacts, RankTells DEF Injection, IsInjective
  <2> QED
    BY <1>1, <1>2, <2>1, FS_Injection
<1>5. \A i \in 1..n : \E r \in T : Rank(T, r) = i
  BY <1>3, <1>4 DEF Surjection
<1>6. PICK g : g = [i \in 1..n |-> CHOOSE r \in T : Rank(T, r) = i]
  OBVIOUS
<1>7. \A i \in 1..n : g[i] \in T /\ Rank(T, g[i]) = i
  BY <1>5, <1>6
<1>8. \A i, j \in 1..n : i < j => g[i].seq > g[j].seq
  <2> SUFFICES ASSUME NEW i \in 1..n, NEW j \in 1..n, i < j, ~(g[i].seq > g[j].seq)
               PROVE  FALSE
    OBVIOUS
  <2>1. g[i].seq \in Nat /\ g[j].seq \in Nat
    BY <1>7 DEF Numbered
  <2>2. g[i].seq < g[j].seq \/ g[i] = g[j]
    BY <1>7, <2>1 DEF Numbered
  <2> QED
    BY <1>7, <2>2, RankFacts
<1>9. g \in [1..n -> T]
  BY <1>6, <1>7
<1>10. PICK d : d = Descending(T)
  OBVIOUS
<1>11. d \in [1..n -> T] /\ \A i, j \in 1..n : i < j => d[i].seq > d[j].seq
  BY <1>1, <1>8, <1>9, <1>10 DEF Descending
<1>12. Covers(d, T)
  <2>1. \A i, j \in 1..n : d[i] = d[j] => i = j
    <3>1. \A i \in 1..n : d[i].seq \in Nat
      BY <1>11 DEF Numbered
    <3> QED
      BY <1>11, <3>1
  <2>2. d \in Injection(1..n, T)
    BY <1>11, <2>1 DEF Injection, IsInjective
  <2>3. d \in Surjection(1..n, T)
    BY <1>1, <1>2, <2>2, FS_Injection DEF Numbered
  <2> QED
    BY <1>11, <2>3 DEF Surjection, Covers, In
<1> QED
  BY <1>1, <1>10, <1>11, <1>12 DEF Falling

LEMMA FallingIsDescending ==
  ASSUME NEW T, Numbered(T), NEW n \in Nat, NEW f \in [1..n -> T], Falling(f), Covers(f, T)
  PROVE  f = Descending(T)
<1>1. PICK d, m : d = Descending(T) /\ m = Cardinality(T)
  OBVIOUS
<1>2. m \in Nat /\ d \in [1..m -> T] /\ Falling(d) /\ Covers(d, T)
  BY <1>1, DescendingFacts
<1>3. \A i \in 1..n : Rank(T, f[i]) = i /\ f[i] \in T
  BY RankOfPlace
<1>4. \A i \in 1..m : Rank(T, d[i]) = i /\ d[i] \in T
  BY <1>2, RankOfPlace
<1>5. n = m
  <2>1. \A i \in 1..n : i \in 1..m
    BY <1>1, <1>3, RankFacts
  <2>2. \A i \in 1..m : i \in 1..n
    <3> SUFFICES ASSUME NEW i \in 1..m
                 PROVE  i \in 1..n
      OBVIOUS
    <3>1. PICK j \in 1..n : f[j] = d[i]
      BY <1>4 DEF Covers, In
    <3> QED
      BY <1>3, <1>4, <3>1
  <2> QED
    BY <1>2, <2>1, <2>2
<1>6. \A i \in 1..n : f[i] = d[i]
  BY <1>3, <1>4, <1>5, RankTells
<1> QED
  BY <1>1, <1>2, <1>5, <1>6

\* What a query for the newest n rows finds.
LEMMA NewestFacts ==
  ASSUME NEW T, Numbered(T), NEW n \in Nat, NEW F, F = Newest(T, n)
  PROVE  /\ F \subseteq T /\ Numbered(F)
         /\ \A r \in F, s \in T : s.seq > r.seq => s \in F
         /\ Cardinality(F) < n => F = T
         /\ Cardinality(T) <= n => F = T
<1>1. F \subseteq T
  BY DEF Newest
<1>2. Numbered(F) /\ IsFiniteSet(F) /\ IsFiniteSet(T)
  BY <1>1, FS_Subset DEF Numbered
<1>3. \A k : IsFiniteSet({s \in T : s.seq > k}) /\ Cardinality({s \in T : s.seq > k}) \in Nat
  <2>1. \A k : {s \in T : s.seq > k} \subseteq T
    OBVIOUS
  <2> QED
    BY <1>2, <2>1, FS_Subset, FS_CardinalityType
<1>4. ASSUME NEW r \in F, NEW s \in T, s.seq > r.seq
      PROVE  s \in F
  <2>1. {t \in T : t.seq > s.seq} \subseteq {t \in T : t.seq > r.seq}
    BY <1>1, <1>4 DEF Numbered
  <2>2. Cardinality({t \in T : t.seq > s.seq}) <= Cardinality({t \in T : t.seq > r.seq})
    BY <1>3, <2>1, FS_Subset
  <2>3. Cardinality({t \in T : t.seq > r.seq}) < n
    BY <1>4 DEF Newest
  <2>4. PICK A, B : A = {t \in T : t.seq > s.seq} /\ B = {t \in T : t.seq > r.seq}
    OBVIOUS
  <2>5. Cardinality(A) \in Nat /\ Cardinality(B) \in Nat
    BY <1>3, <2>4
  <2>6. Cardinality(A) < n
    BY <2>2, <2>3, <2>4, <2>5
  <2> QED
    BY <1>4, <2>4, <2>6 DEF Newest
<1>5. ASSUME Cardinality(F) < n \/ Cardinality(T) <= n, F # T
      PROVE  FALSE
  <2>1. PICK r \in T \ F : \A s \in T \ F : ~(s.seq > r.seq)
    <3>1. Numbered(T \ F) /\ T \ F # {}
      BY <1>1, <1>2, <1>5, FS_Subset DEF Numbered
    <3>2. PICK d, m : d = Descending(T \ F) /\ m = Cardinality(T \ F)
      OBVIOUS
    <3>3. m \in Nat /\ d \in [1..m -> T \ F] /\ Falling(d) /\ Covers(d, T \ F)
      BY <3>1, <3>2, DescendingFacts
    <3>4. 1 \in 1..m
      BY <3>1, <3>3 DEF Covers, In
    <3>5. \A s \in T \ F : ~(s.seq > d[1].seq)
      <4> SUFFICES ASSUME NEW s \in T \ F
                   PROVE  ~(s.seq > d[1].seq)
        OBVIOUS
      <4>1. PICK i \in 1..m : d[i] = s
        BY <3>3 DEF Covers, In
      <4>2. i = 1 \/ d[1].seq > d[i].seq
        BY <3>3, <3>4, <4>1 DEF Falling
      <4> QED
        BY <3>1, <3>3, <3>4, <4>1, <4>2 DEF Numbered
    <3> QED
      BY <3>3, <3>4, <3>5
  <2>2. PICK A : A = {t \in T : t.seq > r.seq}
    OBVIOUS
  <2>3. A \subseteq F /\ r \notin A /\ A \subseteq T
    BY <2>1, <2>2 DEF Numbered
  <2>4. Cardinality(A) <= Cardinality(F) /\ IsFiniteSet(A) /\ Cardinality(A) \in Nat
    BY <1>2, <1>3, <2>2, <2>3, FS_Subset
  <2>5. Cardinality(A) < Cardinality(T) /\ Cardinality(T) \in Nat /\ Cardinality(F) \in Nat
    <3>1. /\ Cardinality(A) <= Cardinality(T)
          /\ Cardinality(T) = Cardinality(A) => T = A
      BY <1>2, <2>3, FS_Subset
    <3>2. Cardinality(T) \in Nat /\ Cardinality(F) \in Nat
      BY <1>2, FS_CardinalityType
    <3> QED
      BY <2>1, <2>3, <2>4, <3>1, <3>2
  <2>6. Cardinality(A) < n
    BY <1>5, <2>4, <2>5
  <2> QED
    BY <2>1, <2>2, <2>6 DEF Newest
<1> QED
  BY <1>1, <1>2, <1>4, <1>5

\* The rows of W that come after the rows of s, when these are its newest.
Upper(s, W) == \A i \in DOMAIN s, r \in W : r.seq > s[i].seq => In(r, s)
After(s, W) == IF s = <<>> THEN W ELSE Before(W, s[Len(s)].seq)

\* One more page.
LEMMA PageFits ==
  ASSUME NEW W, Numbered(W), NEW s \in Seq(W), Falling(s), Upper(s, W),
         NEW found, found = Newest(After(s, W), PageSize + 1),
         NEW page, page = Newest(found, PageSize),
         NEW t, t = s \o Descending(page)
  PROVE  /\ t \in Seq(W) /\ Falling(t) /\ Upper(t, W)
         /\ Cardinality(found) > PageSize => t # <<>>
         /\ ~(Cardinality(found) > PageSize) => Covers(t, W)
<1>1. PICK k, O, d, n : k = Len(s) /\ O = After(s, W) /\ d = Descending(page) /\ n = Cardinality(page)
  OBVIOUS
<1>2. k \in Nat /\ DOMAIN s = 1..k /\ \A i \in 1..k : s[i] \in W /\ s[i].seq \in Nat
  BY <1>1 DEF Numbered
<1>3. PageSize \in Nat /\ PageSize > 0
  BY SizeAssumption
<1>4. O \subseteq W /\ \A i \in 1..k, r \in O : s[i].seq > r.seq
  <2>1. CASE s = <<>>
    BY <1>1, <1>2, <2>1 DEF After
  <2>2. CASE s # <<>>
    <3>1. k \in 1..k /\ O = {r \in W : r.seq < s[k].seq}
      BY <1>1, <1>2, <2>2 DEF After, Before
    <3>2. ASSUME NEW i \in 1..k
          PROVE  s[i].seq >= s[k].seq
      <4>1. CASE i = k
        BY <1>2, <4>1
      <4>2. CASE i # k
        <5>1. i < k
          BY <1>2, <4>2
        <5>2. s[i].seq > s[k].seq
          BY <1>2, <3>1, <5>1 DEF Falling
        <5> QED
          BY <1>2, <3>1, <5>2
      <4> QED
        BY <4>1, <4>2
    <3> QED
      BY <1>2, <3>1, <3>2 DEF Numbered
  <2> QED
    BY <2>1, <2>2
<1>5. \A r \in W \ O : In(r, s)
  <2>1. CASE s = <<>>
    BY <1>1, <2>1 DEF After
  <2>2. CASE s # <<>>
    <3>1. k \in 1..k /\ O = {r \in W : r.seq < s[k].seq}
      BY <1>1, <1>2, <2>2 DEF After, Before
    <3> SUFFICES ASSUME NEW r \in W \ O
                 PROVE  In(r, s)
      OBVIOUS
    <3>2. r.seq > s[k].seq \/ r = s[k]
      BY <1>2, <3>1 DEF Numbered
    <3> QED
      BY <1>2, <3>1, <3>2 DEF Upper, In
  <2> QED
    BY <2>1, <2>2
<1>6. Numbered(O)
  BY <1>4, FS_Subset DEF Numbered
<1>7. /\ found \subseteq O /\ Numbered(found)
      /\ \A r \in found, x \in O : x.seq > r.seq => x \in found
      /\ Cardinality(found) < PageSize + 1 => found = O
  <2>1. PageSize + 1 \in Nat
    BY <1>3
  <2>2. found = Newest(O, PageSize + 1)
    BY <1>1
  <2> QED
    BY <1>6, <2>1, <2>2, NewestFacts
<1>8. /\ page \subseteq found /\ Numbered(page)
      /\ \A r \in page, x \in found : x.seq > r.seq => x \in page
      /\ Cardinality(page) < PageSize => page = found
      /\ Cardinality(found) <= PageSize => page = found
  BY <1>3, <1>7, NewestFacts
<1>9. n \in Nat /\ d \in [1..n -> page] /\ Falling(d) /\ Covers(d, page)
  BY <1>1, <1>8, DescendingFacts
<1>10. Cardinality(found) \in Nat
  BY <1>7, FS_CardinalityType DEF Numbered
<1>11. d \in Seq(page) /\ Len(d) = n /\ DOMAIN d = 1..n
  BY <1>9
<1>12. /\ t \in Seq(W) /\ Len(t) = k + n /\ DOMAIN t = 1..(k + n)
       /\ \A i \in 1..k : t[i] = s[i]
       /\ \A i \in 1..n : t[k + i] = d[i]
  <2>1. d \in Seq(W)
    BY <1>4, <1>7, <1>8, <1>11
  <2>2. t = s \o d /\ s \in Seq(W) /\ Len(s) = k
    BY <1>1
  <2>3. t \in Seq(W) /\ Len(t) = k + n
    <3>1. \A x \in Seq(W), y \in Seq(W) : x \o y \in Seq(W) /\ Len(x \o y) = Len(x) + Len(y)
      OBVIOUS
    <3>2. s \o d \in Seq(W) /\ Len(s \o d) = Len(s) + Len(d)
      BY <2>1, <2>2, <3>1, Zenon
    <3> QED
      BY <1>11, <2>2, <3>2, Zenon
  <2>4. DOMAIN t = 1..(k + n)
    BY <2>3
  <2>5. \A i \in 1..k : t[i] = s[i]
    BY <1>2, <1>9, <1>11, <2>1, <2>2
  <2>6. \A i \in 1..n : t[k + i] = d[i]
    BY <1>2, <1>9, <1>11, <2>1, <2>2
  <2> QED
    BY <2>3, <2>4, <2>5, <2>6
<1>13. \A i \in (k + 1)..(k + n) : i - k \in 1..n /\ t[i] = d[i - k] /\ t[i] \in page
  <2> SUFFICES ASSUME NEW i \in (k + 1)..(k + n)
               PROVE  i - k \in 1..n /\ t[i] = d[i - k] /\ t[i] \in page
    OBVIOUS
  <2>1. i - k \in 1..n /\ i = k + (i - k)
    BY <1>2, <1>9
  <2> QED
    BY <1>9, <1>12, <2>1
<1>14. \A r \in page : In(r, t)
  <2> SUFFICES ASSUME NEW r \in page
               PROVE  In(r, t)
    OBVIOUS
  <2>1. PICK i \in 1..n : d[i] = r
    BY <1>9 DEF Covers, In
  <2>2. k + i \in 1..(k + n) /\ t[k + i] = r
    BY <1>2, <1>9, <1>12, <2>1
  <2> QED
    BY <1>12, <2>2 DEF In
<1>15. \A r : In(r, s) => In(r, t)
  <2> SUFFICES ASSUME NEW r, NEW i \in 1..k, s[i] = r
               PROVE  In(r, t)
    BY <1>2 DEF In
  <2>1. i \in 1..(k + n) /\ t[i] = r
    BY <1>2, <1>9, <1>12
  <2> QED
    BY <1>12, <2>1 DEF In
<1>16. Falling(t)
  <2> SUFFICES ASSUME NEW i \in 1..(k + n), NEW j \in 1..(k + n), i < j
               PROVE  t[i].seq > t[j].seq
    BY <1>12 DEF Falling
  <2>1. CASE j <= k
    <3>1. i \in 1..k /\ j \in 1..k
      BY <1>2, <1>9, <2>1
    <3> QED
      BY <1>2, <1>12, <3>1 DEF Falling
  <2>2. CASE i <= k /\ j > k
    <3>1. i \in 1..k /\ j \in (k + 1)..(k + n)
      BY <1>2, <1>9, <2>2
    <3>2. t[j] \in O /\ t[i] = s[i]
      BY <1>7, <1>8, <1>12, <1>13, <3>1
    <3> QED
      BY <1>4, <3>1, <3>2
  <2>3. CASE i > k
    <3>1. i \in (k + 1)..(k + n) /\ j \in (k + 1)..(k + n) /\ i - k < j - k
      BY <1>2, <1>9, <2>3
    <3> QED
      BY <1>9, <1>11, <1>13, <3>1 DEF Falling
  <2>4. i \in Int /\ j \in Int
    BY <1>2, <1>9
  <2>5. j <= k \/ (i <= k /\ j > k) \/ i > k
    BY <1>2, <2>4
  <2> QED
    BY <2>1, <2>2, <2>3, <2>5, Zenon
<1>17. Upper(t, W)
  <2> SUFFICES ASSUME NEW i \in 1..(k + n), NEW r \in W, r.seq > t[i].seq
               PROVE  In(r, t)
    BY <1>12 DEF Upper
  <2>1. CASE i <= k
    <3>1. i \in 1..k
      BY <1>2, <1>9, <2>1
    <3>2. In(r, s)
      BY <1>2, <1>12, <3>1 DEF Upper
    <3> QED
      BY <1>15, <3>2
  <2>2. CASE i > k
    <3>1. i \in (k + 1)..(k + n)
      BY <1>2, <1>9, <2>2
    <3>2. t[i] \in page
      BY <1>13, <3>1
    <3>3. CASE r \in O
      BY <1>7, <1>8, <1>14, <3>2, <3>3
    <3> QED
      BY <1>5, <1>15, <3>3
  <2> QED
    BY <1>2, <1>9, <2>1, <2>2
<1>18. ASSUME Cardinality(found) > PageSize
       PROVE  t # <<>>
  <2>1. page # {}
    <3> SUFFICES ASSUME page = {}
                 PROVE  FALSE
      OBVIOUS
    <3>1. Cardinality(page) = 0
      BY FS_EmptySet
    <3>2. page = found
      BY <1>3, <1>8, <3>1
    <3> QED
      BY <1>3, <1>18, <3>1, <3>2
  <2>2. PICK r \in page : In(r, t)
    BY <1>14, <2>1
  <2> QED
    BY <2>2 DEF In
<1>19. ASSUME ~(Cardinality(found) > PageSize)
       PROVE  Covers(t, W)
  <2>1. page = O
    BY <1>3, <1>7, <1>8, <1>10, <1>19
  <2> QED
    BY <1>5, <1>14, <1>15, <2>1 DEF Covers
<1> QED
  BY <1>12, <1>16, <1>17, <1>18, <1>19

ViewInv ==
  /\ wanted \subseteq log /\ \A r \in wanted, new \in log \ wanted : new.seq > r.seq
  /\ view.rows \in Seq(wanted) /\ Falling(view.rows) /\ Upper(view.rows, wanted)
  /\ view.at \in {"idle", "more", "end"}
  /\ view.at = "idle" => view.rows = <<>> /\ wanted = {}
  /\ view.at = "more" => view.rows # <<>>
  /\ view.at = "end" => Covers(view.rows, wanted)
PagesInv == VerdictInv /\ (~forged => ViewInv)

LEMMA LogNumbered == VerdictInv => Numbered(log)
BY LogFacts DEF VerdictInv, RowsInv, Numbered

LEMMA PageKeepsView ==
  ASSUME VerdictInv, ViewInv, NextPage
  PROVE  ViewInv'
<1>1. PICK s, W : s = view.rows /\ W = wanted'
  OBVIOUS
<1>2. log' = log /\ W = IF view.at = "idle" THEN log ELSE wanted
  BY <1>1 DEF NextPage, chainVars
<1>3. W \subseteq log /\ \A r \in W, new \in log \ W : new.seq > r.seq
  BY <1>2 DEF ViewInv
<1>4. Numbered(W) /\ Numbered(log)
  BY <1>3, LogNumbered, FS_Subset DEF Numbered
<1>5. s \in Seq(W) /\ Falling(s) /\ Upper(s, W) /\ (s = <<>> => W = log)
  <2>1. CASE view.at = "idle"
    BY <1>1, <1>2, <2>1 DEF ViewInv, Falling, Upper
  <2>2. CASE view.at # "idle"
    BY <1>1, <1>2, <2>2 DEF ViewInv, NextPage
  <2> QED
    BY <2>1, <2>2
<1>6. Older(s[Len(s)].seq) = After(s, W)
  <2>1. CASE s = <<>>
    BY <1>1, <1>5, <2>1 DEF Older, After
  <2>2. CASE s # <<>>
    <3>1. s[Len(s)] \in W
      BY <1>5, <2>2
    <3>2. \A new \in log \ W : ~(new.seq < s[Len(s)].seq)
      BY <1>3, <1>4, <3>1 DEF Numbered
    <3>3. Before(log, s[Len(s)].seq) = Before(W, s[Len(s)].seq)
      BY <1>3, <3>2 DEF Before
    <3> QED
      BY <1>1, <2>2, <3>3 DEF Older, After
  <2> QED
    BY <2>1, <2>2
<1>7. PICK found, page, t : /\ found = Newest(After(s, W), PageSize + 1)
                            /\ page = Newest(found, PageSize) /\ t = s \o Descending(page)
  OBVIOUS
<1>8. view' = [at |-> IF Cardinality(found) > PageSize THEN "more" ELSE "end", rows |-> t]
  BY <1>1, <1>6, <1>7 DEF NextPage
<1>9. /\ t \in Seq(W) /\ Falling(t) /\ Upper(t, W)
      /\ Cardinality(found) > PageSize => t # <<>>
      /\ ~(Cardinality(found) > PageSize) => Covers(t, W)
  BY <1>4, <1>5, <1>7, PageFits
<1> QED
  BY <1>1, <1>2, <1>3, <1>8, <1>9 DEF ViewInv

LEMMA PagesStep == PagesInv /\ [ReadersNext]_vars => PagesInv'
<1> SUFFICES ASSUME PagesInv, [ReadersNext]_vars
             PROVE  PagesInv'
  OBVIOUS
<1>1. VerdictInv' /\ VerdictInv /\ ChainInv
  BY VerdictStep DEF PagesInv, VerdictInv
<1> SUFFICES ASSUME ~forged'
             PROVE  ViewInv'
  BY <1>1 DEF PagesInv
<1>2. ASSUME NEW w \in Writers, Chain(Step(w)) \/ Chain(Rollback(w))
      PROVE  ViewInv'
  <2>1. UNCHANGED <<view, wanted>> /\ ViewInv /\ (Step(w) \/ Rollback(w))
    BY <1>2 DEF Chain, readerVars, PagesInv
  <2>2. log \subseteq log' /\ \A new \in log' \ log, old \in log : new.seq > old.seq
    BY <1>1, <2>1, WriterAppends
  <2> QED
    BY <2>1, <2>2 DEF ViewInv
<1>3. CASE StartVerify \/ VerifyBatch \/ UNCHANGED vars
  <2>1. UNCHANGED <<view, wanted, log>> /\ ViewInv
    BY <1>3 DEF StartVerify, VerifyBatch, vars, readerVars, chainVars, PagesInv
  <2> QED
    BY <2>1 DEF ViewInv
<1>4. CASE NextPage
  BY <1>1, <1>4, PageKeepsView DEF PagesInv, NextPage
<1>5. ~Forge
  BY DEF Forge
<1> QED
  BY <1>2, <1>3, <1>4, <1>5 DEF ReadersNext

\* PagesTile: the pages of an untouched log are the rows that were there at the first
\* page, each once and newest first, for any writers that commit between the pages and any
\* size of a page.
THEOREM PagesAreTheLog == ReadersSpec => []PagesTile
<1>1. ReadersInit => PagesInv
  <2> SUFFICES ASSUME ReadersInit
               PROVE  ViewInv
    BY VerdictInit DEF PagesInv
  <2>1. view = [at |-> "idle", rows |-> <<>>] /\ wanted = {} /\ log = {}
    BY DEF ReadersInit, Init
  <2> QED
    BY <2>1 DEF ViewInv, Falling, Upper
<1>2. PagesInv => PagesTile
  <2> SUFFICES ASSUME VerdictInv, ViewInv, view.at = "end"
               PROVE  view.rows = Descending(wanted)
    BY DEF PagesInv, PagesTile
  <2>1. Numbered(wanted)
    BY LogNumbered, FS_Subset DEF ViewInv, Numbered
  <2>2. view.rows \in [1..Len(view.rows) -> wanted] /\ Len(view.rows) \in Nat
    BY DEF ViewInv
  <2> QED
    BY <2>1, <2>2, FallingIsDescending DEF ViewInv
<1> QED
  BY <1>1, <1>2, PagesStep, PTL DEF ReadersSpec
=============================================================================
