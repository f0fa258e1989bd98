----------------------------- MODULE AuditChain -----------------------------
(***************************************************************************)
(* The writers of the hash-chained audit log (audit.py).  A transaction    *)
(* takes row locks as its updates are flushed, the events lock if it       *)
(* publishes, and the audit lock in write_audit, which then reads the head *)
(* of the chain and inserts.  Locks go at commit or rollback.  seq is      *)
(* given out by the insert and is not given back.  A hash is the pair it   *)
(* is computed from, the fields of a row are one body.                     *)
(***************************************************************************)
EXTENDS Integers, Sequences

CONSTANTS
  Writers,   (* transactions, each of them used once                         *)
  Kinds,     (* what a transaction locks, in order; one "audit" for each row *)
  None

Locks == {"row", "events", "audit"}

AuditBeforeEvents == {<<"events", "audit">>, <<"audit", "events">>}

\* The orders the handlers have on a row they share.  The statements that take the two
\* advisory locks flush nothing, so what a handler has only assigned is written, and its
\* row locked, by the next flush: before them if a query comes first, else after them.
HandlerKinds == {
  <<"row", "events", "audit">>,   (* create_dataset, archive_dataset, cancel_job     *)
  <<"events", "row", "audit">>,   (* patch_dataset without description               *)
  <<"row", "audit">>,             (* create_connection, patch_connection with secret *)
  <<"audit", "row">>,             (* patch_connection without, remove_member         *)
  <<"row", "audit", "audit">>,    (* update_project_connection                       *)
  <<"audit">>, <<"events">> }     (* uploads and guardrails, the executor's events   *)

ASSUME KindsAssumption == Kinds \subseteq Seq(Locks)
ASSUME NoneAssumption == None \notin Writers

VARIABLES
  log,       (* committed rows of audit_log                                  *)
  nextSeq,   (* the identity column                                          *)
  owner,     (* [lock |-> its transaction]                                   *)
  pc, plan,  (* where a transaction is, and the locks it still takes         *)
  head,      (* [writer |-> the head it has read]                            *)
  pend       (* [writer |-> rows it has inserted and not committed]          *)

writerVars == <<pc, plan, head, pend>>
chainVars == <<log, nextSeq, owner, writerVars>>

Genesis == <<>>
RowHash(prev, body) == <<prev, body>>
Row(seq, prev, body) ==
  [seq |-> seq, prev |-> prev, body |-> body, hash |-> RowHash(prev, body)]

Before(rows, seq) == {r \in rows : r.seq < seq}
LastOf(rows) == CHOOSE r \in rows : \A s \in rows : s.seq <= r.seq
HeadHash(rows) == IF rows = {} THEN Genesis ELSE LastOf(rows).hash

Init == /\ log = {} /\ nextSeq = 1
        /\ owner = [l \in Locks |-> None]
        /\ pc = [w \in Writers |-> "idle"] /\ plan = [w \in Writers |-> <<>>]
        /\ head = [w \in Writers |-> Genesis] /\ pend = [w \in Writers |-> {}]

Begin(w) ==
  /\ pc[w] = "idle"
  /\ \E k \in Kinds : plan' = [plan EXCEPT ![w] = k]
  /\ pc' = [pc EXCEPT ![w] = "work"]
  /\ UNCHANGED <<log, nextSeq, owner, head, pend>>

\* What a transaction asks for next: between its lock and its query write_audit asks
\* for the rows the query flushes.
Asks(w, l) ==
  /\ plan[w] # <<>> /\ l = Head(plan[w])
  /\ pc[w] = "work" \/ (pc[w] = "locked" /\ l = "row")

\* A lock a transaction holds it may take again.
EventsOnly(l, w) == l = "audit" \/ owner[l] \in {None, w}
Free(l, w) == owner[l] \in {None, w}
TakeLock(w) ==
  \E l \in Locks :
    /\ Asks(w, l) /\ Free(l, w)
    /\ owner' = [owner EXCEPT ![l] = w]
    /\ pc' = [pc EXCEPT ![w] = IF l = "audit" THEN "locked" ELSE @]
    /\ plan' = [plan EXCEPT ![w] = Tail(@)]
    /\ UNCHANGED <<log, nextSeq, head, pend>>

\* A statement after the lock: it sees what others committed and its own rows.
Visible(w) == log \cup pend[w]
ReadHead(w) ==
  /\ pc[w] = "locked" /\ ~Asks(w, "row")
  /\ head' = [head EXCEPT ![w] = HeadHash(Visible(w))]
  /\ pc' = [pc EXCEPT ![w] = "insert"]
  /\ UNCHANGED <<log, nextSeq, owner, plan, pend>>

Insert(w) ==
  /\ pc[w] = "insert"
  /\ pend' = [pend EXCEPT ![w] = @ \cup {Row(nextSeq, head[w], nextSeq)}]
  /\ nextSeq' = nextSeq + 1
  /\ pc' = [pc EXCEPT ![w] = "work"]
  /\ UNCHANGED <<log, owner, plan, head>>

RowsOnly(w) == [owner EXCEPT !["row"] = IF @ = w THEN None ELSE @]
Released(w) == [l \in Locks |-> IF owner[l] = w THEN None ELSE owner[l]]
End(w) ==
  /\ owner' = Released(w)
  /\ pc' = [pc EXCEPT ![w] = "done"]
  /\ pend' = [pend EXCEPT ![w] = {}]
  /\ UNCHANGED <<nextSeq, plan, head>>

Commit(w) ==
  /\ pc[w] = "work" /\ plan[w] = <<>>
  /\ log' = log \cup pend[w]
  /\ End(w)

\* An error, a lost client or a crash of the process.
Rollback(w) ==
  /\ pc[w] \in {"work", "locked", "insert"}
  /\ UNCHANGED log
  /\ End(w)

\* Who waits for whom, and the wait cycles.  PostgreSQL ends one by rolling back a
\* transaction of it.
BlockedBy(w, v) == v # w /\ \E l \in Locks : Asks(w, l) /\ owner[l] = v
Entangled(S) == S # {} /\ \A w \in S : \E v \in S : BlockedBy(w, v)
Deadlocked(w) ==
  \E S \in SUBSET Writers :
    w \in S /\ Entangled(S) /\ \A v \in S : \E u \in S : BlockedBy(u, v)
BreakDeadlock(w) == Deadlocked(w) /\ Rollback(w)

Step(w) == Begin(w) \/ TakeLock(w) \/ ReadHead(w) \/ Insert(w) \/ Commit(w)
Next == \E w \in Writers : Step(w) \/ Rollback(w)

Spec == Init /\ [][Next]_chainVars

-----------------------------------------------------------------------------
\* The rows of a set are linked in the order of seq: each row holds the hash of the
\* one before it, the first one GENESIS_HASH, and its own hash is right.
Linked(rows) ==
  \A r \in rows : /\ r.prev = HeadHash(Before(rows, r.seq))
                  /\ r.hash = RowHash(r.prev, r.body)

\* However transactions overlap, wait, roll back and leave gaps in seq, the committed
\* log is one chain in the order of seq (ADR-0005, audit.py:10).
ChainIsLinked == Linked(log)

\* The events lock and the audit lock are taken in one order by every handler: whoever
\* wait for each other, one of them waits for a row (datasets.py:562, datasets.py:569).
OnlyRowsEntangle ==
  \A S \in SUBSET Writers : Entangled(S) => \E w \in S : Asks(w, "row")

=============================================================================
