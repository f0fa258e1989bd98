---------------------------- MODULE AuditReaders ----------------------------
(***************************************************************************)
(* Who reads the audit log beside its writers: verify_chain, which walks   *)
(* it by batches, and the pages of the audit view (routers/audit_admin.py).*)
(* Someone with access to the table may forge one row.                     *)
(***************************************************************************)
EXTENDS AuditChain, FiniteSets

CONSTANTS
  BatchSize,   (* rows per batch of verify_chain                             *)
  PageSize,    (* rows per page of the audit view                            *)
  MayForge     (* may a row be edited or deleted behind the program's back   *)

ASSUME SizeAssumption == {BatchSize, PageSize} \subseteq Nat \ {0}
ASSUME ForgeAssumption == MayForge \in BOOLEAN

VARIABLES
  verify,      (* locals of verify_chain, and forged when it began           *)
  view,        (* the rows of the pages so far, newest first                 *)
  wanted,      (* the rows that were there when the first page was read      *)
  forged       (* was a row forged                                           *)

readerVars == <<verify, view, wanted, forged>>
vars == <<chainVars, readerVars>>

ReadersInit ==
  /\ Init /\ forged = FALSE
  /\ verify = [at |-> "idle", prev |-> Genesis, last |-> 0, late |-> FALSE]
  /\ view = [at |-> "idle", rows |-> <<>>] /\ wanted = {}

Chain(A) == A /\ UNCHANGED readerVars

\* The first n rows of a set in an order, as ORDER BY seq LIMIT n gives them.
First(rows, n) == {r \in rows : Cardinality(Before(rows, r.seq)) < n}
Newest(rows, n) == {r \in rows : Cardinality({s \in rows : s.seq > r.seq}) < n}

StartVerify ==
  /\ verify.at = "idle"
  /\ verify' = [verify EXCEPT !.at = "walk", !.late = forged]
  /\ UNCHANGED <<chainVars, view, wanted, forged>>

\* The rows of a batch whose links or hashes are wrong, given the hash before it.
Expected(batch, r) ==
  IF Before(batch, r.seq) = {} THEN verify.prev ELSE HeadHash(Before(batch, r.seq))
LinksOnly(batch) == {r \in batch : r.prev # Expected(batch, r)}
Bad(batch) ==
  {r \in batch : r.prev # Expected(batch, r) \/ r.hash # RowHash(r.prev, r.body)}

VerifyBatch ==
  /\ verify.at = "walk"
  /\ LET batch == First({r \in log : r.seq > verify.last}, BatchSize) IN
       verify' = IF batch = {} THEN [verify EXCEPT !.at = "ok"]
                 ELSE IF Bad(batch) # {} THEN [verify EXCEPT !.at = "bad"]
                 ELSE [verify EXCEPT !.prev = LastOf(batch).hash, !.last = LastOf(batch).seq]
  /\ UNCHANGED <<chainVars, view, wanted, forged>>

\* list_audit: one row more than a page tells whether there is another page.
ByOffset(cursor) == {r \in log : Cardinality({s \in log : s.seq > r.seq}) >= Len(view.rows)}
Older(cursor) == IF view.rows = <<>> THEN log ELSE Before(log, cursor)
Descending(rows) ==
  CHOOSE s \in [1..Cardinality(rows) -> rows] :
    \A i, j \in 1..Cardinality(rows) : i < j => s[i].seq > s[j].seq
NextPage ==
  /\ view.at \in {"idle", "more"}
  /\ LET found == Newest(Older(view.rows[Len(view.rows)].seq), PageSize + 1)
         page == Newest(found, PageSize)
     IN view' = [at |-> IF Cardinality(found) > PageSize THEN "more" ELSE "end",
                 rows |-> view.rows \o Descending(page)]
  /\ wanted' = IF view.at = "idle" THEN log ELSE wanted
  /\ UNCHANGED <<chainVars, verify, forged>>

\* A row is edited, or one that is not the last is deleted.
Forge ==
  /\ MayForge /\ ~forged /\ forged' = TRUE
  /\ \E r \in log :
       \/ log' = (log \ {r}) \cup {[r EXCEPT !.body = 0]}
       \/ r # LastOf(log) /\ log' = log \ {r}
  /\ UNCHANGED <<nextSeq, owner, writerVars, verify, view, wanted>>

ReadersNext ==
  \/ \E w \in Writers : Chain(Step(w)) \/ Chain(Rollback(w))
  \/ StartVerify \/ VerifyBatch \/ NextPage \/ Forge

\* A request in progress goes on, and the database breaks a deadlock; nothing makes a
\* client send a request.
ReadersSpec == ReadersInit /\ [][ReadersNext]_vars
FairSpec ==
  /\ ReadersSpec
  /\ \A w \in Writers : WF_vars(Chain(TakeLock(w) \/ ReadHead(w) \/ Insert(w) \/ Commit(w)))
  /\ \A w \in Writers : WF_vars(Chain(BreakDeadlock(w)))
  /\ WF_vars(VerifyBatch)

-----------------------------------------------------------------------------
\* verify_chain raises no alarm over a log nobody touched, whatever is committed
\* between its batches, and never passes a log that was forged before it began.
VerdictIsRight ==
  /\ verify.at = "bad" => forged
  /\ verify.at = "ok" => ~verify.late

\* The pages of an untouched log give every row that was there at the first page
\* once, newest first, and no row that came later.
PagesTile ==
  view.at = "end" /\ ~forged =>
    view.rows = Descending(wanted)

\* Every transaction ends, by its commit or an error: whatever it waits for is given back
\* by the one who holds it, or by the one the database rolls back where the handlers'
\* orders of locks cross.  A verification comes to its end beside them.
EveryoneEnds ==
  /\ \A w \in Writers : pc[w] = "work" ~> pc[w] = "done"
  /\ verify.at = "walk" ~> verify.at \in {"ok", "bad"}

\* Whatever is in the log, a commit adds rows behind its last row and takes none away,
\* so a reader that has passed a row never misses one before it.
GrowsAtTheEnd ==
  [][forged' = forged => /\ log \subseteq log'
                         /\ \A new \in log' \ log, old \in log : new.seq > old.seq]_vars
=============================================================================
