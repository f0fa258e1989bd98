---------------------------- MODULE OrphanPruner -----------------------------
(***************************************************************************)
(* The executor together with prune_orphans, which main.py runs every ten  *)
(* minutes in the same process as job_loop: it reads the committed         *)
(* versions, then lists the object store and deletes every v<N> it does    *)
(* not recognise.  Nothing orders the two against a build in progress.     *)
(***************************************************************************)
EXTENDS JobExecutor

VARIABLE snap   \* what the pruner read of the tables, or None between passes

pvars == <<vars, snap>>

PrunerInit == Init /\ snap = None

\* The two SELECTs of prune_orphans.
PruneSnapshot ==
  /\ snap = None
  /\ snap' = [current |-> current, rows |-> rows]
  /\ UNCHANGED vars

BelowCurrent(d, v) == v < snap.current[d]
KeepsNext(d, v) == v <= snap.current[d] + 1

\* Versions up to current_version, and any that has a row, are not orphans.
Recognised(d, v) ==
  v <= snap.current[d] \/ \E r \in snap.rows : r.ds = d /\ r.ver = v

\* list_keys finds v<N> of dataset d and delete_prefix removes it.
PruneDelete(d, v) ==
  /\ snap # None
  /\ ~Recognised(d, v)
  /\ AtKey(d, v) # {}
  /\ objects' = objects \ AtKey(d, v)
  /\ UNCHANGED <<jobVars, step, current, rows, workerVars, snap>>

\* The listing is exhausted, or an object-store error ends the pass early.
PruneEnd ==
  /\ snap # None
  /\ snap' = None
  /\ UNCHANGED vars

PrunerNext ==
  \/ Next /\ UNCHANGED snap
  \/ PruneSnapshot
  \/ \E o \in objects : PruneDelete(o.ds, o.ver)
  \/ PruneEnd

PrunerSpec == PrunerInit /\ [][PrunerNext]_pvars

\* prune loops for ever, and the store answers often enough that a pass
\* deletes what it listed.
PrunerFairSpec ==
  /\ PrunerSpec
  /\ Fairness
  /\ WF_pvars(PruneSnapshot) /\ WF_pvars(PruneEnd)
  /\ \A d \in Datasets : SF_pvars(\E o \in objects : o.ds = d /\ PruneDelete(d, o.ver))

-----------------------------------------------------------------------------
Lost(r) == AtKey(r.ds, r.ver) # {} /\ ~\E o \in objects' : o.ds = r.ds /\ o.ver = r.ver

\* A committed version loses its data only to a prune that took its snapshot
\* before that version was committed (executor.py 649-666, 679-681).
PruneHitsOnlyRacingFlips ==
  [][\A r \in rows : Lost(r) => snap # None /\ r \notin snap.rows]_pvars

Building(d, v) ==
  \E w \in Workers : /\ pc[w] \in {"clear", "write", "validate", "commit", "skip"}
                     /\ Target(run[w].step) = d
                     /\ run[w].next = v

Leftovers == {o \in objects : ~VersionTaken(o.ds, o.ver) /\ ~Building(o.ds, o.ver)}

\* Parquet that a crashed, cancelled or failed build left behind does not stay
\* for ever (executor.py 645-648).
LeftoversGo == (Leftovers # {}) ~> (Leftovers = {})
=============================================================================
