------------------------------ MODULE LlmStep ------------------------------
(***************************************************************************)
(* The row loop of an LLM recipe step (llm_step.py) and the client it      *)
(* calls the mesh with (mesh_client.py).  A step sends one call per row,   *)
(* a few at a time, in batches; a finished batch is written to a           *)
(* checkpoint file, and a later attempt of the step goes on from the files *)
(* it can read.  The executor does not run this loop yet: Commit, Clear    *)
(* and Crash are the caller that ADR-0010 describes.                       *)
(***************************************************************************)
EXTENDS Integers, Sequences, FiniteSets, FiniteSetsExt, Functions

CONSTANTS
  NumRows,          (* len(rows)                                             *)
  CheckpointEvery,  (* rows per batch                                        *)
  Concurrency,      (* calls in flight at once                               *)
  LastAttempt,      (* bound: attempts of the step, the first one included   *)
  MayTear,          (* may a crash leave the first lines of a batch file     *)
  MayMisread,       (* may a file be unreadable when a step loads it         *)
  None

ASSUME SizeAssumption ==
  NumRows \in Nat /\ {CheckpointEvery, Concurrency, LastAttempt} \subseteq Nat \ {0}
ASSUME SwitchAssumption == {MayTear, MayMisread} \subseteq BOOLEAN

VARIABLES
  pc,         (* where the attempt is                                        *)
  attempt,    (* the number of this attempt                                  *)
  done,       (* done: what the attempt knows of each row                    *)
  call,       (* [row |-> ...]: the coroutines of the last batch             *)
  files,      (* [first row |-> results]: the checkpoint under the step      *)
  cancel,     (* the job's cancel flag                                       *)
  version,    (* the committed rows, None before                             *)
  paid,       (* paid[r]: calls for row r that the provider billed           *)
  heard,      (* the results the worker ever received, as <<row, result>>    *)
  misread     (* rows that a load found in files it could not read only, each *)
              (* as often as that happened                                   *)

stepVars == <<pc, attempt, done, call, cancel>>
ghostVars == <<paid, heard, misread>>
vars == <<stepVars, files, version, ghostVars>>

Rows == 1..NumRows
Results == {"output", "error"}

(* How the mesh answers a call (routers/complete.py): the ways the pipeline  *)
(* can end, the slug of each, and whether the provider was paid by then.  A  *)
(* client that timed out does not know, nor does one that cannot parse the   *)
(* body of an accepted call.                                                 *)
Endings == {"answered", "forbidden", "residency", "input", "output", "quota",
            "provider", "unreachable", "garbled"}
SlugOf(e) == CASE e = "forbidden"   -> "not-found"
               [] e = "residency"   -> "residency-blocked"
               [] e = "input"       -> "guardrail-input"
               [] e = "output"      -> "guardrail-output"
               [] e = "quota"       -> "quota-exceeded"
               [] e = "provider"    -> "provider-failed"
               [] e = "unreachable" -> "mesh-unreachable"
               [] OTHER             -> None
\* An answer from the cache costs nothing.
BilledBy(e) == IF e \in {"answered", "output", "unreachable", "garbled"} THEN BOOLEAN ELSE {FALSE}

FatalSlugs == {"quota-exceeded", "residency-blocked", "not-found", "unauthenticated"}
\* A fatal slug is raised as StepAborted; what json() raises on a garbled body is no
\* MeshCallFailed, so no handler turns it into the row's result either.
Raises(e) == e = "garbled" \/ SlugOf(e) \in FatalSlugs

Pending == Rows \ DOMAIN done
\* pending[batch_start : batch_start + checkpoint_every]: the lowest rows left.
AllPending == Pending
NextBatch == {r \in Pending : Cardinality({s \in Pending : s < r}) < CheckpointEvery}
InState(s) == {r \in DOMAIN call : call[r] = s}
FreeSlot == Cardinality(InState("posted")) < Concurrency
AllSucceeded == \A r \in DOMAIN call : call[r] = "output"
AnyAnswered == \E r \in DOMAIN call : call[r] \in Results
AllAnswered == \A r \in DOMAIN call : call[r] \in Results
Bill(r, n) == paid' = [paid EXCEPT ![r] = @ + n]

Init == /\ pc = "start" /\ attempt = 1
        /\ done = <<>> /\ call = <<>> /\ files = <<>>
        /\ cancel = FALSE /\ version = None
        /\ paid = [r \in Rows |-> 0] /\ heard = {} /\ misread = 0

InFiles == UNION {DOMAIN files[f] : f \in DOMAIN files}

\* list_keys yields the files in key order; of two that hold a row the later
\* one wins.  A file that cannot be read is skipped.
Merged(read) ==
  [r \in UNION {DOMAIN files[f] : f \in read} |->
     files[Max({f \in read : r \in DOMAIN files[f]})][r]]

LoadCheckpoint ==
  /\ pc = "start"
  /\ \E lost \in IF MayMisread THEN SUBSET DOMAIN files ELSE {{}} :
       /\ done' = Merged(DOMAIN files \ lost)
       /\ misread' = misread + Cardinality(InFiles \ DOMAIN done')
  /\ pc' = "loop"
  /\ UNCHANGED <<attempt, call, cancel, files, version, paid, heard>>

\* The flag is read between batches only.
StartBatch ==
  /\ pc = "loop" /\ Pending # {}
  /\ IF cancel
     THEN pc' = "cancelled" /\ UNCHANGED call
     ELSE pc' = "calls" /\ call' = [r \in NextBatch |-> "waiting"]
  /\ UNCHANGED <<attempt, done, cancel, files, version, ghostVars>>

\* A coroutine of the batch gets the semaphore and posts its call.  Nothing stops
\* the ones that still wait when another row has ended the step.
BeginCall(r) ==
  /\ r \in InState("waiting") /\ FreeSlot
  /\ call' = [call EXCEPT ![r] = "posted"]
  /\ UNCHANGED <<pc, attempt, done, cancel, files, version, ghostVars>>

\* call_mesh returns or raises; what a row raises comes out of gather and ends the
\* step, any other refusal is the row's own result.
EndCall(r, e) ==
  /\ r \in InState("posted")
  /\ \E billed \in BilledBy(e) : Bill(r, IF billed THEN 1 ELSE 0)
  /\ LET result == IF e = "answered" THEN "output" ELSE "error"
     IN /\ call' = [call EXCEPT ![r] = IF Raises(e) THEN "raised" ELSE result]
        /\ heard' = IF Raises(e) THEN heard ELSE heard \cup {<<r, result>>}
        /\ pc' = IF Raises(e) /\ pc = "calls" THEN "aborted" ELSE pc
  /\ UNCHANGED <<attempt, done, cancel, files, version, misread>>

\* gather has every result of the batch.
BatchDone ==
  /\ pc = "calls" /\ AllAnswered
  /\ done' = [r \in DOMAIN done \cup DOMAIN call |->
                IF r \in DOMAIN call THEN call[r] ELSE done[r]]
  /\ pc' = "save"
  /\ UNCHANGED <<attempt, call, cancel, files, version, ghostVars>>

\* One file per batch, named for its first row.
WithFile(first, results) ==
  [f \in DOMAIN files \cup {first} |-> IF f = first THEN results ELSE files[f]]
SavedAtEnd == IF Pending = {} THEN WithFile(1, done) ELSE files
Saved == WithFile(Min(DOMAIN call), call)
SaveCheckpoint ==
  /\ pc = "save"
  /\ files' = Saved
  /\ pc' = "loop" /\ call' = <<>>
  /\ UNCHANGED <<attempt, done, cancel, version, ghostVars>>

\* The rows are put together by index, not by arrival; the caller commits them.
Commit ==
  /\ pc = "loop" /\ Pending = {}
  /\ version' = [r \in Rows |-> done[r]]
  /\ pc' = "committed"
  /\ UNCHANGED <<attempt, done, call, cancel, files, ghostVars>>

ClearCheckpoint ==
  /\ pc = "committed"
  /\ files' = <<>> /\ pc' = "cleared"
  /\ UNCHANGED <<attempt, done, call, cancel, version, ghostVars>>

RequestCancel ==
  /\ ~cancel /\ version = None /\ cancel' = TRUE
  /\ UNCHANGED <<pc, attempt, done, call, files, version, ghostVars>>

\* The worker dies and the step is queued again: calls on their way may still be
\* billed, and a file being written may keep its first lines.
Crash ==
  /\ pc \in {"start", "loop", "calls", "save"} /\ attempt < LastAttempt
  /\ \E billed \in SUBSET InState("posted") :
       paid' = [r \in Rows |-> paid[r] + IF r \in billed THEN 1 ELSE 0]
  /\ \/ UNCHANGED files
     \/ /\ MayTear /\ pc = "save"
        /\ \E last \in DOMAIN call :
             files' = WithFile(Min(DOMAIN call),
                               [r \in {s \in DOMAIN call : s < last} |-> call[r]])
  /\ pc' = "start" /\ attempt' = attempt + 1
  /\ done' = <<>> /\ call' = <<>>
  /\ UNCHANGED <<cancel, version, heard, misread>>

Next ==
  \/ LoadCheckpoint \/ StartBatch \/ BatchDone \/ SaveCheckpoint
  \/ Commit \/ ClearCheckpoint \/ RequestCancel \/ Crash
  \/ \E r \in Rows : BeginCall(r) \/ \E e \in Endings : EndCall(r, e)

\* The event loop runs every coroutine and call_mesh has a timeout.
Fairness ==
  /\ WF_vars(LoadCheckpoint) /\ WF_vars(StartBatch) /\ WF_vars(BatchDone)
  /\ WF_vars(SaveCheckpoint) /\ WF_vars(Commit) /\ WF_vars(ClearCheckpoint)
  /\ \A r \in Rows : WF_vars(BeginCall(r)) /\ WF_vars(\E e \in Endings : EndCall(r, e))

Spec == Init /\ [][Next]_vars
FairSpec == Spec /\ Fairness

-----------------------------------------------------------------------------
Partial(T) == UNION {[S -> T] : S \in SUBSET Rows}

TypeOK ==
  /\ pc \in {"start", "loop", "calls", "save", "aborted", "cancelled", "committed", "cleared"}
  /\ attempt \in 1..LastAttempt
  /\ done \in Partial(Results)
  /\ call \in Partial(Results \cup {"waiting", "posted", "raised"})
  /\ DOMAIN files \subseteq Rows /\ \A f \in DOMAIN files : files[f] \in Partial(Results)
  /\ cancel \in BOOLEAN
  /\ version = None \/ version \in [Rows -> Results]
  /\ paid \in [Rows -> Nat] /\ heard \subseteq Rows \X Results /\ misread \in Nat

\* A crash costs at most one batch ("Rows already paid for stay paid for",
\* llm_step.py:12): beyond the first payment of each row the provider is paid for no
\* more than a batch per crash and the rows of files that could not be read; and
\* however often the step is resumed and however it ends, the rows paid for that no
\* file keeps are within one batch and the rows of such files, whose names a later
\* batch may take over.
LossWithinABatch ==
  /\ SumFunction([r \in Rows |-> IF paid[r] > 1 THEN paid[r] - 1 ELSE 0])
       <= CheckpointEvery * (attempt - 1) + misread
  /\ pc # "cleared" =>
       Cardinality({r \in Rows \ InFiles : paid[r] > 0}) <= CheckpointEvery + misread

\* Whatever was torn, lost, resumed or finished out of order, a committed version
\* holds each row of the input once, with a result the mesh really gave for it,
\* and no gap where an answer was never asked for (llm_step.py:16).
OutputIsWhole ==
  version # None => \A r \in Rows : <<r, version[r]>> \in heard

\* A step that refuses on budget or sovereignty stops ("Continuing past these only
\* burns budget against a wall", llm_step.py:43): nothing is paid after it.
AbortStopsSpending == [][pc = "aborted" => paid' = paid]_vars

\* Every step ends in a committed version, a cancel or an abort, with the
\* checkpoint of a committed one cleared.
StepEnds == <>(pc \in {"cleared", "cancelled", "aborted"})
=============================================================================
