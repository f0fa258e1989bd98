------------------------------ MODULE StepLogs ------------------------------
(***************************************************************************)
(* The log of one job step: the worker writes it as chunk objects          *)
(* (job_logs.py, called from _run_step), the log endpoint concatenates     *)
(* them (routers/builds.py) and the run drawer follows the tail            *)
(* (RunDrawer.tsx).  A byte is <<attempt, position>>.  An attempt that     *)
(* stalls loses the job to the next one and may still go on writing.       *)
(***************************************************************************)
EXTENDS Integers, FiniteSets, SequencesExt

CONSTANTS
  LastAttempt,  (* attempts a job gets                                       *)
  MaxBytes,     (* bytes of a line of the worker, at most                    *)
  Printed,      (* bytes the recipe prints when it runs, 0 unless Python     *)
  Reads         (* reads of the log in flight                                *)

VARIABLES
  step,         (* [status, size]: the row of job_steps, log_size            *)
  claim,        (* the attempt that holds the job, 0 when none does          *)
  attempt,      (* attempts that have started the step                       *)
  writer,       (* [attempt |-> its StepLogWriter and where its run is]      *)
  chunk,        (* [k |-> content of chunk-<k>.log] under the step's prefix  *)
  running,      (* the prop of LogTail: does it poll ("none": no LogTail yet)*)
  offset,       (* its offset into the log                                   *)
  shown,        (* bytes it has put on the screen                            *)
  poll,         (* [read |-> a request for the tail]                         *)
  wrote         (* attempts that have written a chunk (ghost)                *)

workerVars == <<step, claim, attempt, writer, chunk, wrote>>
drawerVars == <<running, offset, shown, poll>>
vars == <<workerVars, drawerVars>>

Attempts == 1..LastAttempt
NoWriter == [at |-> "none", buffer |-> <<>>, next |-> 0, total |-> 0]
NoRead == [at |-> "idle"]

Init ==
  /\ step = [status |-> "queued", size |-> 0]
  /\ claim = 0 /\ attempt = 0 /\ chunk = <<>> /\ wrote = {}
  /\ writer = [w \in Attempts |-> NoWriter]
  /\ running = "none" /\ offset = 0 /\ shown = {}
  /\ poll = [r \in Reads |-> NoRead]

\* The objects under the prefix, in the order of _chunk_index.
Keys ==
  CHOOSE s \in [1..Cardinality(DOMAIN chunk) -> DOMAIN chunk] :
    \A i, j \in 1..Cardinality(DOMAIN chunk) : i < j => s[i] < s[j]
Log == FlattenSeq([i \in DOMAIN Keys |-> chunk[Keys[i]]])

-----------------------------------------------------------------------------
(* The worker.                                                               *)

\* StepLogWriter.write of attempt w: n bytes more in the buffer of v.
Write(w, v, n) ==
  [v EXCEPT !.buffer =
     @ \o [i \in 1..n |-> <<w, v.total + Len(v.buffer) + i>>]]

\* StepLogWriter.flush of the writer v: the buffer becomes the next chunk.
Flush(w, v, at) ==
  IF v.buffer = <<>>
  THEN writer' = [writer EXCEPT ![w] = [v EXCEPT !.at = at]] /\ UNCHANGED <<chunk, wrote>>
  ELSE /\ chunk' = [k \in DOMAIN chunk \cup {v.next} |->
                     IF k = v.next THEN v.buffer ELSE chunk[k]]
       /\ writer' = [writer EXCEPT ![w] = [at |-> at, buffer |-> <<>>,
                                           next |-> v.next + 1, total |-> v.total + Len(v.buffer)]]
       /\ wrote' = wrote \cup {w}

\* The job is claimed, and _start_step marks the step as running.
Start ==
  /\ step.status = "queued" /\ attempt < LastAttempt
  /\ attempt' = attempt + 1 /\ claim' = attempt + 1
  /\ step' = [step EXCEPT !.status = "running"]
  /\ writer' = [writer EXCEPT ![attempt + 1] = [NoWriter EXCEPT !.at = "started"]]
  /\ UNCHANGED <<chunk, wrote, drawerVars>>

\* "Building ...", or "Blocked: ..." before the step fails, flushed at once.
Announce(w) ==
  /\ writer[w].at = "started"
  /\ \E n \in 1..MaxBytes : Flush(w, Write(w, writer[w], n), "building")
  /\ UNCHANGED <<step, claim, attempt, drawerVars>>

\* The output of a Python recipe stays in the buffer, where no one sees it, until
\* "Wrote ... rows" is flushed with it.
SandboxLogs(w) == Write(w, writer[w], Printed)
Conclude(w) ==
  /\ writer[w].at = "building"
  /\ \E n \in 1..MaxBytes : Flush(w, Write(w, SandboxLogs(w), n), "written")
  /\ UNCHANGED <<step, claim, attempt, drawerVars>>

\* _commit_version sets log_size, unless another attempt has the job.
Commit(w) ==
  /\ writer[w].at = "written"
  /\ writer' = [writer EXCEPT ![w].at = "ended"]
  /\ IF claim = w
     THEN step' = [status |-> "succeeded", size |-> writer[w].total] /\ claim' = 0
     ELSE UNCHANGED <<step, claim>>
  /\ UNCHANGED <<attempt, chunk, wrote, drawerVars>>

\* A failure or a cancel ends the run, with what its buffer holds.  _fail_step asks
\* no one, _skip_step only skips a step that has not ended.
Abandon(w) ==
  /\ writer[w].at \in {"started", "building", "written"}
  /\ writer' = [writer EXCEPT ![w].at = "ended"]
  /\ claim' = IF claim = w THEN 0 ELSE claim
  /\ \/ step' = [step EXCEPT !.status = "failed"]
     \/ step' = [step EXCEPT !.status = IF @ \in {"queued", "running"} THEN "skipped" ELSE @]
  /\ UNCHANGED <<attempt, chunk, wrote, drawerVars>>

\* sweep takes the job from an attempt whose heartbeat is old.
Requeue ==
  /\ claim # 0 /\ claim' = 0
  /\ step' = [step EXCEPT !.status =
       IF @ # "running" THEN @ ELSE IF attempt < LastAttempt THEN "queued" ELSE "skipped"]
  /\ UNCHANGED <<attempt, writer, chunk, wrote, drawerVars>>

\* cancel_job skips the steps of a job nobody has claimed.
CancelQueued ==
  /\ step.status = "queued"
  /\ step' = [step EXCEPT !.status = "skipped"]
  /\ UNCHANGED <<claim, attempt, writer, chunk, wrote, drawerVars>>

-----------------------------------------------------------------------------
(* The endpoint and the drawer.                                              *)

Active == IF step.status \in {"queued", "running"} THEN "yes" ELSE "no"
Ask(after) == [at |-> "asked", after |-> after]

\* The effect of LogTail runs when it is mounted and when its prop changes: it forgets
\* the reads of the effect before it, starts at 0 and keeps what is on the screen.
Follow(r) ==
  /\ running # Active
  /\ running' = Active /\ offset' = 0
  /\ poll' = [s \in Reads |-> IF s = r THEN Ask(0) ELSE NoRead]
  /\ UNCHANGED <<workerVars, shown>>

\* The interval does not wait for the read before it.
Tick(r) ==
  /\ running = "yes" /\ poll[r] = NoRead
  /\ poll' = [poll EXCEPT ![r] = Ask(offset)]
  /\ UNCHANGED <<workerVars, running, offset, shown>>

\* read_step_log lists the chunks, then fetches them one by one.
List(r) ==
  /\ poll[r].at = "asked"
  /\ poll' = [poll EXCEPT ![r] = [at |-> "listed", after |-> @.after, keys |-> Keys,
                                  content |-> <<>>, next |-> 0]]
  /\ UNCHANGED <<workerVars, running, offset, shown>>

\* What a chunk adds to the content, and where it ends: a chunk of which nothing is
\* new is read for its size.
GetRange(data, start) == SubSeq(data, start + 1, Len(data))
Unseen(data, start, after) == GetRange(data, IF after <= start THEN 0 ELSE after - start)
EndIfUnseen(data, start, after) == IF after >= start + Len(data) THEN start ELSE start + Len(data)
EndOf(data, start, after) == start + Len(data)

Fetch(r) ==
  LET q == poll[r]
      data == chunk[Head(q.keys)]
  IN
  /\ q.at = "listed" /\ q.keys # <<>>
  /\ poll' = [poll EXCEPT ![r] =
       [q EXCEPT !.keys = Tail(@),
                 !.content = @ \o Unseen(data, q.next, q.after),
                 !.next = EndOf(data, q.next, q.after)]]
  /\ UNCHANGED <<workerVars, running, offset, shown>>

Answer(r) ==
  LET q == poll[r] IN
  /\ q.at = "listed" /\ q.keys = <<>>
  /\ poll' = [poll EXCEPT ![r] = NoRead]
  /\ shown' = shown \cup ToSet(q.content)
  /\ offset' = q.next
  /\ UNCHANGED <<workerVars, running>>

\* "transient": the drawer forgets a read that failed.
Lose(r) ==
  /\ poll[r] # NoRead
  /\ poll' = [poll EXCEPT ![r] = NoRead]
  /\ UNCHANGED <<workerVars, running, offset, shown>>

Work(w) == Announce(w) \/ Conclude(w) \/ Commit(w) \/ Abandon(w)
Serve(r) == Follow(r) \/ Tick(r) \/ List(r) \/ Fetch(r) \/ Answer(r) \/ Lose(r)
Next ==
  \/ Start \/ Requeue \/ CancelQueued
  \/ \E w \in Attempts : Work(w)
  \/ \E r \in Reads : Serve(r)

-----------------------------------------------------------------------------
\* While one attempt has written to the log, a reply is exactly the log from the
\* offset that was asked for to the offset it gives, whatever was flushed in between,
\* and of the bytes below its offset the drawer has missed none, however its reads
\* overlap and get lost.  log_size is where the tail of a log is that was written once,
\* and the read after such a step has succeeded is complete (job_logs.py:5).
TailMissesNothing ==
  Cardinality(wrote) <= 1 =>
    /\ \A r \in Reads : poll[r].at = "listed" /\ poll[r].keys = <<>> =>
         poll[r].content = SubSeq(Log, poll[r].after + 1, poll[r].next)
    /\ offset <= Len(Log) /\ \A i \in 1..offset : Log[i] \in shown
    /\ attempt = 1 /\ step.status = "succeeded" =>
         /\ step.size = Len(Log)
         /\ running = "no" /\ offset > 0 => offset = Len(Log)
=============================================================================
