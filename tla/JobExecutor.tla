----------------------------- MODULE JobExecutor -----------------------------
(***************************************************************************)
(* The Postgres job queue and the in-process JobExecutor (ADR-0007 1):     *)
(* POST /builds and /cancel (apps/api routers/builds.py) put jobs in and   *)
(* flag them; every worker process runs claim -> execute_job -> finalize,  *)
(* a heartbeat coroutine and the requeue sweeper (apps/worker executor.py).*)
(*                                                                         *)
(* One action is one database transaction, one object-store call, or one   *)
(* read whose result the worker keeps across an await.  Wall-clock time is *)
(* the predicate "fresh": TRUE while heartbeat_at is younger than          *)
(* REQUEUE_TIMEOUT_SECONDS.                                                *)
(*                                                                         *)
(* Data is abstracted to identity: a parquet object is named by the build  *)
(* (step, attempt) that wrote it.  Uploaded source datasets always have a  *)
(* version, so Inputs lists only the inputs that are themselves built.     *)
(***************************************************************************)
EXTENDS Naturals, Sequences, FiniteSets

CONSTANTS
  Jobs,         (* one element per POST /builds request of the behaviour   *)
  Workers,      (* worker processes                                        *)
  Datasets,     (* datasets some recipe produces                           *)
  Plan,         (* Plan[j]: the targets of the job's steps, by ordinal     *)
  Requested,    (* Requested[j]: body.targets of the request               *)
  Inputs,       (* Inputs[d]: produced datasets the recipe of d reads      *)
  MaxAttempts,  (* MAX_ATTEMPTS                                            *)
  MayStall,     (* may a live worker miss its heartbeats for the timeout?  *)
  MayCrash,     (* may a worker process die in the middle of a job?        *)
  MayFail,      (* may a build step raise?                                 *)
  None

ASSUME JobsAssumption == IsFiniteSet(Jobs)
ASSUME PlanAssumption ==
  /\ Plan \in [Jobs -> Seq(Datasets)]
  /\ Requested \in [Jobs -> SUBSET Datasets]
  /\ Inputs \in [Datasets -> SUBSET Datasets]
ASSUME AttemptsAssumption == MaxAttempts \in Nat
ASSUME SwitchAssumption ==
  /\ MayStall \in BOOLEAN
  /\ MayCrash \in BOOLEAN
  /\ MayFail \in BOOLEAN
ASSUME NoneAssumption == None \notin Jobs /\ None \notin Workers

Steps == UNION {{<<j, i>> : i \in 1..Len(Plan[j])} : j \in Jobs}
JobOf(s) == s[1]
Target(s) == Plan[s[1]][s[2]]
StepsOf(j) == {s \in Steps : JobOf(s) = j}

VARIABLES
  (* table jobs *)
  status,       (* jobs.status; "absent" and "resolved" precede the INSERT *)
  cancelReq,    (* jobs.cancel_requested                                   *)
  attempts,     (* jobs.attempts                                           *)
  claimedBy,    (* jobs.claimed_by                                         *)
  fresh,        (* heartbeat_at is within the requeue timeout              *)
  created,      (* order of jobs.created_at, 0 before the INSERT           *)
  (* table job_steps *)
  step,         (* job_steps.status                                        *)
  (* tables datasets and dataset_versions, and the object store *)
  current,      (* datasets.current_version                                *)
  rows,         (* dataset_versions                                        *)
  objects,      (* parquet objects under v<N>/                             *)
  (* worker processes *)
  pc,           (* where each worker is in execute_job / _run_step         *)
  run           (* its local variables                                     *)

jobVars == <<status, cancelReq, attempts, claimedBy, fresh, created>>
dataVars == <<current, rows, objects>>
workerVars == <<pc, run>>
vars == <<status, cancelReq, attempts, claimedBy, fresh, created, step,
          current, rows, objects, pc, run>>

Active == {"queued", "running"}
Terminal == {"succeeded", "failed", "cancelled"}
JobStatus == {"absent", "resolved"} \cup Active \cup Terminal
StepStatus == {"absent", "queued", "running", "succeeded", "failed", "skipped"}
PC == {"idle", "claimed", "loop", "start", "resolve", "check", "clear",
       "write", "validate", "commit", "skip", "fail", "finalize"}

Build == [step: Steps, attempt: Nat]
ASSUME BuildAssumption == None \notin Build

Object == [ds: Datasets, ver: Nat \ {0}, by: Build]
Row == [ds: Datasets, ver: Nat \ {0}, step: Steps, by: Build,
        inputs: SUBSET (Datasets \X Nat)]
Run == [job: Jobs \cup {None}, attempt: Nat, todo: SUBSET Steps,
        step: Steps \cup {None}, next: Nat, inputs: SUBSET (Datasets \X Nat),
        by: Build \cup {None}, outcome: Terminal]

NoRun == [job |-> None, attempt |-> 0, todo |-> {}, step |-> None, next |-> 0,
          inputs |-> {}, by |-> None, outcome |-> "succeeded"]

TypeOK ==
  /\ status \in [Jobs -> JobStatus]
  /\ cancelReq \in [Jobs -> BOOLEAN]
  /\ attempts \in [Jobs -> Nat]
  /\ claimedBy \in [Jobs -> Workers \cup {None}]
  /\ fresh \in [Jobs -> BOOLEAN]
  /\ created \in [Jobs -> Nat]
  /\ step \in [Steps -> StepStatus]
  /\ current \in [Datasets -> Nat]
  /\ rows \subseteq Row
  /\ objects \subseteq Object
  /\ pc \in [Workers -> PC]
  /\ run \in [Workers -> Run]

Init ==
  /\ status = [j \in Jobs |-> "absent"]
  /\ cancelReq = [j \in Jobs |-> FALSE]
  /\ attempts = [j \in Jobs |-> 0]
  /\ claimedBy = [j \in Jobs |-> None]
  /\ fresh = [j \in Jobs |-> FALSE]
  /\ created = [j \in Jobs |-> 0]
  /\ step = [s \in Steps |-> "absent"]
  /\ current = [d \in Datasets |-> 0]
  /\ rows = {}
  /\ objects = {}
  /\ pc = [w \in Workers |-> "idle"]
  /\ run = [w \in Workers |-> NoRun]

(***************************************************************************)
(* The API: create_build and cancel_job.                                   *)
(***************************************************************************)

Unfinished == {"queued", "running"}

\* Steps of job j whose status is in S become st; no other step changes.
MoveSteps(j, S, st) ==
  [s \in Steps |-> IF JobOf(s) = j /\ step[s] \in S THEN st ELSE step[s]]

Coalesces(j) ==
  \E s \in Steps : Target(s) \in Requested[j] /\ status[JobOf(s)] \in Active

\* The coalescing query found no active job with a step on a requested
\* target; the plan is resolved, the INSERT is still to come.
ResolveBuild(j) ==
  /\ status[j] = "absent"
  /\ ~Coalesces(j)
  /\ status' = [status EXCEPT ![j] = "resolved"]
  /\ UNCHANGED <<cancelReq, attempts, claimedBy, fresh, created, step,
                 dataVars, workerVars>>

\* The INSERTs and the commit; an empty plan is recorded as succeeded.
InsertJob(j) ==
  /\ status[j] = "resolved"
  /\ status' = [status EXCEPT ![j] = IF StepsOf(j) = {} THEN "succeeded" ELSE "queued"]
  /\ created' = [created EXCEPT ![j] =
                   1 + Cardinality({k \in Jobs : created[k] > 0})]
  /\ step' = MoveSteps(j, {"absent"}, "queued")
  /\ UNCHANGED <<cancelReq, attempts, claimedBy, fresh, dataVars, workerVars>>

CancelJob(j) ==
  /\ status[j] \in Active
  /\ cancelReq' = [cancelReq EXCEPT ![j] = TRUE]
  /\ IF status[j] = "queued"
       THEN /\ status' = [status EXCEPT ![j] = "cancelled"]
            /\ step' = MoveSteps(j, Unfinished, "skipped")
       ELSE UNCHANGED <<status, step>>
  /\ UNCHANGED <<attempts, claimedBy, fresh, created, dataVars, workerVars>>

(***************************************************************************)
(* The worker: claim, execute_job and _run_step.                           *)
(***************************************************************************)

\* SELECT ... ORDER BY created_at FOR UPDATE SKIP LOCKED LIMIT 1, then UPDATE.
Claim(w) ==
  /\ pc[w] = "idle"
  /\ \E j \in Jobs :
       /\ status[j] = "queued"
       /\ \A k \in Jobs : status[k] = "queued" => created[j] <= created[k]
       /\ status' = [status EXCEPT ![j] = "running"]
       /\ claimedBy' = [claimedBy EXCEPT ![j] = w]
       /\ fresh' = [fresh EXCEPT ![j] = TRUE]
       /\ run' = [run EXCEPT ![w] = [NoRun EXCEPT !.job = j, !.attempt = attempts[j]]]
  /\ pc' = [pc EXCEPT ![w] = "claimed"]
  /\ UNCHANGED <<cancelReq, attempts, created, step, dataVars>>

\* Leave execute_job without touching the job.
Abandon(w) ==
  /\ pc' = [pc EXCEPT ![w] = "idle"]
  /\ run' = [run EXCEPT ![w] = NoRun]

AllSteps(j) == StepsOf(j)
Pending(j) == {s \in StepsOf(j) : step[s] = "queued"}

\* execute_job re-reads the job and snapshots the steps that are still queued.
ExecuteJob(w) ==
  LET j == run[w].job IN
  /\ pc[w] = "claimed"
  /\ IF status[j] # "running"
       THEN Abandon(w)
       ELSE /\ pc' = [pc EXCEPT ![w] = "loop"]
            /\ run' = [run EXCEPT ![w].todo = Pending(j)]
  /\ UNCHANGED <<jobVars, step, dataVars>>

GoFinalize(w, outcome) ==
  /\ pc' = [pc EXCEPT ![w] = "finalize"]
  /\ run' = [run EXCEPT ![w].outcome = outcome]

ByOrdinal(s, S) == \A t \in S : s[2] <= t[2]

\* Head of the step loop: next snapshotted step, or out of the loop.
NextStep(w) ==
  /\ pc[w] = "loop"
  /\ \/ run[w].todo = {} /\ GoFinalize(w, "succeeded")
     \/ run[w].todo # {} /\ cancelReq[run[w].job] /\ GoFinalize(w, "cancelled")
     \/ /\ ~cancelReq[run[w].job]
        /\ \E s \in run[w].todo :
             /\ ByOrdinal(s, run[w].todo)
             /\ run' = [run EXCEPT ![w].todo = @ \ {s}, ![w].step = s]
        /\ pc' = [pc EXCEPT ![w] = "start"]
  /\ UNCHANGED <<jobVars, step, dataVars>>

\* _start_step: unconditional.
StartStep(w) ==
  /\ pc[w] = "start"
  /\ step' = [step EXCEPT ![run[w].step] = "running"]
  /\ pc' = [pc EXCEPT ![w] = "resolve"]
  /\ UNCHANGED <<jobVars, dataVars, run>>

\* One session reads the inputs' current versions and picks the version to
\* build; an input that was never built is a Problem, which fails the step.
ResolveStep(w) ==
  LET d == Target(run[w].step) IN
  /\ pc[w] = "resolve"
  /\ IF \E i \in Inputs[d] : current[i] = 0
       THEN pc' = [pc EXCEPT ![w] = "fail"] /\ UNCHANGED run
       ELSE /\ pc' = [pc EXCEPT ![w] = "check"]
            /\ run' = [run EXCEPT ![w].next = current[d] + 1,
                                  ![w].inputs = {<<i, current[i]>> : i \in Inputs[d]}]
  /\ UNCHANGED <<jobVars, step, dataVars>>

\* The step raises outside the build's try block: the recipe or the target is
\* gone, a policy blocks it, the connection does not open.
StepError(w) ==
  /\ MayFail
  /\ pc[w] \in {"start", "resolve", "check"}
  /\ pc' = [pc EXCEPT ![w] = "fail"]
  /\ UNCHANGED <<jobVars, step, dataVars, run>>

CheckCancel(w) ==
  /\ pc[w] = "check"
  /\ IF cancelReq[run[w].job]
       THEN GoFinalize(w, "cancelled")
       ELSE pc' = [pc EXCEPT ![w] = "clear"] /\ UNCHANGED run
  /\ UNCHANGED <<jobVars, step, dataVars>>

AtKey(d, v) == {o \in objects : o.ds = d /\ o.ver = v}

\* delete_prefix(v<N+1>/)
ClearPrefix(w) ==
  /\ pc[w] = "clear"
  /\ objects' = objects \ AtKey(Target(run[w].step), run[w].next)
  /\ pc' = [pc EXCEPT ![w] = "write"]
  /\ UNCHANGED <<jobVars, step, current, rows, run>>

InputsReadable(w) == \A i \in run[w].inputs : AtKey(i[1], i[2]) # {}

\* materialize_inputs, compile, to_parquet
WriteParquet(w) ==
  LET d == Target(run[w].step)
      b == [step |-> run[w].step, attempt |-> run[w].attempt]
  IN
  /\ pc[w] = "write"
  /\ InputsReadable(w)
  /\ objects' = (objects \ AtKey(d, run[w].next))
                  \cup {[ds |-> d, ver |-> run[w].next, by |-> b]}
  /\ pc' = [pc EXCEPT ![w] = "validate"]
  /\ UNCHANGED <<jobVars, step, current, rows, run>>

\* validate_parquet and profile_parquet describe the object found at the key.
ValidateParquet(w) ==
  /\ pc[w] = "validate"
  /\ \E o \in AtKey(Target(run[w].step), run[w].next) :
       run' = [run EXCEPT ![w].by = o.by]
  /\ pc' = [pc EXCEPT ![w] = "commit"]
  /\ UNCHANGED <<jobVars, step, dataVars>>

AnyErrorCancels(w) == TRUE
ErrorIsCancel(w) == cancelReq[run[w].job]

\* The build raises: an error of its own, an interrupt by the cancel poll, an
\* input or the fresh object missing from the store.  With a cancel pending
\* the exception means cancelled, otherwise a failed step.
BuildError(w) ==
  /\ \/ MayFail /\ pc[w] \in {"clear", "write", "validate"}
     \/ pc[w] \in {"write", "validate"} /\ cancelReq[run[w].job]
     \/ pc[w] = "write" /\ ~InputsReadable(w)
     \/ pc[w] = "validate" /\ AtKey(Target(run[w].step), run[w].next) = {}
  /\ IF ErrorIsCancel(w)
       THEN GoFinalize(w, "cancelled")
       ELSE pc' = [pc EXCEPT ![w] = "fail"] /\ UNCHANGED run
  /\ UNCHANGED <<jobVars, step, dataVars>>

(***************************************************************************)
(* The flip and the job's end.                                             *)
(***************************************************************************)

\* The transaction of _commit_version when it goes through.
Flip(w) ==
  LET s == run[w].step
      d == Target(s)
  IN
  /\ rows' = rows \cup {[ds |-> d, ver |-> run[w].next, step |-> s,
                         by |-> run[w].by, inputs |-> run[w].inputs]}
  /\ current' = [current EXCEPT ![d] = run[w].next]
  /\ step' = [step EXCEPT ![s] = "succeeded"]
  /\ pc' = [pc EXCEPT ![w] = "loop"]

NoUniqueKey(d, v) == FALSE

\* UNIQUE (dataset_id, version) on dataset_versions.
VersionTaken(d, v) == \E r \in rows : r.ds = d /\ r.ver = v

IgnoresCancel(j) == FALSE
CancelSeen(j) == cancelReq[j]

CommitVersion(w) ==
  LET j == run[w].job IN
  /\ pc[w] = "commit"
  /\ \/ /\ status[j] # "running"                      \* superseded
        /\ Abandon(w)
        /\ UNCHANGED <<step, current, rows>>
     \/ /\ status[j] = "running" /\ CancelSeen(j)     \* cancelled
        /\ pc' = [pc EXCEPT ![w] = "skip"]
        /\ UNCHANGED <<step, current, rows, run>>
     \/ /\ status[j] = "running" /\ ~CancelSeen(j)    \* IntegrityError
        /\ VersionTaken(Target(run[w].step), run[w].next)
        /\ pc' = [pc EXCEPT ![w] = "fail"]
        /\ UNCHANGED <<step, current, rows, run>>
     \/ /\ status[j] = "running" /\ ~CancelSeen(j)    \* flipped
        /\ ~VersionTaken(Target(run[w].step), run[w].next)
        /\ Flip(w)
        /\ UNCHANGED run
  /\ UNCHANGED <<jobVars, objects>>

\* _skip_step, then _Cancelled.
SkipStep(w) ==
  /\ pc[w] = "skip"
  /\ step' = [step EXCEPT ![run[w].step] = IF @ \in Unfinished THEN "skipped" ELSE @]
  /\ GoFinalize(w, "cancelled")
  /\ UNCHANGED <<jobVars, dataVars>>

FailAndGoOn(w) ==
  /\ pc[w] = "fail"
  /\ step' = [step EXCEPT ![run[w].step] = "failed"]
  /\ pc' = [pc EXCEPT ![w] = "loop"]
  /\ UNCHANGED <<jobVars, dataVars, run>>

\* _fail_step: unconditional.
FailStep(w) ==
  /\ pc[w] = "fail"
  /\ step' = [step EXCEPT ![run[w].step] = "failed"]
  /\ GoFinalize(w, "failed")
  /\ UNCHANGED <<jobVars, dataVars>>

StillOpen(j) == status[j] = "running"

FinalizeJob(w) ==
  LET j == run[w].job IN
  /\ pc[w] = "finalize"
  /\ IF ~StillOpen(j)
       THEN UNCHANGED <<status, step>>
       ELSE /\ status' = [status EXCEPT ![j] = run[w].outcome]
            /\ step' = IF run[w].outcome = "succeeded" THEN step
                       ELSE MoveSteps(j, Unfinished, "skipped")
  /\ Abandon(w)
  /\ UNCHANGED <<cancelReq, attempts, claimedBy, fresh, created, dataVars>>

(***************************************************************************)
(* Heartbeats, the requeue sweeper, and a worker that goes away.           *)
(***************************************************************************)

\* The heartbeat coroutine lives from the step loop to stop.set().
Beating(w) == pc[w] \notin {"idle", "claimed", "finalize"}

Heartbeat(w) ==
  /\ Beating(w)
  /\ status[run[w].job] = "running"
  /\ ~fresh[run[w].job]
  /\ fresh' = [fresh EXCEPT ![run[w].job] = TRUE]
  /\ UNCHANGED <<status, cancelReq, attempts, claimedBy, created, step,
                 dataVars, workerVars>>

Holds(w, j) == pc[w] # "idle" /\ run[w].job = j

\* REQUEUE_TIMEOUT_SECONDS pass without a heartbeat: nobody holds the job, or
\* (MayStall) its holder is paused or its heartbeat UPDATEs keep failing.
HeartbeatLapse(j) ==
  /\ status[j] = "running"
  /\ fresh[j]
  /\ MayStall \/ \A w \in Workers : ~Holds(w, j)
  /\ fresh' = [fresh EXCEPT ![j] = FALSE]
  /\ UNCHANGED <<status, cancelReq, attempts, claimedBy, created, step,
                 dataVars, workerVars>>

AnyRunning == {j \in Jobs : status[j] = "running"}
Retryable == {j \in Jobs : status[j] = "running" /\ ~fresh[j] /\ attempts[j] < MaxAttempts}
Stale == {j \in Jobs : status[j] = "running" /\ ~fresh[j]}
Exhausted(j) == attempts[j] + 1 > MaxAttempts

\* One sweep transaction over the stale rows S it could lock.
Sweep(S) ==
  /\ S # {} /\ S \subseteq Stale
  /\ status' = [j \in Jobs |-> IF j \notin S THEN status[j]
                               ELSE IF Exhausted(j) THEN "failed" ELSE "queued"]
  /\ attempts' = [j \in Jobs |-> IF j \in S THEN attempts[j] + 1 ELSE attempts[j]]
  /\ claimedBy' = [j \in Jobs |-> IF j \in S THEN None ELSE claimedBy[j]]
  /\ step' = [s \in Steps |->
                IF JobOf(s) \notin S THEN step[s]
                ELSE IF Exhausted(JobOf(s))
                       THEN IF step[s] \in Unfinished THEN "skipped" ELSE step[s]
                       ELSE IF step[s] = "running" THEN "queued" ELSE step[s]]
  /\ UNCHANGED <<cancelReq, fresh, created, dataVars, workerVars>>

\* The process dies and restarts, or an exception escapes execute_job and
\* job_loop goes on to the next claim: the job stays "running".
Crash(w) ==
  /\ MayCrash
  /\ pc[w] # "idle"
  /\ Abandon(w)
  /\ UNCHANGED <<jobVars, step, dataVars>>

WorkerStep(w) ==
  \/ Claim(w) \/ ExecuteJob(w) \/ NextStep(w)
  \/ StartStep(w) \/ ResolveStep(w) \/ StepError(w) \/ CheckCancel(w)
  \/ ClearPrefix(w) \/ WriteParquet(w) \/ ValidateParquet(w) \/ BuildError(w)
  \/ CommitVersion(w) \/ SkipStep(w) \/ FailStep(w) \/ FinalizeJob(w)

Api(j) == ResolveBuild(j) \/ InsertJob(j) \/ CancelJob(j)

Next ==
  \/ \E j \in Jobs : Api(j) \/ HeartbeatLapse(j)
  \/ \E w \in Workers : WorkerStep(w) \/ Heartbeat(w) \/ Crash(w)
  \/ \E S \in SUBSET Jobs : Sweep(S)

Spec == Init /\ [][Next]_vars

\* A worker's event loop keeps running its coroutine, an open request is
\* answered, time passes, and sweep_loop sweeps every 30 s.
Fairness ==
  /\ \A w \in Workers : WF_vars(WorkerStep(w))
  /\ \A j \in Jobs : WF_vars(InsertJob(j)) /\ WF_vars(HeartbeatLapse(j))
  /\ WF_vars(Sweep(Stale))

FairSpec == Spec /\ Fairness

-----------------------------------------------------------------------------
(***************************************************************************)
(* What the executor promises whatever its workers do: crashes, stalls,    *)
(* cancels and requeues included.                                          *)
(***************************************************************************)

\* The committed versions of a dataset are exactly 1..current_version, each
\* once: racing flips (executor.py 406-480) neither skip nor repeat a number.
VersionsContiguous ==
  /\ \A d \in Datasets : {r.ver : r \in {x \in rows : x.ds = d}} = 1..current[d]
  /\ \A r1, r2 \in rows : r1.ds = r2.ds /\ r1.ver = r2.ver => r1 = r2

\* Once a job is succeeded, failed or cancelled no claim, sweep, cancel or
\* late finalize moves it again (executor.py 519-535, builds.py 351-361).
TerminalStays ==
  [][\A j \in Jobs : status[j] \in Terminal => status'[j] = status[j]]_vars

\* A job that is not running, or that was asked to stop, publishes nothing,
\* even when a worker still builds for it (executor.py 435-438).
NoLatePublish ==
  [][\A r \in rows' \ rows : /\ status[JobOf(r.step)] = "running"
                            /\ ~cancelReq[JobOf(r.step)]]_vars

\* A job is requeued at most MAX_ATTEMPTS times; the next lost worker fails it
\* for good (executor.py 608-632).
AttemptsCapped ==
  \A j \in Jobs : /\ attempts[j] <= MaxAttempts + 1
                  /\ attempts[j] = MaxAttempts + 1 => status[j] = "failed"

(***************************************************************************)
(* What it promises when a live worker's heartbeats arrive in time         *)
(* (MayStall = FALSE), crashes and requeues included.                      *)
(***************************************************************************)

\* A worker that holds a job is the one recorded in claimed_by and the job is
\* running: no requeue, cancel or second claim happens under its feet.
SoleOwner ==
  \A w \in Workers, j \in Jobs :
    Holds(w, j) => status[j] = "running" /\ claimedBy[j] = w

\* A finished job has no step left queued or running (executor.py 529-534,
\* 617-623, builds.py 357-361).
TerminalQuiet ==
  \A s \in Steps :
    status[JobOf(s)] \in Terminal => step[s] \in {"succeeded", "failed", "skipped"}

\* No step publishes two versions: a requeued job never double-writes a version
\* (executor.py 12-13).
OneVersionPerStep == \A r1, r2 \in rows : r1.step = r2.step => r1 = r2

\* A step is succeeded exactly when it published a version, and then it
\* published one only: a retried job does not build the step again.
OneFlipPerStep ==
  /\ \A s \in Steps : step[s] = "succeeded" <=> \E r \in rows : r.step = s
  /\ OneVersionPerStep

\* The object behind a committed version is the one whose schema, row count
\* and profile the version records (executor.py 340-360, 455-471).
CommittedIntact ==
  \A r \in rows : AtKey(r.ds, r.ver) = {[ds |-> r.ds, ver |-> r.ver, by |-> r.by]}

\* A job ends succeeded only with no step left open, and if it was never requeued
\* only if every step succeeded.  (A crash after a step has ended otherwise loses
\* the outcome of the run, and the requeued run passes the ended step over,
\* executor.py 244-275.)
SucceededIsComplete ==
  \A s \in Steps : status[JobOf(s)] = "succeeded" =>
    /\ step[s] \notin {"queued", "running"}
    /\ attempts[JobOf(s)] = 0 => step[s] = "succeeded"

\* Every queued job comes to an end, through crashes and requeues.
EveryJobEnds ==
  \A j \in Jobs : status[j] = "queued" ~> status[j] \in Terminal

(***************************************************************************)
(* The abstract specifications, under their refinement mappings.           *)
(***************************************************************************)

\* A reader opens the object at a committed version's location.
Served(d, v) == IF AtKey(d, v) = {} THEN None ELSE (CHOOSE o \in AtKey(d, v) : TRUE).by

Store == INSTANCE VersionStore WITH
  Missing <- None,
  store <- [d \in Datasets |-> [v \in 1..current[d] |-> Served(d, v)]]

\* Published data is readable and never changes.
ImplementsVersionStore == Store!Spec

Lifecycle == INSTANCE JobLifecycle WITH
  phase <- [j \in Jobs |-> IF status[j] = "resolved" THEN "absent" ELSE status[j]],
  asked <- cancelReq,
  tries <- attempts

\* The job a client polls moves through its documented life and no other way.
ImplementsJobLifecycle == Lifecycle!Spec
=============================================================================
