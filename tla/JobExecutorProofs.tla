------------------------- MODULE JobExecutorProofs ---------------------------
(***************************************************************************)
(* Proofs about the executor and the pruner, for any jobs, plans, workers  *)
(* and bounds.                                                             *)
(***************************************************************************)
EXTENDS OrphanPruner, FiniteSetTheorems, TLAPS

-----------------------------------------------------------------------------
(* Steps and their projections. *)

LEMMA StepFacts ==
  ASSUME NEW s \in Steps
  PROVE  JobOf(s) \in Jobs /\ Target(s) \in Datasets /\ s[2] \in Nat
<1>1. PICK j \in Jobs : s \in {<<j, i>> : i \in 1..Len(Plan[j])}
  BY DEF Steps
<1>2. PICK i \in 1..Len(Plan[j]) : s = <<j, i>>
  BY <1>1
<1>3. Plan[j] \in Seq(Datasets)
  BY PlanAssumption
<1> QED
  BY <1>2, <1>3 DEF JobOf, Target

LEMMA MoveStepsType ==
  ASSUME step \in [Steps -> StepStatus], NEW j, NEW S, NEW st \in StepStatus
  PROVE  MoveSteps(j, S, st) \in [Steps -> StepStatus]
BY DEF MoveSteps

-----------------------------------------------------------------------------
(* Type correctness.  TypeOK alone is not inductive: a worker publishes what *)
(* its locals say, so they must be meaningful wherever they are read.        *)

InStep == {"start", "resolve", "check", "clear", "write", "validate", "commit",
           "skip", "fail"}
HasVersion == {"check", "clear", "write", "validate", "commit", "skip"}

LocalOK(p, r) ==
  /\ p # "idle" => r.job \in Jobs /\ r.todo \subseteq StepsOf(r.job)
  /\ p \in InStep => r.step \in StepsOf(r.job)
  /\ p \in HasVersion => r.next \in Nat \ {0}
  /\ p = "commit" => r.by \in Build

LocalsOK == \A w \in Workers : LocalOK(pc[w], run[w])

TypeInv == TypeOK /\ LocalsOK

LEMMA NoRunType == NoRun \in Run
BY DEF NoRun, Run, Terminal

LEMMA InitTypeInv == Init => TypeInv
BY NoRunType DEF Init, TypeInv, TypeOK, LocalsOK, LocalOK, JobStatus, StepStatus, PC,
       Active, Terminal, InStep, HasVersion, Build, Row, Object

USE DEF JobStatus, StepStatus, PC, Active, Terminal, InStep, HasVersion

WorkersOK == pc \in [Workers -> PC] /\ run \in [Workers -> Run] /\ LocalsOK

\* What one worker's move does to the locals of all.
LEMMA WorkerMove ==
  ASSUME WorkersOK, NEW w \in Workers, NEW p \in PC, NEW r \in Run,
         pc' = [pc EXCEPT ![w] = p], run' = [run EXCEPT ![w] = r], LocalOK(p, r)
  PROVE  WorkersOK'
<1>1. \A v \in Workers : /\ pc'[v] = IF v = w THEN p ELSE pc[v]
                         /\ run'[v] = IF v = w THEN r ELSE run[v]
  BY DEF WorkersOK
<1>2. \A v \in Workers : LocalOK(pc'[v], run'[v])
  BY <1>1 DEF WorkersOK, LocalsOK
<1>3. pc' \in [Workers -> PC] /\ run' \in [Workers -> Run]
  BY DEF WorkersOK
<1> QED
  BY <1>2, <1>3 DEF WorkersOK, LocalsOK, LocalOK

LEMMA AbandonOK ==
  ASSUME WorkersOK, NEW w \in Workers, Abandon(w)
  PROVE  WorkersOK'
BY WorkerMove, NoRunType DEF Abandon, LocalOK

LEMMA GoFinalizeOK ==
  ASSUME WorkersOK, NEW w \in Workers, pc[w] # "idle", NEW o \in Terminal,
         GoFinalize(w, o)
  PROVE  WorkersOK'
<1> DEFINE r == [run[w] EXCEPT !.outcome = o]
<1>1. r \in Run /\ r.job = run[w].job /\ r.todo = run[w].todo
  BY DEF WorkersOK, Run
<1>2. run' = [run EXCEPT ![w] = r]
  BY DEF GoFinalize
<1>3. LocalOK("finalize", r)
  BY <1>1 DEF WorkersOK, LocalsOK, LocalOK
<1>4. pc' = [pc EXCEPT ![w] = "finalize"]
  BY DEF GoFinalize
<1> HIDE DEF r
<1> QED
  BY <1>1, <1>2, <1>3, <1>4, WorkerMove

\* A move that keeps the locals.
LEMMA PcMoveOK ==
  ASSUME WorkersOK, NEW w \in Workers, NEW p \in PC,
         pc' = [pc EXCEPT ![w] = p], UNCHANGED run, LocalOK(p, run[w])
  PROVE  WorkersOK'
<1>1. run[w] \in Run /\ run' = [run EXCEPT ![w] = run[w]]
  BY DEF WorkersOK
<1> QED
  BY <1>1, WorkerMove

LEMMA ApiTypeInv ==
  ASSUME TypeInv, NEW j \in Jobs, Api(j)
  PROVE  TypeInv'
<1> USE DEF TypeInv, TypeOK, LocalsOK, LocalOK, dataVars, workerVars
<1>1. CASE ResolveBuild(j)
  BY <1>1 DEF ResolveBuild
<1>2. CASE InsertJob(j)
  <2>1. Cardinality({k \in Jobs : created[k] > 0}) \in Nat
    BY JobsAssumption, FS_Subset, FS_CardinalityType
  <2>2. MoveSteps(j, {"absent"}, "queued") \in [Steps -> StepStatus]
    BY MoveStepsType
  <2> QED
    BY <1>2, <2>1, <2>2 DEF InsertJob
<1>3. CASE CancelJob(j)
  <2>1. MoveSteps(j, Unfinished, "skipped") \in [Steps -> StepStatus]
    BY MoveStepsType
  <2> QED
    BY <1>3, <2>1 DEF CancelJob
<1> QED
  BY <1>1, <1>2, <1>3 DEF Api

LEMMA WorkerTypeInv ==
  ASSUME TypeInv, NEW w \in Workers, WorkerStep(w)
  PROVE  TypeInv'
<1> DEFINE r == run[w]
           j == r.job
<1> USE DEF jobVars, dataVars, workerVars
<1> WorkersOK /\ r \in Run /\ LocalOK(pc[w], r)
  BY DEF TypeInv, TypeOK, WorkersOK, LocalsOK
<1>0. SUFFICES TypeOK' /\ WorkersOK'
  BY DEF TypeInv, TypeOK, WorkersOK
<1>1. CASE Claim(w)
  <2>1. PICK k \in Jobs : run' = [run EXCEPT ![w] = [NoRun EXCEPT !.job = k, !.attempt = attempts[k]]]
    BY <1>1 DEF Claim
  <2> DEFINE q == [NoRun EXCEPT !.job = k, !.attempt = attempts[k]]
  <2>2. q \in Run /\ q.job = k /\ q.todo = {}
    BY DEF NoRun, Run, TypeInv, TypeOK
  <2>3. LocalOK("claimed", q)
    BY <2>2 DEF LocalOK
  <2>4. run' = [run EXCEPT ![w] = q] /\ pc' = [pc EXCEPT ![w] = "claimed"]
    BY <1>1, <2>1 DEF Claim
  <2> HIDE DEF q
  <2>5. WorkersOK'
    BY <2>2, <2>3, <2>4, WorkerMove
  <2> QED
    BY <1>1, <2>5 DEF Claim, TypeInv, TypeOK, WorkersOK
<1>2. CASE ExecuteJob(w)
  <2>1. CASE Abandon(w)
    BY <1>2, <2>1, AbandonOK DEF ExecuteJob, TypeInv, TypeOK, WorkersOK
  <2>2. CASE ~Abandon(w)
    <3> DEFINE q == [r EXCEPT !.todo = Pending(j)]
    <3>1. q \in Run /\ q.job = j /\ q.todo = Pending(j)
      BY DEF Run, Pending, StepsOf
    <3>2. LocalOK("loop", q)
      BY <1>2, <3>1 DEF LocalOK, ExecuteJob, Pending
    <3>3. run' = [run EXCEPT ![w] = q] /\ pc' = [pc EXCEPT ![w] = "loop"]
      BY <1>2, <2>2 DEF ExecuteJob
    <3> HIDE DEF q
    <3>4. WorkersOK'
      BY <3>1, <3>2, <3>3, WorkerMove
    <3> QED
      BY <1>2, <3>4 DEF ExecuteJob, TypeInv, TypeOK, WorkersOK
  <2> QED
    BY <2>1, <2>2
<1>3. CASE NextStep(w)
  <2>1. CASE \E o \in Terminal : GoFinalize(w, o)
    <3>1. WorkersOK'
      BY <1>3, <2>1, GoFinalizeOK DEF NextStep
    <3> QED
      BY <1>3, <3>1 DEF NextStep, TypeInv, TypeOK, WorkersOK
  <2>2. CASE ~ \E o \in Terminal : GoFinalize(w, o)
    <3>1. PICK s \in r.todo : run' = [run EXCEPT ![w].todo = @ \ {s}, ![w].step = s]
      BY <1>3, <2>2 DEF NextStep
    <3> DEFINE q == [r EXCEPT !.todo = @ \ {s}, !.step = s]
    <3>2. s \in StepsOf(j) /\ s \in Steps
      BY <1>3, <3>1 DEF LocalOK, NextStep, StepsOf
    <3>3. q \in Run /\ q.job = j /\ q.todo = r.todo \ {s} /\ q.step = s
      BY <3>2 DEF Run
    <3>4. LocalOK("start", q)
      BY <1>3, <3>2, <3>3 DEF LocalOK, NextStep
    <3>5. run' = [run EXCEPT ![w] = q] /\ pc' = [pc EXCEPT ![w] = "start"]
      BY <1>3, <2>2, <3>1 DEF NextStep
    <3> HIDE DEF q
    <3>6. WorkersOK'
      BY <3>3, <3>4, <3>5, WorkerMove
    <3> QED
      BY <1>3, <3>6 DEF NextStep, TypeInv, TypeOK, WorkersOK
  <2> QED
    BY <2>1, <2>2
<1>4. CASE StartStep(w)
  <2>1. WorkersOK'
    BY <1>4, PcMoveOK DEF StartStep, LocalOK
  <2> QED
    BY <1>4, <2>1 DEF StartStep, TypeInv, TypeOK, WorkersOK
<1>5. CASE ResolveStep(w)
  <2> DEFINE d == Target(r.step)
             q == [r EXCEPT !.next = current[d] + 1,
                            !.inputs = {<<i, current[i]>> : i \in Inputs[d]}]
  <2>1. CASE UNCHANGED run /\ pc' = [pc EXCEPT ![w] = "fail"]
    <3>1. WorkersOK'
      BY <1>5, <2>1, PcMoveOK DEF ResolveStep, LocalOK
    <3> QED
      BY <1>5, <3>1 DEF ResolveStep, TypeInv, TypeOK, WorkersOK
  <2>2. CASE run' = [run EXCEPT ![w] = q] /\ pc' = [pc EXCEPT ![w] = "check"]
    <3>1. r.step \in StepsOf(j) /\ d \in Datasets
      BY <1>5, StepFacts DEF ResolveStep, LocalOK, StepsOf
    <3>2. current[d] + 1 \in Nat \ {0}
      BY <3>1 DEF TypeInv, TypeOK
    <3>3. {<<i, current[i]>> : i \in Inputs[d]} \subseteq Datasets \X Nat
      BY <3>1, PlanAssumption DEF TypeInv, TypeOK
    <3> HIDE DEF d
    <3>4. q \in Run /\ q.job = j /\ q.todo = r.todo /\ q.step = r.step /\ q.next = current[d] + 1
      BY <3>2, <3>3 DEF Run
    <3> HIDE DEF q
    <3>5. LocalOK("check", q)
      BY <1>5, <3>1, <3>2, <3>4 DEF LocalOK, ResolveStep
    <3>6. WorkersOK'
      BY <2>2, <3>4, <3>5, WorkerMove
    <3> QED
      BY <1>5, <3>6 DEF ResolveStep, TypeInv, TypeOK, WorkersOK
  <2> QED
    BY <1>5, <2>1, <2>2 DEF ResolveStep
<1>6. CASE StepError(w)
  <2>1. WorkersOK'
    BY <1>6, PcMoveOK DEF StepError, LocalOK
  <2> QED
    BY <1>6, <2>1 DEF StepError, TypeInv, TypeOK, WorkersOK
<1>7. CASE CheckCancel(w)
  <2>1. CASE GoFinalize(w, "cancelled")
    <3>1. WorkersOK'
      BY <1>7, <2>1, GoFinalizeOK DEF CheckCancel
    <3> QED
      BY <1>7, <3>1 DEF CheckCancel, TypeInv, TypeOK, WorkersOK
  <2>2. CASE ~GoFinalize(w, "cancelled")
    <3>1. WorkersOK'
      BY <1>7, <2>2, PcMoveOK DEF CheckCancel, LocalOK
    <3> QED
      BY <1>7, <3>1 DEF CheckCancel, TypeInv, TypeOK, WorkersOK
  <2> QED
    BY <2>1, <2>2
<1>8. CASE ClearPrefix(w)
  <2>1. WorkersOK'
    BY <1>8, PcMoveOK DEF ClearPrefix, LocalOK
  <2> QED
    BY <1>8, <2>1 DEF ClearPrefix, TypeInv, TypeOK, WorkersOK
<1>9. CASE WriteParquet(w)
  <2>1. WorkersOK'
    BY <1>9, PcMoveOK DEF WriteParquet, LocalOK
  <2>2. r.step \in Steps /\ Target(r.step) \in Datasets /\ r.next \in Nat \ {0} /\ r.attempt \in Nat
    BY <1>9, StepFacts DEF WriteParquet, LocalOK, StepsOf, Run
  <2>3. objects' \subseteq Object
    BY <1>9, <2>2 DEF WriteParquet, Object, Build, TypeInv, TypeOK
  <2> QED
    BY <1>9, <2>1, <2>3 DEF WriteParquet, TypeInv, TypeOK, WorkersOK
<1>10. CASE ValidateParquet(w)
  <2>1. PICK o \in objects : run' = [run EXCEPT ![w].by = o.by]
    BY <1>10 DEF ValidateParquet, AtKey
  <2>2. o.by \in Build
    BY DEF TypeInv, TypeOK, Object
  <2> DEFINE q == [r EXCEPT !.by = o.by]
  <2>3. /\ q \in Run /\ q.job = j /\ q.todo = r.todo /\ q.step = r.step
        /\ q.next = r.next /\ q.by = o.by
    BY <2>2 DEF Run
  <2>4. run' = [run EXCEPT ![w] = q] /\ pc' = [pc EXCEPT ![w] = "commit"]
    BY <1>10, <2>1 DEF ValidateParquet
  <2> HIDE DEF q
  <2>5. LocalOK("commit", q)
    BY <1>10, <2>2, <2>3 DEF LocalOK, ValidateParquet
  <2>6. WorkersOK'
    BY <2>3, <2>4, <2>5, WorkerMove
  <2> QED
    BY <1>10, <2>6 DEF ValidateParquet, TypeInv, TypeOK, WorkersOK
<1>11. CASE BuildError(w)
  <2>1. pc[w] \in {"clear", "write", "validate"}
    BY <1>11 DEF BuildError
  <2>2. CASE GoFinalize(w, "cancelled")
    <3>1. WorkersOK'
      BY <2>1, <2>2, GoFinalizeOK
    <3> QED
      BY <1>11, <3>1 DEF BuildError, TypeInv, TypeOK, WorkersOK
  <2>3. CASE ~GoFinalize(w, "cancelled")
    <3>1. WorkersOK'
      BY <1>11, <2>1, <2>3, PcMoveOK DEF BuildError, LocalOK
    <3> QED
      BY <1>11, <3>1 DEF BuildError, TypeInv, TypeOK, WorkersOK
  <2> QED
    BY <2>2, <2>3
<1>12. CASE CommitVersion(w)
  <2>1. CASE Abandon(w) /\ UNCHANGED <<step, current, rows>>
    <3>1. WorkersOK'
      BY <2>1, AbandonOK
    <3> QED
      BY <1>12, <2>1, <3>1 DEF CommitVersion, TypeInv, TypeOK, WorkersOK
  <2>2. CASE /\ \E p \in {"skip", "fail"} : pc' = [pc EXCEPT ![w] = p]
             /\ UNCHANGED <<step, current, rows, run>>
    <3>1. WorkersOK'
      BY <1>12, <2>2, PcMoveOK DEF CommitVersion, LocalOK
    <3> QED
      BY <1>12, <2>2, <3>1 DEF CommitVersion, TypeInv, TypeOK, WorkersOK
  <2>3. CASE Flip(w) /\ UNCHANGED run
    <3>1. WorkersOK'
      BY <1>12, <2>3, PcMoveOK DEF CommitVersion, Flip, LocalOK
    <3>2. /\ r.step \in Steps /\ Target(r.step) \in Datasets /\ r.next \in Nat \ {0}
          /\ r.by \in Build /\ r.inputs \subseteq Datasets \X Nat
      BY <1>12, StepFacts DEF CommitVersion, LocalOK, StepsOf, Run
    <3>3. rows' \subseteq Row
      BY <2>3, <3>2 DEF Flip, Row, TypeInv, TypeOK
    <3>4. current' \in [Datasets -> Nat] /\ step' \in [Steps -> StepStatus]
      BY <2>3, <3>2 DEF Flip, TypeInv, TypeOK
    <3> QED
      BY <1>12, <3>1, <3>3, <3>4 DEF CommitVersion, TypeInv, TypeOK, WorkersOK
  <2> QED
    BY <1>12, <2>1, <2>2, <2>3 DEF CommitVersion
<1>13. CASE SkipStep(w)
  <2>1. WorkersOK'
    BY <1>13, GoFinalizeOK DEF SkipStep
  <2> QED
    BY <1>13, <2>1 DEF SkipStep, TypeInv, TypeOK, WorkersOK
<1>14. CASE FailStep(w)
  <2>1. WorkersOK'
    BY <1>14, GoFinalizeOK DEF FailStep
  <2> QED
    BY <1>14, <2>1 DEF FailStep, TypeInv, TypeOK, WorkersOK
<1>15. CASE FinalizeJob(w)
  <2>1. MoveSteps(j, Unfinished, "skipped") \in [Steps -> StepStatus]
    BY MoveStepsType DEF TypeInv, TypeOK
  <2>2. WorkersOK'
    BY <1>15, AbandonOK DEF FinalizeJob
  <2>3. r.outcome \in Terminal
    BY DEF Run
  <2> QED
    BY <1>15, <2>1, <2>2, <2>3 DEF FinalizeJob, TypeInv, TypeOK, WorkersOK
<1> QED
  BY <1>1, <1>2, <1>3, <1>4, <1>5, <1>6, <1>7, <1>8, <1>9, <1>10, <1>11,
     <1>12, <1>13, <1>14, <1>15 DEF WorkerStep

LEMMA NextTypeInv == TypeInv /\ [Next]_vars => TypeInv'
<1> SUFFICES ASSUME TypeInv, [Next]_vars
             PROVE  TypeInv'
  OBVIOUS
<1> USE DEF TypeInv, TypeOK, LocalsOK, LocalOK, jobVars, dataVars, workerVars
<1>1. CASE \E j \in Jobs : Api(j)
  BY <1>1, ApiTypeInv
<1>2. CASE \E j \in Jobs : HeartbeatLapse(j)
  BY <1>2 DEF HeartbeatLapse
<1>3. CASE \E w \in Workers : WorkerStep(w)
  BY <1>3, WorkerTypeInv
<1>4. CASE \E w \in Workers : Heartbeat(w)
  BY <1>4 DEF Heartbeat
<1>5. CASE \E w \in Workers : Crash(w)
  <2>1. WorkersOK'
    BY <1>5, AbandonOK DEF Crash, WorkersOK
  <2> QED
    BY <1>5, <2>1 DEF Crash, WorkersOK
<1>6. CASE \E S \in SUBSET Jobs : Sweep(S)
  BY <1>6 DEF Sweep
<1>7. CASE UNCHANGED vars
  BY <1>7 DEF vars
<1> QED
  BY <1>1, <1>2, <1>3, <1>4, <1>5, <1>6, <1>7 DEF Next

\* No action stores a value outside its table's or its local variable's type.
THEOREM TypeCorrect == Spec => []TypeOK
<1>1. Init => TypeInv
  BY InitTypeInv
<1>2. TypeInv /\ [Next]_vars => TypeInv'
  BY NextTypeInv
<1>3. TypeInv => TypeOK
  BY DEF TypeInv
<1> QED
  BY <1>1, <1>2, <1>3, PTL DEF Spec

-----------------------------------------------------------------------------
(* Jobs end once, and the retry budget. *)

\* No step of any process moves a job out of a terminal status.
THEOREM TerminalStaysForever == Spec => TerminalStays
<1> DEFINE Stays == \A j \in Jobs : status[j] \in Terminal => status'[j] = status[j]
<1>1. TypeInv /\ [Next]_vars => Stays
  <2> SUFFICES ASSUME TypeInv, [Next]_vars, NEW j \in Jobs, status[j] \in Terminal
               PROVE  status'[j] = status[j]
    OBVIOUS
  <2> status \in [Jobs -> JobStatus]
    BY DEF TypeInv, TypeOK
  <2> USE DEF jobVars
  <2>1. CASE \E k \in Jobs : Api(k)
    BY <2>1 DEF Api, ResolveBuild, InsertJob, CancelJob
  <2>2. CASE \E w \in Workers : WorkerStep(w)
    BY <2>2 DEF WorkerStep, Claim, ExecuteJob, NextStep, StartStep, ResolveStep, StepError,
      CheckCancel, ClearPrefix, WriteParquet, ValidateParquet, BuildError, CommitVersion,
      SkipStep, FailStep, FinalizeJob, StillOpen
  <2>3. CASE \/ \E k \in Jobs : HeartbeatLapse(k)
             \/ \E w \in Workers : Heartbeat(w) \/ Crash(w)
             \/ UNCHANGED vars
    BY <2>3 DEF HeartbeatLapse, Heartbeat, Crash, vars
  <2>4. CASE \E S \in SUBSET Jobs : Sweep(S)
    BY <2>4 DEF Sweep, Stale
  <2> QED
    BY <2>1, <2>2, <2>3, <2>4 DEF Next
<1>2. Stays => [\A j \in Jobs : status[j] \in Terminal => status'[j] = status[j]]_vars
  OBVIOUS
<1>3. Init => TypeInv
  BY InitTypeInv
<1>4. TypeInv /\ [Next]_vars => TypeInv'
  BY NextTypeInv
<1> QED
  BY <1>1, <1>2, <1>3, <1>4, PTL DEF Spec, TerminalStays

\* The requeue counter never passes the budget by more than the one sweep that
\* fails the job.
THEOREM AttemptsStayCapped == Spec => []AttemptsCapped
<1>1. Init => AttemptsCapped
  BY AttemptsAssumption DEF Init, AttemptsCapped
<1>2. TypeInv /\ AttemptsCapped /\ [Next]_vars => AttemptsCapped'
  <2> SUFFICES ASSUME TypeInv, AttemptsCapped, [Next]_vars
               PROVE  AttemptsCapped'
    OBVIOUS
  <2> status \in [Jobs -> JobStatus] /\ attempts \in [Jobs -> Nat]
    BY DEF TypeInv, TypeOK
  <2> USE AttemptsAssumption DEF jobVars, AttemptsCapped
  <2>1. CASE \E k \in Jobs : Api(k)
    BY <2>1 DEF Api, ResolveBuild, InsertJob, CancelJob
  <2>2. CASE \E w \in Workers : WorkerStep(w)
    BY <2>2 DEF WorkerStep, Claim, ExecuteJob, NextStep, StartStep, ResolveStep, StepError,
      CheckCancel, ClearPrefix, WriteParquet, ValidateParquet, BuildError, CommitVersion,
      SkipStep, FailStep, FinalizeJob, StillOpen
  <2>3. CASE \/ \E k \in Jobs : HeartbeatLapse(k)
             \/ \E w \in Workers : Heartbeat(w) \/ Crash(w)
             \/ UNCHANGED vars
    BY <2>3 DEF HeartbeatLapse, Heartbeat, Crash, vars
  <2>4. CASE \E S \in SUBSET Jobs : Sweep(S)
    BY <2>4 DEF Sweep, Stale, Exhausted
  <2> QED
    BY <2>1, <2>2, <2>3, <2>4 DEF Next
<1>3. Init => TypeInv
  BY InitTypeInv
<1>4. TypeInv /\ [Next]_vars => TypeInv'
  BY NextTypeInv
<1> QED
  BY <1>1, <1>2, <1>3, <1>4, PTL DEF Spec

-----------------------------------------------------------------------------
(* Publication. *)

\* A version becomes visible only in the transaction that saw its job running
\* and not cancelled, however stale the worker is.
THEOREM NeverPublishesLate == Spec => NoLatePublish
<1> DEFINE Guarded == \A r \in rows' \ rows : /\ status[JobOf(r.step)] = "running"
                                              /\ ~cancelReq[JobOf(r.step)]
<1>0. Guarded => [\A r \in rows' \ rows : /\ status[JobOf(r.step)] = "running"
                                        /\ ~cancelReq[JobOf(r.step)]]_vars
  OBVIOUS
<1>1. TypeInv /\ [Next]_vars => Guarded
  <2> SUFFICES ASSUME TypeInv, [Next]_vars
               PROVE  Guarded
    OBVIOUS
  <2> USE DEF dataVars
  <2>1. CASE \E w \in Workers : CommitVersion(w)
    <3>1. PICK w \in Workers : CommitVersion(w)
      BY <2>1
    <3>2. JobOf(run[w].step) = run[w].job
      BY <3>1 DEF CommitVersion, TypeInv, LocalsOK, LocalOK, StepsOf
    <3> QED
      BY <3>1, <3>2 DEF CommitVersion, Flip, CancelSeen
  <2>2. CASE \E w \in Workers : WorkerStep(w) /\ ~CommitVersion(w)
    BY <2>2 DEF WorkerStep, Claim, ExecuteJob, NextStep, StartStep, ResolveStep, StepError,
      CheckCancel, ClearPrefix, WriteParquet, ValidateParquet, BuildError,
      SkipStep, FailStep, FinalizeJob
  <2>3. CASE \/ \E k \in Jobs : Api(k) \/ HeartbeatLapse(k)
             \/ \E w \in Workers : Heartbeat(w) \/ Crash(w)
             \/ \E S \in SUBSET Jobs : Sweep(S)
             \/ UNCHANGED vars
    BY <2>3 DEF Api, ResolveBuild, InsertJob, CancelJob, HeartbeatLapse, Heartbeat, Crash,
      Sweep, vars
  <2> QED
    BY <2>1, <2>2, <2>3 DEF Next
<1>2. Init => TypeInv
  BY InitTypeInv
<1>3. TypeInv /\ [Next]_vars => TypeInv'
  BY NextTypeInv
<1> QED
  BY <1>0, <1>1, <1>2, <1>3, PTL DEF Spec, NoLatePublish

\* A worker never carries a version number beyond the next free one, so the
\* unique key leaves it no other number to commit than the next free one.
NextBounded ==
  \A w \in Workers :
    pc[w] \in HasVersion => run[w].next <= current[Target(run[w].step)] + 1

ContiguityInv == VersionsContiguous /\ NextBounded

LEMMA FlipContiguous ==
  ASSUME TypeInv, ContiguityInv, NEW w \in Workers, CommitVersion(w), Flip(w),
         ~VersionTaken(Target(run[w].step), run[w].next), UNCHANGED run
  PROVE  ContiguityInv'
<1> DEFINE d == Target(run[w].step)
           v == run[w].next
           new == [ds |-> d, ver |-> v, step |-> run[w].step,
                   by |-> run[w].by, inputs |-> run[w].inputs]
<1>1. d \in Datasets /\ v \in Nat \ {0} /\ pc[w] = "commit"
  BY StepFacts DEF CommitVersion, TypeInv, LocalsOK, LocalOK, StepsOf
<1>2. current \in [Datasets -> Nat] /\ rows \subseteq Row
  BY DEF TypeInv, TypeOK
<1>3. v = current[d] + 1
  <2>1. v <= current[d] + 1
    BY <1>1 DEF ContiguityInv, NextBounded
  <2>2. v \notin 1..current[d]
    BY <1>1 DEF ContiguityInv, VersionsContiguous, VersionTaken
  <2> QED
    BY <1>1, <1>2, <2>1, <2>2
<1>4. rows' = rows \cup {new} /\ current' = [current EXCEPT ![d] = v]
  BY DEF Flip
<1>5. new.ds = d /\ new.ver = v
  OBVIOUS
<1> HIDE DEF new, d, v
<1>6. ASSUME NEW e \in Datasets
      PROVE  {r.ver : r \in {x \in rows' : x.ds = e}} = 1..current'[e]
  <2>1. CASE e = d
    <3>1. {r.ver : r \in {x \in rows' : x.ds = d}}
            = {r.ver : r \in {x \in rows : x.ds = d}} \cup {v}
      BY <1>4, <1>5
    <3>2. {r.ver : r \in {x \in rows : x.ds = d}} = 1..current[d]
      BY <1>1 DEF ContiguityInv, VersionsContiguous
    <3>3. current'[d] = current[d] + 1
      BY <1>1, <1>2, <1>3, <1>4
    <3>4. (1..current[d]) \cup {current[d] + 1} = 1..(current[d] + 1)
      BY <1>1, <1>2
    <3> QED
      BY <2>1, <3>1, <3>2, <3>3, <3>4, <1>3
  <2>2. CASE e # d
    <3>1. {r.ver : r \in {x \in rows' : x.ds = e}} = {r.ver : r \in {x \in rows : x.ds = e}}
      BY <1>4, <1>5, <2>2
    <3>2. current'[e] = current[e]
      BY <1>2, <1>4, <2>2
    <3> QED
      BY <3>1, <3>2 DEF ContiguityInv, VersionsContiguous
  <2> QED
    BY <2>1, <2>2
<1>7. ASSUME NEW r1 \in rows', NEW r2 \in rows', r1.ds = r2.ds, r1.ver = r2.ver
      PROVE  r1 = r2
  <2>1. \A r \in rows : ~(r.ds = d /\ r.ver = v)
    BY DEF VersionTaken, d, v
  <2> QED
    BY <1>4, <1>5, <1>7, <2>1 DEF ContiguityInv, VersionsContiguous
<1>8. NextBounded'
  <2>1. \A e \in Datasets : current'[e] >= current[e]
    BY <1>1, <1>2, <1>3, <1>4
  <2> SUFFICES ASSUME NEW u \in Workers, pc'[u] \in HasVersion
               PROVE  run[u].next <= current'[Target(run[u].step)] + 1
    BY DEF NextBounded
  <2>2. pc[u] \in HasVersion /\ u # w
    BY DEF Flip, TypeInv, TypeOK
  <2>3. Target(run[u].step) \in Datasets /\ run[u].next \in Nat
    BY <2>2, StepFacts DEF TypeInv, LocalsOK, LocalOK, StepsOf
  <2>4. current' \in [Datasets -> Nat]
    BY <1>1, <1>2, <1>4
  <2> HIDE DEF HasVersion
  <2>5. run[u].next <= current[Target(run[u].step)] + 1
    BY <2>2 DEF ContiguityInv, NextBounded
  <2> QED
    BY <1>2, <2>1, <2>3, <2>4, <2>5
<1> QED
  BY <1>6, <1>7, <1>8 DEF ContiguityInv, VersionsContiguous

LEMMA ContiguityStep == TypeInv /\ ContiguityInv /\ [Next]_vars => ContiguityInv'
<1> SUFFICES ASSUME TypeInv, ContiguityInv, [Next]_vars
             PROVE  ContiguityInv'
  OBVIOUS
<1> pc \in [Workers -> PC] /\ run \in [Workers -> Run] /\ current \in [Datasets -> Nat]
  BY DEF TypeInv, TypeOK
<1> USE DEF dataVars, workerVars
<1>1. CASE UNCHANGED <<current, rows, pc, run>>
  BY <1>1 DEF ContiguityInv, VersionsContiguous, NextBounded
<1>2. CASE \E w \in Workers : ResolveStep(w)
  <2>1. PICK w \in Workers : ResolveStep(w)
    BY <1>2
  <2>2. Target(run[w].step) \in Datasets
    BY <2>1, StepFacts DEF ResolveStep, TypeInv, LocalsOK, LocalOK, StepsOf
  <2>3. ASSUME NEW u \in Workers, pc'[u] \in HasVersion
        PROVE  run'[u].next <= current[Target(run'[u].step)] + 1
    <3>1. CASE u = w
      <4>1. run'[w].next = current[Target(run[w].step)] + 1 /\ run'[w].step = run[w].step
        BY <2>1, <2>3, <3>1 DEF ResolveStep, Run
      <4> QED
        BY <2>2, <3>1, <4>1
    <3>2. CASE u # w
      <4>1. pc'[u] = pc[u] /\ run'[u] = run[u]
        BY <2>1, <3>2 DEF ResolveStep
      <4> QED
        BY <2>3, <4>1 DEF ContiguityInv, NextBounded
    <3> QED
      BY <3>1, <3>2
  <2>4. UNCHANGED <<current, rows>>
    BY <2>1 DEF ResolveStep
  <2> QED
    BY <2>3, <2>4 DEF ContiguityInv, VersionsContiguous, NextBounded
<1>3. CASE /\ UNCHANGED <<current, rows>>
           /\ \A u \in Workers : pc'[u] \in HasVersion =>
                /\ pc[u] \in HasVersion
                /\ run'[u].next = run[u].next /\ run'[u].step = run[u].step
  BY <1>3 DEF ContiguityInv, VersionsContiguous, NextBounded
<1>4. CASE \E w \in Workers : CommitVersion(w)
  <2>1. PICK w \in Workers : CommitVersion(w)
    BY <1>4
  <2>2. CASE UNCHANGED <<current, rows>>
    BY <1>3, <2>1, <2>2 DEF CommitVersion, Abandon, Flip
  <2>3. CASE Flip(w) /\ UNCHANGED run /\ ~VersionTaken(Target(run[w].step), run[w].next)
    BY <2>1, <2>3, FlipContiguous
  <2> QED
    BY <2>1, <2>2, <2>3 DEF CommitVersion
<1>5. CASE \E w \in Workers : WorkerStep(w) /\ ~ResolveStep(w) /\ ~CommitVersion(w)
  <2>1. PICK w \in Workers : WorkerStep(w) /\ ~ResolveStep(w) /\ ~CommitVersion(w)
    BY <1>5
  <2>2. CASE \/ Claim(w) \/ ExecuteJob(w) \/ NextStep(w) \/ StartStep(w)
             \/ StepError(w) \/ FailStep(w) \/ FinalizeJob(w)
    BY <1>3, <2>2 DEF Claim, ExecuteJob, NextStep, StartStep, StepError, FailStep,
      FinalizeJob, Abandon, GoFinalize
  <2>3. CASE CheckCancel(w) \/ ClearPrefix(w) \/ WriteParquet(w) \/ BuildError(w) \/ SkipStep(w)
    BY <1>3, <2>3 DEF CheckCancel, ClearPrefix, WriteParquet, BuildError, SkipStep, GoFinalize
  <2>4. CASE ValidateParquet(w)
    <3>1. run'[w].next = run[w].next /\ run'[w].step = run[w].step
      BY <2>4 DEF ValidateParquet, Run
    <3> QED
      BY <1>3, <2>4, <3>1 DEF ValidateParquet
  <2> QED
    BY <2>1, <2>2, <2>3, <2>4 DEF WorkerStep
<1>6. CASE \E w \in Workers : Crash(w)
  BY <1>3, <1>6 DEF Crash, Abandon
<1>7. CASE \/ \E k \in Jobs : Api(k) \/ HeartbeatLapse(k)
           \/ \E w \in Workers : Heartbeat(w)
           \/ \E S \in SUBSET Jobs : Sweep(S)
           \/ UNCHANGED vars
  BY <1>1, <1>7 DEF Api, ResolveBuild, InsertJob, CancelJob, HeartbeatLapse, Heartbeat,
    Sweep, vars
<1> QED
  BY <1>2, <1>4, <1>5, <1>6, <1>7 DEF Next

\* However many workers build the same dataset, its committed versions are
\* 1..current_version, each once.
THEOREM VersionsStayContiguous == Spec => []VersionsContiguous
<1>1. Init => ContiguityInv
  BY DEF Init, ContiguityInv, VersionsContiguous, NextBounded
<1>2. Init => TypeInv
  BY InitTypeInv
<1>3. TypeInv /\ [Next]_vars => TypeInv'
  BY NextTypeInv
<1>4. TypeInv /\ ContiguityInv /\ [Next]_vars => ContiguityInv'
  BY ContiguityStep
<1>5. ContiguityInv => VersionsContiguous
  BY DEF ContiguityInv
<1> QED
  BY <1>1, <1>2, <1>3, <1>4, <1>5, PTL DEF Spec

-----------------------------------------------------------------------------
(* What one worker's step leaves alone. *)

LEMMA OnlyClaimAndFinalizeMoveJobs ==
  ASSUME NEW w \in Workers, WorkerStep(w), ~Claim(w), ~FinalizeJob(w)
  PROVE  UNCHANGED jobVars /\ pc[w] # "idle"
BY DEF jobVars, WorkerStep, ExecuteJob, NextStep, StartStep, ResolveStep, StepError,
   CheckCancel, ClearPrefix, WriteParquet, ValidateParquet, BuildError, CommitVersion,
   SkipStep, FailStep

LEMMA OthersUnmoved ==
  ASSUME TypeInv, NEW w \in Workers, WorkerStep(w), NEW v \in Workers \ {w}
  PROVE  pc'[v] = pc[v] /\ run'[v] = run[v]
<1> pc \in [Workers -> PC] /\ run \in [Workers -> Run]
  BY DEF TypeInv, TypeOK
<1> USE DEF workerVars, Abandon, GoFinalize
<1>1. CASE Claim(w) \/ ExecuteJob(w) \/ NextStep(w) \/ StartStep(w) \/ ResolveStep(w)
  BY <1>1 DEF Claim, ExecuteJob, NextStep, StartStep, ResolveStep
<1>2. CASE StepError(w) \/ CheckCancel(w) \/ ClearPrefix(w) \/ WriteParquet(w)
  BY <1>2 DEF StepError, CheckCancel, ClearPrefix, WriteParquet
<1>3. CASE ValidateParquet(w) \/ BuildError(w) \/ CommitVersion(w)
  BY <1>3 DEF ValidateParquet, BuildError, CommitVersion, Flip
<1>4. CASE SkipStep(w) \/ FailStep(w) \/ FinalizeJob(w)
  BY <1>4 DEF SkipStep, FailStep, FinalizeJob
<1> QED
  BY <1>1, <1>2, <1>3, <1>4 DEF WorkerStep

LEMMA SameJob ==
  ASSUME TypeInv, NEW w \in Workers, WorkerStep(w), ~Claim(w), pc'[w] # "idle"
  PROVE  run'[w].job = run[w].job
<1> pc \in [Workers -> PC] /\ run \in [Workers -> Run]
  BY DEF TypeInv, TypeOK
<1>1. CASE ExecuteJob(w)
  BY <1>1 DEF ExecuteJob, Abandon, Run
<1>2. CASE NextStep(w)
  <2>1. CASE \E o \in Terminal : GoFinalize(w, o)
    BY <2>1 DEF GoFinalize, Run
  <2>2. CASE \E s : run' = [run EXCEPT ![w].todo = @ \ {s}, ![w].step = s]
    BY <2>2 DEF Run
  <2> QED
    BY <1>2, <2>1, <2>2 DEF NextStep
<1>3. CASE ResolveStep(w) \/ CheckCancel(w) \/ ValidateParquet(w)
  BY <1>3 DEF ResolveStep, CheckCancel, ValidateParquet, GoFinalize, Run
<1>4. CASE BuildError(w) \/ SkipStep(w) \/ FailStep(w)
  BY <1>4 DEF BuildError, SkipStep, FailStep, GoFinalize, Run
<1>5. CASE StartStep(w) \/ StepError(w) \/ ClearPrefix(w) \/ WriteParquet(w)
  BY <1>5 DEF StartStep, StepError, ClearPrefix, WriteParquet
<1>6. CASE CommitVersion(w)
  BY <1>6 DEF CommitVersion, Abandon, Flip
<1>7. CASE FinalizeJob(w)
  BY <1>7 DEF FinalizeJob, Abandon
<1> QED
  BY <1>1, <1>2, <1>3, <1>4, <1>5, <1>6, <1>7 DEF WorkerStep

-----------------------------------------------------------------------------
(* Exclusive ownership, when heartbeats arrive in time. *)

\* The job a worker holds also has a recent heartbeat, so the sweeper leaves it.
OwnerInv ==
  \A w \in Workers, j \in Jobs :
    Holds(w, j) => status[j] = "running" /\ claimedBy[j] = w /\ fresh[j]

LEMMA OwnerStep ==
  ASSUME ~MayStall
  PROVE  TypeInv /\ OwnerInv /\ [Next]_vars => OwnerInv'
<1> SUFFICES ASSUME TypeInv, OwnerInv, [Next]_vars
             PROVE  OwnerInv'
  OBVIOUS
<1> /\ pc \in [Workers -> PC] /\ run \in [Workers -> Run]
    /\ status \in [Jobs -> JobStatus] /\ claimedBy \in [Jobs -> Workers \cup {None}]
    /\ fresh \in [Jobs -> BOOLEAN]
  BY DEF TypeInv, TypeOK
<1> USE DEF jobVars, workerVars, OwnerInv, Holds
\* Workers move, nobody picks up a job, and held jobs are left alone.
<1>1. CASE \A w \in Workers, j \in Jobs :
             Holds(w, j)' => Holds(w, j) /\ UNCHANGED <<status[j], claimedBy[j], fresh[j]>>
  BY <1>1
<1>2. CASE \E k \in Jobs : Api(k)
  BY <1>2 DEF Api, ResolveBuild, InsertJob, CancelJob
<1>3. CASE \E k \in Jobs : HeartbeatLapse(k)
  BY <1>3 DEF HeartbeatLapse
<1>4. CASE \E w \in Workers : Claim(w)
  <2>1. PICK w \in Workers, k \in Jobs :
          /\ status[k] = "queued"
          /\ status' = [status EXCEPT ![k] = "running"]
          /\ claimedBy' = [claimedBy EXCEPT ![k] = w]
          /\ fresh' = [fresh EXCEPT ![k] = TRUE]
          /\ run' = [run EXCEPT ![w] = [NoRun EXCEPT !.job = k, !.attempt = attempts[k]]]
          /\ pc' = [pc EXCEPT ![w] = "claimed"]
    BY <1>4 DEF Claim
  <2>2. [NoRun EXCEPT !.job = k, !.attempt = attempts[k]].job = k
    BY DEF NoRun
  <2> QED
    BY <2>1, <2>2
<1>5. CASE \E w \in Workers : FinalizeJob(w)
  BY <1>5 DEF FinalizeJob, StillOpen, Abandon, TypeInv, LocalsOK, LocalOK
<1>6. CASE \E w \in Workers : WorkerStep(w) /\ ~Claim(w) /\ ~FinalizeJob(w)
  <2>1. PICK w \in Workers : WorkerStep(w) /\ ~Claim(w) /\ ~FinalizeJob(w)
    BY <1>6
  <2>2. UNCHANGED jobVars /\ pc[w] # "idle"
    BY <2>1, OnlyClaimAndFinalizeMoveJobs
  <2>3. pc'[w] # "idle" => run'[w].job = run[w].job
    BY <2>1, SameJob
  <2>4. \A v \in Workers \ {w} : pc'[v] = pc[v] /\ run'[v] = run[v]
    BY <2>1, OthersUnmoved
  <2> QED
    BY <1>1, <2>2, <2>3, <2>4
<1>7. CASE \E w \in Workers : Heartbeat(w)
  BY <1>7 DEF Heartbeat
<1>8. CASE \E w \in Workers : Crash(w)
  BY <1>8 DEF Crash, Abandon
<1>9. CASE \E S \in SUBSET Jobs : Sweep(S)
  BY <1>9 DEF Sweep, Stale
<1>10. CASE UNCHANGED vars
  BY <1>10 DEF vars
<1> QED
  BY <1>2, <1>3, <1>4, <1>5, <1>6, <1>7, <1>8, <1>9, <1>10 DEF Next

\* When heartbeats arrive in time, a worker that holds a job is the only one,
\* and no requeue or cancel takes the job from under it.
THEOREM OneOwner ==
  ASSUME ~MayStall
  PROVE  Spec => []SoleOwner
<1>1. Init => OwnerInv
  BY DEF Init, OwnerInv, Holds
<1>2. Init => TypeInv
  BY InitTypeInv
<1>3. TypeInv /\ [Next]_vars => TypeInv'
  BY NextTypeInv
<1>4. TypeInv /\ OwnerInv /\ [Next]_vars => OwnerInv'
  BY OwnerStep
<1>5. OwnerInv => SoleOwner
  BY DEF OwnerInv, SoleOwner
<1> QED
  BY <1>1, <1>2, <1>3, <1>4, <1>5, PTL DEF Spec

-----------------------------------------------------------------------------
(* The executor implements the documented life of a job. *)

\* A run ends as cancelled only where a cancel was requested, and a request
\* can reach a queued job only through a requeue.
CancelInv ==
  /\ \A w \in Workers :
       pc[w] = "skip" \/ (pc[w] = "finalize" /\ run[w].outcome = "cancelled")
         => cancelReq[run[w].job]
  /\ \A j \in Jobs :
       /\ status[j] \in {"absent", "resolved"} => ~cancelReq[j]
       /\ status[j] = "queued" /\ cancelReq[j] => attempts[j] > 0

LEMMA CancelStep == TypeInv /\ CancelInv /\ [Next]_vars => CancelInv'
<1> SUFFICES ASSUME TypeInv, CancelInv, [Next]_vars
             PROVE  CancelInv'
  OBVIOUS
<1> /\ pc \in [Workers -> PC] /\ run \in [Workers -> Run]
    /\ status \in [Jobs -> JobStatus] /\ cancelReq \in [Jobs -> BOOLEAN]
    /\ attempts \in [Jobs -> Nat]
  BY DEF TypeInv, TypeOK
<1> USE DEF jobVars, workerVars, CancelInv
<1>1. CASE \E k \in Jobs : Api(k)
  BY <1>1 DEF Api, ResolveBuild, InsertJob, CancelJob, TypeInv, LocalsOK, LocalOK
<1>2. CASE \/ \E k \in Jobs : HeartbeatLapse(k)
           \/ \E w \in Workers : Heartbeat(w) \/ Crash(w)
           \/ UNCHANGED vars
  BY <1>2 DEF HeartbeatLapse, Heartbeat, Crash, Abandon, vars
<1>3. CASE \E S \in SUBSET Jobs : Sweep(S)
  BY <1>3 DEF Sweep, Stale
<1>4. CASE \E w \in Workers : Claim(w) \/ FinalizeJob(w)
  <2>1. CASE \E w \in Workers : Claim(w)
    BY <2>1 DEF Claim
  <2>2. PICK w \in Workers : Claim(w) \/ FinalizeJob(w)
    BY <1>4
  <2>3. CASE FinalizeJob(w)
    <3>1. /\ \A v \in Workers : pc'[v] = IF v = w THEN "idle" ELSE pc[v]
          /\ \A v \in Workers \ {w} : run'[v] = run[v]
      BY <2>3 DEF FinalizeJob, Abandon
    <3>2. UNCHANGED <<cancelReq, attempts>> /\ run[w].outcome \in Terminal
      BY <2>3 DEF FinalizeJob, Run
    <3>3. \A j \in Jobs : status'[j] = status[j] \/ status'[j] \in Terminal
      BY <2>3, <3>2 DEF FinalizeJob
    <3> QED
      BY <3>1, <3>2, <3>3
  <2> QED
    BY <2>1, <2>2, <2>3
<1>5. CASE \E w \in Workers : WorkerStep(w) /\ ~Claim(w) /\ ~FinalizeJob(w)
  <2>1. PICK w \in Workers : WorkerStep(w) /\ ~Claim(w) /\ ~FinalizeJob(w)
    BY <1>5
  <2>2. UNCHANGED jobVars
    BY <2>1, OnlyClaimAndFinalizeMoveJobs
  <2>3. \A v \in Workers \ {w} : pc'[v] = pc[v] /\ run'[v] = run[v]
    BY <2>1, OthersUnmoved
  <2>4. pc'[w] = "skip" \/ (pc'[w] = "finalize" /\ run'[w].outcome = "cancelled")
          => cancelReq[run[w].job] /\ run'[w].job = run[w].job
    <3>1. CASE ExecuteJob(w) \/ NextStep(w)
      BY <3>1 DEF ExecuteJob, NextStep, Abandon, GoFinalize, Run
    <3>2. CASE ResolveStep(w) \/ CheckCancel(w) \/ ValidateParquet(w)
      BY <3>2 DEF ResolveStep, CheckCancel, ValidateParquet, GoFinalize, Run
    <3>3. CASE BuildError(w) \/ SkipStep(w) \/ FailStep(w)
      BY <3>3 DEF BuildError, ErrorIsCancel, SkipStep, FailStep, GoFinalize, Run
    <3>4. CASE StartStep(w) \/ StepError(w) \/ ClearPrefix(w) \/ WriteParquet(w)
      BY <3>4 DEF StartStep, StepError, ClearPrefix, WriteParquet
    <3>5. CASE CommitVersion(w)
      BY <3>5 DEF CommitVersion, CancelSeen, Abandon, Flip
    <3> QED
      BY <2>1, <3>1, <3>2, <3>3, <3>4, <3>5 DEF WorkerStep
  <2> QED
    BY <2>2, <2>3, <2>4
<1> QED
  BY <1>1, <1>2, <1>3, <1>4, <1>5 DEF Next

LEMMA LifecycleStep ==
  TypeInv /\ CancelInv /\ [Next]_vars => [Lifecycle!Next]_(Lifecycle!vars)
<1> DEFINE phase == [j \in Jobs |-> IF status[j] = "resolved" THEN "absent" ELSE status[j]]
<1> SUFFICES ASSUME TypeInv, CancelInv, [Next]_vars
             PROVE  \/ Lifecycle!Next
                    \/ phase' = phase /\ UNCHANGED <<cancelReq, attempts>>
  BY DEF Lifecycle!vars
<1> /\ status \in [Jobs -> JobStatus] /\ cancelReq \in [Jobs -> BOOLEAN]
    /\ attempts \in [Jobs -> Nat]
  BY DEF TypeInv, TypeOK
<1> USE DEF jobVars, workerVars
<1>1. CASE UNCHANGED <<status, cancelReq, attempts>>
  BY <1>1
<1>2. CASE \E j \in Jobs : ResolveBuild(j)
  BY <1>2 DEF ResolveBuild
<1>3. CASE \E j \in Jobs : InsertJob(j)
  <2>1. PICK j \in Jobs : InsertJob(j)
    BY <1>3
  <2>2. Lifecycle!Accept(j)
    BY <2>1 DEF InsertJob, Lifecycle!Accept
  <2> QED
    BY <2>2 DEF Lifecycle!Next
<1>4. CASE \E j \in Jobs : CancelJob(j)
  <2>1. PICK j \in Jobs : CancelJob(j)
    BY <1>4
  <2>2. Lifecycle!Ask(j)
    BY <2>1 DEF CancelJob, Lifecycle!Ask
  <2> QED
    BY <2>2 DEF Lifecycle!Next
<1>5. CASE \E w \in Workers : Claim(w)
  <2>1. PICK j \in Jobs : /\ status[j] = "queued"
                          /\ status' = [status EXCEPT ![j] = "running"]
                          /\ UNCHANGED <<cancelReq, attempts>>
    BY <1>5 DEF Claim
  <2>2. Lifecycle!Start(j)
    BY <2>1 DEF CancelInv, Lifecycle!Start
  <2> QED
    BY <2>2 DEF Lifecycle!Next
<1>6. CASE \E w \in Workers : FinalizeJob(w)
  <2>1. PICK w \in Workers : FinalizeJob(w)
    BY <1>6
  <2>2. CASE status[run[w].job] = "running"
    <3>1. run[w].job \in Jobs /\ run[w].outcome \in Terminal
      BY <2>1 DEF FinalizeJob, TypeInv, TypeOK, LocalsOK, LocalOK, Run
    <3>2. PICK j \in Jobs, o \in Terminal :
            /\ status[j] = "running" /\ status' = [status EXCEPT ![j] = o]
            /\ o = "cancelled" => cancelReq[j]
      BY <2>1, <2>2, <3>1 DEF FinalizeJob, StillOpen, CancelInv
    <3>3. UNCHANGED <<cancelReq, attempts>>
      BY <2>1 DEF FinalizeJob
    <3>4. phase[j] = "running" /\ phase' = [phase EXCEPT ![j] = o]
      BY <3>2
    <3>5. Lifecycle!Finish(j)
      BY <3>2, <3>3, <3>4 DEF Lifecycle!Finish
    <3> QED
      BY <3>5 DEF Lifecycle!Next
  <2>3. CASE status[run[w].job] # "running"
    BY <1>1, <2>1, <2>3 DEF FinalizeJob, StillOpen
  <2> QED
    BY <2>2, <2>3
<1>7. CASE \E S \in SUBSET Jobs : Sweep(S)
  <2>1. PICK S \in SUBSET Jobs : Sweep(S)
    BY <1>7
  <2>2. \A j \in S : status[j] = "running" /\ (Exhausted(j) <=> ~(attempts[j] < MaxAttempts))
    BY <2>1, AttemptsAssumption DEF Sweep, Stale, Exhausted
  <2>3. Lifecycle!Lose(S)
    BY <2>1, <2>2 DEF Sweep, Lifecycle!Lose
  <2> QED
    BY <2>3 DEF Lifecycle!Next
<1>8. CASE \E w \in Workers : WorkerStep(w) /\ ~Claim(w) /\ ~FinalizeJob(w)
  BY <1>1, <1>8 DEF WorkerStep, ExecuteJob, NextStep, StartStep, ResolveStep, StepError,
    CheckCancel, ClearPrefix, WriteParquet, ValidateParquet, BuildError, CommitVersion,
    SkipStep, FailStep
<1>9. CASE \/ \E k \in Jobs : HeartbeatLapse(k)
           \/ \E w \in Workers : Heartbeat(w) \/ Crash(w)
           \/ UNCHANGED vars
  BY <1>1, <1>9 DEF HeartbeatLapse, Heartbeat, Crash, vars
<1> QED
  BY <1>2, <1>3, <1>4, <1>5, <1>6, <1>7, <1>8, <1>9 DEF Next, Api

\* What a client of the build API may observe of a job is what JobLifecycle
\* allows, whatever workers and sweeps do behind it.
THEOREM JobLifecycleImplemented == Spec => ImplementsJobLifecycle
<1>1. Init => Lifecycle!Init
  BY DEF Init, Lifecycle!Init
<1>2. Init => TypeInv /\ CancelInv
  BY InitTypeInv DEF Init, CancelInv
<1>3. TypeInv /\ [Next]_vars => TypeInv'
  BY NextTypeInv
<1>4. TypeInv /\ CancelInv /\ [Next]_vars => CancelInv'
  BY CancelStep
<1>5. TypeInv /\ CancelInv /\ [Next]_vars => [Lifecycle!Next]_(Lifecycle!vars)
  BY LifecycleStep
<1> QED
  BY <1>1, <1>2, <1>3, <1>4, <1>5, PTL DEF Spec, ImplementsJobLifecycle, Lifecycle!Spec

-----------------------------------------------------------------------------
(* Steps are neither lost nor built twice, when heartbeats arrive in time. *)

\* The step rows of a job fit the job's status.
RowsFit ==
  \A s \in Steps :
    /\ step[s] = "absent" <=> status[JobOf(s)] \in {"absent", "resolved"}
    /\ status[JobOf(s)] = "queued" => step[s] # "running"
    /\ status[JobOf(s)] \in Terminal => step[s] \notin Unfinished

\* The snapshot a worker took at the start of its run still covers every
\* unfinished step of the job, and the step at hand was not built before.
SnapshotFits(w) ==
  LET S == StepsOf(run[w].job) IN
  /\ pc[w] = "claimed" => \A t \in S : step[t] # "running"
  /\ pc[w] \in InStep \cup {"loop", "finalize"} =>
       /\ \A t \in run[w].todo : step[t] = "queued"
       /\ pc[w] # "finalize" \/ run[w].outcome = "succeeded" =>
            \A t \in S : step[t] \in Unfinished =>
              t \in run[w].todo \/ (pc[w] \in InStep /\ t = run[w].step)
  /\ pc[w] \in InStep => step[run[w].step] \in Unfinished /\ run[w].step \notin run[w].todo
  /\ pc[w] = "finalize" /\ run[w].outcome = "succeeded" => run[w].todo = {}

StepsInv == RowsFit /\ (\A w \in Workers : SnapshotFits(w)) /\ OneFlipPerStep

\* Everything the argument about steps rests on.
ExclusiveInv == TypeInv /\ OwnerInv /\ StepsInv

\* Step rows that change belong to job k, were not finished, and none becomes
\* succeeded.
MovesOnly(k) ==
  \A s \in Steps : step'[s] # step[s] =>
    JobOf(s) = k /\ step[s] \in Unfinished /\ step'[s] \in {"queued", "running", "failed", "skipped"}

\* A worker that did not move, and whose job's steps did not, keeps its snapshot.
LEMMA SnapshotKept ==
  ASSUME ExclusiveInv, NEW v \in Workers, pc'[v] = pc[v], run'[v] = run[v],
         \A s \in Steps : Holds(v, JobOf(s)) => step'[s] = step[s]
  PROVE  SnapshotFits(v)'
<1>1. CASE pc[v] = "idle"
  BY <1>1 DEF SnapshotFits
<1>2. CASE pc[v] # "idle"
  <2>1. \A s \in StepsOf(run[v].job) : step'[s] = step[s]
    BY <1>2 DEF Holds, StepsOf
  <2>2. /\ run[v].todo \subseteq StepsOf(run[v].job)
        /\ pc[v] \in InStep => run[v].step \in StepsOf(run[v].job)
    BY <1>2 DEF ExclusiveInv, TypeInv, LocalsOK, LocalOK
  <2>3. SnapshotFits(v)
    BY DEF ExclusiveInv, StepsInv
  <2> HIDE DEF InStep
  <2>4. StepsOf(run[v].job)' = StepsOf(run[v].job)
    BY DEF StepsOf
  <2> QED
    BY <2>1, <2>2, <2>3, <2>4 DEF SnapshotFits
<1> QED
  BY <1>1, <1>2

LEMMA OthersKeepSnapshots ==
  ASSUME ExclusiveInv, NEW w \in Workers, WorkerStep(w), pc[w] # "idle",
         \A s \in Steps : step'[s] # step[s] => JobOf(s) = run[w].job,
         NEW v \in Workers \ {w}
  PROVE  SnapshotFits(v)'
<1>1. pc'[v] = pc[v] /\ run'[v] = run[v]
  BY OthersUnmoved DEF ExclusiveInv
<1>2. run[w].job \in Jobs /\ Holds(w, run[w].job)
  BY DEF ExclusiveInv, TypeInv, LocalsOK, LocalOK, Holds
<1>3. ~Holds(v, run[w].job)
  BY <1>2 DEF ExclusiveInv, OwnerInv
<1> QED
  BY <1>1, <1>3, SnapshotKept

LEMMA FlipsKept ==
  ASSUME ExclusiveInv, UNCHANGED rows, NEW k, MovesOnly(k)
  PROVE  OneFlipPerStep'
BY DEF ExclusiveInv, StepsInv, OneFlipPerStep, OneVersionPerStep, MovesOnly, Unfinished

\* The steps of the run loop that touch no step row.
LEMMA QuietMoves ==
  ASSUME ExclusiveInv, NEW w \in Workers, UNCHANGED step,
         ExecuteJob(w) \/ NextStep(w) \/ ResolveStep(w) \/ StepError(w) \/ CheckCancel(w)
         \/ ClearPrefix(w) \/ WriteParquet(w) \/ ValidateParquet(w) \/ BuildError(w)
  PROVE  SnapshotFits(w)'
<1> DEFINE j == run[w].job
<1> /\ pc \in [Workers -> PC] /\ run \in [Workers -> Run] /\ run[w] \in Run
    /\ step \in [Steps -> StepStatus]
  BY DEF ExclusiveInv, TypeInv, TypeOK
<1>0. /\ SnapshotFits(w) /\ LocalOK(pc[w], run[w])
      /\ pc[w] # "idle" => status[j] = "running"
      /\ \A s \in Steps : status[JobOf(s)] = "running" => step[s] # "absent"
  BY DEF ExclusiveInv, StepsInv, OwnerInv, Holds, RowsFit, TypeInv, LocalsOK, LocalOK
<1>1. CASE ExecuteJob(w)
  <2>1. /\ pc'[w] = "loop" /\ run'[w].todo = Pending(j) /\ run'[w].job = j
        /\ pc[w] = "claimed"
    BY <1>0, <1>1 DEF ExecuteJob, Run
  <2>2. \A t \in StepsOf(j) : step[t] \in Unfinished => t \in Pending(j)
    BY <1>0, <2>1 DEF SnapshotFits, Pending, Unfinished
  <2>3. \A t \in Pending(j) : step[t] = "queued"
    BY DEF Pending
  <2> QED
    BY <2>1, <2>2, <2>3 DEF SnapshotFits, StepsOf
<1>2. CASE NextStep(w)
  <2>1. CASE \E o \in Terminal : GoFinalize(w, o) /\ (o = "succeeded" => run[w].todo = {})
    <3>1. PICK o \in Terminal : GoFinalize(w, o) /\ (o = "succeeded" => run[w].todo = {})
      BY <2>1
    <3>2. /\ pc'[w] = "finalize" /\ run'[w].outcome = o /\ run'[w].todo = run[w].todo
          /\ run'[w].job = j
      BY <3>1 DEF GoFinalize, Run
    <3> QED
      BY <1>0, <1>2, <3>1, <3>2 DEF NextStep, SnapshotFits, StepsOf
  <2>2. CASE \E s \in run[w].todo : /\ run' = [run EXCEPT ![w].todo = @ \ {s}, ![w].step = s]
                                   /\ pc' = [pc EXCEPT ![w] = "start"]
    <3>1. PICK s \in run[w].todo : /\ run' = [run EXCEPT ![w].todo = @ \ {s}, ![w].step = s]
                                   /\ pc' = [pc EXCEPT ![w] = "start"]
      BY <2>2
    <3>2. /\ pc'[w] = "start" /\ run'[w].step = s /\ run'[w].todo = run[w].todo \ {s}
          /\ run'[w].job = j
      BY <3>1 DEF Run
    <3>3. /\ \A t \in run[w].todo : step[t] = "queued"
          /\ \A t \in StepsOf(j) : step[t] \in Unfinished => t \in run[w].todo
      BY <1>0, <1>2 DEF NextStep, SnapshotFits
    <3>4. step[s] \in Unfinished
      BY <3>1, <3>3 DEF Unfinished
    <3> HIDE DEF j
    <3>5. /\ \A t \in run'[w].todo : step'[t] = "queued"
          /\ \A t \in StepsOf(j) : step'[t] \in Unfinished =>
               t \in run'[w].todo \/ t = run'[w].step
          /\ step'[run'[w].step] \in Unfinished /\ run'[w].step \notin run'[w].todo
      BY <3>2, <3>3, <3>4
    <3> QED
      BY <3>2, <3>5 DEF SnapshotFits, StepsOf
  <2> QED
    BY <1>2, <2>1, <2>2 DEF NextStep, GoFinalize
<1>3. CASE \E o \in Terminal \ {"succeeded"} : GoFinalize(w, o) /\ pc[w] \in InStep
  <2>1. /\ pc'[w] = "finalize" /\ run'[w].outcome # "succeeded" /\ run'[w].todo = run[w].todo
        /\ run'[w].job = j /\ pc[w] \in InStep
    BY <1>3 DEF GoFinalize, Run
  <2> QED
    BY <1>0, <2>1 DEF SnapshotFits, StepsOf
<1>4. CASE /\ pc[w] \in InStep /\ pc'[w] \in InStep /\ run'[w].todo = run[w].todo
           /\ run'[w].job = j /\ run'[w].step = run[w].step
  BY <1>0, <1>4 DEF SnapshotFits, StepsOf
<1>5. CASE ResolveStep(w) \/ ValidateParquet(w)
  BY <1>4, <1>5 DEF ResolveStep, ValidateParquet, Run
<1>6. CASE StepError(w) \/ ClearPrefix(w) \/ WriteParquet(w)
  BY <1>4, <1>6 DEF StepError, ClearPrefix, WriteParquet
<1>7. CASE CheckCancel(w) \/ BuildError(w)
  <2>1. CASE GoFinalize(w, "cancelled")
    BY <1>3, <1>7, <2>1 DEF CheckCancel, BuildError
  <2>2. CASE ~GoFinalize(w, "cancelled")
    BY <1>4, <1>7, <2>2 DEF CheckCancel, BuildError
  <2> QED
    BY <2>1, <2>2
<1> QED
  BY <1>1, <1>2, <1>5, <1>6, <1>7

\* The three steps that move the row of the step at hand without a flip.
LEMMA RowMoves ==
  ASSUME ExclusiveInv, NEW w \in Workers, StartStep(w) \/ SkipStep(w) \/ FailStep(w)
  PROVE  MovesOnly(run[w].job) /\ SnapshotFits(w)'
<1> DEFINE j == run[w].job
           s == run[w].step
<1> /\ pc \in [Workers -> PC] /\ run \in [Workers -> Run] /\ run[w] \in Run
    /\ step \in [Steps -> StepStatus]
  BY DEF ExclusiveInv, TypeInv, TypeOK
<1>1. pc[w] \in InStep
  BY DEF StartStep, SkipStep, FailStep
<1>2. /\ s \in StepsOf(j) /\ s \in Steps /\ JobOf(s) = j
      /\ step[s] \in Unfinished /\ s \notin run[w].todo
      /\ \A t \in run[w].todo : step[t] = "queued"
      /\ \A t \in StepsOf(j) : step[t] \in Unfinished => t \in run[w].todo \/ t = s
      /\ run[w].todo \subseteq Steps
  BY <1>1 DEF ExclusiveInv, TypeInv, LocalsOK, LocalOK, StepsOf, StepsInv, SnapshotFits
<1> HIDE DEF InStep
<1>3. \A t \in Steps \ {s} : step'[t] = step[t]
  BY DEF StartStep, SkipStep, FailStep
<1>4. step'[s] \in {"running", "skipped", "failed"}
  BY <1>2 DEF StartStep, SkipStep, FailStep
<1>5. MovesOnly(j)
  BY <1>2, <1>3, <1>4 DEF MovesOnly
<1>6. /\ run'[w].job = j /\ run'[w].todo = run[w].todo
      /\ \/ pc'[w] = "resolve" /\ run'[w].step = s
         \/ pc'[w] = "finalize" /\ run'[w].outcome \in {"failed", "cancelled"}
  BY DEF StartStep, SkipStep, FailStep, GoFinalize, Run
<1>7. \A t \in run[w].todo : step'[t] = "queued"
  BY <1>2, <1>3
<1>8. \A t \in StepsOf(j) : step'[t] \in Unfinished => t \in run[w].todo \/ t = s
  BY <1>2, <1>3 DEF StepsOf
<1>9. pc'[w] = "resolve" => step'[s] \in Unfinished
  BY <1>2 DEF StartStep, SkipStep, FailStep, GoFinalize, Unfinished
<1>10. SnapshotFits(w)'
  <2> HIDE DEF j, s
  <2>1. CASE pc'[w] = "resolve" /\ run'[w].step = s
    BY <1>2, <1>6, <1>7, <1>8, <1>9, <2>1 DEF SnapshotFits, StepsOf, InStep
  <2>2. CASE pc'[w] = "finalize" /\ run'[w].outcome \in {"failed", "cancelled"}
    BY <1>6, <1>7, <2>2 DEF SnapshotFits, InStep
  <2> QED
    BY <1>6, <2>1, <2>2
<1> QED
  BY <1>5, <1>10

LEMMA CommitMoves ==
  ASSUME ExclusiveInv, NEW w \in Workers, CommitVersion(w)
  PROVE  /\ \A s \in Steps : step'[s] # step[s] => JobOf(s) = run[w].job
         /\ \A s \in Steps : step[s] # "absent" => step'[s] # "absent"
         /\ SnapshotFits(w)' /\ OneFlipPerStep'
<1> DEFINE j == run[w].job
           s == run[w].step
<1> /\ pc \in [Workers -> PC] /\ run \in [Workers -> Run] /\ run[w] \in Run
    /\ step \in [Steps -> StepStatus]
  BY DEF ExclusiveInv, TypeInv, TypeOK
<1>1. pc[w] = "commit"
  BY DEF CommitVersion
<1>2. /\ s \in StepsOf(j) /\ s \in Steps /\ JobOf(s) = j
      /\ step[s] \in Unfinished /\ s \notin run[w].todo
      /\ \A t \in run[w].todo : step[t] = "queued"
      /\ \A t \in StepsOf(j) : step[t] \in Unfinished => t \in run[w].todo \/ t = s
      /\ run[w].todo \subseteq Steps
  BY <1>1 DEF ExclusiveInv, TypeInv, LocalsOK, LocalOK, StepsOf, StepsInv, SnapshotFits
<1>3. OneFlipPerStep /\ SnapshotFits(w)
  BY DEF ExclusiveInv, StepsInv
<1>4. status[j] = "running"
  BY <1>1, <1>2 DEF ExclusiveInv, OwnerInv, Holds, TypeInv, LocalsOK, LocalOK
<1>5. CASE Flip(w) /\ UNCHANGED run
  <2>1. \A t \in Steps \ {s} : step'[t] = step[t]
    BY <1>5 DEF Flip
  <2>2. step'[s] = "succeeded" /\ pc'[w] = "loop" /\ run' = run
    BY <1>2, <1>5 DEF Flip
  <2>3. SnapshotFits(w)'
    <3>1. \A t \in run[w].todo : step'[t] = "queued"
      BY <1>2, <2>1
    <3>2. \A t \in StepsOf(j) : step'[t] \in Unfinished => t \in run[w].todo
      BY <1>2, <2>1, <2>2 DEF StepsOf, Unfinished
    <3> QED
      BY <2>2, <3>1, <3>2 DEF SnapshotFits, StepsOf
  <2>4. PICK r : r.step = s /\ rows' = rows \cup {r}
    BY <1>5 DEF Flip
  <2>5. \A r1 \in rows : r1.step # s
    BY <1>2, <1>3 DEF OneFlipPerStep, OneVersionPerStep, Unfinished
  <2>6. OneFlipPerStep'
    <3>1. ASSUME NEW t \in Steps
          PROVE  step'[t] = "succeeded" <=> \E r1 \in rows' : r1.step = t
      <4>1. CASE t = s
        BY <2>2, <2>4, <4>1
      <4>2. CASE t # s
        BY <1>3, <2>1, <2>4, <4>2 DEF OneFlipPerStep, OneVersionPerStep
      <4> QED
        BY <4>1, <4>2
    <3>2. \A r1, r2 \in rows' : r1.step = r2.step => r1 = r2
      BY <1>3, <2>4, <2>5 DEF OneFlipPerStep, OneVersionPerStep
    <3> QED
      BY <3>1, <3>2 DEF OneFlipPerStep, OneVersionPerStep
  <2> QED
    BY <1>2, <2>1, <2>2, <2>3, <2>6
<1>6. CASE UNCHANGED <<step, rows, run>> /\ pc'[w] \in {"skip", "fail"}
  <2>1. SnapshotFits(w)'
    BY <1>1, <1>2, <1>6 DEF SnapshotFits, StepsOf
  <2> QED
    BY <1>3, <1>6, <2>1 DEF OneFlipPerStep, OneVersionPerStep
<1> QED
  BY <1>4, <1>5, <1>6 DEF CommitVersion

LEMMA WorkerSteps ==
  ASSUME ExclusiveInv, NEW w \in Workers, WorkerStep(w), ~Claim(w), ~FinalizeJob(w)
  PROVE  StepsInv'
<1> DEFINE j == run[w].job
<1>0. /\ UNCHANGED <<status, rows>> \/ CommitVersion(w)
      /\ UNCHANGED status /\ pc[w] # "idle"
  BY OnlyClaimAndFinalizeMoveJobs DEF jobVars, dataVars, WorkerStep, ExecuteJob, NextStep,
    StartStep, ResolveStep, StepError, CheckCancel, ClearPrefix, WriteParquet,
    ValidateParquet, BuildError, SkipStep, FailStep
<1>1. status[j] = "running" /\ RowsFit /\ step \in [Steps -> StepStatus]
  BY <1>0 DEF ExclusiveInv, StepsInv, OwnerInv, Holds, TypeInv, TypeOK, LocalsOK, LocalOK
\* It is enough to look at the job's own step rows.
<1>2. ASSUME \A s \in Steps : step'[s] # step[s] => JobOf(s) = j,
             \A s \in Steps : step[s] # "absent" => step'[s] # "absent",
             SnapshotFits(w)', OneFlipPerStep'
      PROVE  StepsInv'
  <2>1. RowsFit'
    BY <1>0, <1>1, <1>2 DEF RowsFit
  <2>2. \A v \in Workers \ {w} : SnapshotFits(v)'
    BY <1>0, <1>2, OthersKeepSnapshots
  <2> QED
    BY <1>2, <2>1, <2>2 DEF StepsInv
<1>3. CASE CommitVersion(w)
  BY <1>2, <1>3, CommitMoves
<1>4. CASE StartStep(w) \/ SkipStep(w) \/ FailStep(w)
  <2>1. MovesOnly(j) /\ SnapshotFits(w)'
    BY <1>4, RowMoves
  <2>2. UNCHANGED rows
    BY <1>4 DEF StartStep, SkipStep, FailStep, dataVars
  <2>3. OneFlipPerStep'
    BY <2>1, <2>2, FlipsKept
  <2> QED
    BY <1>2, <2>1, <2>3 DEF MovesOnly
<1>5. CASE UNCHANGED <<step, rows>> /\
           (ExecuteJob(w) \/ NextStep(w) \/ ResolveStep(w) \/ StepError(w) \/ CheckCancel(w)
            \/ ClearPrefix(w) \/ WriteParquet(w) \/ ValidateParquet(w) \/ BuildError(w))
  <2>1. SnapshotFits(w)'
    BY <1>5, QuietMoves
  <2>2. OneFlipPerStep'
    BY <1>5 DEF ExclusiveInv, StepsInv, OneFlipPerStep, OneVersionPerStep
  <2> QED
    BY <1>2, <1>5, <2>1, <2>2
<1>6. CASE ExecuteJob(w) \/ NextStep(w) \/ ResolveStep(w) \/ StepError(w) \/ CheckCancel(w)
  BY <1>5, <1>6 DEF ExecuteJob, NextStep, ResolveStep, StepError, CheckCancel, dataVars
<1>7. CASE ClearPrefix(w) \/ WriteParquet(w) \/ ValidateParquet(w) \/ BuildError(w)
  BY <1>5, <1>7 DEF ClearPrefix, WriteParquet, ValidateParquet, BuildError, dataVars
<1> QED
  BY <1>3, <1>4, <1>6, <1>7 DEF WorkerStep

LEMMA StepsStep ==
  ASSUME ~MayStall
  PROVE  ExclusiveInv /\ [Next]_vars => ExclusiveInv'
<1> SUFFICES ASSUME ExclusiveInv, [Next]_vars
             PROVE  ExclusiveInv'
  OBVIOUS
<1>0. SUFFICES StepsInv'
  BY NextTypeInv, OwnerStep DEF ExclusiveInv
<1> /\ pc \in [Workers -> PC] /\ run \in [Workers -> Run]
    /\ step \in [Steps -> StepStatus] /\ status \in [Jobs -> JobStatus]
    /\ \A s \in Steps : JobOf(s) \in Jobs
  BY StepFacts DEF ExclusiveInv, TypeInv, TypeOK
<1> RowsFit /\ OneFlipPerStep /\ OwnerInv
  BY DEF ExclusiveInv, StepsInv
<1> USE DEF workerVars, dataVars
\* Nobody holds job k, and its step rows are what changes.
<1>1. ASSUME NEW k, MovesOnly(k), UNCHANGED <<pc, run, rows>>, RowsFit',
             \A v \in Workers : ~Holds(v, k)
      PROVE  StepsInv'
  <2>1. \A v \in Workers : SnapshotFits(v)'
    BY <1>1, SnapshotKept DEF MovesOnly
  <2>2. OneFlipPerStep'
    BY <1>1, FlipsKept
  <2> QED
    BY <1>1, <2>1, <2>2 DEF StepsInv
<1>2. ASSUME UNCHANGED <<step, rows>>, RowsFit', NEW w \in Workers, SnapshotFits(w)',
             \A v \in Workers \ {w} : pc'[v] = pc[v] /\ run'[v] = run[v]
      PROVE  StepsInv'
  <2>1. \A v \in Workers \ {w} : SnapshotFits(v)'
    BY <1>2, SnapshotKept
  <2>2. OneFlipPerStep'
    BY <1>2 DEF OneFlipPerStep, OneVersionPerStep
  <2> QED
    BY <1>2, <2>1, <2>2 DEF StepsInv
<1>3. CASE UNCHANGED <<step, rows, pc, run, status>>
  <2>1. RowsFit'
    BY <1>3 DEF RowsFit
  <2>2. \A v \in Workers : SnapshotFits(v)'
    BY <1>3, SnapshotKept
  <2>3. OneFlipPerStep'
    BY <1>3 DEF OneFlipPerStep, OneVersionPerStep
  <2> QED
    BY <2>1, <2>2, <2>3 DEF StepsInv
<1>4. CASE \E k \in Jobs : ResolveBuild(k)
  <2>1. UNCHANGED <<step, rows, pc, run>> /\ RowsFit'
    BY <1>4 DEF ResolveBuild, RowsFit
  <2>2. \A v \in Workers : SnapshotFits(v)'
    BY <2>1, SnapshotKept
  <2>3. OneFlipPerStep'
    BY <2>1 DEF OneFlipPerStep, OneVersionPerStep
  <2> QED
    BY <2>1, <2>2, <2>3 DEF StepsInv
<1>5. CASE \E k \in Jobs : InsertJob(k)
  <2>1. PICK k \in Jobs : InsertJob(k)
    BY <1>5
  <2>2. \A s \in Steps : JobOf(s) = k => step[s] = "absent" /\ step'[s] = "queued"
    BY <2>1 DEF InsertJob, MoveSteps, RowsFit
  <2>3. \A s \in Steps : JobOf(s) # k => step'[s] = step[s] /\ status'[JobOf(s)] = status[JobOf(s)]
    BY <2>1 DEF InsertJob, MoveSteps
  <2>4. \A s \in Steps : JobOf(s) = k => status'[k] = "queued"
    BY <2>1 DEF InsertJob, StepsOf
  <2>5. RowsFit'
    BY <2>2, <2>3, <2>4 DEF RowsFit
  <2>6. \A v \in Workers : ~Holds(v, k)
    BY <2>1 DEF InsertJob, OwnerInv
  <2>7. \A v \in Workers : SnapshotFits(v)'
    BY <2>1, <2>3, <2>6, SnapshotKept DEF InsertJob
  <2>8. OneFlipPerStep'
    BY <2>1, <2>2, <2>3 DEF InsertJob, OneFlipPerStep, OneVersionPerStep
  <2> QED
    BY <2>5, <2>7, <2>8 DEF StepsInv
<1>6. CASE \E k \in Jobs : CancelJob(k)
  <2>1. PICK k \in Jobs : CancelJob(k)
    BY <1>6
  <2>2. CASE status[k] # "queued"
    BY <1>3, <2>1, <2>2 DEF CancelJob
  <2>3. CASE status[k] = "queued"
    <3>1. MovesOnly(k) /\ UNCHANGED <<pc, run, rows>>
      BY <2>1, <2>3 DEF CancelJob, MoveSteps, MovesOnly, Unfinished
    <3>2. RowsFit'
      BY <2>1, <2>3 DEF CancelJob, MoveSteps, RowsFit, Unfinished
    <3>3. \A v \in Workers : ~Holds(v, k)
      BY <2>1, <2>3 DEF OwnerInv
    <3> QED
      BY <1>1, <3>1, <3>2, <3>3
  <2> QED
    BY <2>2, <2>3
<1>7. CASE \E w \in Workers : Claim(w)
  <2>1. PICK w \in Workers, k \in Jobs :
          /\ status[k] = "queued"
          /\ status' = [status EXCEPT ![k] = "running"]
          /\ run' = [run EXCEPT ![w] = [NoRun EXCEPT !.job = k, !.attempt = attempts[k]]]
          /\ pc' = [pc EXCEPT ![w] = "claimed"]
          /\ UNCHANGED <<step, rows>>
    BY <1>7 DEF Claim
  <2>2. run'[w].job = k
    BY <2>1 DEF NoRun
  <2>3. RowsFit'
    BY <2>1 DEF RowsFit
  <2>4. SnapshotFits(w)'
    BY <2>1, <2>2 DEF RowsFit, SnapshotFits, StepsOf
  <2> QED
    BY <1>2, <2>1, <2>3, <2>4
<1>8. CASE \E w \in Workers : FinalizeJob(w)
  <2>1. PICK w \in Workers : FinalizeJob(w)
    BY <1>8
  <2> DEFINE j == run[w].job
  <2>2. j \in Jobs /\ status[j] = "running" /\ run[w].outcome \in Terminal
    BY <2>1 DEF FinalizeJob, OwnerInv, Holds, ExclusiveInv, TypeInv, LocalsOK, LocalOK, Run
  <2>3. SnapshotFits(w) /\ pc[w] = "finalize"
    BY <2>1 DEF FinalizeJob, ExclusiveInv, StepsInv
  <2>4. status' = [status EXCEPT ![j] = run[w].outcome]
    BY <2>1, <2>2 DEF FinalizeJob, StillOpen
  <2>5. MovesOnly(j)
    BY <2>1, <2>2 DEF FinalizeJob, StillOpen, MovesOnly, MoveSteps, Unfinished
  <2>6. \A s \in Steps : JobOf(s) = j => step'[s] \notin Unfinished
    <3>1. CASE run[w].outcome = "succeeded"
      BY <2>1, <2>2, <2>3, <3>1 DEF FinalizeJob, StillOpen, SnapshotFits, StepsOf
    <3>2. CASE run[w].outcome # "succeeded"
      BY <2>1, <2>2, <3>2 DEF FinalizeJob, StillOpen, MoveSteps, Unfinished
    <3> QED
      BY <3>1, <3>2
  <2>7. RowsFit'
    <3> SUFFICES ASSUME NEW s \in Steps
                 PROVE  /\ step'[s] = "absent" <=> status'[JobOf(s)] \in {"absent", "resolved"}
                        /\ status'[JobOf(s)] = "queued" => step'[s] # "running"
                        /\ status'[JobOf(s)] \in Terminal => step'[s] \notin Unfinished
      BY DEF RowsFit
    <3>1. CASE JobOf(s) = j
      <4>1. step[s] # "absent"
        BY <2>2, <3>1 DEF RowsFit
      <4>2. step'[s] # "absent"
        BY <2>5, <4>1 DEF MovesOnly
      <4> QED
        BY <2>2, <2>4, <2>6, <3>1, <4>2
    <3>2. CASE JobOf(s) # j
      BY <2>4, <2>5, <3>2 DEF MovesOnly, RowsFit
    <3> QED
      BY <3>1, <3>2
  <2>8. \A v \in Workers \ {w} : SnapshotFits(v)'
    BY <2>1, <2>3, <2>5, OthersKeepSnapshots DEF MovesOnly, WorkerStep
  <2>9. SnapshotFits(w)'
    BY <2>1 DEF FinalizeJob, Abandon, SnapshotFits
  <2>10. OneFlipPerStep'
    BY <2>1, <2>5, FlipsKept DEF FinalizeJob
  <2> QED
    BY <2>7, <2>8, <2>9, <2>10 DEF StepsInv
<1>9. CASE \E w \in Workers : WorkerStep(w) /\ ~Claim(w) /\ ~FinalizeJob(w)
  BY <1>9, WorkerSteps
<1>10. CASE \E w \in Workers : Crash(w)
  <2>1. PICK w \in Workers : Crash(w)
    BY <1>10
  <2>2. UNCHANGED <<step, rows, status>>
    BY <2>1 DEF Crash, jobVars
  <2>3. RowsFit'
    BY <2>2 DEF RowsFit
  <2>4. SnapshotFits(w)'
    BY <2>1 DEF Crash, Abandon, SnapshotFits
  <2> QED
    BY <1>2, <2>1, <2>2, <2>3, <2>4 DEF Crash, Abandon
<1>11. CASE \E S \in SUBSET Jobs : Sweep(S)
  <2>1. PICK S \in SUBSET Jobs : Sweep(S)
    BY <1>11
  <2>2. \A v \in Workers, k \in S : ~Holds(v, k)
    BY <2>1 DEF Sweep, Stale, OwnerInv
  <2>3. \A s \in Steps : JobOf(s) \notin S => step'[s] = step[s]
    BY <2>1 DEF Sweep
  <2>4. \A v \in Workers : SnapshotFits(v)'
    BY <2>1, <2>2, <2>3, SnapshotKept DEF Sweep
  <2>5. RowsFit'
    BY <2>1 DEF Sweep, Stale, RowsFit, Unfinished
  <2>6. \A s \in Steps : step'[s] = "succeeded" <=> step[s] = "succeeded"
    BY <2>1 DEF Sweep, Unfinished
  <2>7. OneFlipPerStep'
    BY <2>1, <2>6 DEF Sweep, OneFlipPerStep, OneVersionPerStep
  <2> QED
    BY <2>4, <2>5, <2>7 DEF StepsInv
<1>12. CASE \/ \E k \in Jobs : HeartbeatLapse(k)
            \/ \E w \in Workers : Heartbeat(w)
            \/ UNCHANGED vars
  BY <1>3, <1>12 DEF HeartbeatLapse, Heartbeat, vars
<1> QED
  BY <1>4, <1>5, <1>6, <1>7, <1>8, <1>9, <1>10, <1>11, <1>12 DEF Next, Api

LEMMA InitExclusive == Init => ExclusiveInv
<1> SUFFICES ASSUME Init
             PROVE  OwnerInv /\ StepsInv
  BY InitTypeInv DEF ExclusiveInv
<1>1. OwnerInv
  BY DEF Init, OwnerInv, Holds
<1>2. RowsFit
  BY StepFacts DEF Init, RowsFit, Unfinished
<1>3. \A w \in Workers : SnapshotFits(w)
  BY DEF Init, SnapshotFits
<1>4. OneFlipPerStep
  BY DEF Init, OneFlipPerStep, OneVersionPerStep
<1> QED
  BY <1>1, <1>2, <1>3, <1>4 DEF StepsInv

\* Retries, cancels and crashes included, a step publishes at most one version
\* and is recorded as succeeded exactly if it published it.
THEOREM StepsFlipOnce ==
  ASSUME ~MayStall
  PROVE  Spec => []OneFlipPerStep
<1>1. Init => ExclusiveInv
  BY InitExclusive
<1>2. ExclusiveInv /\ [Next]_vars => ExclusiveInv'
  BY StepsStep
<1>3. ExclusiveInv => OneFlipPerStep
  BY DEF ExclusiveInv, StepsInv
<1> QED
  BY <1>1, <1>2, <1>3, PTL DEF Spec

\* A finished job leaves no step queued or running behind.
THEOREM FinishedJobsAreQuiet ==
  ASSUME ~MayStall
  PROVE  Spec => []TerminalQuiet
<1>1. Init => ExclusiveInv
  BY InitExclusive
<1>2. ExclusiveInv /\ [Next]_vars => ExclusiveInv'
  BY StepsStep
<1>3. ExclusiveInv => TerminalQuiet
  <2> SUFFICES ASSUME ExclusiveInv, NEW s \in Steps, status[JobOf(s)] \in Terminal
               PROVE  step[s] \in {"succeeded", "failed", "skipped"}
    BY DEF TerminalQuiet
  <2>1. step[s] \in StepStatus
    BY DEF ExclusiveInv, TypeInv, TypeOK
  <2>2. step[s] # "absent" /\ step[s] \notin Unfinished
    BY DEF ExclusiveInv, StepsInv, RowsFit
  <2> QED
    BY <2>1, <2>2 DEF Unfinished
<1> QED
  BY <1>1, <1>2, <1>3, PTL DEF Spec

-----------------------------------------------------------------------------
(***************************************************************************)
(* What readers of a dataset may rely on, and the pruner beside the        *)
(* workers.  Most of it rests on one condition: no two workers build the   *)
(* same dataset at a time.  The code locks the flip only, so the condition *)
(* is a hypothesis here; it holds where heartbeats arrive in time and no   *)
(* two jobs have a step on one dataset.                                    *)
(***************************************************************************)

-----------------------------------------------------------------------------
(* The condition, and the invariant it carries.                              *)

Builds == {"check", "clear", "write", "validate", "commit"}
Making(w) == Target(run[w].step)

BuildsApart ==
  \A v, w \in Workers :
    pc[v] \in Builds /\ pc[w] \in Builds /\ Making(v) = Making(w) => v = w

PlansApart == \A s, t \in Steps : Target(s) = Target(t) => JobOf(s) = JobOf(t)

\* A worker that builds aims at the first version that is not there yet.
AimsNext == \A w \in Workers : pc[w] \in Builds => run[w].next = current[Making(w)] + 1

OnlyAtKey(d, v, b) == AtKey(d, v) = {[ds |-> d, ver |-> v, by |-> b]}

\* What a worker validates and commits is the one object it has written.
ObjectFits ==
  \A w \in Workers :
    /\ pc[w] = "validate" => \E b \in Build : OnlyAtKey(Making(w), run[w].next, b)
    /\ pc[w] = "commit" => OnlyAtKey(Making(w), run[w].next, run[w].by)

AimInv == TypeInv /\ ContiguityInv /\ AimsNext
IntactInv == AimInv /\ ObjectFits /\ CommittedIntact

-----------------------------------------------------------------------------
(* The aim: nobody else publishes what a worker builds.                      *)

\* A worker that builds works for a step of a job of its own.
LEMMA BuilderFacts ==
  ASSUME TypeInv, NEW w \in Workers, pc[w] \in Builds
  PROVE  /\ run[w].job \in Jobs /\ run[w].step \in Steps /\ JobOf(run[w].step) = run[w].job
         /\ Making(w) \in Datasets /\ run[w].next \in Nat \ {0} /\ pc[w] # "idle"
<1>1. LocalOK(pc[w], run[w])
  BY DEF TypeInv, LocalsOK
<1>2. pc[w] \in InStep /\ pc[w] \in HasVersion /\ pc[w] # "idle"
  BY DEF Builds
<1> HIDE DEF InStep, HasVersion
<1>3. run[w].step \in StepsOf(run[w].job) /\ run[w].job \in Jobs /\ run[w].next \in Nat \ {0}
  BY <1>1, <1>2 DEF LocalOK
<1>4. run[w].step \in Steps /\ JobOf(run[w].step) = run[w].job
  BY <1>3 DEF StepsOf
<1> QED
  BY <1>2, <1>3, <1>4, StepFacts DEF Making

\* Builders after the step built the same version of the same target before it.
SameAim ==
  \A w \in Workers : pc'[w] \in Builds =>
    pc[w] \in Builds /\ run'[w].next = run[w].next /\ run'[w].step = run[w].step

\* Every move of a worker but the two that set a target or a version.
LEMMA AimKept ==
  ASSUME TypeInv, NEW w \in Workers, WorkerStep(w), ~ResolveStep(w), ~CommitVersion(w)
  PROVE  SameAim /\ UNCHANGED <<current, rows>>
<1> pc \in [Workers -> PC] /\ run \in [Workers -> Run]
  BY DEF TypeInv, TypeOK
<1> USE DEF dataVars, SameAim, Builds
<1>1. CASE Claim(w) \/ ExecuteJob(w) \/ NextStep(w) \/ StartStep(w)
  BY <1>1 DEF Claim, ExecuteJob, NextStep, StartStep, Abandon, GoFinalize
<1>2. CASE StepError(w) \/ FailStep(w) \/ FinalizeJob(w) \/ SkipStep(w)
  BY <1>2 DEF StepError, FailStep, FinalizeJob, SkipStep, Abandon, GoFinalize
<1>3. CASE CheckCancel(w) \/ ClearPrefix(w) \/ WriteParquet(w) \/ BuildError(w)
  BY <1>3 DEF CheckCancel, ClearPrefix, WriteParquet, BuildError, GoFinalize
<1>4. CASE ValidateParquet(w)
  <2>1. run'[w].next = run[w].next /\ run'[w].step = run[w].step
    BY <1>4 DEF ValidateParquet, Run
  <2> QED
    BY <1>4, <2>1 DEF ValidateParquet
<1> QED
  BY <1>1, <1>2, <1>3, <1>4 DEF WorkerStep

\* The flip of one worker leaves the others' targets alone.
LEMMA FlipKeepsAims ==
  ASSUME AimInv, BuildsApart, NEW w \in Workers, CommitVersion(w), Flip(w), UNCHANGED run
  PROVE  AimsNext'
<1>1. pc \in [Workers -> PC] /\ current \in [Datasets -> Nat]
  BY DEF AimInv, TypeInv, TypeOK
<1>2. pc[w] \in Builds
  BY DEF CommitVersion, Builds
<1> SUFFICES ASSUME NEW v \in Workers, pc'[v] \in Builds
             PROVE  run[v].next = current'[Making(v)] + 1
  BY DEF AimsNext, Making
<1>3. v # w /\ pc[v] \in Builds
  BY <1>1 DEF Flip, Builds
<1>4. Making(v) # Making(w) /\ Making(v) \in Datasets
  BY <1>2, <1>3, BuilderFacts DEF BuildsApart, AimInv
<1>5. current'[Making(v)] = current[Making(v)]
  BY <1>1, <1>4 DEF Flip, Making
<1> QED
  BY <1>3, <1>5 DEF AimInv, AimsNext

LEMMA AimStep == AimInv /\ BuildsApart /\ [Next]_vars => AimInv'
<1> SUFFICES ASSUME AimInv, BuildsApart, [Next]_vars
             PROVE  AimsNext'
  BY NextTypeInv, ContiguityStep DEF AimInv
<1> /\ pc \in [Workers -> PC] /\ run \in [Workers -> Run] /\ current \in [Datasets -> Nat]
    /\ TypeInv
  BY DEF AimInv, TypeInv, TypeOK
<1> USE DEF dataVars, workerVars
<1>1. CASE SameAim /\ UNCHANGED current
  BY <1>1 DEF SameAim, AimInv, AimsNext, Making
<1>2. CASE \E w \in Workers : ResolveStep(w)
  <2>1. PICK w \in Workers : ResolveStep(w)
    BY <1>2
  <2>2. UNCHANGED current /\ \A v \in Workers \ {w} : pc'[v] = pc[v] /\ run'[v] = run[v]
    BY <2>1 DEF ResolveStep
  <2>3. ASSUME pc'[w] \in Builds
        PROVE  run'[w].next = current[Target(run[w].step)] + 1 /\ run'[w].step = run[w].step
    BY <2>1, <2>3 DEF ResolveStep, Run, Builds
  <2> QED
    BY <2>2, <2>3 DEF AimInv, AimsNext, Making
<1>3. CASE \E w \in Workers : CommitVersion(w)
  <2>1. PICK w \in Workers : CommitVersion(w)
    BY <1>3
  <2>2. CASE Flip(w) /\ UNCHANGED run
    BY <2>1, <2>2, FlipKeepsAims
  <2>3. CASE ~(Flip(w) /\ UNCHANGED run)
    BY <1>1, <2>1, <2>3 DEF CommitVersion, Abandon, SameAim, Builds
  <2> QED
    BY <2>2, <2>3
<1>4. CASE \E w \in Workers : WorkerStep(w) /\ ~ResolveStep(w) /\ ~CommitVersion(w)
  BY <1>1, <1>4, AimKept
<1>5. CASE \E w \in Workers : Crash(w)
  BY <1>1, <1>5 DEF Crash, Abandon, SameAim, Builds
<1>6. CASE \/ \E k \in Jobs : Api(k) \/ HeartbeatLapse(k)
           \/ \E w \in Workers : Heartbeat(w)
           \/ \E S \in SUBSET Jobs : Sweep(S)
           \/ UNCHANGED vars
  <2>1. UNCHANGED <<current, pc, run>>
    BY <1>6 DEF Api, ResolveBuild, InsertJob, CancelJob, HeartbeatLapse, Heartbeat, Sweep, vars
  <2> QED
    BY <1>1, <2>1 DEF SameAim
<1> QED
  BY <1>2, <1>3, <1>4, <1>5, <1>6 DEF Next

LEMMA InitAim == Init => AimInv
BY InitTypeInv DEF Init, AimInv, ContiguityInv, VersionsContiguous, NextBounded, AimsNext, Builds

-----------------------------------------------------------------------------
(* The object behind a committed version.                                    *)

\* No object appears or goes but those under v<n> of dataset d.
OnlyUnder(d, n) == \A o : (o \in objects <=> o \in objects') \/ (o.ds = d /\ o.ver = n)

LEMMA OtherKeysKept ==
  ASSUME NEW d, NEW n, OnlyUnder(d, n), NEW e, NEW v, ~(e = d /\ v = n)
  PROVE  AtKey(e, v)' = AtKey(e, v)
BY DEF OnlyUnder, AtKey

\* The version a worker builds is not committed yet.
LEMMA AimIsFree ==
  ASSUME AimInv, NEW w \in Workers, pc[w] \in Builds, NEW r \in rows
  PROVE  ~(r.ds = Making(w) /\ r.ver = run[w].next)
<1>1. Making(w) \in Datasets /\ run[w].next = current[Making(w)] + 1
  BY BuilderFacts DEF AimInv, AimsNext
<1>2. r.ds = Making(w) => r.ver \in 1..current[Making(w)]
  BY <1>1 DEF AimInv, ContiguityInv, VersionsContiguous
<1>3. current[Making(w)] \in Nat
  BY <1>1 DEF AimInv, TypeInv, TypeOK
<1> QED
  BY <1>1, <1>2, <1>3

\* Each worker step but a flip that changes the store, and what it leaves.
LEMMA StoreMoves ==
  ASSUME AimInv, NEW w \in Workers, ClearPrefix(w) \/ WriteParquet(w)
  PROVE  OnlyUnder(Making(w), run[w].next) /\ pc[w] \in Builds /\ UNCHANGED <<rows, current, run>>
<1> USE DEF Builds, OnlyUnder, Making, AtKey
<1>1. CASE ClearPrefix(w)
  BY <1>1 DEF ClearPrefix
<1>2. CASE WriteParquet(w)
  BY <1>2 DEF WriteParquet
<1> QED
  BY <1>1, <1>2

\* A step under the key of one builder keeps what the others have written and
\* what is committed.
LEMMA OthersIntact ==
  ASSUME IntactInv, BuildsApart, NEW w \in Workers, ClearPrefix(w) \/ WriteParquet(w)
  PROVE  /\ CommittedIntact'
         /\ \A v \in Workers \ {w} : pc'[v] \in {"validate", "commit"} =>
              /\ pc[v] = pc'[v]
              /\ AtKey(Making(v), run[v].next)' = AtKey(Making(v), run[v].next)
<1>1. AimInv /\ TypeInv /\ pc \in [Workers -> PC]
  BY DEF IntactInv, AimInv, TypeInv, TypeOK
<1>2. OnlyUnder(Making(w), run[w].next) /\ pc[w] \in Builds /\ UNCHANGED <<rows, current, run>>
  BY <1>1, StoreMoves
<1>3. CommittedIntact'
  <2> SUFFICES ASSUME NEW r \in rows
               PROVE  AtKey(r.ds, r.ver)' = {[ds |-> r.ds, ver |-> r.ver, by |-> r.by]}
    BY <1>2 DEF CommittedIntact, AtKey
  <2>1. ~(r.ds = Making(w) /\ r.ver = run[w].next)
    BY <1>1, <1>2, AimIsFree
  <2>2. AtKey(r.ds, r.ver)' = AtKey(r.ds, r.ver)
    BY <1>2, <2>1, OtherKeysKept
  <2> QED
    BY <2>2 DEF IntactInv, CommittedIntact
<1>4. ASSUME NEW v \in Workers \ {w}, pc'[v] \in {"validate", "commit"}
      PROVE  pc[v] = pc'[v] /\ AtKey(Making(v), run[v].next)' = AtKey(Making(v), run[v].next)
  <2>1. pc[v] = pc'[v]
    BY <1>1, <1>4 DEF ClearPrefix, WriteParquet
  <2>2. Making(v) # Making(w)
    BY <1>2, <1>4, <2>1 DEF BuildsApart, Builds
  <2>3. UNCHANGED <<Making(v), run[v]>>
    BY <1>2 DEF Making
  <2>4. \A e, n : ~(e = Making(w) /\ n = run[w].next) =>
          {o \in objects' : o.ds = e /\ o.ver = n} = {o \in objects : o.ds = e /\ o.ver = n}
    BY <1>2 DEF OnlyUnder
  <2> QED
    BY <2>1, <2>2, <2>3, <2>4 DEF AtKey
<1> QED
  BY <1>3, <1>4

LEMMA IntactStep == IntactInv /\ BuildsApart /\ [Next]_vars => IntactInv'
<1> SUFFICES ASSUME IntactInv, BuildsApart, [Next]_vars
             PROVE  ObjectFits' /\ CommittedIntact'
  BY AimStep DEF IntactInv
<1> /\ pc \in [Workers -> PC] /\ run \in [Workers -> Run] /\ TypeInv /\ AimInv
    /\ ObjectFits /\ CommittedIntact
  BY DEF IntactInv, AimInv, TypeInv, TypeOK
<1> USE DEF dataVars, workerVars
\* Nothing was written, nothing published, and nobody came to have an object.
<1>1. CASE /\ UNCHANGED <<objects, rows>>
           /\ \A v \in Workers : pc'[v] \in {"validate", "commit"} =>
                pc'[v] = pc[v] /\ run'[v] = run[v]
  BY <1>1 DEF ObjectFits, CommittedIntact, OnlyAtKey, AtKey, Making
<1>2. CASE \E w \in Workers : ClearPrefix(w)
  <2>1. PICK w \in Workers : ClearPrefix(w)
    BY <1>2
  <2>2. /\ CommittedIntact'
        /\ \A v \in Workers \ {w} : pc'[v] \in {"validate", "commit"} =>
             /\ pc[v] = pc'[v]
             /\ AtKey(Making(v), run[v].next)' = AtKey(Making(v), run[v].next)
    BY <2>1, OthersIntact
  <2>3. pc'[w] = "write" /\ UNCHANGED run
    BY <2>1 DEF ClearPrefix
  <2> QED
    BY <2>2, <2>3 DEF ObjectFits, OnlyAtKey, Making
<1>3. CASE \E w \in Workers : WriteParquet(w)
  <2>1. PICK w \in Workers : WriteParquet(w)
    BY <1>3
  <2>2. /\ CommittedIntact'
        /\ \A v \in Workers \ {w} : pc'[v] \in {"validate", "commit"} =>
             /\ pc[v] = pc'[v]
             /\ AtKey(Making(v), run[v].next)' = AtKey(Making(v), run[v].next)
    BY <2>1, OthersIntact
  <2>3. pc'[w] = "validate" /\ UNCHANGED run /\ pc[w] \in Builds
    BY <2>1 DEF WriteParquet, Builds
  <2>4. PICK b \in Build : b = [step |-> run[w].step, attempt |-> run[w].attempt]
    BY <2>3, BuilderFacts DEF Build, Run
  <2>5. OnlyAtKey(Making(w), run[w].next, b)'
    BY <2>1, <2>4 DEF WriteParquet, OnlyAtKey, AtKey, Making
  <2>6. \A v \in Workers \ {w} :
          /\ pc'[v] = "validate" => \E c \in Build : OnlyAtKey(Making(v), run[v].next, c)'
          /\ pc'[v] = "commit" => OnlyAtKey(Making(v), run[v].next, run[v].by)'
    BY <2>2, <2>3 DEF ObjectFits, OnlyAtKey, Making
  <2>7. \E c \in Build : OnlyAtKey(Making(w), run[w].next, c)'
    BY <2>4, <2>5
  <2> QED
    BY <2>2, <2>3, <2>6, <2>7 DEF ObjectFits
<1>4. CASE \E w \in Workers : ValidateParquet(w)
  <2>1. PICK w \in Workers : ValidateParquet(w)
    BY <1>4
  <2>2. PICK o \in AtKey(Making(w), run[w].next) : run' = [run EXCEPT ![w].by = o.by]
    BY <2>1 DEF ValidateParquet, Making
  <2>3. /\ run'[w].next = run[w].next /\ run'[w].step = run[w].step /\ run'[w].by = o.by
        /\ pc'[w] = "commit" /\ pc[w] = "validate" /\ UNCHANGED <<objects, rows>>
        /\ \A v \in Workers \ {w} : pc'[v] = pc[v] /\ run'[v] = run[v]
    BY <2>1, <2>2 DEF ValidateParquet, Run
  <2>4. OnlyAtKey(Making(w), run[w].next, o.by)
    BY <2>2, <2>3 DEF ObjectFits, OnlyAtKey
  <2>5. OnlyAtKey(Making(w), run[w].next, run[w].by)'
    BY <2>3, <2>4 DEF OnlyAtKey, AtKey, Making
  <2>6. \A v \in Workers \ {w} :
          /\ pc'[v] = "validate" => \E c \in Build : OnlyAtKey(Making(v), run[v].next, c)'
          /\ pc'[v] = "commit" => OnlyAtKey(Making(v), run[v].next, run[v].by)'
    BY <2>3 DEF ObjectFits, OnlyAtKey, AtKey, Making
  <2>7. CommittedIntact'
    BY <2>3 DEF CommittedIntact, AtKey
  <2> QED
    BY <2>3, <2>5, <2>6, <2>7 DEF ObjectFits
<1>5. CASE \E w \in Workers : CommitVersion(w)
  <2>1. PICK w \in Workers : CommitVersion(w)
    BY <1>5
  <2>2. CASE Flip(w) /\ UNCHANGED run
    <3> DEFINE new == [ds |-> Making(w), ver |-> run[w].next, step |-> run[w].step,
                       by |-> run[w].by, inputs |-> run[w].inputs]
    <3>1. rows' = rows \cup {new} /\ UNCHANGED objects
      BY <2>1, <2>2 DEF CommitVersion, Flip, Making
    <3>2. OnlyAtKey(new.ds, new.ver, new.by)
      BY <2>1 DEF CommitVersion, ObjectFits
    <3> HIDE DEF new
    <3>3. CommittedIntact'
      BY <3>1, <3>2 DEF CommittedIntact, OnlyAtKey, AtKey
    <3>4. \A v \in Workers : pc'[v] \in {"validate", "commit"} => pc'[v] = pc[v]
      BY <2>2 DEF Flip
    <3> QED
      BY <2>2, <3>1, <3>3, <3>4 DEF ObjectFits, OnlyAtKey, AtKey, Making
  <2>3. CASE ~(Flip(w) /\ UNCHANGED run)
    BY <1>1, <2>1, <2>3 DEF CommitVersion, Abandon
  <2> QED
    BY <2>2, <2>3
<1>6. CASE \E w \in Workers : /\ WorkerStep(w) /\ ~ClearPrefix(w) /\ ~WriteParquet(w)
                              /\ ~ValidateParquet(w) /\ ~CommitVersion(w)
  <2>1. PICK w \in Workers : /\ WorkerStep(w) /\ ~ClearPrefix(w) /\ ~WriteParquet(w)
                             /\ ~ValidateParquet(w) /\ ~CommitVersion(w)
    BY <1>6
  <2>2. UNCHANGED <<objects, rows>> /\ pc'[w] \notin {"validate", "commit"}
    BY <2>1 DEF WorkerStep, Claim, ExecuteJob, NextStep, StartStep, ResolveStep, StepError,
      CheckCancel, BuildError, SkipStep, FailStep, FinalizeJob, Abandon, GoFinalize
  <2>3. \A v \in Workers \ {w} : pc'[v] = pc[v] /\ run'[v] = run[v]
    BY <2>1, OthersUnmoved
  <2> QED
    BY <1>1, <2>2, <2>3
<1>7. CASE \E w \in Workers : Crash(w)
  BY <1>1, <1>7 DEF Crash, Abandon
<1>8. CASE \/ \E k \in Jobs : Api(k) \/ HeartbeatLapse(k)
           \/ \E w \in Workers : Heartbeat(w)
           \/ \E S \in SUBSET Jobs : Sweep(S)
           \/ UNCHANGED vars
  <2>1. UNCHANGED <<objects, rows, pc, run>>
    BY <1>8 DEF Api, ResolveBuild, InsertJob, CancelJob, HeartbeatLapse, Heartbeat, Sweep, vars
  <2> QED
    BY <1>1, <2>1
<1> QED
  BY <1>2, <1>3, <1>4, <1>5, <1>6, <1>7, <1>8 DEF Next

LEMMA InitIntact == Init => IntactInv
<1>1. Init => ObjectFits /\ CommittedIntact
  BY DEF Init, ObjectFits, CommittedIntact
<1> QED
  BY <1>1, InitAim DEF IntactInv

\* While no two workers build the same dataset, the object a committed version
\* names stays the one its schema, row count and profile were taken from.
THEOREM PublishedStaysIntact == Spec /\ []BuildsApart => []CommittedIntact
<1>1. Init => IntactInv
  BY InitIntact
<1>2. IntactInv /\ BuildsApart /\ [Next]_vars => IntactInv'
  BY IntactStep
<1>3. IntactInv => CommittedIntact
  BY DEF IntactInv
<1> QED
  BY <1>1, <1>2, <1>3, PTL DEF Spec

-----------------------------------------------------------------------------
(* Where the condition holds.                                                *)

LEMMA OwnersBuildApart ==
  ASSUME PlansApart
  PROVE  TypeInv /\ OwnerInv => BuildsApart
<1> SUFFICES ASSUME TypeInv, OwnerInv, NEW v \in Workers, NEW w \in Workers,
                    pc[v] \in Builds, pc[w] \in Builds, Making(v) = Making(w)
             PROVE  v = w
  BY DEF BuildsApart
<1>1. run[v].job = run[w].job
  BY BuilderFacts DEF PlansApart, Making
<1>2. Holds(v, run[v].job) /\ Holds(w, run[v].job) /\ run[v].job \in Jobs
  BY <1>1, BuilderFacts DEF Holds
<1> QED
  BY <1>2 DEF OwnerInv

\* Crashes and requeues do not bring two builders of one dataset together when
\* heartbeats arrive in time and no two jobs have a step on it.
THEOREM BuildersStayApart ==
  ASSUME ~MayStall, PlansApart
  PROVE  Spec => []BuildsApart
<1>1. Init => TypeInv /\ OwnerInv
  BY InitTypeInv DEF Init, OwnerInv, Holds
<1>2. TypeInv /\ [Next]_vars => TypeInv'
  BY NextTypeInv
<1>3. TypeInv /\ OwnerInv /\ [Next]_vars => OwnerInv'
  BY OwnerStep
<1>4. TypeInv /\ OwnerInv => BuildsApart
  BY OwnersBuildApart
<1> QED
  BY <1>1, <1>2, <1>3, <1>4, PTL DEF Spec

\* The two together: what the runs check of CommittedIntact, for all constants.
THEOREM CommittedStaysIntact ==
  ASSUME ~MayStall, PlansApart
  PROVE  Spec => []CommittedIntact
BY BuildersStayApart, PublishedStaysIntact, PTL

-----------------------------------------------------------------------------
(* The executor implements the version store its readers rely on.            *)

Stored == [d \in Datasets |-> [v \in 1..current[d] |-> Served(d, v)]]

\* A reader of a committed version gets what the version was committed with.
LEMMA ServedAsCommitted ==
  /\ CommittedIntact => \A r \in rows : Served(r.ds, r.ver) = r.by
  /\ CommittedIntact' => \A r \in rows' : Served(r.ds, r.ver)' = r.by
<1>1. ASSUME CommittedIntact, NEW r \in rows
      PROVE  Served(r.ds, r.ver) = r.by
  <2>1. AtKey(r.ds, r.ver) = {[ds |-> r.ds, ver |-> r.ver, by |-> r.by]}
    BY <1>1 DEF CommittedIntact
  <2>2. (CHOOSE o \in AtKey(r.ds, r.ver) : TRUE) \in AtKey(r.ds, r.ver)
    BY <2>1
  <2>3. (CHOOSE o \in AtKey(r.ds, r.ver) : TRUE) = [ds |-> r.ds, ver |-> r.ver, by |-> r.by]
    BY <2>1, <2>2
  <2> QED
    BY <2>1, <2>3 DEF Served
<1>2. ASSUME CommittedIntact', NEW r \in rows'
      PROVE  Served(r.ds, r.ver)' = r.by
  <2>1. AtKey(r.ds, r.ver)' = {[ds |-> r.ds, ver |-> r.ver, by |-> r.by]}
    BY <1>2 DEF CommittedIntact
  <2>2. (CHOOSE o \in AtKey(r.ds, r.ver)' : TRUE) \in AtKey(r.ds, r.ver)'
    BY <2>1
  <2>3. (CHOOSE o \in AtKey(r.ds, r.ver)' : TRUE) = [ds |-> r.ds, ver |-> r.ver, by |-> r.by]
    BY <2>1, <2>2
  <2> QED
    BY <2>1, <2>3 DEF Served
<1> QED
  BY <1>1, <1>2

\* Either the tables of versions stay, or one dataset gets its next version.
LEMMA OnePublishes ==
  ASSUME AimInv, [Next]_vars
  PROVE  \/ UNCHANGED <<rows, current>>
         \/ \E d \in Datasets : /\ current' = [current EXCEPT ![d] = current[d] + 1]
                                /\ rows \subseteq rows'
<1> USE DEF dataVars
<1>1. CASE \E w \in Workers : CommitVersion(w)
  <2>1. PICK w \in Workers : CommitVersion(w)
    BY <1>1
  <2>2. pc[w] \in Builds
    BY <2>1 DEF CommitVersion, Builds
  <2>3. Making(w) \in Datasets /\ run[w].next = current[Making(w)] + 1
    BY <2>2, BuilderFacts DEF AimInv, AimsNext
  <2> QED
    BY <2>1, <2>3 DEF CommitVersion, Flip, Making
<1>2. CASE \E w \in Workers : WorkerStep(w) /\ ~CommitVersion(w)
  BY <1>2 DEF WorkerStep, Claim, ExecuteJob, NextStep, StartStep, ResolveStep, StepError,
    CheckCancel, ClearPrefix, WriteParquet, ValidateParquet, BuildError, SkipStep, FailStep,
    FinalizeJob
<1>3. CASE \/ \E k \in Jobs : Api(k) \/ HeartbeatLapse(k)
           \/ \E w \in Workers : Heartbeat(w) \/ Crash(w)
           \/ \E S \in SUBSET Jobs : Sweep(S)
           \/ UNCHANGED vars
  BY <1>3 DEF Api, ResolveBuild, InsertJob, CancelJob, HeartbeatLapse, Heartbeat, Crash,
    Sweep, vars
<1> QED
  BY <1>1, <1>2, <1>3 DEF Next

LEMMA StoreStep ==
  ASSUME IntactInv, IntactInv', [Next]_vars
  PROVE  [Store!Next]_Stored
<1>1. /\ current \in [Datasets -> Nat] /\ rows \subseteq Row
      /\ current' \in [Datasets -> Nat] /\ rows' \subseteq Row
  BY DEF IntactInv, AimInv, TypeInv, TypeOK
<1>2. /\ \A r \in rows : Served(r.ds, r.ver) = r.by
      /\ \A r \in rows' : Served(r.ds, r.ver)' = r.by
  BY ServedAsCommitted DEF IntactInv
<1>3. /\ \A d \in Datasets : \A v \in 1..current[d] : \E r \in rows : r.ds = d /\ r.ver = v
      /\ \A d \in Datasets : \A v \in 1..current'[d] : \E r \in rows' : r.ds = d /\ r.ver = v
  BY DEF IntactInv, AimInv, ContiguityInv, VersionsContiguous
<1>4. ASSUME rows \subseteq rows'
      PROVE  \A d \in Datasets : \A v \in 1..current[d] : Served(d, v)' = Served(d, v)
  <2> SUFFICES ASSUME NEW d \in Datasets, NEW v \in 1..current[d]
               PROVE  Served(d, v)' = Served(d, v)
    OBVIOUS
  <2>1. PICK r \in rows : r.ds = d /\ r.ver = v
    BY <1>3
  <2>2. r \in rows'
    BY <1>4
  <2> QED
    BY <1>2, <2>1, <2>2
<1>5. CASE UNCHANGED <<rows, current>>
  BY <1>4, <1>5 DEF Stored
<1>6. CASE \E d \in Datasets : /\ current' = [current EXCEPT ![d] = current[d] + 1]
                               /\ rows \subseteq rows'
  <2>1. PICK d \in Datasets : /\ current' = [current EXCEPT ![d] = current[d] + 1]
                              /\ rows \subseteq rows'
    BY <1>6
  <2> DEFINE n == current[d]
  <2>2. n \in Nat /\ current'[d] = n + 1 /\ \A e \in Datasets \ {d} : current'[e] = current[e]
    BY <1>1, <2>1
  <2>3. /\ DOMAIN Stored[d] = 1..n /\ DOMAIN Stored'[d] = 1..(n + 1)
        /\ Len(Stored[d]) = n /\ Len(Stored'[d]) = n + 1
    BY <2>2 DEF Stored
  <2>4. \A v \in 1..n : Stored'[d][v] = Stored[d][v]
    BY <1>4, <2>1, <2>2 DEF Stored
  <2>5. Stored'[d][n + 1] # None
    <3>1. PICK r \in rows' : r.ds = d /\ r.ver = n + 1
      BY <1>3, <2>2
    <3>2. Stored'[d][n + 1] = r.by
      BY <1>2, <2>2, <3>1 DEF Stored
    <3>3. r.by \in Build
      BY <1>1 DEF Row
    <3> QED
      BY <3>2, <3>3, BuildAssumption
  <2>6. \A e \in Datasets \ {d} : Stored'[e] = Stored[e]
    BY <1>4, <2>1, <2>2 DEF Stored
  <2>7. Store!Publish(d)
    BY <2>3, <2>4, <2>5, <2>6 DEF Store!Publish, Stored
  <2> QED
    BY <2>7 DEF Store!Next
<1>7. AimInv
  BY DEF IntactInv
<1> QED
  BY <1>5, <1>6, <1>7, OnePublishes

\* Readers see an append-only list of readable versions that never change,
\* while no two workers build the same dataset.
THEOREM VersionStoreImplemented == Spec /\ []BuildsApart => ImplementsVersionStore
<1>1. Init => Store!Init
  <2> SUFFICES ASSUME Init
               PROVE  Stored = [d \in Datasets |-> <<>>]
    BY DEF Store!Init, Stored
  <2>1. \A d \in Datasets : 1..current[d] = {}
    BY DEF Init
  <2> QED
    BY <2>1 DEF Stored
<1>2. Init => IntactInv
  BY InitIntact
<1>3. IntactInv /\ BuildsApart /\ [Next]_vars => IntactInv'
  BY IntactStep
<1>4. IntactInv /\ IntactInv' /\ [Next]_vars => [Store!Next]_Stored
  BY StoreStep
<1> QED
  BY <1>1, <1>2, <1>3, <1>4, PTL DEF Spec, ImplementsVersionStore, Store!Spec, Stored

-----------------------------------------------------------------------------
(* The orphan pruner.                                                        *)

LEMMA PrunerAimStep == AimInv /\ BuildsApart /\ [PrunerNext]_pvars => AimInv'
<1> SUFFICES ASSUME AimInv, BuildsApart, [PrunerNext]_pvars
             PROVE  AimInv'
  OBVIOUS
<1>1. CASE [Next]_vars
  BY <1>1, AimStep
<1>2. CASE \E o \in objects : PruneDelete(o.ds, o.ver)
  <2>1. /\ UNCHANGED <<status, cancelReq, attempts, claimedBy, fresh, created, step, current,
                       rows, pc, run>>
        /\ objects' \subseteq objects
    BY <1>2 DEF PruneDelete, jobVars, workerVars
  <2>2. TypeInv'
    BY <2>1 DEF AimInv, TypeInv, TypeOK, LocalsOK, LocalOK
  <2> QED
    BY <2>1, <2>2 DEF AimInv, ContiguityInv, VersionsContiguous, NextBounded, AimsNext, Making
<1>3. CASE PruneSnapshot \/ PruneEnd \/ UNCHANGED pvars
  BY <1>1, <1>3 DEF PruneSnapshot, PruneEnd, pvars
<1> QED
  BY <1>1, <1>2, <1>3 DEF PrunerNext

\* The executor itself deletes nothing that is committed.
LEMMA ExecutorLosesNothing ==
  ASSUME AimInv, [Next]_vars, NEW r \in rows
  PROVE  ~Lost(r)
<1> USE DEF dataVars
<1>1. CASE objects \subseteq objects'
  BY <1>1 DEF Lost, AtKey
<1>2. CASE \E w \in Workers : ClearPrefix(w) \/ WriteParquet(w)
  <2>1. PICK w \in Workers : ClearPrefix(w) \/ WriteParquet(w)
    BY <1>2
  <2>2. OnlyUnder(Making(w), run[w].next) /\ pc[w] \in Builds
    BY <2>1, StoreMoves
  <2>3. ~(r.ds = Making(w) /\ r.ver = run[w].next)
    BY <2>2, AimIsFree
  <2> QED
    BY <2>2, <2>3 DEF OnlyUnder, Lost, AtKey
<1>3. CASE \E w \in Workers : WorkerStep(w) /\ ~ClearPrefix(w) /\ ~WriteParquet(w)
  BY <1>1, <1>3 DEF WorkerStep, Claim, ExecuteJob, NextStep, StartStep, ResolveStep, StepError,
    CheckCancel, ValidateParquet, BuildError, CommitVersion, SkipStep, FailStep, FinalizeJob
<1>4. CASE \/ \E k \in Jobs : Api(k) \/ HeartbeatLapse(k)
           \/ \E w \in Workers : Heartbeat(w) \/ Crash(w)
           \/ \E S \in SUBSET Jobs : Sweep(S)
           \/ UNCHANGED vars
  BY <1>1, <1>4 DEF Api, ResolveBuild, InsertJob, CancelJob, HeartbeatLapse, Heartbeat, Crash,
    Sweep, vars
<1> QED
  BY <1>2, <1>3, <1>4 DEF Next

\* The two together: what the runs check of ImplementsVersionStore, for all constants.
THEOREM VersionStoreOfApartJobs ==
  ASSUME ~MayStall, PlansApart
  PROVE  Spec => ImplementsVersionStore
BY BuildersStayApart, VersionStoreImplemented, PTL

\* The only committed versions the pruner can hit are those that were not yet
\* committed when it read the tables; the executor hits none.
THEOREM PrunerSparesWhatItSaw == PrunerSpec /\ []BuildsApart => PruneHitsOnlyRacingFlips
<1> DEFINE Spares == \A r \in rows : Lost(r) => snap # None /\ r \notin snap.rows
<1>1. PrunerInit => AimInv
  BY InitAim DEF PrunerInit
<1>2. AimInv /\ BuildsApart /\ [PrunerNext]_pvars => AimInv'
  BY PrunerAimStep
<1>3. AimInv /\ [PrunerNext]_pvars => Spares
  <2> SUFFICES ASSUME AimInv, [PrunerNext]_pvars, NEW r \in rows, Lost(r)
               PROVE  snap # None /\ r \notin snap.rows
    OBVIOUS
  <2>1. CASE [Next]_vars
    BY <2>1, ExecutorLosesNothing
  <2>2. CASE \E o \in objects : PruneDelete(o.ds, o.ver)
    <3>1. PICK o \in objects : PruneDelete(o.ds, o.ver)
      BY <2>2
    <3>2. r.ds = o.ds /\ r.ver = o.ver
      BY <3>1 DEF PruneDelete, Lost, AtKey
    <3> QED
      BY <3>1, <3>2 DEF PruneDelete, Recognised
  <2>3. CASE PruneSnapshot \/ PruneEnd \/ UNCHANGED pvars
    BY <2>1, <2>3 DEF PruneSnapshot, PruneEnd, pvars
  <2> QED
    BY <2>1, <2>2, <2>3 DEF PrunerNext
<1>4. Spares => [\A r \in rows : Lost(r) => snap # None /\ r \notin snap.rows]_pvars
  OBVIOUS
<1> QED
  BY <1>1, <1>2, <1>3, <1>4, PTL DEF PrunerSpec, PruneHitsOnlyRacingFlips

\* The same for the whole system, under the assumptions about its jobs.
THEOREM PrunerSparesApartJobs ==
  ASSUME ~MayStall, PlansApart
  PROVE  PrunerSpec => PruneHitsOnlyRacingFlips
<1>1. PrunerInit => TypeInv /\ OwnerInv
  BY InitTypeInv DEF PrunerInit, Init, OwnerInv, Holds
<1>2. TypeInv /\ OwnerInv /\ [PrunerNext]_pvars => (TypeInv /\ OwnerInv)'
  <2> SUFFICES ASSUME TypeInv, OwnerInv, [PrunerNext]_pvars
               PROVE  TypeInv' /\ OwnerInv'
    OBVIOUS
  <2>1. CASE [Next]_vars
    BY <2>1, NextTypeInv, OwnerStep
  <2>2. CASE \E o \in objects : PruneDelete(o.ds, o.ver)
    BY <2>2 DEF PruneDelete, jobVars, workerVars, TypeInv, TypeOK, LocalsOK, LocalOK, OwnerInv,
      Holds
  <2>3. CASE PruneSnapshot \/ PruneEnd \/ UNCHANGED pvars
    BY <2>1, <2>3 DEF PruneSnapshot, PruneEnd, pvars
  <2> QED
    BY <2>1, <2>2, <2>3 DEF PrunerNext
<1>3. TypeInv /\ OwnerInv => BuildsApart
  BY OwnersBuildApart
<1>4. PrunerSpec => []BuildsApart
  BY <1>1, <1>2, <1>3, PTL DEF PrunerSpec
<1> QED
  BY <1>4, PrunerSparesWhatItSaw, PTL

-----------------------------------------------------------------------------
(* A job that was never requeued succeeds only as a whole.                   *)

\* A worker whose run of job j has not been cut short.
Ahead(w, j) == Holds(w, j) /\ (pc[w] = "finalize" => run[w].outcome = "succeeded")

FirstRunFits ==
  \A s \in Steps : attempts[JobOf(s)] = 0 =>
    /\ status[JobOf(s)] = "queued" => step[s] = "queued"
    /\ status[JobOf(s)] = "succeeded" => step[s] = "succeeded"
    /\ (\E w \in Workers : Ahead(w, JobOf(s))) => step[s] \in {"queued", "running", "succeeded"}

WholeInv == ExclusiveInv /\ FirstRunFits

\* A step between claim and finalize ends badly only where its run ends, too.
LEMMA RunsWhole ==
  ASSUME WholeInv, NEW w \in Workers, WorkerStep(w), ~Claim(w), ~FinalizeJob(w)
  PROVE  FirstRunFits'
<1>1. TypeInv /\ OwnerInv /\ pc \in [Workers -> PC] /\ run \in [Workers -> Run]
      /\ step \in [Steps -> StepStatus] /\ \A s \in Steps : JobOf(s) \in Jobs
  BY StepFacts DEF WholeInv, ExclusiveInv, TypeInv, TypeOK
<1>2. UNCHANGED jobVars /\ pc[w] # "idle" /\ pc[w] # "finalize"
  BY OnlyClaimAndFinalizeMoveJobs DEF WorkerStep, ExecuteJob, NextStep, StartStep, ResolveStep,
    StepError, CheckCancel, ClearPrefix, WriteParquet, ValidateParquet, BuildError,
    CommitVersion, SkipStep, FailStep
<1>3. PICK j \in Jobs : /\ j = run[w].job /\ Holds(w, j) /\ status[j] = "running"
                       /\ \A v \in Workers : Holds(v, j) => v = w
  BY <1>1, <1>2 DEF TypeInv, LocalsOK, LocalOK, Holds, OwnerInv
<1>4. pc[w] \in InStep => run[w].step \in Steps /\ JobOf(run[w].step) = j
  BY <1>1, <1>3 DEF TypeInv, LocalsOK, LocalOK, StepsOf
\* Only the row of the step at hand moves, and badly only on the way out.
<1>5. \A s \in Steps : step'[s] # step[s] =>
        /\ JobOf(s) = j
        /\ \/ step'[s] \in {"running", "succeeded"}
           \/ pc'[w] = "finalize" /\ run'[w].outcome # "succeeded"
  <2>1. CASE StartStep(w) \/ FailStep(w) \/ SkipStep(w)
    BY <1>1, <1>4, <2>1 DEF StartStep, FailStep, SkipStep, GoFinalize, Run
  <2>2. CASE CommitVersion(w)
    BY <1>1, <1>4, <2>2 DEF CommitVersion, Flip
  <2>3. CASE ~(StartStep(w) \/ FailStep(w) \/ SkipStep(w) \/ CommitVersion(w))
    BY <2>3 DEF WorkerStep, ExecuteJob, NextStep, ResolveStep, StepError,
      CheckCancel, ClearPrefix, WriteParquet, ValidateParquet, BuildError, dataVars
  <2> QED
    BY <2>1, <2>2, <2>3
<1>6. \A v \in Workers \ {w} : pc'[v] = pc[v] /\ run'[v] = run[v]
  BY <1>1, OthersUnmoved
<1>7. pc'[w] # "idle" => run'[w].job = j
  BY <1>1, <1>3, SameJob
<1> SUFFICES ASSUME NEW s \in Steps, attempts[JobOf(s)] = 0
             PROVE  /\ status[JobOf(s)] = "queued" => step'[s] = "queued"
                    /\ status[JobOf(s)] = "succeeded" => step'[s] = "succeeded"
                    /\ (\E v \in Workers : Ahead(v, JobOf(s))') =>
                         step'[s] \in {"queued", "running", "succeeded"}
  BY <1>2 DEF FirstRunFits, jobVars
<1>8. /\ status[JobOf(s)] = "queued" => step[s] = "queued"
      /\ status[JobOf(s)] = "succeeded" => step[s] = "succeeded"
      /\ (\E v \in Workers : Ahead(v, JobOf(s))) => step[s] \in {"queued", "running", "succeeded"}
  BY DEF WholeInv, FirstRunFits
<1>9. CASE JobOf(s) = j
  <2>1. Ahead(w, j)
    BY <1>2, <1>3 DEF Ahead
  <2>2. \A v \in Workers : Ahead(v, j)' => v = w
    BY <1>3, <1>6 DEF Ahead, Holds
  <2>3. ASSUME Ahead(w, j)'
        PROVE  ~(pc'[w] = "finalize" /\ run'[w].outcome # "succeeded")
    BY <2>3 DEF Ahead
  <2> QED
    BY <1>3, <1>5, <1>8, <1>9, <2>1, <2>2, <2>3
<1>10. CASE JobOf(s) # j
  <2>1. \A v \in Workers : Ahead(v, JobOf(s))' => Ahead(v, JobOf(s))
    BY <1>6, <1>7, <1>10 DEF Ahead, Holds
  <2> QED
    BY <1>5, <1>8, <1>10, <2>1
<1> QED
  BY <1>9, <1>10

LEMMA WholeStep ==
  ASSUME ~MayStall
  PROVE  WholeInv /\ [Next]_vars => WholeInv'
<1> SUFFICES ASSUME WholeInv, [Next]_vars
             PROVE  FirstRunFits'
  BY StepsStep DEF WholeInv
<1> /\ ExclusiveInv /\ TypeInv /\ OwnerInv /\ RowsFit /\ FirstRunFits
    /\ pc \in [Workers -> PC] /\ run \in [Workers -> Run] /\ step \in [Steps -> StepStatus]
    /\ status \in [Jobs -> JobStatus] /\ attempts \in [Jobs -> Nat]
    /\ \A s \in Steps : JobOf(s) \in Jobs
  BY StepFacts DEF WholeInv, ExclusiveInv, StepsInv, TypeInv, TypeOK
<1> USE DEF workerVars, dataVars
<1>1. CASE UNCHANGED <<step, status, attempts, pc, run>>
  BY <1>1 DEF FirstRunFits, Ahead, Holds
<1>2. CASE \E k \in Jobs : ResolveBuild(k)
  BY <1>2 DEF ResolveBuild, FirstRunFits, Ahead, Holds
<1>3. CASE \E k \in Jobs : InsertJob(k)
  <2>1. PICK k \in Jobs : InsertJob(k)
    BY <1>3
  <2>2. \A s \in Steps : JobOf(s) = k => step'[s] = "queued" /\ status'[k] = "queued"
    BY <2>1 DEF InsertJob, MoveSteps, RowsFit, StepsOf
  <2>3. \A s \in Steps : JobOf(s) # k => step'[s] = step[s] /\ status'[JobOf(s)] = status[JobOf(s)]
    BY <2>1 DEF InsertJob, MoveSteps
  <2> QED
    BY <2>1, <2>2, <2>3 DEF InsertJob, FirstRunFits, Ahead, Holds
<1>4. CASE \E k \in Jobs : CancelJob(k)
  <2>1. PICK k \in Jobs : CancelJob(k)
    BY <1>4
  <2>2. CASE status[k] = "queued"
    <3>1. \A v \in Workers : ~Holds(v, k)
      BY <2>2 DEF OwnerInv
    <3> QED
      BY <2>1, <2>2, <3>1 DEF CancelJob, MoveSteps, FirstRunFits, Ahead, Holds
  <2>3. CASE status[k] # "queued"
    BY <1>1, <2>1, <2>3 DEF CancelJob
  <2> QED
    BY <2>2, <2>3
<1>5. CASE \E w \in Workers : Claim(w)
  <2>1. PICK w \in Workers, k \in Jobs :
          /\ status[k] = "queued"
          /\ status' = [status EXCEPT ![k] = "running"]
          /\ run' = [run EXCEPT ![w] = [NoRun EXCEPT !.job = k, !.attempt = attempts[k]]]
          /\ pc' = [pc EXCEPT ![w] = "claimed"]
          /\ UNCHANGED <<step, attempts>>
    BY <1>5 DEF Claim
  <2>2. run'[w].job = k /\ pc'[w] = "claimed"
    BY <2>1 DEF NoRun
  <2>3. \A s \in Steps, v \in Workers : Ahead(v, JobOf(s))' => Ahead(v, JobOf(s)) \/ JobOf(s) = k
    BY <2>1, <2>2 DEF Ahead, Holds
  <2> QED
    BY <2>1, <2>3 DEF FirstRunFits
<1>6. CASE \E w \in Workers : FinalizeJob(w)
  <2>1. PICK w \in Workers : FinalizeJob(w)
    BY <1>6
  <2>2. PICK j \in Jobs : /\ j = run[w].job /\ Holds(w, j) /\ status[j] = "running"
                          /\ \A v \in Workers : Holds(v, j) => v = w
    BY <2>1 DEF FinalizeJob, TypeInv, LocalsOK, LocalOK, Holds, OwnerInv
  <2>3. /\ status' = [status EXCEPT ![j] = run[w].outcome] /\ run[w].outcome \in Terminal
        /\ UNCHANGED attempts /\ pc[w] = "finalize"
    BY <2>1, <2>2 DEF FinalizeJob, StillOpen, Run
  <2>4. /\ \A s \in Steps : JobOf(s) # j => step'[s] = step[s]
        /\ run[w].outcome = "succeeded" => UNCHANGED step
    BY <2>1, <2>2 DEF FinalizeJob, MoveSteps
  <2>5. /\ pc'[w] = "idle"
        /\ \A v \in Workers \ {w} : pc'[v] = pc[v] /\ run'[v] = run[v]
    BY <2>1 DEF FinalizeJob, Abandon
  <2>6. \A v \in Workers, k \in Jobs : Ahead(v, k)' => Ahead(v, k) /\ k # j
    BY <2>2, <2>5 DEF Ahead, Holds
  <2>7. ASSUME NEW s \in Steps, JobOf(s) = j, attempts[j] = 0, run[w].outcome = "succeeded"
        PROVE  step'[s] = "succeeded"
    <3>1. step[s] \in {"queued", "running", "succeeded"}
      BY <2>2, <2>7 DEF FirstRunFits, Ahead
    <3>2. step[s] \notin Unfinished
      BY <2>2, <2>3, <2>7 DEF ExclusiveInv, StepsInv, SnapshotFits, StepsOf
    <3> QED
      BY <2>4, <2>7, <3>1, <3>2 DEF Unfinished
  <2> QED
    BY <2>3, <2>4, <2>6, <2>7 DEF FirstRunFits
<1>7. CASE \E w \in Workers : WorkerStep(w) /\ ~Claim(w) /\ ~FinalizeJob(w)
  BY <1>7, RunsWhole
<1>8. CASE \E w \in Workers : Crash(w)
  BY <1>8 DEF Crash, Abandon, FirstRunFits, Ahead, Holds, jobVars
<1>9. CASE \E S \in SUBSET Jobs : Sweep(S)
  BY <1>9 DEF Sweep, FirstRunFits, Ahead, Holds
<1>10. CASE \/ \E k \in Jobs : HeartbeatLapse(k)
            \/ \E w \in Workers : Heartbeat(w)
            \/ UNCHANGED vars
  BY <1>1, <1>10 DEF HeartbeatLapse, Heartbeat, vars
<1> QED
  BY <1>2, <1>3, <1>4, <1>5, <1>6, <1>7, <1>8, <1>9, <1>10 DEF Next, Api

\* A job is never reported as succeeded with a step open, and without a requeue
\* not with a step that failed or was skipped either.
THEOREM SuccessIsComplete ==
  ASSUME ~MayStall
  PROVE  Spec => []SucceededIsComplete
<1>1. Init => WholeInv
  <2>1. Init => FirstRunFits
    BY StepFacts DEF Init, FirstRunFits, Ahead, Holds
  <2> QED
    BY <2>1, InitExclusive DEF WholeInv
<1>2. WholeInv /\ [Next]_vars => WholeInv'
  BY WholeStep
<1>3. WholeInv => SucceededIsComplete
  BY DEF WholeInv, FirstRunFits, ExclusiveInv, StepsInv, RowsFit, Unfinished, SucceededIsComplete
<1> QED
  BY <1>1, <1>2, <1>3, PTL DEF Spec
=============================================================================
