# Verification of OSAIP

TLA+ models of the platform in this repository, their TLC configurations and TLAPS proofs. File
names below are relative to `src/`. `PROJECT.json` maps every definition to the lines it models.

    tlc -config exec_crash.cfg MCJobExecutor.tla      # any run: the cfg, and the module PROJECT.json gives it
    tlapm JobExecutorProofs.tla                       # the proofs of one model, section 4

## 1. The system

OSAIP is a data platform: a web application, an **API** process (`apps/api`), a **worker** process
(`apps/worker`), an **LLM mesh** process (`apps/mesh`), PostgreSQL and an S3 object store. The
processes share nothing but the database and the store; they meet through rows, advisory locks and
`NOTIFY`. Transactions run at READ COMMITTED.

| Component | State it keeps | Operations | Hard behaviour | What makes it correct |
|---|---|---|---|---|
| Job queue and executor (`routers/builds.py`, `executor.py`) | `jobs`, `job_steps`, `dataset_versions`, parquet objects under `v<N>/`, locals of each worker | POST /builds, cancel; claim, step loop, build, flip, finalize, heartbeat, sweep | crashes, zombies, cancel races, two builds of one dataset, steps between store and database | versions contiguous and immutable, one owner, one flip per step, jobs end |
| Orphan pruner (`executor.py`, `main.py`) | a snapshot of the version tables | snapshot, list, delete | runs beside builds without any lock | deletes only what nobody will need; leftovers go |
| Recipe graph (`routers/recipes.py`, `recipes_service.py`, `propagation.py`) | `recipes`, `recipe_inputs`, `recipe_outputs`, labels | create, patch, archive, staleness | check-then-commit without locks | a DAG, one producer, active uses active, fresh means fresh |
| Build planner (`build_service.py`, `recipe_execution.py`) | none | upstream closure, order, staleness, inclusion | staleness caused by the plan itself | a full build leaves nothing stale |
| Dataset catalogue, uploads, data connections (`routers/datasets.py`, `uploads.py`, `connections.py`) | `datasets`, versions, connections, secrets, raw files, v1 objects | upload; create, patch, archive; test; reprofile; prune | the object is written before the name is unique, the prune runs beside use, profiles are measured in between | a version holds its upload; an active dataset has an active connection |
| Mesh pipeline (`pipeline.py`, `cache.py`, `ledger.py`) | `llm_calls`, `llm_cache`, open calls | guard, reserve, look up, call, guard, settle | failure at every stage, crash while money is held | hold and ledger agree, cache honest |
| Budgets (`quotas.py`) | `quotas`, `quota_reservations`, scope locks | reserve, settle, window sums, notices | sums of two tables while calls move between them, windows, lapse | spending stays within a blocking budget |
| LLM connections, policies, budgets and prompts (`routers/llm_connections.py`, `llm_budgets.py`) | their rows and secrets | create, patch, archive, delete, test | config and key are two rows; unique names, one limit at least, version numbers | a key is used with its own endpoint; every saved prompt is kept |
| LLM step (`llm_step.py`, `mesh_client.py`) | checkpoint batches | run rows, resume, save, abort | crash between paying and saving, torn files | a crash costs a batch; no row lost or invented |
| Event bus and SSE (`events.py`, `routers/events.py`, `sse.ts`) | `events`, waiters, cursors | publish, notify, read after cursor, reset | lost connection, retention, filtered events | nothing committed is skipped |
| Audit chain (`audit.py`, `routers/audit_admin.py`) | `audit_log` | append under a lock, verify, page | concurrent writers, other locks, a forged row | one chain in seq order, honest verdicts |
| Idempotency keys (`idempotency.py`) | `idempotency_keys` | check, store, prune | check-then-insert | a request takes effect once |
| Projects and membership (`routers/projects.py`, `permissions.py`) | `projects`, `project_members`, `object_refs` | create, patch, archive, replace, remove | write skew | an admin remains, archived is read-only |
| Step logs (`job_logs.py`, `RunDrawer.tsx`) | chunk objects, `log_size` | append, read after offset, follow | a retried step, readers meanwhile | a reader misses no byte |
| Sessions and login (`routers/auth.py`, `auth/`) | `users`, `sessions`, two cookies | login, callback, resolve, expire, logout | overlapping tabs and callbacks | a session is of the one who signed in |
| Retention (`main.py`) | aged rows and objects | prune | prune beside use | nothing in use is pruned |
| Notifications, search, flow view, usage | rows | inserts and queries | little | role checks |
| Guardrails, engine, sandbox, shared, SDK | none, or a subprocess | pure functions over text and SQL | little | same input, same verdict |
| Web application | query cache | views, one event source | stale cache | refetch after an event |

`PROJECT.json` gives the status of each and lists, under `hazards`, where each can go wrong and
which property would notice. The first sixteen are modelled, the mesh pipeline in part; what is left out is in
section 6.

How they interact: POST /builds plans over the recipe graph and inserts a job; a worker claims it,
writes parquet and publishes a version; the version makes downstream recipes stale and raises
labels; the pruner clears up behind the workers. LLM recipes call the mesh, which holds money
against the budgets before it calls a provider. Every change of state is meant to publish an event
and to write an audit row in the same transaction.

## 2. The modules

**JobExecutor.tla** — one action per transaction, object-store call, or read whose result a worker
keeps across an `await`. `status`, `attempts`, `claimedBy`, `step`, `current`, `rows` are columns;
`objects` is the store; `pc`/`run` are a worker's place in `execute_job`/`_run_step` and its
locals. `fresh[j]` stands for "`heartbeat_at` is younger than the timeout". What a parquet object
contains is abstracted to the build that wrote it. `FOR UPDATE SKIP LOCKED` of two claims at one
instant is modelled as oldest first. A job whose `attempts` reach `MAX_ATTEMPTS` is failed by the
next sweep, as `tests/test_executor.py:212-223` expects.
**JobLifecycle.tla** and **VersionStore.tla** are the abstract specifications: what a client of
GET /jobs sees, and what readers of a dataset are promised. JobExecutor implements them through the
mappings at its end.
**OrphanPruner.tla** composes the executor with the pruner, which shares its tables and objects.

**RecipeGraph.tla** — the pure part of the planner and the cycle check: closure, Kahn's algorithm,
`would_create_cycle`.
**FlowGraph.tla** — recipes, datasets, labels, versions and one build. A save of a recipe is two
steps, its reads and its commit, because nothing locks what it read. A recipe's config and hash are
one number; a version records the config, the consumed versions and a symbolic content, so that "the
data a complete rebuild would give" can be computed and compared. Only the first output of a split
is ever built (ADR-0007 5). A PATCH that changes both config and wiring is two actions here.
What may happen in a behaviour is `rules`, a member of the constant `Rules`: the wirings and labels
requests ask for, which part of a wiring a PATCH sends, and whether requests and builds overlap.
MCFlowGraph has three of them: CalmLoop, requests one after the other that rewire a graph which could
get a loop, with inputs and outputs sent together or alone; CalmLabels, the same with labels on a
diamond; Overlapping, requests and builds that overlap on a diamond whose wiring, though it may be
sent again, stays once it is built. The recursive functions here are functions, not
operators, so that the proofs can speak about them.

**Budget.tla** — the abstract budget: admit only if the worst case fits beside what is spent and
promised.
**MeshPipeline.tla** — a call from the request to the settlement. Reserving is split at each lock and
each SELECT; settling is one transaction. `Estimate` is a true upper bound of every cost, as
`_worst_case_micros` is meant to be. Text, redaction and traces are left out.
**LlmStep.tla** — the row loop of an LLM step: `done` and `call` are the results of the loop and the
coroutines of the batch in flight, `files` the checkpoint objects. `paid` and `heard` are ghosts:
what the provider was paid for each row and what the mesh answered. The mesh is seen as
`mesh_client.py` sees it, by its answers; one that cannot be parsed raises what nothing catches and ends
the step as a fatal refusal does. The executor does not call the loop yet; commit, clear and
retry follow the contract in ADR-0010.

**EventBus.tla** — the table, the LISTEN connection of one api process, its streams and their browsers.
Publishing is split at the commit, which is when rows and wake-ups become visible; a stream is split
at each `await`, so commits, wake-ups, pruning and lost connections fall in between. `row` and `kind`
are columns of `events`; `at`, `cursor`, `batch`, `full`, `age` and `known` are locals of the
generator, `flag` its waiter; `wire` is what it has yielded and the browser has not got, `last` the
browser's Last-Event-ID. A topic filter hides rows the way the audience does and is folded into it.

**AuditChain.tla** — the writers of the audit log: the locks a transaction takes in its handler's
order, the head of the chain read under the audit lock, the insert, the commit that releases all. The
orders differ. `text()` does not autoflush, so PATCH of a dataset takes the lock of the events, then
the row, then the audit lock, but the row first when it also changes the description; archiving it
begins with the row. Connections and memberships are locked before or after the audit lock. Hence two
requests on one row can wait for each other; `BreakDeadlock` is the detector of PostgreSQL, which
rolls one of them back.
A hash is the pair it is computed from. **AuditReaders.tla** adds `verify_chain` batch by batch, the
pages of the audit view, and someone who edits or deletes a row behind the program's back.

**Access.tla** — the decisions all handlers share: roles and idempotency keys.
**Projects.tla**, **Catalog.tla**, **Endpoints.tla**, **Registry.tla** — the request handlers. Each
is split where it can be overtaken: `Receive` is its reads and checks, the action named for the
handler its transaction. Object-store calls and profiling between them are steps of their own in
Catalog. The search entries of connections and datasets are left out. Commits are serial because `write_audit` holds its lock until the commit; unique keys and
the locks of updated rows are those of PostgreSQL. `raced` and `stamp` are ghosts: which subjects had
a commit from reads that were stale by then.
**StepLogs.tla** — chunk writer, log endpoint and log tail. A byte is the attempt that wrote it and
its place, so that a reader's screen can be compared with what was written.
**Sessions.tla** — sign-ins, callbacks, accounts, sessions and the two cookies of each browser. The
identity provider is the action `Authenticate`.
**ApiHandlers.tla** puts these six together, one of them (`focus`) per behaviour, with their shared
table of keys and requests.

The other **MC…** modules hold the constants of their runs. The proofs are in **JobExecutorProofs**
(with JobLifecycle, VersionStore and OrphanPruner), **FlowProofs** (RecipeGraph and FlowGraph),
**BudgetProofs**, **MeshProofs**, **LlmStepProofs**, **EventBusProofs**, **AuditProofs** and
**HandlerProofs** (ApiHandlers), section 4.

Definitions that stand first in a pair, such as `AnyOpen`/`Counts` or `AnyName`/`NameFree`, are
plausible mistakes in the second one. `PROJECT.json` lists them as mutants: with the mistake in place
the named property must fail.

## 3. The runs

| Run | Instance | Shows |
|---|---|---|
| `exec_stall` | 1 job of 2 chained steps, 2 workers; crashes, failures, missed heartbeats | what holds whatever workers do: contiguous versions, nothing published late, the job's life is the documented one |
| `exec_crash` | 2 jobs on a chain of 3 datasets, 2 workers; crashes, failures, timely heartbeats | one owner, one flip per step, committed data never changes, no success with a step left open, the version store is implemented |
| `prune_live` | pruner and 2 workers that crash and fail, fair | only racing flips can lose data; leftovers go; every job ends |
| `flow` | 3 datasets, 2 recipes, 2 configs; calm: a possible loop, or 2 labels on a diamond; overlap: a diamond | calm: DAG, archive rules, a full build leaves nothing stale, labels follow lineage; overlap: fresh data is the ideal data |
| `quota_budget` | 3 calls, a daily, a monthly and a warn budget, crashes and failures | spending stays within a blocking budget; nobody is turned away without need; the abstract budget is implemented |
| `quota_race` | 2 calls, every race allowed, fair | holds match the ledger, the locks never deadlock, the cache serves accepted answers |
| `bus_live` | 1 browser, 3 rows read two at a time, two upsets, fair | no commit is skipped, repeated, reordered or slept through over batches, breaks and resets; a former member sees no more; everything arrives even when the LISTEN connection is dead |
| `llm_resume` | 3 rows in batches of 2, 2 attempts, torn and unreadable files, fair | a crash costs at most a batch, the committed version is whole and honest, every step ends |
| `audit_chain` | 2 transactions with any of 7 lock orders on one row, up to 4 rows, batches of 2, pages of 1, one forgery, fair | no false alarm and no false clearance, pages tile the log, the log grows at its end, only locks of rows close a wait cycle, and everyone ends once the database breaks those |
| `api_handlers` | 3 overlapping requests to one router; the log of a step with 2 attempts and 2 reads; 2 sign-ins of 2 people in 2 browsers | one effect per key; files and rows agree; a key goes out with its endpoint only; no saved prompt is lost; the tail misses nothing while one attempt has written; what handlers check holds unless a commit came from stale reads; sign-ins never mix |
| `zombie_flip`, `labels_lost` | smallest instances | disagreements, section 5 |

**Bounds.** Two workers are the least that race; a third adds a second zombie, which does what the
first does. Two steps are the least with an upstream and a downstream; `MaxAttempts = 1` gives
first run, retry and final failure. Three datasets and two recipes are the least that close an
indirect loop, two versions the least that are stale and fresh. `MaxVersion` only stops new builds.
Three calls are the least where two admitted ones compete with a refused one, `Length` of 2 and 4
ticks gives windows that end together and apart, and `MaxTime` lets one or both of them end.
Streams share only the table and the broker, which wakes them all alike, so one browser stands for
each of them; three rows are the least with a last id, a row pruned unseen and a row kept, and two
upsets let a reset or a replay be lost in its turn. Ages count to the first tick past `Ttl`.
Three rows in batches of two are a full batch and a rest, which is a file lost, a file kept and a
row not asked. Two transactions with two rows each fill a batch, a page boundary and a row that
arrives during the walk. Three requests are a handler, one that overtakes it and one that meets the
result of both; they are alike, so they are symmetric. Two attempts of a step are a log and the log
that overwrites it; lines of one byte, since a chunk boundary is all that offsets meet. Two sign-ins
are the least that can be confused, with two addresses so that one can be passed on.
`CHECK_DEADLOCK FALSE` is set because every instance has finitely many requests and then stops.

**Switches.** `MayStall`, `MayCrash`, `MayFail`, `MaySlip`, `MayStraddle`, `MayOutlive`, `MayEmpty`,
`MayRefuse`, `MayTear`, `MayMisread` and `MayForge`, and the fields `overlap`, `mayRewire` and
`mayLower` of `rules` in FlowGraph, say what the environment may do. A run that sets one to FALSE shows the property under that assumption only;
section 5 says what happens without it. Properties over `raced` say in their formula what they
assume.

**Fairness.** `job_loop`, `sweep_loop` and `prune` are endless loops that catch every exception
(`executor.py:697-719`, `main.py:75-125`), so worker steps, sweeps and prune passes are weakly fair.
One attempt to delete a leftover may fail with an error of the store, so `PruneDelete` is strongly
fair: a store that answers again and again eventually answers the delete. Requests in progress are
weakly fair; nothing makes a client send one. Crashes are not fair, and a job that is retried at
most `MaxAttempts` times ends in spite of them. `EveryJobEnds` is checked with timely heartbeats.
A stream goes on by its own timer (`routers/events.py:112`), and sockets and EventSource by theirs, so
both are weakly fair; the listener, its wake-ups, commits and pruning are not, and upsets are bounded.
`Prune` assumes that a stream that is reading has passed a row before the row is seven days old, and
that rows age in the order of `seq`. In LlmStep the coroutines are weakly fair, as the event loop
runs them and `call_mesh` has a timeout; cancels and crashes are not, and attempts are bounded. An
audit transaction is fair once it works: `TakeLock` waits for its owner, which is fair too, and
PostgreSQL looks for a deadlock whenever a lock has been waited for long enough (`deadlock_timeout`), so
`BreakDeadlock` is fair. Nothing makes anyone verify or page.

## 4. The proofs

A theorem holds for every value of the constants that satisfies the `ASSUME`s of its model; what it
assumes besides is in its statement and named here.

**Executor.** `JobExecutorProofs`, for any jobs, plans, workers and retry budget:

* `TypeCorrect`. `TypeOK` is not inductive, since a worker publishes what its locals say. `TypeInv`
  adds `LocalsOK`: in each place of the step loop the locals read there are meaningful.
* `VersionsStayContiguous`, with stalled workers too. `ContiguityInv` adds `NextBounded`: no worker
  aims beyond `current_version + 1`, so the unique key on (dataset, version) makes each flip the next
  number or nothing.
* `TerminalStaysForever`, `AttemptsStayCapped`, `NeverPublishesLate`: from `TypeInv`, action by action.
* `JobLifecycleImplemented`: each step of the executor is a step of JobLifecycle or none. `CancelInv`
  is needed: a worker that is about to finalize as cancelled does so because someone asked.
* With `MayStall = FALSE`: `OneOwner` from `OwnerInv` (who holds a job is `claimed_by`, and it is
  running and fresh), and `StepsFlipOnce` and `FinishedJobsAreQuiet` from `ExclusiveInv`, which adds
  that each row belongs to a succeeded step, that the steps a worker has still to do are unbuilt, and
  the place of the worker in the current one.

The same module, about what is published and pruned. All but the last rest on one hypothesis,
`BuildsApart`: no two workers are between the read of `next` and the flip for one dataset at a time.
Section 5 shows what happens without it.

* `PublishedStaysIntact`: under `[]BuildsApart` committed data never changes, stalls or not.
  `IntactInv` adds `AimsNext` (who builds aims at the first version that is not there) and `ObjectFits`
  (the object it measures is the one it wrote, while nobody else is at that key).
* `BuildersStayApart`: crashes, requeues and cancels keep that hypothesis, given `MayStall = FALSE` and
  `PlansApart`, no two jobs with a step on one dataset. `exec_crash` and `zombie_flip` stand on the two
  sides of this line. `CommittedStaysIntact` joins the two.
* `VersionStoreImplemented`, `VersionStoreOfApartJobs`: the refinement of VersionStore under either.
* `PrunerSparesWhatItSaw`, `PrunerSparesApartJobs`: with the pruner beside the workers, a delete hits a
  committed version only if its flip came after the snapshot, and no delete of a worker hits one.
* `SuccessIsComplete`, with `MayStall = FALSE` alone. `WholeInv` adds to `ExclusiveInv` that during the
  first run of a job the steps before the worker's place are succeeded.

**Flow.** `FlowProofs`, for any datasets, recipes, wirings and rules. The theorems about invariants
rest on four about the recursive functions of RecipeGraph, for every finite graph:

* `ClosureIsLeast` and `WalkIsLeast`: after as many rounds as there are recipes, the closure of a build
  and the walk of the cycle check are least sets closed under one step upstream. `Saturates` counts:
  a round that adds nothing is the last, and each other one needs a new recipe.
* `TopoOrderSorts`: `TopoOrder` has each recipe once, after those it depends on, and leaves some out
  exactly if the set has a loop, a part in which each recipe depends on another of it.
* `CycleCheckIsExact` joins them: on a graph without a loop, the walk rejects exactly the wirings
  that Kahn's algorithm could not order.

That a recursive function exists and obeys its equation is itself proved (`IterationExists`), since the
library's theorems for it need an operator as a parameter, and induction is by a least number outside
a set (`NatRounds`).

* `FlowTypeOK`, under all rules. `FlowTypes` adds to `TypeOK` the shape of the rows and that the recipes and
  datasets named by a row, a save or a build exist.
* Where requests and builds do not overlap, `FlowInv`: `Calm` (at most one save or build is in flight,
  what a save has read is still so, the active recipes have no loop and use active datasets),
  `PlanLeft` (whatever is stale or fed by a step left is among the steps left, and no step feeds an
  earlier one) and `Lineage`. From it `FlowStaysAcyclic`, `FlowCycleCheckExact`, `FlowUsesActive`,
  `FlowBuildMakesFresh`, `FlowLabels` and the action property `FlowOnlyPatchLowers`.
* Whatever overlaps, `FlowProvenance`: a dataset has one producer, and the versions form a ranked
  lineage, each made of versions that were there before it. While nothing is rewired once
  it is being built, `Made` adds that the latest version of an output has read the inputs its recipe
  has now, for which `TodoMatches` and `ReadMatches` follow the build in flight. `FlowFreshIsIdeal`
  from it: fresh recipes are ranked by the versions they read, though the graph may have a loop
  elsewhere, so they come in layers, and each round of the rebuild settles the next one.

**Mesh.** `BudgetProofs`: the abstract budget never promises more than its limit (`WithinAlways`); the
invariant adds that the promised calls are among the (finitely many) calls. `MeshProofs`, for any
calls, scopes, budgets, costs and keys:

* `SpendMatchesReservation`, under every race and crash. `LedgerInv` says for each place of a call
  which of its hold and its ledger row are there.
* `OnlyAcceptedServed`: every entry of `llm_cache` has the row of an accepted call behind it.
* `BudgetsHold`, `RefusalsAreFair` and `BudgetImplemented` assume `Orderly`: no call settles between
  the two sums of another, calls end inside the window and the hold they started in, and no cost
  exceeds the estimate. These are the conditions of `quota_budget`; section 5 shows each of the first
  three broken. `BudgetInv` follows a reservation through its locks and SELECTs: `FiguresFit`
  bounds what is spent and held by what the call has read so far, while it has the scope's lock. Sums over
  sets of calls are compared by lemmas about `SumFunction`, whose changes at one call are found by a
  least counterexample, since induction over the set is out of reach.

`LlmStepProofs`, for any rows, attempts, answers and batch size, over torn, lost and unreadable files:

* `OutputIsTheAnswers`. `AnswerInv`: every result in memory, in a file or in the committed version is
  what the mesh said of that row.
* `CrashCostsABatch`: what is paid for twice, and what is paid for and in no file, is at most one
  batch for each attempt that ended and the rows whose file could not be read. `FileInv` bounds a
  batch in flight, `DebtInv` sums the extra payments over the rows, `SavedInv` names the rows that
  `misread` counts. Proving it found that the second bound was too tight for a third attempt: rows
  an attempt cannot read stay unsaved while it works. `LossWithinABatch` counts them now.

**Event bus.** `EventBusProofs`, for any rows, browsers and batch size:

* `NothingIsSkipped`, while retention leaves the newest row (`~MayEmpty`; section 5 says what happens
  otherwise). `SkipInv` cuts what a browser has to get at its places: below Last-Event-ID it has it,
  between that and the cursor it is on the wire in order, in the batch it is still to be
  filtered, above it is still in the table or a reset is due.
* `StreamsAwake`. `AwakeInv`: whichever of commit and wait comes first, a row beyond the cursor of a
  waiting stream has its flag set or a wake-up on the way, as long as the LISTEN connection is up.
* `RevocationHolds`: the age of the cached membership bounds how long ago a user can have left.

**Audit.** `AuditProofs`, for any transactions, lock orders and readers:

* `ReadersKeepOrder`: `ChainInv`, which is inductive. Whoever has rows to commit holds the audit lock,
  hence is alone, and its rows lie behind every committed one, since `seq` is given out under the lock.
* `LogGrowsAtTheEnd` from it, with forgeries and rollbacks: the ground on which paging and verifying
  by `seq` stand.
* `OnlyRowsCross` (`OnlyRowsEntangle`), for kinds that publish before they audit, which those of the
  handlers do (`HandlersPublishFirst`): a set of transactions that wait for each other has one that
  waits for a row. With two advisory locks only, the owner of the audit lock would be in the set and ask
  for the lock of the events, which `OrderInv` excludes.
* `ChainStaysLinked`, without forgeries: every row carries the hash of the row before it and the hash
  of its own fields. `LinkInv` adds that the head a writer has read under the lock stays the head.
* `VerificationIsRight`, with forgeries: no false alarm over an untouched log and no false clearance.
  `VerdictInv` has three parts: rows are numbered once (`RowsInv`); they are linked until someone
  forges, and one is defective from then on (`TouchInv`); and the walk carries the hash of the last row
  it passed and has the defect still before it if it began after the forgery (`WalkInv`).
* `PagesAreTheLog`: the pages tile an untouched log, whatever commits between them. `ViewInv`: the rows
  shown so far fall in `seq` and are the newest of those there at the first page, and what was committed
  since lies behind them all. `RankFacts` to `FallingIsDescending` show that a finite set of numbered
  rows has one falling enumeration, so that `Descending` means what it says.

**Handlers.** `HandlerProofs`, for any requests that overlap in one router, any users, names and values:

* `RequestsTakeEffectOnce`: one effect per key, from an invariant for each router (`HandlersInv`). The
  insert of the key and the effect are one transaction, and a key that is kept was not kept before.
* `PromptsAppendOnly`. `HistoryInv` adds that rows are what their authors were told, and that the number
  a save has read is a version that exists.
* `KeysGoWithTheirEndpoint`. `EndpointInv` adds that rows of secrets are never written again, and that
  what a model call has read is a pair that stood in the tables at one commit.
* `FilesAreTheirUploads`. `CatalogInv` adds, for names nobody contends for, which object a request
  has written or measured and that nothing has disturbed it since.
* `TailsAreWhole`, for any number of attempts, reads and chunks of any length. `LogInv` adds, while one
  attempt has written, the log as it was after each chunk: a reply under way is the log as of the chunk
  it has fetched last, from the offset asked for, and it has the chunks after that still to fetch.
  `LogIsItsChunks` shows that the chunks, listed in the order of their names, join to the last of these.
* `PromisesHoldUnlessRaced` (`SoundUnlessRaced`). A promise survives a commit if what the handler has
  checked still holds by then, and each invariant says for whom it does. `SoundInv`, `NamesInv` and
  `LimitInv`: for a handler that has read the stamp which its project or table still has (`StillTrue`,
  `NameChecked`, `LimitChecked`); a commit raises the stamp, so nobody else is fresh after it.
  `SourceInv`: for a request that is alone with its connection; one that archives it has found
  no dataset on it, one that links to it has found it active, and two of them are never under way
  unless the connection is marked. What providers exclude (`MayDeclare`) holds for handlers that were
  overtaken too. `SignInsInv` needs no such condition: a code is exchanged once, hence each callback
  creates at most one account and one session, and the unique columns keep accounts apart.
  Assumed of the constants: ids and rows are not null, the body of PUT /members gives each of its users
  one role, and the projects that exist at the start have an admin (`ProjectAssumption`).

`TypeCorrect`, `TerminalStaysForever`, `AttemptsStayCapped`, `FinishedJobsAreQuiet`,
`BuildersStayApart`, `ReadersKeepOrder`, `ChainStaysLinked`, `WithinAlways`, `FlowTypeOK`,
`FlowProvenance`, `FlowOnlyPatchLowers`, `FlowCycleCheckExact` and the theorems about RecipeGraph have no run of their
own: they hold for every instance.

Only model-checked:

* Liveness (`EveryJobEnds`, `LeftoversGo`, `EveryCallEnds`, `EveryRowArrives`, `StepEnds`,
  `EveryoneEnds`), which is beyond the prover, as is `ENABLED`.

Every safety property of the runs that pass is the subject of a theorem.

## 5. Disagreements between code and documentation

Two have a run of their own (`PROJECT.json`, `findings`):

* `zombie_flip`: the flip checks `jobs.status`, not `claimed_by`. A worker that lost its job to the
  sweeper and the worker that claimed it next both publish: the trace ends with two rows of one step
  (`OneVersionPerStep`).
* `labels_lost`: PATCH of a column's labels changes the loaded JSON in place (`routers/datasets.py:546`),
  so the ORM sees no change and saves none; reply, event and audit row say otherwise.

The next ones appear when the named property is checked alone, in the run's cfg with the change:

| Run and change | Property | Behaviour |
|---|---|---|
| `exec_stall` | `TerminalQuiet` | a zombie sets a step of a cancelled job to running (`executor.py:488`) |
| `exec_crash`, `Plan <- ForkPlan`, `Requested <- ForkRequested`, `Inputs <- ForkInputs` | `CommittedIntact` | the second job deletes the object the first has committed: only the flip is locked, contrary to ADR-0007, lines 35-36 |
| `prune_live` | `CommittedIntact` | the pruner deletes versions above `current_version` without a row; that is also what a build between its write and its flip looks like |
| `flow`, `overlap = TRUE` in CalmLoop (and no `~rules.overlap` in the property) | `FlowAcyclic` | two saves pass the cycle check and close a loop |
| the same | `ActiveUsesActive` | a dataset is archived while a save wires it |
| the same | `ArchivedLetsGo` | a recipe is archived while a save moves its outputs |
| `flow`, `overlap = TRUE` and `topLabel = 2` in CalmLabels, `Configs = {1}` | `OnlyPatchLowers` | a save writes the floor over a label raised meanwhile |
| `flow` | `FreshIsIdeal` without `~rules.mayRewire` | staleness never compares the set of inputs (`recipes_service.py:204`): a change of wiring can leave the output fresh |
| `flow`, `mayLower = TRUE` in CalmLabels | `NeverBelowFloor` | PATCH lowers a label below the floor; ADR-0007 7 wants a reason |
| `quota_budget`, `MaySlip = TRUE` | `WithinBudget` | ledger and holds are summed by two statements, and settling takes no scope lock: a call that settles in between is in neither sum |
| `quota_budget`, `MayStraddle = TRUE`, `MaxTime = 4` | `WithinBudget` | a hold of the old window becomes a ledger row of the new one |
| `quota_budget`, `MayOutlive = TRUE`, `HoldTtl = 1`, `MaxTime = 4` | `WithinBudget` | a call outlives its hold: `timeout_s` has no upper bound |
| `quota_budget`, `Quotas <- OneWarn` | `OneNotice` | crossing is judged on estimates, so it may happen twice |
| the same, `ScopesOf <- SameScope` | `NoMissedNotice` | the call that crossed fails, and nobody is told |
| `quota_race` | `AbandonedSwept` | the sweep deletes settled holds only; ADR-0008, line 59, promises the others too |
| `bus_live`, `MayEmpty = TRUE` | `NothingSkipped` | the table is pruned empty while a browser is away: no oldest row, no reset (`routers/events.py:92`), contrary to ADR-0003, lines 26-27 |
| `llm_resume` | `AbortStopsSpending` | after a fatal refusal the other calls of the batch go on and are paid for (`llm_step.py:43` says that only burns budget), and none of the batch is checkpointed |

The models contain these differences too, and their properties do not claim otherwise:

* **Executor**: after a crash between `_fail_step` and `_finalize_job` the retry passes over the
  failed step and the job succeeds; `SucceededIsComplete` speaks of failed steps on the first
  attempt only.
* **Stream**: the LISTEN connection is not re-established once it has been up, since `_run` waits for
  the shutdown only (`events.py:74`; the docstring, line 54, says it reconnects). A stream that breaks
  before its first event has no Last-Event-ID and starts again at the head, so `from` moves with it.
  A new member misses the rows of a project that pass while the membership is cached.
* **LLM step**: a call that takes longer than the client's 30 seconds is recorded as an error row and
  checkpointed although the mesh may still be paid for it (`mesh_client.py:90`).
* **Audit**: a deleted last row leaves a chain that verifies, so `Forge` deletes others only. Requests
  on one row can deadlock, and the one PostgreSQL picks is rolled back and answers 500: PATCH of a
  dataset beside its archive (`routers/datasets.py:569` and `:611-613`), two removals or edits that take row
  and audit lock in different orders (`routers/projects.py:319-341`, `:382-393`,
  `routers/connections.py`). No line of the repository says they cannot.
* **Handlers that overtake each other** (`SoundUnlessRaced` excludes commits from stale reads): two
  admins remove each other and none is left (`routers/projects.py:380-401`); two global connections
  get one name, and picking one by name then raises; two patches clear both limits of a budget; a
  dataset is created on a connection archived meanwhile.
* **Catalogue**: a second create with one name overwrites the v1 object of the first before its
  insert fails, though objects are meant to be immutable by layout; `VersionIsItsUpload` covers names
  one request at a time was about. A test of a data connection reads config and secret separately.
* **Step logs**: a retried step overwrites chunk 0 and later ones and leaves the rest, so the log is a
  mixture, contrary to "immutable chunk objects" (`job_logs.py:3`, ADR-0007 6); `TailMissesNothing`
  speaks of logs one attempt has written. When a step ends the drawer reads from offset 0 again and
  shows the log twice, as its effect depends on `running`, and two overlapping ticks append the same
  bytes twice (`RunDrawer.tsx:127-157`); after that nothing retries a failed read, unlike the comment
  in line 147. `log_size` stays 0 for a step that fails, as `_commit_version` alone sets it
  (`executor.py:479`; `job_logs.py:5` says it tracks the bytes written).
* **Sign-in**: a callback that ends, matched or not, takes the state of a newer sign-in of another tab
  away; two first sign-ins of one person at a time, or one with an address that belonged to someone
  else, violate a unique key and answer 500; a session row that has expired is deleted only when its
  cookie is presented.

## 6. Not modelled, and the plan

Text, SQL, schemas, previews, HTTP details and the user interface are data or pure functions and
stay abstract: guardrails, engine, sandbox, shared types, SDK, flow view and usage. Notifications and
the rest of the search registry are inserts and queries. Of the web application the event source and
the log tail are modelled.

Budgets do not change while calls run. FlowGraph has one build at a time (JobExecutor has the
concurrent ones) and one save in flight for each recipe, and no recipe kinds, so the labels a step
reads at its start to keep special-category data from Python (`executor.py:306`) have no property.
JobExecutor leaves labels, events and logs out. Every call of MeshPipeline has a user to notify.
Catalog leaves out kinds and names of connections, profiles of external sources and the recipes that
hold a dataset (FlowGraph has those). Who may read a log is left out of StepLogs, the id_token kept
for the logout of Sessions. The type definitions of EventBus, MeshPipeline, FlowGraph and LlmStep are
documentation and in no run (FlowGraph's is proved).

Next, in this order:

1. Proofs: what `raced` leaves of Projects, Registry, Endpoints and Catalog.
2. The span algebra of redaction (`detect_all`, `apply_redactions`) as operators against a reference
   definition, and the traces of MeshPipeline with it.
3. Recipe kinds and their labels in FlowGraph, with the check at the start of a step.
4. Notifications and the search entries of datasets and connections.
