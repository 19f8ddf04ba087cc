# A TLA+ model of the self-healing data platform

The platform runs data pipelines for several tenants. A FastAPI control plane keeps tenants, keys, pipelines,
runs and decisions in Postgres and pushes run ids to a Redis list; worker processes pop the ids, execute the
steps, retry, keep a circuit breaker per pipeline, and let an agent diagnose what failed. A person decides about
what the agent recommends.

This directory models every part of that program that keeps or changes state. Line numbers below are of the
files in the repository.

- [Inventory](#inventory)
- [Modules](#modules)
- [What is checked](#what-is-checked)
- [What is proved](#what-is-proved)
- [Disagreements between code and documentation](#disagreements-between-code-and-documentation)
- [What is not modelled](#what-is-not-modelled)
- [Plan](#plan)

## Inventory

| Component | State it keeps | Operations | Meets | Module |
|---|---|---|---|---|
| Run submission (`control_plane/app/{routes,services}/pipeline_runs.py`) | rows of `pipeline_runs`, unique on (pipeline, key) | POST (create or replay, then RPUSH), GETs | workers through the table and the list; other requests through the unique constraint | `RunSubmission` |
| Worker loop (`worker/app/main.py`) | nothing that survives it | BLPOP, run the executor, log, repeat | the list | `Executor` |
| Executor (`worker/app/executor.py`) | `status`, `retry_count`, error columns of its run; the breaker row | gate, claim, steps and retries, outcome, breaker, finally | other workers through the claim and the breaker; people through the breaker | `Executor`, `AfterRun`, `StepHandlers` |
| Circuit breaker (`services/pipeline_circuit_breakers.py`) | `state`, `failure_reason`, `retry_after`, threshold, window | PUT, GETs | the executor | `Executor` |
| Recommendation approval (`{routes,services}/agent_recommendations.py`) | `status` of the recommendation, `is_active` of the schedule | PUT of a decision, which may create and push a run | run submission (calls its service), schedules | `Approval` |
| Tenants, pipelines (`services/tenants.py`, `pipelines.py`) | rows, deleted in cascade; a tenant is created with a key, a pipeline with its breaker | CRUD | everything that holds an id of theirs | `ControlPlane` |
| Steps, schedules (`services/pipeline_steps.py`, `schedules.py`) | rows, unique by check-then-insert and by constraint | CRUD | the executor loads the steps; nothing runs a schedule | `ControlPlane` |
| API keys (`services/api_keys.py`, `dependencies.py`) | key hashes, revocation | create, revoke, authenticate | every request | `ControlPlane` |
| Finally block (`executor.py:277-311`, `shared/webhook_dispatcher.py`) | `run_context.json`, `webhook_callbacks` | write, diagnose, dispatch | agent, webhook receiver | `AfterRun` |
| Diagnostic agent (`worker/app/agent/`) | recommendation rows, incident and runbook vectors | analyse, classify, retrieve, plan, persist, index | language model, vector tables | `AfterRun`, `StepHandlers` |
| Step handlers (`worker/app/step_handlers.py`) | files of the run, one warehouse table per pipeline | ingestion, validation, transformation, load | each other through the run context and the table | `StepHandlers` |
| Migrations (`alembic/`) | the schema and `alembic_version` | upgrade, downgrade | each other, and the rows the application has inserted | `Migrations` |

What makes them correct, in the order of how much depends on it:

- *executor*: a run is executed once, by one worker, however often its id is delivered; an ended run stays
  ended; a run is not lost and not left behind; retries stay in budget; failures that reach the threshold
  open the breaker; what a person did to the breaker is not undone by a worker that has not seen it;
- *submission*: requests with one key are one run, pushed once; a lost race is not an error;
- *approval*: one decision, one retry run at most, and an approved retry does start;
- *tenants, keys, pipelines*: nobody acts for or reads another tenant, a revoked key opens nothing, nothing
  outlives its owner, and every pipeline has the one breaker the executor's gate needs;
- *steps*: what reaches the warehouse is one whole load of rows that were validated, in whatever order a
  pipeline's steps are and however its runs meet at the table;
- *finally block and agent*: a run that failed is diagnosed and one that ended is announced, and a failure costs
  no more than what depends on it; no diagnosis sees another tenant's incidents; no incident is half there;
- *migrations*: the schema is at every moment that of the recorded version, and at the newest what the models say.

The hard behaviours are the interleavings of workers and requests between two database statements, stale
copies in a session, commits that are apart although they belong together, errors between them, a queue whose
pop is destructive, duplicate deliveries, tasks nobody awaits, rows deleted under those who work on them, and
processes that die anywhere. `PROJECT.json` lists each at its line under `hazards`.

## Modules

| Module | Models |
|---|---|
| `RunLifecycle` | abstract: status and owner of a run; what the platform promises about them |
| `Executor` | `worker/app/main.py` and `worker/app/executor.py`, with the queue, the runs, the breaker and a person's PUT on it |
| `AtomicSubmit` | abstract: a submission with an idempotency key as one atomic step |
| `CreateRun` | `create_pipeline_run_service`, shared by the two modules below |
| `RunSubmission` | POST of a run (`routes/pipeline_runs.py:66-90`) |
| `Approval` | PUT of a decision (`routes/agent_recommendations.py:73-94`, `services/agent_recommendations.py:67-127`) |
| `ControlPlane` | the resource API: tenants, keys, pipelines, steps, schedules, and the checks at its door |
| `AfterRun` | the outcome and the finally block of a run, the agent, the webhook, the incident index, the runbook indexer |
| `StepHandlers` | the loop over steps and attempts, the four handlers, and what the incident index says of the attempts |
| `Migrations` | the thirteen revisions, `alembic/env.py`, and the tables the models declare |
| `MigrationSteps` | what the revisions' statements do one after the other, evaluated by TLC, and the invariant that rests on it |
| `ExecutorProofs`, `RunSubmissionProofs`, `ApprovalProofs`, `ControlPlaneProofs`, `AfterRunProofs`, `StepHandlersProofs`, `MigrationsProofs` | the theorems about the module of that name |
| `DataInduction` | induction over naturals, told with sets, for the proofs |
| `MC...` | instances for TLC: values of the constants and symmetry |

In all of them an action is what the code does between two awaits on the database, Redis, the model or a file: one
statement, or one commit with the assignments before it. An error of that statement is an action or a disjunct of
its own, and leads where the code's `except` clauses lead.

### Executor

One pipeline; pipelines meet only in that a worker serves one run at a time, and runs of one pipeline already
occupy all workers. The worker's label `pc[w]` is its place in the code:

| Label | The worker is about to | Actions |
|---|---|---|
| `idle` | return from BLPOP (main.py:40) | `Pop` |
| `gate` | load run and breaker (executor.py:35-43) | `ReadGate` |
| `decide` | commit "blocked" or the claim (46-77) | `Block`, `Claim`; `ClaimFails` |
| `refetch` | load the claimed run (94) | `Refetch`, `RefetchFails` |
| `steps` | execute an attempt of `step[w]`, or commit the success (106-175) | `StepSucceeds`, `StepRetries`, `RetryNotSaved`, `StepGivesUp`, `StepsNotLoaded`, `Succeed`, `SucceedFails` |
| `close` | close a half-open breaker (185-194) | `CloseBreaker`, `CloseBreakerFails` |
| `fail` | commit the failure (205-224) | `MarkFailed`, `MarkFailedFails` |
| `trip` | load the breaker again (237) | `ReadBreaker`, `EvaluationFails` |
| `count` | count the failures in the window (259) | `CountFailures`, `EvaluationFails` |
| `open` | commit the opened breaker (249-250, 263-264) | `OpenBreaker`, `EvaluationFails` |
| `finally` | record, diagnose, announce (277-311) | `Finally` (in `AfterRun` step by step) |

`Die` may happen at every label but `idle`; the process is restarted and its run stays as it is.

Three things deserve a word.

*The copy of the breaker.* `seen[w]` is the breaker object in the worker's session. Sessions are made with
`expire_on_commit=False` (shared/db.py:8), so an object keeps what was loaded until a rollback expires it, and
a later SELECT of the row returns the object as it is. Hence `CloseBreaker` decides from the copy of the gate,
and `ReadBreaker`, which runs after the rollback of line 205, reads the row. `Flush` is what a commit writes:
the columns that differ from the loaded copy, and no other.

*The failed retry commit.* The rollback of line 164 expires the step and the run. The next attempt reads
`step.config`, which an asynchronous session cannot reload on attribute access, so the attempt raises, its
handler raises as it reads `step.step_order`, and the run fails: `RetryNotSaved` goes to `fail` directly.

*The window.* `recent` are the failed runs whose `ended_at` is inside the window; `WindowSlides` takes one out
at any time, which covers every length of window and every pace of failures. `forgiven` is a history variable
(read by `NoMissedTrip` only): the failures already on record when the breaker was last closed.

*The faults.* `Abandons` is a fault by which a worker loses its run (it dies, the claim or the re-fetch raises, or the
failure cannot be written), `Survives` one after which the code goes on with it. The history variable `abandoned` has
the runs lost in this way; what the properties say of a run they say of every other, faults or not.

### CreateRun, RunSubmission, Approval

`at[c]` is the statement request `c` is about to execute. `Insert` is atomic: the unique constraint and the
foreign key are the database's. `Approval` calls the service with one key for all approvals of a
recommendation. In both routes the push is a step after the commit, and `RpushBreaks` is a broken connection to
Redis: the pinned client re-sends the command once it has reconnected, so the id may be on the list twice, or
it gives up with the id on the list or not. In `Approval` the commit of the decision (`Save`) and the refresh after it
(`Reload`) are two steps: a refresh that raises leaves the decision written, the caller with a 500 and the run of a retry
not pushed. `DeletePipeline` deletes what hangs on the pipeline, at any time.
`Quiet` stutters when all requests are over, so that TLC's deadlock check stays on for every other state.

### ControlPlane

`db` is a set of rows of six tables. A row has its kind, its id, the row it belongs to, the value of its unique
column (`slot`: key name, step_order) and a flag (`active`: is_active, or "revoked_at is null" of a key). A
request that inserts a row gives it its own name as the id, which makes ids fresh and lets a later request ask
for it. `Below` is the cascade, `Accepted` the constraints a statement is checked for.

A request arrives, passes `Door` (`verify_tenant` or `verify_admin`), and then is at the label of its next
statement: `load` the owner, `check` that a slot is free, `insert`, `update`, `revoke`, `delete`, `list`, and
`refresh` after a commit. `saw[c]` are the rows it has loaded and at the end returns. Each service is one
operator with its statements as disjuncts; each route is a record that says which status the outcomes of its
service become, so that an exception no route catches is a 500. `DatabaseFails` ends a request at any statement.
`wrote`, `barred` and `bereft` are history variables, which the properties alone read: who has committed a change, who
arrived with a dead key, and whose loaded or inserted row was deleted under it. The path of a request and its key are
independent: a request may name one tenant and bring the key of another, and the properties about isolation ask who owns
the key (`HoldsKeyOf`), so that they rest on the comparison of dependencies.py:29.

### AfterRun

`exe[r]` is the executor of run `r` with the agent it awaits: its label, what the session has of the run
("loaded", "expired" by a rollback, or none), the outcome, what the graph has filled in, the rows retrieved, the
recovery plan, and whether the agent has returned an id. `hook[r]` and `indexing[r]` are the two tasks that
`asyncio.create_task` starts and nobody awaits. `indexer[i]` is an execution of `index_runbooks.py`: its
transaction deletes the rows its snapshot shows and waits for another one that deletes one of them.

| Code | Actions |
|---|---|
| gate to outcome, in outline (executor.py:35-275) | `Block`, `Claim`, `Succeed`, `StepFails`, `CloseBreaker`, `MarkFailed`, `EvaluateBreaker` |
| `run_observability_recording` (executor.py:318-330) | the action of that name |
| the graph (agent/nodes.py, retrieval_node.py) | `log_analysis_node`, `classification_node`, `retrieval_node`, `RetrievalFails`, `recovery_planning_node`, `GraphBreaks` |
| persisting (agent/diagnostic_agent.py) | `Persist`, `PersistFails`, `RefreshRecommendation` |
| the webhook (executor.py:303-311, shared/webhook_dispatcher.py) | `SendCallback`, `CallbackNotRead`, `Post`, `Audit`, `AuditFails` |
| the incident (agent/index_incident.py) | `index_incident`, `IndexingFails` |
| the runbooks (agent/index_runbooks.py) | `main`, `IndexerFails` |
| deletion by the control plane, at any time | `DeletePipeline`, `DeleteTenant` |

`history[r].hurt` are the kinds of failure that struck `r`. A kind that struck once may strike again without
limit; `MaxFaults` bounds the kinds. The database errors of the gate and the claim are in `Executor`.
Texts, embeddings and distances are left out: a row of the vector table is its source, its tenant and what it
describes, and the k nearest rows are any k rows.

### StepHandlers

A file is a set of columns and its rows of integers and `Null`, by number; a filter keeps the numbers of the rows that
pass, so that it drops rows and renumbers none. Its name is the second of its timestamp
and whether it is the transformed one (step_handlers.py:36): two files of a run may have one name. `Attempt` is one
round of the loop of executor.py:128-168 with the handler it calls; a load takes two steps, because
`pandas.to_sql` looks for the table and then replaces it. `attempts[r]` is `run_context["step_attempts"]`, from
which `_extract_failed_step` and `_summarize_attempt_pattern` draw what the incident index says. Delays are those of
`calculate_delay` with the jitter at whole numbers. `Kept` is a second, independent definition of what a
transformation keeps, by the columns' old names and without an order of operations; `LoadedWasValidated` compares
the table with it, for the last transformation before the load and the last validation before that transformation: a
pipeline may go on after its load, and what it does then is not in the table. `history[r].clash` says that two
ingestions of the run fell in one second.

### Migrations

A revision is two lists of statements, which are records; `Accepts` is what PostgreSQL checks before a statement,
`Run` the schema after it. `Connect` reads the version, `Statement` executes the next one on the migrator's own
copy of the schema (`env.py` puts the whole way from version to target in one transaction) and takes the lock of
the table, `Advance` goes to the next revision or commits, `Lost` and `Crash` roll back. `Models` is what the
SQLAlchemy models declare; the HNSW index is known to the migration alone (`OnlyInDatabase`).

`MigrationSteps` says of each revision, in each direction, that every one of its statements is accepted where those
before it lead, with rows in any table of the version, and that the last one leads to the schema of the next version
(`Fits`). The revisions take no parameter, so these are closed formulas, which TLC decides by evaluating them, for every
pair of versions.

## What is checked

Each run ends within two minutes with two TLC workers.

| Run | Instance | Properties | Shows |
|---|---|---|---|
| `exec_delivery` | 1 run of two steps with one retry, 3 workers, 3 pushes, thresholds 1 and 2, 2 faults | `TypeOK` `OneOwner` `OwnerHoldsRow` `RetryBudget` `NoOrphan` `NoLostRun` `EndedIsFinal` `ImplementsLifecycle` | duplicate deliveries, errors and deaths stay within the run life cycle: one owner, a row that agrees with it, no retry over budget, and nothing lost or left behind but by a fault that takes the run from its worker |
| `exec_trip` | 3 runs, 2 workers, thresholds 1 and 2, no fault | `NoMissedTrip` | simultaneous failures do not miss each other |
| `exec_live` | 2 runs, 2 workers, 1 fault, fair | `DeliveredRunEnds` `WorkerComesBack` | a run on the list ends unless a worker lost that very run, and no failure keeps a worker |
| `submit_races` | 4 requests, 2 keys or none, 1 fault | `TypeOK` `SameKeySameRun` `OneCreator` `QueuedOnce` `RaceIsInvisible` `ActsAtomically` | idempotency under races; `RunSubmission` implements `AtomicSubmit` |
| `approve_races` | 3 requests, 2 faults | `RetrySound` `AppliedIsQueued` `PauseWithDecision` | one retry run, on the list unless an approver was told of an error or died; pause and decision together |
| `tenancy` | 3 requests, 2 tenants, 1 database error | `TablesSound` `AnswersTrue` `RevokedIsRefused` `ActsForItsTenant` `ReadsOnlyItsOwn` `LockedOutStays` | tenants stay apart and revocation holds in every interleaving; constraints and cascade make up for check-then-insert |
| `after_run` | 2 runs of 2 tenants, 2 indexers, 1 kind of failure | `RowsSound` `Finalized` `ErrorNotMasked` `AuditTruthful` `ContextIsOwn` `RunbooksAlwaysThere` | what each failure costs a run, and that it costs nothing else |
| `step_data` | 2 runs, 9 lists of steps, 3 sources, 2 seconds | `StepsInOrder` `LoadedWasValidated` `BackoffGrows` `BlamesTheRightStep` | what the warehouse gets and what the incident index says of the attempts |
| `migrations` | 2 migrators, 5 versions, rows in 4 tables, 1 crash | `SchemaSound` `NoMigrationFails` | schema and version agree, nothing is rejected, and the newest is what the models declare; also evaluates the assumptions of `MigrationSteps` |

Some properties are conjunctions of parts that have names and comments of their own, each with a mutant in
`PROJECT.json`: `TablesSound` (`TypeOK`, `OneBreakerEach`, `UniqueSlots`, `NothingOutlivesOwner`), `AnswersTrue`
(`RefusedChangesNothing`, `ServerErrorMeansDeletion`), `RowsSound` (`TypeOK`, `IncidentPairs`), `Finalized`
(`DiagnosedUnless`, `AnnouncedUnless`, `LinkIsGood`), `RetrySound` (`TypeOK`, `OneRetryRun`), `StepsInOrder` (`TypeOK`, `MisorderedNeverLoads`,
`SuccessMeansDone`), `SchemaSound` (`TypeOK`, `SchemaIsRevision`, `HeadMatchesModels`).

Three more runs end in a violation; they are under
[Disagreements](#disagreements-between-code-and-documentation).

**Deadlock.** `after_run` and `step_data` turn TLC's deadlock check off, because all their runs end and nothing
follows. In every other run it is on.

**Bounds.** The properties of `exec_delivery` are about one run each and are also proved for any number of them, so it has one run and spends its states on workers, deliveries and faults. Two
deliveries race for the claim, the third comes when the run is over or in trouble. One fault reaches every
error path once; the second hits the worker that picks up after the first. `exec_trip` has three runs so that
a failure can come before, with, and after the one that reaches threshold 2, and no fault because its
property speaks of behaviours without one. `exec_live` has steps without retries: the retry loop is bounded
by its counter (`RetryBudget`), and what can starve a run is another run, another worker or the breaker.
Requests race in pairs over a row; a third and a fourth find the race over or bring the other key.

In `tenancy` two requests ask for anything and the third only revokes, deactivates or deletes: a check-then-act
needs one rival, and one more to take the ground from under both. What may be asked is each operation on the
tenant's own rows, on the other tenant's, and on a row the other request has just created. `after_run` has two
tenants because its isolation properties need two, and one of the two pipelines has a callback; one kind of
failure, which may strike anywhere and any number of times, since a property names the kinds that excuse it; it
is also proved without bounds. The lists of steps of `step_data` are one in order, two with a stage twice, one
with two stages exchanged, one that goes on after its load, and the rest with a null configuration, a filter on a column that is gone, or a negative
`max_retries`; the sources are a good file, one without a required column, and an empty one; a second second is what
it takes for two timestamps to differ. No renaming in them gives two columns one name (`RenamingsAssumption`, see
[What is not modelled](#what-is-not-modelled)). The versions of `migrations` are those next to the revisions that add
columns or constraints to tables that may have rows, and both ends. `MaxPushes`, `MaxFaults`, `MaxSeconds` and
`MaxCrashes` are the only bounds in guards; everything else is finite by itself. Symmetry is used over runs,
workers, requests, keys, indexers and migrators, and never in a run that checks liveness.

**Faults.** Nothing re-drives a run whose worker lost it, and the documentation accepts that. `NoOrphan`, `NoLostRun` and
`DeliveredRunEnds` therefore except the runs in `abandoned`, and these only: every error that a worker survives, and every
fault in another run, is inside what they claim. An error that the code is meant to survive and does not would violate
them; the mutant `SucceedFails_OnlyLogs` is one. `AppliedIsQueued` excepts a run only if an approver was answered with an
error or died. The properties of `after_run` name the failures that excuse them, and TLC finds each violated if one of the
names is left out. `NoMissedTrip`, `QueuedOnce` and `RaceIsInvisible` speak of behaviours without a fault.

**The exception in `LoadedWasValidated`.** Two ingestions of a run in one second write one file name, and the
second replaces the file the validation has read (step_handlers.py:36). For those runs the property does not ask that
the file passed the checks, and still asks that the rows are the transformation of one fetched file; without the
exception TLC finds the unvalidated rows in the table.

**Fairness.** `FairSpec` has weak fairness of `WorkerStep` for each worker, nothing for submissions, people or
faults. It says that a worker process keeps being scheduled, that awaits on the database return, that a
process which died is restarted, and that a step function ends. The first three are the deployment's
(`helm/shdp`); the last is an assumption, since a step has no timeout (executor.py:130). It is not needed that
a step ever succeeds: failing is a worker step too. `WorkerFault` is outside the fairness: an error may happen
and never has to. No other module states fairness: a request, a finally block or a migration is a bounded
sequence of steps that ends unless it is killed, and nothing in the code starts it again.

**One worker or many.** The chart's default is one worker replica (`helm/shdp/values.yaml`), but the claim is
written for several (`docs/ARCHITECTURE.md:73`), and so is the model.

## What is proved

Every invariant, every action property and both refinements that a run checks are also theorems, checked by TLAPS for
every value of the constants. What is left to TLC alone is liveness. TLC has evaluated each inductive invariant below
on the instance of its run as well.

### Executor

For every set of runs and workers, every list of steps, every bound on pushes and faults:

| Theorem of `ExecutorProofs` | Says |
|---|---|
| `TypeCorrect` | `Spec => []TypeOK` |
| `OneOwnerAlways` | `Spec => []OneOwner` |
| `OwnerHoldsRowAlways` | `Spec => []OwnerHoldsRow` |
| `EndedIsFinalAlways` | `Spec => EndedIsFinal` |
| `RetryBudgetAlways` | `Spec => []RetryBudget` |
| `NoOrphanAlways` | `Spec => []NoOrphan` |
| `NoLostRunAlways` | `Spec => []NoLostRun` |
| `NoMissedTripAlways` | `Spec => []NoMissedTrip` |
| `Implementation` | `Spec => ImplementsLifecycle` |

The only assumption is `ConstantsAssumption` of `Executor`, which TLC evaluates in every run of it: the
placeholders are not members of the sets they stand outside of, retries are naturals, thresholds are positive
(`Field(ge=1)`, schemas/pipeline_circuit_breakers.py:26).

The argument. `OneOwner` is not inductive: nothing in it keeps an owned run from being claimed again. What
does is that the row of an owned run never reads "queued", and that is `OwnerHoldsRow`. `OwnerHoldsRow` in
turn needs `OneOwner`, because a second owner could move the row under the first. Together with `TypeOK` they
are inductive: `Inv == TypeOK /\ OwnerHoldsRow /\ OneOwner`. `NextInv` takes the actions one by one.
`EndedIsFinal` follows since a worker that writes a row owns it and is where `OwnerHoldsRow` says the row is
active or a success, or rewrites "failed" with "failed". The refinement maps `owner[r]` to the one worker in
`Executing` that has `r`; `Claimed` and `Released` say when that changes, and `LifecycleNext` maps each action
to a step of `RunLifecycle` or a stutter.

The other four each need something that their statement leaves out:

- `NoOrphan`: `Settled`, that a worker which is closing, evaluating or in its finally block has a run that is not
  active any more, or is abandoned because its failure could not be written. Without it a worker could come back to the
  loop from a run that still reads "running".
- `NoLostRun`: `NothingLost`, that an absent run has not been pushed either, so that a run is queued before its id is.
  A fault of a worker that has decided changes nothing here; of one that has not, it abandons the run.
- `NoMissedTrip` speaks of the moments when no worker is evaluating. `Armed` speaks of all: a closed breaker with
  enough failures has a worker that will still count them. The last of several workers to count sees all the failures,
  because each commits its own before; and `SeenNotOpen`, that the copy a worker writes from is not "open", makes its
  flush a write. The counts take the library's facts about cardinality.
- `RetryBudget`: `Frugal`, that at the n-th step and k-th attempt the row counts fewer than `Allowed[n - 1] + k` retries,
  and `Fresh`, that a run which was never claimed counts none; a second delivery is never claimed, so no run starts
  again with retries on record. `Allowed` is a recursive function; that it is monotone is an induction
  (`DataInduction`).

### Run submission

For every finite set of requests, every set of keys and every number of faults:

| Theorem of `RunSubmissionProofs` | Says |
|---|---|
| `SubmissionTypes` | `Spec => []TypeOK` |
| `SameKeySameRunAlways` | `Spec => []SameKeySameRun` |
| `OneCreatorAlways` | `Spec => []OneCreator` |
| `QueuedOnceAlways` | `Spec => []QueuedOnce` |
| `RaceIsInvisibleAlways` | `Spec => []RaceIsInvisible` |
| `ActsAtomicallyAlways` | `Spec => ActsAtomically` |

The only assumption is `CreateRunAssumption`. The properties speak of answers, so that nothing in them says why the
next answer will be right. `IInv` speaks of every request that holds a run, answered or not, and of the rows:

- `IdsBounded`: the id sequence moves once for each request that is past its INSERT, so its value is bounded by their
  number. This is what type correctness needs, and takes the library's facts about cardinality.
- `RowsSound`: what the unique constraint, the sequence and the cascade make of the table.
- `Holding`, `HoldersAgree`: the run a request holds is in the table while the pipeline is; who holds a run of a key
  holds the same one. At an INSERT the unique constraint makes the new holder the first.
- `CreatorsApart`: two creators have two runs. A new id is above all ids held.
- `Queued`, `Unharmed`: without a fault, each row is pushed or its creator is on the way; who lost the race finds the
  winner's row unless the pipeline is deleted.

The refinement gives each request the outcome "pending" until its committed INSERT or the SELECT that finds a row.
Every step leaves all outcomes as they are, or makes one request create, replay or fail, and these are the steps of
`AtomicSubmit`.

### Approval

For every finite set of requests and every number of faults, also from `CreateRunAssumption` alone:

| Theorem of `ApprovalProofs` | Says |
|---|---|
| `ApprovalTypes` | `Spec => []TypeOK` |
| `OneRetryRunAlways`, `RetrySoundAlways` | `Spec => []OneRetryRun`, `Spec => []RetrySound` |
| `AppliedIsQueuedAlways` | `Spec => []AppliedIsQueued` |
| `PauseWithDecisionAlways` | `Spec => PauseWithDecision` |

All approvals of a recommendation carry one key (`OneKey`), so the first INSERT is the only one and run 1 the only run
(`OneRow`). `Creation` follows its creator through the labels to the push: there is one, it has run 1, and before the
INSERT there is none. `PushedOnce` says, without a fault, who has still to push it. `Accounted` speaks of all
behaviours: once the run is there it is pushed, or an approving request is on its way between its commit and the push, or
one was answered 500 or is gone. That needs `Approving`: only a request that approves is inside the service or has a run to
push. `AppliedHasRun` says that whoever commits an approved retry has had the run from the table. `PauseWithDecision`
needs no invariant but the types: only `Save` writes the schedule.

### The resource API

For every set of callers, every request they may make, every seed of rows and every number of database errors:

| Theorem of `ControlPlaneProofs` | Says |
|---|---|
| `TablesSoundAlways` | `Spec => []TablesSound` |
| `AnswersTrueAlways` | `Spec => []AnswersTrue` |
| `RevokedIsRefusedAlways` | `Spec => []RevokedIsRefused` |
| `ActsForItsTenantAlways` | `Spec => ActsForItsTenant` |
| `ReadsOnlyItsOwnAlways` | `Spec => ReadsOnlyItsOwn` |
| `LockedOutStaysAlways` | `Spec => LockedOutStays` |

The assumptions: the seed is rows of the tables with unique ids and slots and an owner each, and every pipeline in it has
its breaker (`SeedAssumption`); a PUT names a column there is and a value of its type, or null (`RequestsAssumption`).

`IInv == Tables /\ Control /\ \A c \in Callers : Well(c)`. `Tables` is what holds of the rows after every commit,
with `Issued`: an id that is a request's name is in the tables only once that request has inserted, so that no id comes
back after a deletion. `Well(c)` says, label by label, what the request knows: behind the door its key is, while it is
there, a key of the path's tenant, and it is there as long as that tenant is (`KeyOfItsTenant`: the comparison of
dependencies.py:29 establishes it, and it turns a statement scoped by the path into one scoped by the key's owner); once
it has loaded a pipeline, that pipeline is its tenant's for as long as it is there (`OwnsPipeline`); a row it holds may
have changed, or be gone and the request in `bereft`, but nothing else has its id and its owner is the same (`Knows`,
`MayUpdate`); a request that arrived with a dead key has not passed the door (`Barred`).

There are 23 operations of up to five statements. `ServeForms` brings each statement into one of seven forms, which say
what it may do to the rows and what it leaves with the request: it goes on (`Advances`), holds the rows to change
(`Holds`), answers (`Replies`), finds nothing to change (`Skips`), inserts (`Adds`), updates (`Changes`) or deletes with
the cascade (`Drops`). Each form keeps the invariant of its request (`Kept`), and all of them are `Tame` to the others:
they remove rows, or change no row's id and owner. The action properties are read off the forms: only `Adds`, `Changes` and
`Drops` touch an estate, and `OwnsPipeline` or `MayUpdate` says whose it is.

### The finally block

For every set of runs, pipelines, tenants, indexers and chunks, every k of the retrieval and any number of failures:

| Theorem of `AfterRunProofs` | Says |
|---|---|
| `RowsSoundAlways` | `Spec => []RowsSound` |
| `FinalizedAlways` | `Spec => []Finalized` |
| `ErrorNotMaskedAlways` | `Spec => []ErrorNotMasked` |
| `AuditTruthfulAlways` | `Spec => []AuditTruthful` |
| `ContextIsOwnAlways` | `Spec => []ContextIsOwn` |
| `RunbooksAlwaysThereAlways` | `Spec => []RunbooksAlwaysThere` |

The only assumption is `AfterRunAssumption`: pipelines and tenants are functions of the run, placeholders are no
values, and "escalate" is an action that can be recommended (the sentinel plan, agent/nodes.py). `IInv` is

- `Types`: the type invariant;
- `RunbooksDoomed`: the rows an indexer's open transaction deletes are runbooks, never an incident;
- `Indexed`: once an indexer has committed, the rows of one whole indexing are there; a replacement takes out rows its
  snapshot showed and puts in all chunks at once;
- for each run, `Whole` and `Recommended`: an incident has both its rows or none, and its recommendation was committed
  before its task was started;
- `Own`: what the session retrieved belongs to the tenant, at every label from the retrieval on;
- `Ending`: at each label how far diagnosis and announcement have come, and which of the named failures must have
  struck if they have not come so far. `DiagnosedUnless` and `AnnouncedUnless` speak of runs that are over, and say
  nothing about one that is not, so `Ending` carries the account from the gate to the end.

TLC checks `IInv` too, on the instance of `after_run`.

### The steps of a run

For every set of runs, every set of lists of steps, in order or not, every set of sources and every time:

| Theorem of `StepHandlersProofs` | Says |
|---|---|
| `StepsInOrderAlways` | `Spec => []StepsInOrder` |
| `LoadedWasValidatedAlways` | `Spec => []LoadedWasValidated` |
| `BackoffGrowsAlways` | `Spec => []BackoffGrows` |
| `BlamesTheRightStepAlways` | `Spec => []BlamesTheRightStep` |

The assumptions are about the inputs: a source serves tables (`SourcesAssumption`), a list of steps is one, of the four
types, with integers for the retries and a natural base delay (`PlansAssumption`; the configuration is free, and a negative
delay, which `asyncio.sleep` takes for none, is the one thing left out), and `None` is no value (`NoneAssumption`).

`IInv` has three parts, of which the first two are about each run by itself:

- the record of attempts, `Log`: each entry tells a step and an attempt of the plan and a delay that
  `calculate_delay` gives (`Told`); steps and attempts go up along it (`Sorted`); every step behind the current one has
  its success on record, unless it is skipped (`Behind`); and where the run ends, its last entries are those of the
  step that made it fail (`Going`, `Ending`). `BlamesTheRightStep` and half of `StepsInOrder` follow from it alone;
- the run context and the files, `Data`: a stage has left its file name only after an attempt that succeeded, in the
  order of the stages (`Stages`); the names in it are of files that are there (`Stored`); and, unless two ingestions
  clashed, the validated file is one that was fetched and passes the checks of the last validation (`Passed`), and the
  transformed file is `Kept` of it (`Made`);
- the table, `Warehouse`: at most one load, with the attempts it came from (`Loaded`), so that what a reader finds in it
  (`TableRows`) is what that load wrote.

The record only grows at its end, so "the last validation before that transformation" does not change under what is
there (`LatestGrows`), and a run that goes on, or another run, takes nothing away from `Loaded`. `TransformFacts` is the
lemma about the data: rename, filter and drop, where none of them raises, keep the rows that `Kept` describes by the old
names. `DelayGrows` needs that the powers of two grow; that the recursive `Power` is a function at all is proved too
(`PowerDef`), with the induction of `DataInduction`.

### Migrations

For every set of migrators, of targets and of filled tables, and every number of crashes:

| Theorem of `MigrationsProofs` | Says |
|---|---|
| `SchemaSoundAlways` | `Spec => []SchemaSound` |
| `NoMigrationFailsAlways` | `Spec => []NoMigrationFails` |

The assumptions on the constants are that targets are versions and that the bound on crashes is a number. What the
revisions do is assumed by name in `MigrationSteps` (`StepsAssumption`, `SchemasAssumption`, `EndsAssumption`): these
formulas have no constant of the model in them, and their evaluation by TLC, in `migrations`, is all there is to check. A
revision whose downgrade does not undo it, or that adds a NOT NULL column without a default, fails there.
The rest is about processes. `IInv` says that a transaction without a lock has done nothing yet; that one with a lock
started from the version that is still the recorded one, and has on its copy done some number of statements of the
revision it is in (`PartDone`); and that at most one migrator has locks. So whoever commits, commits the whole way from
the recorded version to the one it records, and whatever rows there are, are rows of the tables of the recorded version
(`RowsAreAllowed`). `AcceptsMore` is the lemma that carries `Fits` over to the rows there really are.

### Only model-checked

`DeliveredRunEnds` and `WorkerComesBack`: liveness under fairness is out of the prover's reach. So is a proof by
induction over data for an operator given as a parameter; where an induction was needed it is one over the naturals,
with the set of numbers written out (`DataInduction`). `FoldLeft`, `SelectSeq` and `^` mean nothing to the provers: the
model does without the last two where something is proved about it, and `SchemaOf`, a fold, enters the proofs by the
assumptions that TLC evaluates.

## Disagreements between code and documentation

Each is a run that ends in a violation of what the quoted text says.

| Run | Text | Code |
|---|---|---|
| `stale_close` | "Nothing in the worker moves it out of `open`" (docs/runbooks/pipeline-failures.md:37) | a success closes a breaker that was opened after the run had loaded it (executor.py:187) |
| `replay_not_enqueued` | "this run was already enqueued once" (routes/pipeline_runs.py:79) | not if the creator's push failed or never came |
| `decision_overwritten` | "A decision is final" (README.md:71) | two requests may both read "pending" and both write (services/agent_recommendations.py:103-117) |

Others follow from the same causes, or can be read off the code, and have no run:

- A stale closing writes the state and leaves the reason, since the copy had none to clear, although "closed circuit
  indicates no failures, so we clear these fields" (executor.py:189).
- Half-open "lets the next run through as a trial" (docs/runbooks/pipeline-failures.md:37), and all the others until
  one of them has ended (executor.py:46).
- "Approving a retry starts a new run" (README.md:71), but not if the second commit failed once: the next approval
  finds the run and does not push it (services/agent_recommendations.py:82-85).
- `docs/ARCHITECTURE.md:77` opens a closed breaker when failures "exceed" the threshold, `executor.py:262` when they
  reach it (`CountFailures`).
- `services/agent_recommendations.py:112` speaks of "the same commit" for the action and the status, but the run of a
  retry has a commit of its own (`services/pipeline_runs.py:75`). It is true of pausing (`PauseWithDecision`).
- "It writes a record of every run" (README.md:24, docs/ARCHITECTURE.md:26): a blocked run returns before the finally
  block (executor.py:67).
- "We dont want it to overwrite the errors" (executor.py:281): an OSError of `mkdir` is no
  `ObservabilityRecordingError` and takes their place (executor.py:321). `ErrorNotMasked` names it.
- The incident text says "failed on first attempt with no retries configured" of any run with one failed attempt
  (index_incident.py:30), and names the step of the last failed attempt (64) also when a later attempt succeeded and
  the run failed elsewhere. `BlamesTheRightStep` says when the name is right.
- "fully replaces all `runbook` rows" (docs/ARCHITECTURE.md:127): two indexers that overlap leave the rows of both,
  since neither snapshot shows the other's. `RunbooksAlwaysThere` is what remains.
- A second transformation step reads the validated file again and not what the first has written
  (step_handlers.py:89-101).
- A run that started earlier and loads later replaces the newer contents of the warehouse table; nothing orders them.

## What is not modelled

- *In `Executor`*: the length of the window and the retry delays (`StepHandlers` has the delays); `retry_after`,
  which nothing reads; deletion of a run under its worker (`AfterRun` has it). The circuit breaker's component is
  therefore "partly" modelled.
- *In `ControlPlane`*: the pages of the lists, the hashing of keys, the rules of the request schemas. A request that
  the schemas reject never reaches a service.
- *In `AfterRun`*: what the model is told and says beyond which of its answers exist: prompts, texts, token counts,
  and the state a checkpointer keeps of each graph. Embeddings and distances: any k rows may be the nearest.
  How a runbook is cut into chunks.
- *In `StepHandlers`*: download and parsing of a file beyond failing or yielding a table; types of columns other than
  integers; a renaming that gives two columns one name, both of which pandas keeps: columns are told by their names here,
  and `RenamingsAssumption` leaves such plans out.
- *Embeddings, metrics, logging, tracing, configuration, clients*: calls to external services or pure output, which
  no state of the platform depends on.
- *Request and response schemas*: declarations without behaviour. *Evaluation*: a script that runs cases through the
  agent offline and scores the answers. *Deployment*: configuration; what it promises is in the fairness.

Two hazards have no property: several trials of a half-open breaker (executor.py:46), which nothing in the code
forbids, and a step without a timeout (executor.py:130), which the fairness of `exec_live` assumes away.

## Plan

1. *done* `RunLifecycle`, `Executor`, `ExecutorProofs`.
2. *done* `AtomicSubmit`, `CreateRun`, `RunSubmission`, `Approval`, `RunSubmissionProofs`, `ApprovalProofs`.
3. *done* `ControlPlane`: tenants, keys, pipelines, steps, schedules.
4. *done* `AfterRun`: finally block, agent, webhook, incident and runbook index; `AfterRunProofs`.
5. *done* `StepHandlers`: attempts, delays, files and the warehouse.
6. *done* `Migrations`.
7. *done* Proofs for `Executor`: `NoLostRun`, `NoOrphan`, `NoMissedTrip`, `RetryBudget`.
8. *done* `ControlPlaneProofs`: `TablesSound`, `AnswersTrue`, `RevokedIsRefused` and the three action properties.
9. *done* `StepHandlersProofs` and `MigrationsProofs`.
10. Theorems that no run asks for yet: the steps of `Approval` as those of a single decision, and of `StepHandlers` as
    those of the executor's loop in `Executor`.
