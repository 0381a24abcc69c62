# Verification of AgentBlackBox

TLA+ specifications of AgentBlackBox, their model-checking runs, and proofs checked by TLAPS. The
specifications are translated from the Python source; `PROJECT.json` maps each definition to the
lines it stands for. Paths below are those of the repository.

    tlc -workers 2 -config MCJobQueue.cfg MCJobQueue      # model-check
    tlapm JobQueueProofs.tla                              # check the proofs

## 1. The system

AgentBlackBox records what an agent does (traces), replays and scores it against suites of test
cases, and runs such evaluations as a service. There are two programs around one library:

* `blackbox` is the library and command line: trace model and recorder, the asynchronous runner
  with its adapters to agents under test, fixtures, evaluators, assertions, policies, reports.
* `blackbox_server` is the service: a REST API and worker processes over one PostgreSQL (or SQLite)
  database and one artifact store (a directory or Azure Blob).

| Component | State | Operations | What is hard | What makes it correct |
|---|---|---|---|---|
| **Durable job queue and workers** (`jobs.py`, `workers.py`, `models.py`) | the `jobs` table with leases, attempts, cancel flag and row version; per worker the leased batch, the open transaction, heartbeat threads | `lease`, `heartbeat_atomic`, `complete`, `fail`, `request_cancel`, `recover_expired`; `run_once`, `_process` | several processes, pauses longer than the lease, crashes at any point, stale reads, cancellation at any moment | at most one worker can commit a job; effects of a handler commit exactly once; attempts within the budget; final states are final; every job comes to rest |
| **Artifact outbox** (`ingestion.py`, `retention.py`, `artifacts.py`, `workers.py`) | rows of `runs`, `events`, `artifacts`, `artifact_deletions`; objects in a store outside the database; objects staged by a session | `ingest` with claim and put, commit, rollback with cleanup, `delete_run`, `delete_workspace`, the `artifact_delete` handler | a store without transactions; cleanup after the locks are gone; a removal racing an ingestion; failed and repeated deletes | no committed row without its object; every recorded deletion is carried out; intents have jobs |
| **Asynchronous runner** (`runtime/runner.py`, `adapters/base.py`, `adapters/in_process.py`) | one task per case, a semaphore, the cancel event, attempts, results | `run`, `cancel`, `_execute`, `_failure` | cancellation from two sides between any two awaits, deadlines against retries, shutdown while tasks still talk to the adapter | bounded concurrency; no new work after `cancel`; the adapter is closed last; one status per case and a status of the run that follows from them; the run ends |
| **Job handlers** (`workers.py`) | `runs.status`, spans, comparisons, exports | `_project_event`, `_execute_run`, `_comparison`, `_export`, `_import`, `_retention` | events of one run projected out of order; handlers repeated by retries | the status of a run follows its events; repeating a handler changes nothing |
| **REST API** (`api.py`, `schemas.py`, `repositories.py`) | none of its own; idempotency keys in `jobs` | `create_run`, `create_job`, `cancel_job`, `ingest_event`, `polling_response`, `status_stream`, datasets, policies, comparisons | racing requests with one key, replays after deletion, streams cut and resumed | one job for one key; a client that polls or streams sees the final state |
| **Retention rules and legal hold** (`retention.py`), **schema** (`0001_phase6.py`), **repositories** (`repositories.py`) | `retention_rules`, `workspaces.legal_hold`, the rows of every table | `apply`, `delete_run`, `delete_workspace`; migration up and down; paging | a hold set while a deletion runs; foreign keys; rows that come and go between two pages | nothing under legal hold is deleted, nothing else than asked for; no statement is refused; a listing misses nothing |
| **Recorder** (`recorder.py`) and **trace model** (`domain/trace.py`) | conversations, turns, spans, handoffs of one trace; context variables per asyncio task | contexts for conversations, turns, spans; `event`, `message`, `request_handoff`, `accept_handoff`, `transition_handoff`; `Trace.validate`; `JSONLWriter`, `iter_traces` | tasks that inherit a context and outlive it; two targets for one handoff; a span appended before validation | a recorded trace is valid and stays so; handoffs follow their transitions; a file holds whole, valid traces |
| **Fixtures** (`fixtures.py`) | prepared fixtures with their snapshots | `run`, `run_many` | failure of any of prepare, snapshot, operation, verify, cleanup | everything prepared is cleaned up, last first; nothing destructive without approval |
| **Adapters** (`adapters/http.py`, `foundry.py`, `imports.py`, `jsonl.py`, `webhook.py`) | a client, an attempt counter | `send` with retries, polling, streaming | retries inside retries, deadlines, partial streams | retries bounded, permanent errors not retried |
| **Evaluators and assertions** (`evaluators/`, `assertions/`) | results, a cache, a queue of human reviews | evaluation, verdicts, ensembles, review workflow | one case judged by two algorithms; errors that only one of them knows | the verdict and the assertions agree |
| **Results, policy, rescoring, replay** (`domain/result.py`, `domain/policy.py`, `runtime/rescore.py`, `replay.py`) | the stored run, the suite file | record, replay, rescore, compare | a suite edited between two commands; violations of old policies | a comparison accounts for the whole difference; rescoring changes the judgement and not the evidence |
| **Suites** (`domain/suite.py`) | a dataset with its sampling | load with includes, sample, split, filter | circular and diamond includes, rounding, provenance | every case once; no case in two chunks |
| **Stability, reports, CLI, OpenTelemetry import, trace migrations, server wiring, operator commands, demonstration agents** | none that outlives a call | statistics, parsing, formatting, file and network I/O | input formats | conversions keep what they convert |

How they interact. The API and the workers share only the database and the store: the API commits
`jobs` rows, workers lease them, and every handler runs inside the transaction that also completes
its job. `execute_run` and `import` jobs and the `POST /events` request ingest events through the
same `EventIngestor`; each ingested event commits a `project_event` job with it. `retention`,
`delete_run` and `delete_workspace` jobs remove rows and commit `artifact_delete` jobs for the objects.
The runner calls an adapter, which calls the agent, which calls the recorder; the trace they leave is what
evaluators, assertions and policies read.

`PROJECT.json` lists every component with its status, and under `hazards` the places in the code
where one of the hard behaviours bites, with the property that would notice it going wrong or the reason
why none does yet.

## 2. Plan

The modules, in the order in which they were written; an arrow points from a detailed specification to the abstract
one that it is shown to implement.

1. `JobQueue` → `JobLifecycle` (what a client may rely on), with `JobQueueProofs`.
2. `ArtifactOutbox`, with `ArtifactOutboxProofs`. It uses of the queue only what 1. establishes.
3. `AsyncRunner` → `RunReport` (what a caller of `run` may rely on), with `AsyncRunnerProofs`.
4. `Recorder` → `HandoffLifecycle` (the life of a handoff), with `RecorderProofs`.
5. `RunService`, with `RunServiceProofs`: the API, the handlers and a streaming client, over jobs that live as
   1. promises.
6. `Fixtures` and `HttpAdapter` (the retries inside an attempt of 3.), with their proofs in `LibraryProofs`.
7. `Judgement` and `Datasets`: policies, assertions, verdicts, comparisons; suites and their sampling; `SuiteProofs`.
   `Selection` holds the comprehension and the joining of lists both use.
8. `Workspace`: schema, insertions, removals, legal hold and listings, with `WorkspaceProofs`.

`MCLibrary` puts 6. to 8. on instances for one run: they share no state, so a behaviour picks one of them and stays in it.
`LibraryProofs` also shows that this composition implements each of them.

Left: several events in one session and a commit whose outcome is unknown (in 2.), ensembles and the review of
results by people (in 7.).

## 3. What is modelled, and how it corresponds to the code

### JobLifecycle and JobQueue

`JobQueue` models a row of `jobs` as a record of the columns the protocol reads: `status`, `owner`
(`lease_owner`), `attempts`, `max`, `cancel` (`cancel_requested`), `version` (the `version_id_col` of
`models.py`), and two flags for time: `expired` (`lease_expires_at < now`) and `due` (`available_at <=
now`). A worker is a process with a program counter over `run_once` and `_process`:

| Action | Code |
|---|---|
| `RunOnce` | first transaction of `run_once`: `recover_expired`, then `lease` (`FOR UPDATE SKIP LOCKED`, so one step), and the start of the heartbeat threads |
| `Begin` | `_process` up to the handler; a cancelled job goes straight to `complete` |
| `HandlerReturns`, `HandlerRaises` | the handler's end; `lost_event` is looked at once, after it |
| `Complete`, `CompleteRefused` | `complete` with its ownership and version checks, and the commit of what the handler wrote |
| `FailBegin`, `LostBegin`, `SettleCommit` | the two exception branches, each a transaction of its own with a read and a commit; `StaleDataError` there ends the process |
| `Heartbeat`, `HeartbeatLost` | the loop of `_Heartbeat._run` |
| `RequestCancel`, `CommitCancel` | `request_cancel` in an API request: read, then commit |
| `LeaseExpires`, `BackoffElapses`, `Crash` | clocks and crashes |

The important abstraction is what a session knows: `snap` holds the attributes a transaction loaded and goes by,
however stale (SQLAlchemy's identity map), and a commit succeeds only if the version is unchanged.
`applied` is a history variable that counts commits of a job's handler effects.

`JobLifecycle` has no workers, leases or versions: a job is submitted, attempted, released, cancelled or
succeeds. `ImplementsLifecycle` says that every step of the queue is, for every job, one such move.

### ArtifactOutbox

Database state is `runs`, `event`, `artifact`, `intent` and `job`; the store is the set `blob`. An ingestion
(`tx`) goes `idle → claimed → stored → idle`: `Claim` is the `INSERT … ON CONFLICT DO NOTHING` with the lock on the
run, `Put` the store's `put` and the artifact row, `Commit` the end of the transaction. `Rollback` leaves the
transaction, after which `Undo` deletes the object *without any lock*, or `UndoFails` and `Report`
records an intent in a transaction of its own (`_persist_cleanup_failures`). `Abandon` is a crash, or a request's
session closed without a rollback. `SurveyRun`/`SurveyWorkspace` are the first half of `delete_run`/`delete_workspace`
(which artifacts are there), `Remove` the second with its commit, `RemoveFails` its rollback. Sweepers run `artifact_delete`
jobs: `SweepStart` (lease), `SweepDelete` (the store), `SweepCommit`, `SweepFails`, `SweepStopped`, `SweepCrash`, and
`Recover`. `Cancel` is `POST /jobs/{id}/cancel`, which takes the id of any job: a cancelled deletion is never scheduled again, so
`EventuallyDeleted` excepts it.

`Overlap` is a parameter: FALSE restricts the environment to event ids that are not ingested again while an
earlier object of theirs is still being deleted. The code does not enforce this, and section 4 shows what happens
without it.

### RunReport and AsyncRunner

A case's task is where it awaits: `queued` (the semaphore), one of the adapter's calls, `backoff`, or `over`.
Between two awaits a task cannot be interrupted, so an action is everything from one await to the
next: `Admit`, `Answer`, `Wake`, and the ways out `TransientError`, `PermanentError`, `Timeout`,
`AdapterCancelled` (a `CancelledError` raised inside the adapter) and `Interrupt` (by `task.cancel()`).
`run()` goes from `gathering` to `closing` (`Gathered`), or through `breaking` (its awaiter was
cancelled) and `draining` (`except CancelledError`) to `raising`; `Close` is `finally`, and computes the status.
`busy` is the set of cases whose agent is at work, which is what "bounded" is about. With
`Threads = TRUE` the agent runs in `asyncio.to_thread` and goes on when its await is interrupted
(`InProcessAgentAdapter.send`); `AgentEnds` is its end.

`RunReport` is what the caller may rely on: each case settled once, `cancelled` only on request, then one
verdict that fits all outcomes, or an exception.

### HandoffLifecycle and Recorder

The trace is `conversations`, `turn`, `span` and `handoff`, the last three as functions of all identifiers with "not
there" as a value. Each asyncio task has the three context variables (`current`) and a stack of the with-blocks
it is in (`blocks`); a block remembers what it has to put back. A task that another one starts gets a copy of its context
(`Spawn`) but no blocks, so it goes on with a turn and a span that may end any time. No call of the recorder
awaits anything: each is one step, and interleaving happens between calls.

| Action | Code |
|---|---|
| `OpenConversation`, `OpenTurn`, `OpenSpan` | `conversation`, `turn`, `span` with the `__enter__` of their context; a span is appended first and then validated, so one that is refused stays in the trace |
| `Request`, `HandoffTo`, `Transition` | `request_handoff`, `handoff`, `transition_handoff`, which any task may call |
| `Accept` | `accept_handoff` and the `__enter__` of its target: the span is opened, bound and linked, the handoff accepted |
| `Leave` | `__exit__`, normally, by an exception or by a cancellation; for a target also the end of its handoff, unless an invalid trace makes the inner `__exit__` raise first |

`Valid` is `Trace.validate` as far as it is about spans, turns and handoffs. Callers may do anything; `misused` is a
history variable that remembers whether one of them named a parent itself, opened a conversation inside a turn or
a turn inside a span, or gave a turn the id of another conversation's (`reused` holds such ids). `ValidInGoodUse` is about the others. `HandoffLifecycle` knows nothing of tasks, spans and blocks: a handoff is
requested, gets a source and at most one target, and ends once.

### RunService

`run`, `job` and `event` are tables; a run and a job carry the name of the request that inserted them. `job` is written to live as
`JobLifecycle` says (which is what `JobQueue` is shown to implement), so a handler's writes and the completion of its job are one step.
A payload may name a run (`request.names`): with `POST /runs` that replaces the inserted run in the job (`Named`, `Inserted`).

| Action | Code |
|---|---|
| `LookUp`, `Insert` | `create_run` and `create_job`: the look-up of the idempotency key, and later the insertion, which the unique constraint may refuse |
| `Ingest` | `POST /events`: the event with its `project_event` job |
| `Lease` | a worker takes the job; its handler reads the run's row and its version (`seen`) |
| `Project`, `Execute`, `Compare` | the handlers `_project_event`, `_execute_run` (with the events it ingests) and `_comparison`, each with its commit |
| `Fail`, `Stop` | a handler that raises or meets a newer version of the run; the end of a cancelled job |
| `Cancel`, `DeleteRun` | `cancel_job`; `delete_run` with the rows that go with the run |
| `Connect`, `Tell`, `GiveUp` | `stream_status` with `Last-Event-ID`; a round of the loop of `status_stream`, and its end after sixty rounds |
| `Cut`, `Poll` | a lost connection; `polling_response`, to which a client falls back |

A client keeps what it was told last (`known`) and the id under which (`last_id`).

### Workspace

`Rows` are the rows there may be, each with its table and the rows its foreign keys name. `ForeignKeys` is the
migration's, with what each does on deletion. `CreateTable` and `DropTable` are `upgrade` and `downgrade`, table by table;
`Insert` is a transaction of a request or a handler, `Hold` the change of `legal_hold` by the ORM, with its version check.
A removal is a transaction of many statements, one step each: `BeginRuns`, `Survey` and `RunStep` are `apply` and `delete_run`;
`Ask`, `BeginWorkspace`, `EmptyTable` and `Flush` are `delete_workspace`; then `Commit` or `Abort`. A statement sees what others have committed
by then (READ COMMITTED). `Open` and `Page` are `list_runs` through `WorkspaceRepository.page`.

### HttpAdapter

A case stands for the runner's task and is `at` one of the adapter's awaits. `PrepareAttempt` and `Acquire` lead to the destination's lock and
`Resolve` asks the resolver, once; `Send`, `Post`, `Reply` and `BadToken` are a message with its retries
(`_request_with_retries`), a reply being its status and whether its body can be decoded; `Finish` ends an attempt, `Deadline` cuts it at
any await, `Close` and `Closed` are the two halves of `close()`.

### Fixtures

One call of `run_suite` with its loop over the cases and the phases of `run_many`: `Start`, `Prepare`/`PrepareFails`, `Before` (the snapshots),
`Operate`, `Verify`, `Verified`, `Cleanup`, and `Keep` or `Lose`, which end a case with its trace or with what was raised.
`Interrupt` and `Cut` are a `KeyboardInterrupt` in the body and in a cleanup. A fixture's configuration is what its provider finds wrong with
it; `Refused` and `SnapshotFails` say which provider looks for what.

### Judgement

`Begin` and `Record` are the `run` command, which alone validates its suite (`Accepted`: ids that differ, an expectation, and assertions that say
something of the answer); `Edit` changes the suite's file (`suiteFile`) between two commands; `Replay`, `Rescore` and `Compared` are the
commands that read a stored run, with whatever the file holds by then, ids that are there twice included. The rest is pure: the six policies, `Evaluate` (the assertion engine), `LegacyVerdict` with
`Judge` (the built-in evaluators and the verdict), `ScoreRun` and `Compare`. The reference definitions that the properties use
are written from the other end: `Fulfilled` says what a good answer is in terms of the assertions, `TimeTaken` measures latency as a
set of instants (`Covered`) where the code merges sorted intervals, and as the longest duration where no span has coordinates. A comprehension with a condition is `Only` of `Selection`, a loop over intervals a
recursive function: both can be reasoned about, which `SelectSeq` and the folds with their operator parameters cannot.

A text is the set of its words, and `Lower` says which words are not their own lower case: the verdict compares folded texts, the engine goes by
`case_sensitive` (`AsCompared`). Letters that `str.lower` and `str.casefold` treat differently, such as ß, do not occur. The support of a
citation is counted in steps of 0.00001, because `Citation.to_dict` rounds it to four digits: `Loaded` is a stored run as the
next command reads it, `Reloaded` the copy that `rescore_traces` makes.

### Datasets

`Load`, `Include` and `Assemble` are the recursive `load_dataset` with its stack of files; `Sample`, `Split` and `Filter` (by tags and by
ids) the methods of a dataset. Which cases a seed draws and in which order is nondeterministic; how the boundaries of a split are rounded is
not, but the fractions that are rounded are exact where the code adds floating-point numbers. `divided` is a history variable with the cases and
the ratios of the last split: the chunks are compared with the dataset that was split, case by case (`Times` counts a case).

## 4. Runs

| Run | Instance | What it shows |
|---|---|---|
| `job_queue` | 2 workers, 1 cancel request, batch of 2; one job with two attempts, or two jobs with one each; 132 000 states | `FencedWrites`, `OneCommitter`, `EffectsExactlyOnce`, `ImplementsLifecycle`, and `EventuallySettled`, `OrphansReclaimed` under fair workers |
| `job_queue_cancel` | 1 job with two attempts, the same actors | **violated**: `CancelReachesFinalState` |
| `artifact_outbox` | 2 event ids, 1 run, 1 request, 1 handler, 2 sweepers, 2 attempts; 545 000 states | `RowHasBlob` without overlapping ingestions, `EventuallyDeleted` under fair sweepers |
| `artifact_overlap` | 1 event id, `Overlap = TRUE` | **violated**: `RowHasBlob` |
| `artifact_workspace` | 1 event id, 1 run that is deleted before the workspace | **violated**: `PendingHasJob` |
| `runner` | 3 cases, 2 slots, 1 retry, 2 messages, agents in threads; 722 000 states | `BoundedWaiting`, `ClosedLast`, `NothingNewAfterCancel`, `ImplementsRunReport`, `EventuallyOver` |
| `runner_threads` | same | **violated**: `BoundedAgents` |
| `recorder` | 2 tasks, 2 conversations, 2 turns, 3 spans, 1 handoff, 1 agent; 547 000 states up to symmetry | `ValidInGoodUse`, `TargetSettles`, `ImplementsHandoffLifecycle` |
| `recorder_declined` | 1 task, 2 spans, 1 handoff, 2 agents | **violated**: `StatusNeedsTarget` |
| `run_service` | 3 requests, 2 idempotency keys, 1 event, 1 client, 2 attempts, 2 cuts; 836 000 states | `AnswersAgree`, `NothingForgotten`, `StatusHasSource`, `IdsIncrease`, and `ClientLearns` under a persistent client |
| `run_service_final` | 1 request, 1 event that reports `failed` | **violated**: `FinalStatusStays` |
| `library` | the parts below; 301 300 states | see below |

The parts of `library`, each with an initial state of its own:

| Part | Instance | Properties |
|---|---|---|
| removal (`Workspace`) | two runs, one of them with rows of every table | `NeverRefused`, `DeletesExactly` |
| pages (`Workspace`) | three runs, two of them created at the same time; pages of 1 and 2 | `PagesExact` |
| http (`HttpAdapter`) | 2 cases, 3 addresses of which 1 is private, 1 retry, 2 attempts, 2 messages | `PinnedDestination`, `BoundedRequests` |
| fixtures (`Fixtures`) | suites of one fixture of each provider and flaw; one suite of three cases with three, two and no fixtures | `CleanedUp`, `ErrorsKept` |
| judgement (`Judgement`) | a suite for each kind of assertion, suites of two cases; traces that deviate in one or two ways from one that fulfils everything | `VerdictExact`, `RescoreFaithful`, `CompareExact` |
| datasets (`Datasets`) | files that include each other along a diamond and in a circle, missing, empty and flawed ones; three lists of ratios | `LoadExact`, `SplitExact` |

Each property of a passing run is broken by at least one mutant of the code's definitions (the operators commented as
faulty variants), so none of them holds by the shape of the model.

Each run also checks one type invariant. Why the bounds are enough. Conflicts in the queue are between two holders of one job (an old one and its
successor) and a canceller; a second job matters only because a batch has one job waiting while another runs. Two attempts give a
retry and a last attempt. In the outbox the conflicts are between ingesters of one event id, a removal and two deleters of
one object; the second id makes a removal take some artifacts and leave others, and a request and a handler are the two kinds of
ingesters. `OneObject` lets two sweepers work at the same time only on one object and before the deletion of the other is recorded: jobs of different
objects share nothing. In the runner three cases on two slots make one wait, one retry gives a first and a last attempt, and two messages give a
cancellation in the middle of a conversation. In the recorder three spans are the source of a handoff and two contenders for its target, or
a parent, a child and a span of another task, and two conversations and turns make the inner one differ from the outer one that has
to come back. `MisusedIsSmall` keeps the exploration of misused traces to two spans (one if a turn id is there twice): nothing is claimed about their validity.
In the service two requests race for one
key or use two, and one event, whose projection can be retried, races `execute_run`; a second event would race in the same way. The third request
replays a key whose job names the run of another. `FewAtOnce` keeps what does not interact apart: a client, which only reads, follows the run of a single
request, and the event comes with at most two; jobs of requests are retried, and the event reports something final, where there is one request. `InOrder` stands for
the symmetry of requests and keys, which TLC cannot use with temporal properties. A client that is cut twice has a connection that resumes one that resumed. The diamond of files is the smallest one with a file that is included twice; `MaxDrawn` keeps sampling to
datasets of four cases, `MaxSplitAgain` keeps a chunk of more than two cases from being split once more, and `FewWhenMany` keeps runs of two cases to four traces, because the two cases are independent until
they are compared. `MaxVersion` bounds how often a hold changes. The runs of the recorder, the service and the library switch the deadlock check off:
a program may stop recording, a service has nothing to do when requests and jobs are over, and the commands of the library end. Version numbers, attempts and effects need no bound of their own: the retry budget bounds
them. For the safety properties the proofs below remove the bounds.

### Disagreements between code and documents

* **A cancelled job can wait for ever** (`job_queue_cancel`). A cancel request that commits while a
  job runs is forgotten by `fail()`: the row goes to `retry`, `lease` and `request_cancel` skip it from then on.
* **A rolled-back ingestion can delete the object of a committed row** (`artifact_overlap`). Cleanup runs after the
  locks are gone and deletes by storage key; so does a late `artifact_delete` job.
* **Deleting a workspace deletes the jobs of pending deletions** (`artifact_workspace`): the trace is `delete_run`, which leaves an
  intent with its job, then `delete_workspace`, which deletes the job; the intent stays, nothing carries it out. The
  intents of failed rollback cleanups lose their jobs in the same way (`RunFirst` keeps this run to the first kind).
* **Timeouts do not stop in-process agents** (`runner_threads`): the slot is free, the thread works on, and more agents are
  at work than configured.
* **A declined handoff spoils its trace** (`recorder_declined`). The table of transitions lets a requested handoff fail
  or be cancelled before it has a target; the constructor and `Trace.validate` refuse a handoff in that state, so everything that
  validates afterwards raises.
* **A final status of a run is not final** (`run_service_final`). `_project_event` writes the status an event reports whatever the run's
  status is, and the jobs of one run have no order: here `execute_run` ingests an event that reports `failed` and sets the run to
  `succeeded`, and the projection of that event, which is processed next, takes it to `failed`. Streams end and clients stop polling at the first.

Three more places where the code does what its users will not expect. They have no run of their own: the model does what the code does, the
properties make an exception for exactly these cases, and the theorems of section 5 say what holds of them.

* **A turn id that two conversations use spoils its trace.** `_attach` (`recorder.py:265`) compares the id of a new turn with those of its conversation
  only; `Trace.validate` (`trace.py:703-709`) asks for ids that differ over the trace, and raises from then on. `ValidInGoodUse` counts this as misuse
  (`reused`); `ReusedTurnIdsLockTheRecorder` is what follows.
* **A payload's `run_id` takes the place of the inserted run.** `create_run` (`api.py:223`) lets the payload override the id it puts into the
  job: the response names the inserted run, a replay of the key names the other one, which is also the one the job executes. `AnswersAgree` and
  `NothingForgotten` say so.
* **Rounding turns an unsupported claim into a supported one.** `Citation.to_dict` (`trace.py:589`) rounds the support to four digits, and a claim
  is supported from 0.6 on: with 0.59996 the recorded trace is not grounded, and its copy, judged by the same policies, is. `RescoreFaithful`
  excepts these citations (`Borderline`).

### Fairness

*Queue.* Handlers end (weak fairness of a worker's step); a process that keeps being restarted polls again and again
(strong fairness of `RunOnce`, since crashes interrupt it); leases nobody renews run out and backoffs
elapse (weak). Nothing is asked of clients, crashes or live heartbeats. `main` loops for ever with a sleep, which is what
the fairness of `RunOnce` says. *Outbox.* The same facts at the level of the queue: a handler goes on, a ready job is leased
again and again, a job without a live holder is recovered. *Runner.* The event loop runs what is ready, the deadline
of each case fires, an interrupted task is resumed, `close` returns. Nothing is asked of the adapter, which may never answer.
*Service.* A client connects again when its stream ended early, as an `EventSource` does, and the loop of `status_stream` goes on (weak fairness of
`Follow`). Nothing is asked of workers, of requests or of the network, which may cut a stream `MaxCuts` times.

## 5. Proofs

All theorems hold for every value of the constants that the modules' assumptions allow, and TLC evaluates those assumptions on every
instance. Some theorems have a hypothesis of their own: `OutboxInvariance`, `RowsHaveObjects` and `DeletionsAreReal` assume `~Overlap`,
`IntentsKeepJobs` that no workspace is removed (`[][~SurveyWorkspace]_vars`), and `ConcurrencyBounded` `~Threads`. The violations in
`artifact_overlap`, `artifact_workspace` and `runner_threads` show that these cannot be dropped (for `DeletionsAreReal` the same overlap
lets a key that was deleted be stored again before its first deletion is marked).

Beside each violation of section 4 stands a theorem that says how far the code does keep the promise:

| Violated | What is proved instead |
|---|---|
| `CancelReachesFinalState` | `StalledUntilAskedAgain`: only `fail()` lets a cancelled job wait again, and only another cancel request ends that |
| `RowHasBlob` with overlap | `RowsHaveObjects`, `DeletionsAreReal`: without overlap every row has its object, and every deletion that is marked as done is |
| `PendingHasJob` | `IntentsKeepJobs`: it holds until the first removal of a workspace, overlap or not |
| `BoundedAgents` | `ConcurrencyBounded`: it holds of agents that stop with their task; `WaitingBounded` of all |
| `StatusNeedsTarget` | `DecliningLocksTheRecorder`: only an explicit transition declines a handoff, and what follows from it |
| `FinalStatusStays` | `NoLostUpdate`: a status, final or not, is replaced only by a handler that had read it |

And for each exception that a property makes:

| Exception | What is proved |
|---|---|
| a turn id in two conversations | `ReusedTurnIdsLockTheRecorder`: from then on nothing is valid; `TraceStaysValid` without it |
| a `run_id` in the payload | `IdempotentAnswers`: all replays agree, and agree with the first answer if its payload named no run; `RowsComeWithJobs`: the job names the inserted run or the one the payload named |
| a support that is rounded to 0.6 | `RescoreIsFaithful`: rounding changes no support by more than 0.00005, and only such a citation changes the violations, or a verdict that is not about violations |
| selectors, and words forbidden in one spelling | `VerdictsExact`: a good verdict still means that the trace fulfils its case |

**JobQueueProofs**: `TypeCorrect`, `Fencing`, `AtMostOneCommitter`, `EffectsAppliedOnce`, `LifecycleImplemented`,
`StalledUntilAskedAgain`.
`FencedWrites` is not inductive alone: that a worker with a current version still owns the row needs that every change of
owner, status or cancel flag increments the version. Lemma `RowsMoveForward` says so of each step. `IInv` adds what the columns of one row
have to do with each other (`RowOK`: running ⇔ owned, attempts within the budget), what a worker holds at each label (`HandsOK`)
and the same for requests (`RequestOK`). The refinement has one case for each action. `StallStep` says what a step may do with a job that waits with a
granted cancellation (`Stalled`); that a cancel request which commits is the one that was granted, and that a failing worker goes by the current
cancel flag, are `FencedWrites` again.

**ArtifactOutboxProofs**: `OutboxTypeCorrect`, `OutboxInvariance`, `RowsHaveObjects`, `IntentsKeepJobs`, `DeletionsAreReal`. The key notion is `Doomed(k)`: no
row refers to the key and no open transaction will commit one. `OInv` says that whoever may still delete an object (a
rolled-back ingester, a sweeper however late, an outstanding job) works on a doomed key, and that a staged key has its
object. A key leaves `Doomed` only through `Claim`, which by `~Overlap` waits until nobody is left to delete it; that is the step
where the assumption is used. `Paired` says that an intent is there exactly if its job is, and done exactly if it is; it needs nothing of
`OInv`, and only `delete_workspace` breaks it. `DeletedOK` says that a sweeper between the store's delete and its commit finds the object
still gone, which is where `DeletionsAreReal` uses `OInv`: nobody puts an object under a doomed key.

**AsyncRunnerProofs**: `RunnerTypeCorrect`, `AdapterClosedLast`, `CancellationStopsNewWork`, `WaitingBounded`,
`ConcurrencyBounded`, `RunReportImplemented`. The eight actions of a task are instances of one `CaseStep` (it touches its own case only, an outcome
comes with being over, `cancelled` comes with the request), so the invariant `RInv` and the refinement are proved
once for all of them. `RInv` says that a case with an outcome is over, that nobody interrupts a case that is over, and what must be over
before `run()` goes on. The bounds need in addition (`SlotsOK`) that an agent works only for a case that awaits `send`, which holds a slot, or was left
behind in a thread.

**RecorderProofs**: `RecorderTypeCorrect`, `TraceStaysValid`, `TargetsSettle`, `HandoffLifecycleImplemented`,
`DecliningLocksTheRecorder`, `ReusedTurnIdsLockTheRecorder`. That a trace stays valid
depends on what blocks will put back later, so `RInv` describes whole stacks. `Nested` says that blocks of a task lie inside
each other in the order conversation, turn, span; `PutsBack` that a block puts back a value exactly if there is an enclosing block of its kind;
`Restores` and `Coherent` that the current span and turn, and those that will be current again, belong to the current conversation and
turn. Two lemmas on sequences (`StackEntered`, `StackLeft`) carry this through a push and a pop; `AttachedValid` shows that a
new span whose parent is in the trace keeps the graph acyclic. What callers do wrong cannot disturb the rest of
`RInv`: contexts and blocks name spans that exist (`NamesPresent`), and a target that was entered belongs to a handoff that
was accepted (`BlockPresent`), from which the other theorems follow. A decline comes from an explicit transition because a block ends only a handoff
that was accepted; and it locks the recorder because every way into a span and every end of a handoff by its block asks `Valid` first.

**RunServiceProofs**: `ServiceTypeCorrect`, `IdempotentAnswers`, `RowsComeWithJobs`, `StatusComesFromHandlers`, `EventIdsIncrease`,
`NoLostUpdate`. `SInv` says that a key has one job (`KeysUnique`, which the insertion keeps because the constraint refuses a second one,
however stale the look-up was) and what a response, a run and an event have to do with the job of the same name: a job names the run of its
request or the one the payload named, and a response names the run of that job unless it is the one that inserted it.
For `StatusHasSource` the invariant must also speak of the rows that handlers have read: `SourceInv` says that every status of a run, *and every
status a running handler has seen*, is pending or was committed by a job that succeeded; a handler whose run has changed since fails on
the version. For `NoLostUpdate`, `ReadOK` says that a handler that holds the version of a run holds its row: versions only grow, and a run that
was removed is never inserted again, since its request is done (`SourceInv`).

**LibraryProofs**, on fixtures: `FixturesTypeCorrect`, `NoErrorLost`, `AlwaysCleanedUp`, `FixturesInvariance`, for suites of any size. `FInv` says
that the live fixtures are a stack, from 1 to what is prepared and not yet undone (`Stacked`), from which the reverse order follows,
and that the body of `run_many` fails at most once (`OneFailure`), without which the single slot for the primary error would lose one.
On the HTTP adapter: `HttpTypeCorrect`, `DestinationPinned`, `RequestsBounded`, `HttpInvariance`. `Counted` relates the requests of a case to
where it is: `Spent(t, h)`, the requests of the attempts and messages before, plus those of the current message. `Guarded` says that only the
holder of the lock is resolving, and only while there are no addresses; so there is one answer for all connections. On the composition: `PartsImplemented` says that a
behaviour of `MCLibrary` is one of each of its five modules, so that their theorems hold of it; `LibraryTypeCorrect` is one consequence.

**WorkspaceProofs**: `WorkspaceInvariant`, `WorkspaceTypes`, `NoRemovalRefused`, `ListingsExact`, `ForeignKeysHold`, `RemovalsExact`, for any rows,
foreign keys, groups of rows and page sizes that `WorkspaceAssumption` and `ReferenceAssumption` allow: rows refer to rows where the migration has a
foreign key, and an artifact is named by at most one event (an ingestion makes one for its event only). That no statement is refused
needs that committed rows refer to committed rows (`Integrity`, and that of the rows a removal has left), and, for `delete_workspace`, that
the tables emptied so far stay empty and the order of the tables goes from the referring to the referred (`EmptiedSoFar`, `EventsFirst`).
That a removal of runs deletes exactly what it was asked for is two inclusions around one set: `Reach(due)`, the rows that refer to what is
due and the artifacts they name. It is closed under the foreign keys *because an artifact belongs to one event*, so no cascade leaves it (`Within`);
conversely what is gone at the commit is closed and has everything that was queued (`AllCovered`). A listing is exact because the
cursor is a place in a total order that insertions and removals do not move (`ReaderInv`).

**SuiteProofs**: `JudgementInvariant`, `JudgementTypes`, `RescoreIsFaithful`, `ComparisonsExact`, `VerdictsExact`, for any suites, agents, policies and edits
of the suite's file. `JInv` follows a run by its plan, the ids of the cases that were run and of those that are still to run: recording moves an
id from one part to the other, so a suite without a repeated id gives a run without one (`Once`), and a replay, whose plan is the part of the
suite that the recorded run covers, runs exactly those cases. A comparison accounts for the difference because both scores are functions of the
ids they share, and `fixed` and `regressed` are the two halves of the difference of their good ids. The verdict agrees with the assertions
case by case over the kinds of assertions; the one that needs more is latency: while the sorted intervals are merged, the sum and the last
stretch measure what the intervals so far cover (`Measures`), whatever their order among equal starts, so the code's number is the cardinality
of the set of instants that the property counts (`CoveredExact`); without coordinates both are the greatest duration (`LongestExists`). `VerdictExact` excepts two kinds
of assertions from one of its directions, and says which: those with a selector, and words forbidden in one spelling (`ForbidsSpelling`). That `rescore` and `compare`
read what was rounded enters through `RoundingExact` and `LoadedExact`: a support stays on its side of 0.6 unless it is `Borderline`, and the ids of a run stay.

On datasets: `LoadsExact`, `SplitsExact`, `DatasetsTypes`, `DatasetsInvariant`, for any finite set of files with any includes, and any ratios
that are not negative (`DatasetsAssumption`). `Calls` says of every call of `load_dataset` that is under way what it has been through: a set of
files that is closed under includes, has no circle and is reached from the root, whose cases are what the call has gathered (`Through`). A call
returns when its own file can join that set, which it can because a file in a circle would already be in it, by closure; so what the first call
returns is closed and reached, hence what is reached (`AssembleEnds`). Conversely the calls are a path of includes, so a file that is
met again lies on a circle (`CircleCloses`). As no file is loaded twice at a time there are at most as many calls as files (`Depth`), and
`Reached` may stop there. The chunks of a split are cut between boundaries that are all rounded values of one growing fraction, the last one
included (`BoundaryRounded`), so they grow, leave nothing out (`ChunksJoined`), and differ from their share by two halves at most
(`HalfAndHalf`). The cases are shuffled before, so what is left to say is that each is in the chunks as often as in the dataset (`Shuffled`, `SplitFair`).

Induction over data. The theorems of the library on induction and recursion take operators as parameters, which no installed prover can
instantiate. Where a proof needs one (chains of references and of includes, comprehensions, joined lists, sums, merged intervals, the order of a listing, the number of dependents) it
is made from `WFMin` on the relation `<`: a set of numbers that is not empty has a least one (`LeastNumber`, in `WorkspaceProofs` `LeastOf`), so a set with 0 and the successors of its members has
all numbers (`Numbers`, `EveryNumber`); that a recursive function over `0..n` exists is proved in the same way, for one function at a time.

Only model-checked: the liveness properties (`EventuallySettled`, `OrphansReclaimed`, `EventuallyDeleted`,
`EventuallyOver`, `ClientLearns`), which depend on fairness and so on ENABLED. Every invariant and every other
property of the passing runs is proved.

## 6. Not modelled

* SQLite, on which `FOR UPDATE SKIP LOCKED` is ignored: the queue is modelled as on PostgreSQL.
* A commit whose acknowledgement is lost; several events in one session. Batches of removals that deadlock on row locks.
* The handlers `_evaluation`, `_export` and `_import` beyond the events they ingest: they write rows that nothing reads again. Artifact downloads,
  audit events, authentication, tenancy and input checks of the API.
* In the recorder: events, messages and other records that are only appended, the status of conversations, turns and
  spans (nothing reads it), limits on payloads, and the files traces are written to.
* In the HTTP adapter: templates, the mapping of fields, signatures and injected transports. The Foundry, webhook, JSONL and import adapters,
  which translate documents and calls of a cloud SDK.
* In the fixtures: `FixtureManager.run`, which only tests call, what snapshots contain and how two are compared.
* Of evaluation: ensembles, the cache, human review, the judge that calls a language model;
  the parsing of suites, JSONPath, templates and JSON Schema, of which only the outcome is modelled.
* Stability statistics: intervals, Fleiss' kappa and sequence distances are floating-point formulas over finished results. TLC has no
  reals, and there is no state.
* Conversions: OpenTelemetry import, migrations of traces, reports, serialisation, redaction, formatting, the command line's arguments. Columns and
  indexes of the database's migration.
* Azure Blob storage (of a store the outbox needs only what both stores share), the wiring of the server, the operator's shell commands,
  the demonstration agents.
