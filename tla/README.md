# A TLA+ model of the Frieren bot

Frieren is a QQ bot: a single-process `asyncio` program that receives events from a OneBot
gateway, runs plugins and an LLM agent, and keeps its durable state in SQLite and on disk.
This directory specifies the parts of it whose correctness depends on *when* things happen:
what a crash between two commits leaves behind, what recovery makes of it, what two
coroutines of the event loop may do to the same rows, and what a tick, a deployment or a
retry may repeat or forget.

## The system and what makes each part correct

| Component | State it keeps | Operations | What is hard | What makes it correct |
|---|---|---|---|---|
| Durable runtime (`core/runtime/store.py`, `controller.py`, `llm/invocation_store.py`) | rows of `tasks`, `task_runs`, `run_steps`, `tool_invocations`; the set of running coroutines | `create_task_run`, `execute_run`, `submit`, `wait`, `resume`, `cancel`, `shutdown`, `recover` | three commits to close a run; crash between any two; recovery judged by the newest invocation; `cancel` and `resume` only write rows | writes are not repeated, an interrupted write is not replayed, finished runs stay finished, interrupted runs end or reach a human |
| Tool executor, agent loop, agent service (`llm/tool_executor.py`, `agent_loop.py`, `agent_service.py`) | invocation rows, result cache, per-tool circuit breakers | one tool call: catalog and view checks, idempotent reuse, validation, cache, execution with a timeout | a retry of a write that succeeded; a cancellation in mid-call; breakers shared by concurrent runs | the invocation row tells the truth about the effect |
| Scheduler (`core/runtime/scheduler.py`) | rows of `schedules`; runs created for them | `create`, `set_enabled`, `delete`, `tick`, `start`, `stop` | misfires after a restart, a concurrency limit in the middle of a catch-up, a crash between a run and `advance` | limits hold, no point is started twice or lost without a reason, due schedules are served |
| Plugin deployment (`control_plane/_deployer.py`, `_coordinator.py`) | `plugins/`, `.staging/`, `.plugin_backups/`, rows of `plugin_deployments`, cached reports | `stage`, `deploy`, `rollback`, `recover_on_boot`, `execute`, `recover_pending`, `reconcile` | directory renames and commits interleaved with crashes; activation awaits; idempotency by deployment id | no package is lost; rows, files and the running plugin agree once things are quiet |
| Control plane service (`control_plane/service.py`) | `control_proposals` | propose, `approve_and_apply`, `reject`, compensation | approval checked before an await and used after it; compensation of a failed step | a proposal is applied at most once; a failed one leaves no trace |
| Plugin runtime (`plugin/runtime.py`, `lifecycle.py`, `scope.py`, `topology.py`, `registry.py`) | generations of plugin objects, managed and published ones, scopes, tasks | `activate`, `reload_plugin`, removal, `_start_plugin`, `_stop_plugin`, shutdown | hooks that await, raise or time out half-way; other plugins and events in between | closed scopes are silent, retired generations are stopped, dependencies come first |
| Message bus (`core/message_bus.py`) | subscriptions, by name | `subscribe`, `unsubscribe`, `dispatch`, `emit_and_wait` | a dispatch works on a copy while subscriptions change; exceptions are swallowed | one generation per event and name, failures are seen by the caller |
| Event bus and journal (`core/event_bus.py`, `message_store.py`) | `event_journal`, `messages`, `message_segments` | `record`, `recover_unprojected`, `record_bot_message` | two commits per message; the same message live, from the bot, from history and by replay | what is marked projected is stored, what plugins got is stored |
| History synchronisation (`core/history/service.py`, `adapters/qq/history_gateway.py`) | `conversation_sync_state`, `sync_gaps` | `sync_recent`, `sync_conversation`, `query` | pages fetched over awaits while messages arrive and another sync runs | pages leave nothing out, completeness means completeness |
| Action queue (`plugins/action_queue.py`) and QQ API client (`core/api_client.py`) | duplicate marks, time stamps, semaphore | one call through block, bypass, duplicate check, rate limit | three waits under one semaphore, cancellation in each | calls keep their distance, no waiter is forgotten |
| Artifacts (`core/artifacts/`) | `artifacts` rows, files named by hash | discover, materialize, import, send, fail | concurrent fetches, shared content, crash between file and row | a stored path names a complete file |
| Agent sessions (`llm/session_manager.py`, `agent_loop.py`, `circuit_breaker.py`, `plugins/llm_gate`) | cache over `sessions`, message lists, one breaker | get or create, the turns of the loop, save, shutdown, recover | runs cut in the middle of tool results; a breaker shared by concurrent runs; expiry | requests are well formed, ended runs are saved |
| Config center (`core/config_center/`), prompt registry (`core/prompts/`) | configuration in memory, `runtime_settings`, `settings_versions`; prompt part and manifest | `replace_config`, `init_db`, load, replace | two commits per change, another database for the proposal, two files per prompt, compensation after an await | a version names one configuration, what was applied stays, the runtime follows |

The rest (LLM provider, content guard, memory table, sandbox, skills, search, web, workspace,
filters, health, logging, example plugins, CLI) is I/O, parsing or lookup with
little control of its own; `PROJECT.json` lists it with the reason.

How the parts interact. A QQ event is journalled, put on the bus and reaches the plugins and
`agent_service`, which opens a run with `create_task_run` and executes it itself. The
scheduler opens runs too, and hands them to `DurableRuntime.submit`. Both drive the agent
loop, whose tool calls go through the executor; a tool may send messages (through the action
queue), query the history (which may synchronise it), fetch artifacts, or create proposals and
schedules. An approved proposal changes the configuration, a prompt, or a plugin, and a plugin
is exchanged by the plugin runtime while events go on being dispatched. At boot `Bot.start` projects unprojected events,
activates plugins, recovers deployments, recovers runs and submits those left `CREATED`, and
then starts the scheduler with a recovering tick.

## Modelling conventions

* Everything runs on one event loop. An action is one commit, or one return from an `await`.
  Between two commits of the same synchronous stretch no other coroutine runs, but the
  process may die: `Crash` is enabled at every such point.
* The database keeps what was committed; coroutines, locks and caches vanish.
* `NULL` is an absent row or column. Identifiers are model values or positions.
* Variables called *history* are not in the code; they record what a property must talk about.
* Definitions commented *faulty* or *mutant* are bugs the properties are known to catch. No
  action uses them.
* A component is modelled in the module named for it; where two meet (the scheduler and the
  runs, deployments and the runtime that activates them, configuration and plugins), each
  module has the part of the other it depends on, reduced to the outcomes it can have.

## Modules

### `DurableRuntime` (state, actions)

Rows: `task`, `run`, `token`, `steps`, `inv`. A task has exactly one run, so `r` names both.
Process: `phase`, `boots`, `pending` (active runs `recover()` has not come to), `owed` (the
`update_task` that follows an `update_run`). Coroutine of each run: `pc`, `owner`
(`agent_service` or `execute_run`), `root` (its own step), `cur`, `calls`, `outcome`,
`cancelled`. History: `lost` (writes in flight when the coroutine died), `answered`.

| Actions | Code |
|---|---|
| `CreateTask`, `CreateRun` | `create_task_run`, its two commits |
| `StartTask`, `StartRun`, `OpenStep`, `NoHandler` | `execute_run` and the same prologue in `agent_service` |
| `RequestTool`, `CloseToolStep` | `AgentLoop._execute_tools` |
| `ReuseResult`, `BeginRejected`, `BeginInvocation`, `Reject`, `CacheHit`, `RunTool`, `ToolReturns` | `ToolExecutor.execute` |
| `Answer`, `LoopEnds`, `ServiceRaises`, `CloseRun`, `CloseTask` | the end of the loop and of the run |
| `Shutdown`, `ThrowCancelled`, `Exit`, `Crash` | graceful stop and sudden death |
| `Restart`, `RecoverSucceeded`, `RecoverRetry`, `RecoverQuarantine`, `RecoverByStatus`, `SubmitRecovered` | `RecoveryController.recover` and the submission in `Bot.start` |
| `Wait`, `Resume`, `Cancel` | the runtime's control operations (enabled by `ControlOps`) |

`Turn(r)` says that the coroutine of `r` may run: nobody else is inside a stretch without
awaits. Tools are kept apart by one bit, `Writes`: the tools that are not `read_only`, which
are exactly those the catalog makes idempotent. The invocation statuses `denied` and
`invalid` are one value; `PLANNING`, a task status no code writes, is left out.

### `RunLifecycle`

The promise behind it, without rows or commits: a run is absent, queued, active, held or
done, and a run that was cut in the middle of a write is tainted and never active again.
`DurableLifecycle` maps rows and program counters of `DurableRuntime` to those five states and
states that it implements the promise (`ImplementsRunLifecycle`), which TLC checks and
`DurableRuntime_proofs` proves.

### `Scheduler`

`sched` is the table, `runs[s]` the runs created for a schedule as far as the scheduler can
see them (finished or not; with a live coroutine or not), `ticking`, `todo`, `current` and
`left` the local state of a tick. `BeginTick`, `PassOver`, `Plan`, `StartOccurrence`,
`Advance` and `EndTick` are the steps of `SchedulerService.tick`; a tick never awaits, so
only `Crash` comes between them. `Occurrences` and `NextRun` are `_due_occurrences`,
with its two modes: the ordinary one (up to `max_catch_up` points) and the recovering one
(fast-forward for `skip` and `run_once`). `Restart` does to the runs what `DurableRuntime`
does: an interrupted run is requeued or quarantined, one left `SCHEDULED` is not submitted.
Cron schedules are interval schedules here, since only the distance of the points differs;
event schedules are never due, and `trigger_event` has no caller.

### `PluginDeploy`

One plugin. `target`, `staging`, `backups` and `guard` are directories (the version they
hold), `rows` is `plugin_deployments`, oldest first; `running` is what the plugin runtime
publishes and `reports` the coordinator's cache. `pc`, `op`, `before`, `dep` and `draft` are
the locals of `approve_and_apply` and of what it calls; `phase` and `todo` belong to the
recovery in `Bot.start`. History: `was` (disk and rows when the proposal was approved) and
`replaced` (what row *d* found in the live directory).

| Actions | Code |
|---|---|
| `Approve` | the start of `approve_and_apply` |
| `CandidateChanged`, `Stage`, `DeployAgain`, `InsertDeployment`, `MoveAway`, `MoveIn`, `FilesSwitched`, `Supersede` | `_apply_plugin_install` and `PackageDeployer.deploy`, one rename or commit each |
| `DeployFails`, `Undo`, `MarkFailed`, `Settle` | the unwinding of a rename that failed |
| `KeepGuard`, `RemoveCurrent`, `RestoreBackup`, `RolledBack` | `_create_rollback_guard`, `PackageDeployer.rollback` |
| `Request`, `Execute`, `Applied` | `create_operation_request`, `DeploymentCoordinator.execute`, the end of `approve_and_apply` |
| `Compensate`, `PutBackBackup`, `PutBackGuard`, `PutBackRows`, `Reconcile` | `_compensate_plugin_operation` |
| `Crash`, `Restart`, `ClearTarget`, `RecoverFiles`, `CommitRecovery`, `RecoverPending`, `Booted` | sudden death; `recover_on_boot` and `recover_pending` in `Bot.start` |

What it abstracts. Installations are approved one at a time, so the coordinator's lock is never
contended here (`Settings` has approvals side by side). A version has one content:
`deploy` refuses a second one for a live deployment. `installed_at` orders the rows strictly
(the column counts seconds). A guard directory left by a crash is named after its proposal
and never used again, so `Crash` drops it. `plugin.state` proposals and
`disabled_plugins` are in `Settings`. `PluginRuntime.reload_plugin` (whose steps are in the module
`PluginRuntime`) either activates what is in the directory,
keeps the old instance, or stops it when there is no package.

### `PluginRuntime` and `LoadOrder`

`LoadOrder` is `TopologyResolver.resolve` as a recursive function, a turn of its loop at a time:
Kahn's algorithm over the candidates, which skips missing, incompatible and cyclic dependencies.
`PluginRuntime` uses it at boot. A plugin object is a plugin and a generation; `object` has its
state, scope and tasks, `plugins` is what the runtime manages, `published` what the registry
shows, `subs` what the bus would call, `flight` what is left of the copy a dispatch walks over.
`pc` and `op` are the operation under way on a plugin, which holds the coordinator's lock of that
plugin.

| Actions | Code |
|---|---|
| `BootNext`, `BootImportFails`, `BootPublish` | `activate` |
| `Register`, `PrepareFails`, `SetupDone`, `StartDone`, `HookFails`, `Compensated`, `Undrained` | `_activate_one`: `_prepare_plugin`, `_start_plugin`, and what they undo |
| `Reload`, `ReloadImportFails`, `Remove`, `StopFailed`, `FailedDrained`, `StopOld`, `Drained` | `reload_plugin`, `_stop_plugin`, `ResourceScope.close` |
| `StartTask`, `Arrive`, `Handle` | `TaskSupervisor`, `MessageBus.dispatch` |
| `ShutDown`, `ShutDownNext`, `ShutDownDone` | `shutdown` |

`degraded` and `PluginRuntime.reload` are left out (`record_handler_error` and
`Bot.reload_plugins` have no caller), as are the queue of the bus (`emit`, `flush`), priorities and
filters.

### `EventJournal`

One private conversation; a message is its position. `said` is the conversation as NapCat has
it, `inbox` what the client has yet to yield, `journal`, `messages` and `segments` the tables,
`gaps`, `cursor` and `complete` the state of synchronisation, `sync` the locals of the sync at
connection and of one a query starts, `recording` what the running coroutine has still to write
before its next await. `handled` is history.

| Actions | Code |
|---|---|
| `Journal`, `Project`, `ProjectFails` | `MessageStore.record` with its two commits, `_project`, `record_history_batch` |
| `Crash`, `Boot`, `Replayed` | `recover_unprojected` |
| `Connect`, `Listen`, `Disconnect` | `Bot._event_loop`: `sync_recent` before the first event |
| `Say`, `Receive`, `Dispatch`, `Discard`, `Send`, `Sent` | `EventBus.dispatch`, `record_raw_event`, `ApiClient` and `record_bot_message` |
| `Query`, `Page`, `PageFails`, `CallRaises`, `EndPage` | `query`, `sync_conversation`, the gateway, gaps and cursor |

An event's contents are reduced to where its segments come from, which is what merging a second
copy of a message can get wrong. The limit of 1000 rows of a replay is not reached. `trim` has no
caller, notices and the full-text index are left out.

### `MessageArchive`

The promise behind it, without commits, replay, pages or connections: a row is accepted, then
stored; what is stored of a message is completed and never replaced (live stays live, segments
once there stay, so does whose message it is); plugins get a message at most once, in the order of the
conversation, and only when its live row is stored (`event_bus.py:287`: "Route only after durable
event and message projection commits"). `EventJournal` maps its tables to it (`Archive`): `accepted` and
`projected` are the states of journal rows, and a stored message is its row *with the segments
joined from their own table* (`Shown`), so the two tables cannot tell different things unnoticed.
`ImplementsArchive` says that `EventJournal` implements it.

### `ActionQueue`

Ages instead of time stamps; `Accept`, `Bypass`, `Acquire`, `Wake`, `Return` and `Cancel` are the
stretches between the awaits of `process` and `_acquire_rate_limit`. A sleeper may wake late.
`called` and `groupCalled` observe the calls; the code has only the stamps.

### `ArtifactTable` and `Artifacts`

`ArtifactTable` has what `ArtifactStore` keeps, rows and files, and the promise about them;
`Artifacts` the coroutines that write them.

`Record`, `RecordCrash` (discovery with the message), `Materialize`, `Resolve`, `Import`, `Commit`,
`Fail`, `Upload`, `Cancel`, `Crash`. The file gets its name by `os.replace`, so `disk` holds complete
files only; `Import` and `Commit` are apart because the process may die between file and row.

### `Sessions`

`cache` and `row` hold a session, `run` the locals of a trigger. A message list is reduced to two
facts: whether every tool call before its last assistant message has its results (`whole`), and
how many calls of the last one lack theirs (`open`). `Trigger` is what `llm_gate`, the agent service
and the loop do up to the first request; `Text`, `NoText`, `AskTools`, `ToolDone`, `Final`, `Sent`, `Close`,
`Raise` are the loop and its end; `Stop`, `Shutdown`, `Crash`, `Boot` the process. Live messages are
handled one after the other, scheduled prompts beside them under keys of their own. `prune` and
`remove` have no caller.

### `Settings`

`config` and `version` are the config center's memory, `stored` and `versions` its tables, `file` the
configuration file (edited only while the bot is down), `disk` and `registry` a prompt and its
loaded copy, `proposal` the other database, `approval` the locals of each `approve_and_apply` under
way. Every kind of proposal has its path: `ApproveSettings` / `Components` / `Undo` /
`UndoComponents`; `ApproveState` / `Begin` / `ReloadDone` / `Compensate` / `ReconcileDone`; `ApprovePrompt`
/ `WriteManifest` / `Load` / `RestorePart` / `RestoreManifest`; all end in `Decide`. `Record` is the second
commit of `replace_config`. Dotted paths, redaction, and profiles that inherit prompts are
abstracted.

## Runs

| Run | Instance | What it shows |
|---|---|---|
| `runtime_recovery` | 1 run, a write and a read, 1 call per execution, 2 restarts | idempotent reuse, quarantine only with a cause, success only over a closed step, and (under fairness) that a recovered run ends or waits for a human |
| `runtime_interleaving` | 2 runs (symmetric), a write, 1 restart | task and run agree, finished runs stay finished, refinement of `RunLifecycle` (so an interrupted write is never replayed) |
| `runtime_control` | 1 run, `wait`, `resume` and `cancel` at any time | the two write properties survive control operations |
| `scheduler_ticks` | 1 schedule of any kind, policy and concurrency 1 or 2; 5 instants; 1 restart | the concurrency limit, no point twice, once is not lost, points dropped only for lack of room, recovery reaches the future, due schedules are served (fairness) |
| `deploy_crashes` | 3 versions, two of which (symmetric) may fail to activate; 3 deployments; 2 restarts | recovery finishes or undoes a deployment, the package it replaces is always on disk, an applied install runs, failed installs and rollbacks are undone |
| `plugin_reload` | 2 plugins with a clashing handler name, one with 2 versions and a task, any dependency graph; 3 generations; 1 event | closed scopes are silent, retired generations are stopped, an event meets one generation per name, dependencies are activated first; no operation blocks another for ever (deadlock is checked) |
| `reload_loses_handlers` | the same | violated: see Findings |
| `history_sync` | 2 messages, pages of 1, 2 pages per sync, 2 boots; message 2 comes bare from history | projected rows are stored with the right segments, handled messages are stored, a sync leaves nothing out between its pages; refinement of `MessageArchive` (so recovery and history hand nothing on again) |
| `action_queue` | 3 callers, 2 groups, 5 kinds of request, interval 1, cooldown 3, delay 1, window 2 | calls are spaced whoever is cancelled when, and (fairness) every waiter gets its turn |
| `artifact_fetches` | 2 artifacts of one content, 3 coroutines (symmetric), 2 crashes | every stored and every uploaded path is a complete file |
| `agent_sessions` | 1 group chat, 1 scheduled prompt, 2 turns of up to 2 calls, limits 2, 3 triggers, 1 stop or crash, expiry after 1 instant | requests are whole unless a run was cut short before, ended runs are saved, errors of earlier runs do not trip a run |
| `settings` | 2 proposals out of settings (one value refused), states of 2 plugins, a prompt; 2 approvals at once; 1 crash, 1 edit, 1 rejection | what was applied stays in effect, versions name one configuration, the runtime follows the configuration, prompt text and version belong together |

Why the bounds are enough. Runs do not share rows, and what one can do to another is to
occupy the event loop, so two show the interleavings. Recovery depends on the newest
invocation and on whether a step is open; one call per execution and two restarts give
successful, failed, timed-out, interrupted and repeated calls, also across two recoveries
(each execution after a restart adds one call to the same run). Four
instants after the first exceed `MaxCatchUp = 2`, so a tick can leave points for the next
one; concurrency 1 and 2 lie below and at that limit.

A deployment refers to one earlier one, so three rows give a chain of two. With two versions only,
the third deployment would have to be of a version that is installed or was before, which hides what
a crash can leave (see `OneIsLive` below); three versions, two of them flaky, give every outcome of an
activation with something different to fall back to. The second restart interrupts the recovery of
the first.

A reload looks at the object it replaces and at the snapshot from its start; three generations
give a reload after a reload, a failed one after a good one, and reloads of both plugins at
once. Two messages with pages of one make a sync await between pages while the other message
arrives live, from the bot or by replay; the second boot replays what the first crashed on.
Three callers make one hold the semaphore, one wait, and one come later; the cooldown is longer
than interval and delay, so each of the three waits can be the longest. Three coroutines let two
fetch while a third sends. Two tool calls per turn are the least where a turn can be left
between results; two turns with limits of two let a breaker trip in the first turn, in the
second, or by a concurrent run. Two approvals interleave in every order at the two awaits of a
reload, and the crash falls between any two of the four commits.

Symmetry is used in `runtime_interleaving`, `artifact_fetches` and `settings`, none of which has a
liveness property.

Deadlock is not checked where the system may be at rest (no event arrives, the bounds on calls,
time and restarts are reached); it is checked in `plugin_reload`, where a
reload that could not end would show as one (in `action_queue` time goes on whatever happens).

## Fairness

* `WF` on every coroutine step, on recovery, on `CloseTask` and on `Exit`: the event loop runs
  what is ready; tools are awaited with a timeout and LLM requests with a client timeout, so
  every await returns.
* `WF` on `Restart`: a supervisor (Docker restart policy) starts the process again.
* In `Scheduler`, `WF` on the steps of the tick (the loop sleeps `poll_interval` and ticks
  again) and `SF` on the runs: a run's coroutine is not ready *during* a tick, but ticks are
  instants between which the loop serves every ready coroutine.
* In `ActionQueue`, `WF` on the clock and on `Acquire` and `Wake`: the loop wakes sleepers and the
  semaphore is first come first served. Nothing is assumed of NapCat's answers.
* `PluginDeploy`, `PluginRuntime`, `EventJournal`, `Artifacts`, `Sessions` and `Settings` state safety
  only and assume no fairness.
* No fairness on messages, schedules, crashes, shutdowns or control operations.

## Proofs

`DurableRuntime_proofs` proves for any number of runs, calls, tokens and restarts and any
choice of control operations:

* `TypeCorrect`: `Spec => []TypeOK`.
* `SuccessfulWritesAreNotRepeated`: `Spec => []NeverRepeatsASuccessfulWrite`.
* `InterruptedWritesAreNotReplayed`: `Spec => []InterruptedWriteNeverReplayed`.

Assumptions: those named in `DurableRuntime` on its constants, which TLC evaluates.

The argument. None of the invariants is inductive by itself, `IInv` is. For each run it says
(a) the positions a coroutine holds (its root step, its newest invocation) exist while its
program counter is where they are used; (b) the newest invocation belongs to the current call
and has the status the program counter implies, and while a write is being executed no
success of it is recorded; (c) a run with a lost write has an open step, and its newest
invocation is that write, still `running`. Part (c) is what makes quarantine permanent:
`recover()` decides by the newest invocation, only an executing coroutine appends one, and a
run with (c) is never submitted. `wait`, `resume` and `cancel` only change the run's status,
which (c) does not mention; that is why the theorem holds with them. One lemma per action
shows that it preserves `IInv`; the lemmas about `SetStep`, `AddStep`, `AddInvocation` and
`SetInvocation` say what the store's writes leave alone.

The same module proves, for the same constants but `ControlOps = {}` (`wait`, `resume`
and `cancel` write a run's row behind its coroutine's back):

* `RuntimeImplementsLifecycle`: `Spec => ImplementsRunLifecycle`.
* `TerminalTasksAgree`: `Spec => []TerminalTaskAgreesWithRun`.
* `SuccessHasItsStep`: `Spec => []SuccessClosesItsStep`.
* `QuarantinesHaveCauses`: `Spec => []QuarantineHasACause`.
* `FinishedRunsAreLeftAlone`: `Spec => FinishedRunsStayFinished`.

It builds on `IInv` with a second invariant, `LifeInv`. `OneHolds` and `Debt` are the event loop:
one coroutine is between two commits, and when a task row is owed none is, and the run row
already says it. `StatusInv` gives the rows each program counter can meet; `WorkInv` what a run
that waits, executes or succeeded has among its steps and calls (behind the loop's own step there are
only tool steps, so the step it closes is the one a reader looks for). For each action one lemma shows
that it keeps both for its run and does to the run one of the moves of `RunLifecycle` or none
(`Change`); `OneRunLife` and `AbstractRun` make that a step of the whole. `Start` of the abstract
specification asks that the run is not tainted: that is where `LostIsIdle` of `IInv` is needed.

`Scheduler_proofs` proves for any number of schedules and restarts, any period, catch-up limit
and set of concurrency limits:

* `SchedulerTypeCorrect`: `Spec => []TypeOK`.
* `ConcurrencyIsLimited`: `Spec => []AtMostMaxConcurrency`.
* `PointsAreNotRepeated`: `Spec => []NoPointTwice`.
* `OnceIsKept`: `Spec => []OnceIsNeverLost`.
* `PointsAreDroppedOnlyWhenFull`: `Spec => DropsOnlyWhenFull`.
* `RecoveryGoesToTheFuture`: `Spec => RecoveryReachesTheFuture`.

Again one inductive invariant, a conjunction per schedule. `RoomInv` adds to the limit that
there is room for one more run wherever the tick is about to create one. `PlanInv` says that
the points still to be started lie between `next_run_at` and the value it will get, in order;
`PlanFacts`, arithmetic over `Occurrences` and `NextRun`, establishes it when a tick comes to
a schedule. `OrderInv` puts the runs there are before the points still to come, so a new run
is always the latest; a crash in the middle of a schedule breaks it, and exactly then the
schedule is in `torn`. `OnceInv` follows a `once` row from `next_run_at` to the run.
`SameKeepsSchedInv` and `MovedOnKeepsSchedInv` deal with the schedules an action is not about.

The two action properties rest on a second invariant, `JInv` (TLC checked it on the configuration
of `scheduler_ticks` before it was proved). `CoverInv`: each point of the plan has its run or is
still to come, or the schedule is full; at `Advance` nothing is to come, so a point passed without
a run means that there was no room. `BootInv`: while the recovering tick is under way, a due `skip`
or `run_once` schedule is one the tick has yet to come to, the one it is at, or full.
`AdvanceFacts` has the arithmetic: a row that is fast-forwarded gets its next time after now.

`ActionQueue_proofs` proves for any callers, groups, requests and times:

* `CallsKeepTheirDistance`: `Spec => CallsAreSpaced`.

`HolderInv`: only the holder of the semaphore sleeps, so one caller reads and sets the clocks at
a time. `WaitInv` says for each of its three sleeps what has passed already and that the timer
lasts until what it sleeps for has passed: after the interval, the cooldown and the delay the
stamps read before the first sleep are still the newest. `StampsAreCalls`: a stamp is set only
where the call is made.

`EventJournal_proofs` proves for a conversation of any length, any page size, any messages
without segments and any number of crashes, boots and failing commits:

* `ProjectionsAreStored`: `Spec => []ProjectedIsStored`.
* `HandledMessagesAreStored`: `Spec => []HandledIsStored`.
* `JournalTypeCorrect`: `Spec => []TypeOK`.
* `PagesAreGapless`: `Spec => []PagesLeaveNothingOut`.
* `JournalImplementsArchive`: `Spec => ImplementsArchive`.

`MergedFacts` says that the upsert never turns a live message into another and a row of a live
event always into a live one; `LiveInv` that a live event is one row, which the archive has when
nothing of it is left to record, so `Dispatch` hands on only what is stored. For these two a page
may hold any positions: their proof needs nothing of NapCat's answer.

Types and pages rest on a second invariant, `JInv` (TLC checked it on the configuration of
`history_sync` before it was proved). `SyncInv`: a sync that is under way has pages left, before its
first page it has passed nothing and where it began may not be the end of the conversation any
more, and after it everything above its anchor is journaled. `FetchInv`: while its page is recorded,
the page is the one NapCat answers with, and each of its messages is journaled or still to come; a
message whose projection fails is journaled already. `PageFacts` closes the step to the next page:
a page is an interval that ends at the anchor, or is so short that the sync stops.

The refinement needs a third, `AInv` (checked by TLC in the same way). `OrderInv` and `EventInv`: what
plugins have is before the event under way, which is before what the client has still to yield; a
crash or a lost connection drops events, and replay and history give plugins none, so the next event
is always a later one. `JoinInv`: the two tables agree on every message, also on those a failed
projection left unmarked. `HalfInv`: the second commit finds the row the first one made. `NextA` then
shows each step to be one of the archive or none: `Journal` accepts, `Project` stores
(`MergedCompletes`: the upsert only completes), `Dispatch` delivers, all others stutter.

At its end the module proves, with `Fetches` an instance of `Artifacts`, for any artifacts,
contents, coroutines and crashes:

* `StoredPathsAreOnDisk`: `Fetches!Spec => []PathsAreOnDisk`.

`PathsAreOnDisk` speaks of rows and uploads; what makes it inductive is what a coroutine will
rely on after its next await (`FetchingInv`): between the rename and the update of the row its
content is on disk, and a path `send()` is about to hand out is one. Nothing removes a blob, so
it stays true whatever other coroutines, cancellations and crashes do.

`Settings_proofs` proves for any settings, plugins, prompts and proposals, any number of
approvals side by side, crashes and edits of the file:

* `SettingsTypeCorrect`: `Spec => []TypeOK`.
* `SnapshotsAreTrue`: `Spec => SnapshotsNameTheirConfig`.
* `PromptsWhole`: `Spec => []PromptsAreWhole`.
* `RuntimeFollows`: `Spec => []RuntimeFollowsConfig`.
* `PromisesKept`: `Spec => []PromisedIsInEffect`.

`OneRuns`: of the approvals under way at most one is not at an await. `LastRow`: if that one
has replaced the configuration and not recorded it, the version is one above the last row;
otherwise it is the last row, which holds the configuration. An approval starts or goes on only
when no other runs, so no version is recorded with what another approval put in its place; a boot
takes the number after the last row, so the row the crash kept from being written is never
confused with another. `Known` ties approvals to proposals and to a process that is up.

The other three rest on a second invariant, `JInv` (TLC checked it on the configuration of
`settings` before it was proved). `PlaceInv` says at which places each kind of proposal can be, so
that only approvals of plugin states wait while another runs (`Others`): settings and prompts are
changed by one approval at a time. `StoredInv`: the configuration in effect is what the next boot
would read. `SettingsInv` and `AloneInv` follow the change itself (`Holds`: not undone yet) against
what was read before it; two plugin states side by side make every plugin doubtful, which is the
exception the properties state. `FollowInv` compares the runtime with the configuration before,
during and after a reload and its compensation. `PromiseInv` says that what is promised is stored
unless an approval under way has put its own change over it, and that what such an approval
would put back is what is promised. `PromptInv` gives the files and the registry at each write.

`PluginDeploy_proofs` proves for any versions and any number of deployments and restarts:

* `DeployTypeCorrect`: `Spec => []TypeOK`.
* `PackageKept`: `Spec => []ReplacedPackageIsKept`.
* `RecoveryCorrect`: `Spec => RecoveryFinishesOrUndoes`.
* `RollbackUndone`: `Spec => FailedRollbackRestores`.
* `DeploymentRuns`: `Spec => NewDeploymentRuns`.
* `InstallUndone`: `Spec => FailedInstallRestores`.

`DInv` follows the newest row, which `NewestFacts` shows to be the one a boot or a rollback looks
at whenever it is unfinished. `Kept` and `Back` are the two places its old package may be in: in
its backup or where it was. `UpInv` says which of them each step of a deployment, its unwinding
and a compensation leaves, `BootInv` the same after a crash, where only the row tells: applying
means either, switched means in the backup. `TableInv` has a backup recorded exactly when
something was replaced and rows refer to earlier rows only, so taking back another deployment never
makes the newest one unfinished again. `DraftInv` keeps the same of the rows a failing rollback
will write back, and `RollInv` says how it gets the files back: `PutBack` is what the backups will
be once its first step has been done. A row that an earlier crash left unfinished is outside
`RecoveryFinishesOrUndoes`, whose condition `IncompleteIn(was.rows) = {}` says so.

The last two need to know what an activation meets, in `KInv` (checked by TLC on three versions
before it was proved). `ReportInv` is about the coordinator's cache: at rest, a newest row that
awaits its activation has a failed one behind it, and so has such a row a rollback keeps to write
back; hence an install finds no report on its own deployment, and an answer from the cache is never
one for it. `AwaitInv` carries that over a boot: recovery has the newest row still to look at, or
has reported its failure. `ActivateInv` says that the row an install activates is the newest and
the only live one. `InstallInv` follows an install that can still fail. Until its rows are
superseded, package and backups are those of the approval or `Saved`, one rename away from them;
afterwards the new row is `Fresh`: the only live one, with a `prev` that names the deployment live
at the approval, so taking it back restores exactly that one.

`PluginRuntime_proofs` proves for any plugins, versions, handlers that share names, dependency
graphs, generations and events, with any hook failing anywhere:

* `PluginTypeCorrect`: `Spec => []TypeOK`.
* `PluginClosedScopeIsSilent`: `Spec => []ClosedScopeIsSilent`.
* `PluginRetiredIsStopped`: `Spec => []RetiredIsStopped`.
* `PluginEventHasOneGeneration`: `Spec => []EventHasOneGeneration`.
* `PluginDependenciesFirst`: `Spec => DependenciesFirst`.
* `LoadOrderIsComplete`: what `Resolve` leaves out of the valid candidates waits for something it
  leaves out as well.

`IInv` (checked by TLC on the configuration of `plugin_reload` before it was proved) says which
generations a plugin's operation and the runtime refer to (`Referred`, `OpInv`), what the operation
has done to its object at each place (`PlaceInv`), and of every other object that it is stopped and
closed (`ObjectInv`); a scope is closing only while an operation waits for it. `BusInv` ties each
subscription to an open scope whose version has the handler, one per name. An action of an
operation is one legal move (`Legal`) of one object; `Goes` shows once that a legal move keeps the
invariant, and each action has to be shown legal.

`TodoInv` has the rest of a boot's candidates in load order, which comes from `Kahn`, the
invariant of the loop in `resolve`: who is placed or queued is exactly who waits for nothing that
is not placed, nobody comes twice, and each comes after all it waits for. `ResolveKahn` carries it
through the turns; a turn places one candidate, so after as many turns as there are candidates the
queue is empty (`LoadedCount`). The library's induction theorems take an operator and cannot be
used here; `Upward` is induction for a *set* of numbers, from the well-foundedness of `<`, and
`Recursion` gives a recursive function its value, so the two recursive functions of `LoadOrder`
can be unfolded.

`Sessions_proofs` proves for any chats and prompts, limits, tool calls, triggers, shutdowns and
crashes:

* `SessionsTypeCorrect`: `Spec => []TypeOK`.
* `RequestsStayWhole`: `Spec => []RequestsAreWhole`.
* `EndedRunsStaySaved`: `Spec => []EndedRunsAreSaved`.
* `LoneRunsTripOnTheirErrors`: `Spec => []TripsOnItsOwnErrors`.

`IInv` (checked by TLC on the configuration of `agent_sessions` before it was proved) says of each
session: while a run is between its calls and their results, exactly those calls are open
(`ToolsInv`); everywhere else a session is whole unless it was hurt, in the cache and in its row
(`StoredInv`), which is what a load after a crash or an expiry relies on; a run that closes has saved its
session, and with no run under way row and cache agree (`RunInv`, `RestInv`). `AloneInv` ties the
one breaker to a run: since the breaker is reset when a run starts, its errors are those of a run
that began alone and still is. A turn cut short by the breaker keeps a prefix of its results
(`KeptFacts`: the first result the breaker trips at is the last that is kept), so the errors the
run has are those the breaker counted.

Their assumptions are the named ones of the modules: bounds are natural numbers, `NULL` is none
of the values it stands beside, what is offered is a change, and `Sorted` lists every plugin once.

Only model-checked: the liveness properties `RecoveredRunsSettle`, `DueIsServed` and
`WaitersGetTheirTurn`, which are out of the prover's reach.

## Findings

`reload_loses_handlers`: `PluginRuntime.reload_plugin` subscribes the new generation's handlers
under the same names as the old one's, which replaces them; then it closes the old scope, which
unsubscribes by name. After a reload the plugin is published and handles nothing
(`PublishedIsSubscribed`). A reload that fails does the same to the plugin it restores.

### Stated, and not kept by the code

These formulas are in the modules; each is violated, and TLC finds the trace within seconds when
it is checked with the constants of the component's run (where others are needed they are
given). They are kept out of the runs.

| Property | Module | What happens |
|---|---|---|
| `NoBlindReplay` (`MaxCalls = 2`) | `DurableRuntime` | `recover()` judges a run by its newest invocation only (`controller.py:186`). A write that timed out and was followed by another call before the crash leaves the run `CREATED`, it is submitted and may repeat the write. `PHASE6_IMPLEMENTATION.md:12`: "重启后不得盲目重放结果未知的副作用"; `README.md:50` likewise. |
| `ScheduledRunsSettle` (`FairSpec`) | `DurableRuntime` | A crash between `create_task_run(scheduled=True)` and the first step of the coroutine leaves the run `SCHEDULED`; `Bot.start` submits only `CREATED` ones (`bot.py:224`), and it counts against `max_concurrency` for ever. `PHASE6_IMPLEMENTATION.md:130`: "`CREATED`、`SCHEDULED` Run 可重新提交". |
| `RecoveryKeepsWaiting` (constants of `runtime_control`) | `DurableRuntime` | Recovery judges a run that waits by its newest invocation, like any other, and may put it back to `CREATED`. |
| `AnswersOnce` | `DurableRuntime` | A run whose reply was sent before a crash replies again. |
| `CatchUpStartsEveryPoint` | `Scheduler` | `max_concurrency` stops the loop over the missed points, but `advance` moves past all of them (`scheduler.py:279`). `PHASE6_IMPLEMENTATION.md:172`: "`catch_up`：按顺序补执行，单轮不超过 `max_catch_up`". |
| `RecoverySkipsMissedPoints` | `Scheduler` | The recovering tick passes over a schedule whose own run was just revived (`scheduler.py:263`); the ordinary tick later starts the points it should have skipped. `PHASE6_IMPLEMENTATION.md:170`: "`skip`：恢复时跳过全部错过点，并一次性推进到未来". |
| `AppliedMeansRunning` | `PluginDeploy` | `execute()` answers from `_reports` by deployment id (`_coordinator.py:116`); a rollback to a deployment installed by the same process gets that installation's report, nothing is reloaded, and the proposal is applied. `PLUGIN_SYSTEM_REFACTOR_PLAN.md:672`: "`ControlPlane.approve_and_apply()` 仅在 Runtime 成功后标记 applied". |
| `FailedInstallsRestoreFiles` | `PluginDeploy` | Compensation leaves the previous deployment `pending_activation`; the next install that fails before deploying anything finds *that* row (`control_plane/service.py:666`) and rolls it back, deleting the plugin if it was the first. The same line of the plan: "失败时恢复文件、持久化禁用配置和旧 Runtime 快照". |
| `RecoveryRemovesOnlyItsOwn` | `PluginDeploy` | A deployment that recovery could not activate is never superseded; a later boot takes the target directory for its half-switched package (`_deployer.py:388`, comment at 386) and removes what another deployment installed. |
| `OneIsLive` | `PluginDeploy` | `deploy` supersedes the other deployments in a later commit than the one that says the files are switched (`_deployer.py:208`, `:217`, comment: "Mark previous deployments as superseded"). After a crash between them `recover_pending` activates the new row and the old one stays active beside it. Installing the old version again is then answered as already deployed (`_deployer.py:138`) and fails, because the new package is what comes up; and the next deployment supersedes both rows, of which a rollback reactivates only the newer. |
| `ActiveHasItsPackage` | `PluginDeploy` | A crash in `rollback` between removing the directory and restoring the backup leaves an `active` row without a package; recovery does not look at it. |
| `CompleteReachesTheStart` | `EventJournal` | The bus swallows the exception of a call and `_dispatch_action` answers `{}` (`api_client.py:213`), which reads as an empty last page: gaps are resolved and `backfill_complete` is set. `PHASE4_IMPLEMENTATION.md:106`: "`napcat_error`：NapCat 调用失败"; `:114`: "`backfill_complete=1` 只表示 NapCat 当前可见页面已经耗尽". |
| `TripsOnErrorsOfTheRun` | `Sessions` | The breaker is one object for all runs: errors of a run beside this one count. Also, `circuit_breaker.py:11` speaks of consecutive errors, but a success never resets the count. |
| `EveryRequestIsWhole` | `Sessions` | A run cut short between its tool calls and their results leaves them dangling in the session; nothing repairs it, and every failing trigger renews its time to live. |
| `PromisedStateIsInEffect` | `Settings` | The compensation of a failed plugin state restores the list of disabled plugins read before the await, and with it undoes what was approved meanwhile. |
| `RejectedIsNotInEffect` | `Settings` | The setting is committed before the proposal is decided, in another database; after a crash between them the proposal is pending, can be rejected, and stays in effect. |

These are why the checked properties have conditions: `RecoveryFinishesOrUndoes` and
`ReplacedPackageIsKept` speak of a deployment that is the only incomplete one,
the former also of one approved when no other was incomplete,
`FailedInstallRestores` of a proposal approved when no deployment awaited its activation,
`NewDeploymentRuns` of a deployment made by the proposal itself; `RequestsAreWhole` of sessions no
run was cut short in, `TripsOnItsOwnErrors` of runs that were alone; `PromisedIsInEffect` and
`RuntimeFollowsConfig` of subjects no crash and no second approval of a plugin state interfered
with, `PromptsAreWhole` of files no crash fell between (a torn prompt stays torn, since nothing
compares it with a version).

Seen while reading, with no formula: a failed settings proposal stores the previous value, which
from then on overrides the configuration file; sessions of scheduled prompts are never pruned; a
message recorded a second time loses the link from its segment to the artifact.

## Not modelled

* Text and network I/O: the LLM provider's requests, content guard, search, web and workspace
  tools, QQ adapters' parsing, logging, the CLI and the simulator. They hold no state between awaits
  that another coroutine could change; what can come out of them (an answer, an error, an
  exception) is a choice in the module that calls them.
* The memory table and per-plugin storage: single commits, read back from the database.
* Cache ageing, metrics and the per-tool breakers of `ToolExecutor`; calendar arithmetic of cron.
* Code without a caller: the queue of the message bus, `PluginRuntime.reload`, degradation,
  `trigger_event`, `trim`, `prune`.

## Plan

Done: all modules above. Next, in this order:

1. `ToolExecutor`: cache ageing and the per-tool breakers.
2. Installations approved side by side with plugin states (composing `PluginDeploy` and `Settings`).

An abstract specification worth stating: an atomic deployment (a plugin directory is one
version or the other) for `PluginDeploy`.
