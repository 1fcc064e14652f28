# PK-Ninja-Agent: a TLA+ verification project

PK-Ninja-Agent is a web service that takes software tasks ("add a test for the
parser"), runs an AI agent on each of them in a Git workspace, and shows the
progress in a dashboard. The server is one Python process: a FastAPI event loop
whose handlers are coroutines, a background worker with threads of its own, one
thread per agent execution, two threads per command to read its output, and a
SQLite database. What makes it hard is what these do to one another: handlers
that check something, await the database and then act; threads that leave a lock
between two parts of one operation; an execution that goes on after its task was
cancelled, failed, timed out or handed out again; a crash in the middle.

The modules model this control. Prompts, texts, paths and wording are left out.

Contents: 1. Inventory - 2. Modules and code - 3. Runs - 4. Fairness -
5. Findings and promises the code does not keep - 6. Proofs -
7. What is only model-checked, what is not modelled - 8. Plan

## 1. Inventory

All paths are under `src/`.

| component | state it keeps | operations | what is hard | correct when |
|---|---|---|---|---|
| **Task scheduler** `backend/scheduler.py` | `_items`, the heap `_heap`, `_counter`, under one lock | enqueue, pop_next, peek_next, pause, resume, cancel, retry, reorder, remove, mark_done, mark_failed | lazy deletion in the heap; enqueue and remove work partly outside the lock; automatic and manual retries; promotion of WAITING tasks | no ready task is lost or overlooked, and none is handed out twice without an operator |
| **Scheduler persistence** `backend/scheduler_persistence.py` | table `scheduler_queue` | persist_enqueue, persist_status, persist_remove, load_queue | the row is written after the lock is left; a crash at any point, also during load_queue | a live task has a row that the next start finds |
| **Background worker** `backend/worker.py` | `_active`, `_stop_event` and the loop thread of each worker; `_WORKER` | loop, dispatch, run one, start, stop, init_worker | check, pop and count are three separate steps; a worker is replaced while its threads run; start_fn may return at once | the count is exact, a RUNNING task has somebody to report on it, every ready task is served |
| **Agent run** `backend/agent.py` | `TaskRuntime` (status, cancel flag, process), `_RUNTIMES` | start_task, run, plan steps with retries and tools, cancel_task | a cancel meets every point of the run; one registry entry per task id, several executions | the row never lies, every execution ends, a cancel stops the work soon |
| **Command runner** `backend/terminal.py` | the process, `current_proc` | start, register, poll, time out, kill, unregister | a kill between start and registration | see agent run |
| **Task API and recovery** `backend/main.py`, `backend/recovery.py` | table `tasks` | create, cancel (HTTP, queue, WebSocket), git endpoints, mark-failed, resume, status mirror | read, await, act; the serverless deadline; a crash | a running task is detectable after a crash |
| **Event bus and streams** `backend/agent.py`, `backend/main.py` | `_subs`, `_history`, a queue per subscriber | publish, subscribe, history, SSE and WebSocket handlers | the queues are filled outside the lock; bounded queues and history | no event is lost between history and queue, order per publisher, streams of ended tasks close |
| **Multi-agent coordinator and agents** `agents/*.py` | state, fix rounds, iterations, the shared context | execute, the seven agents' handle | hints that redirect, failures that go back to coding, a cancel anywhere, exceptions in the middle of an edit | only tested work is committed, a success is verified, the loop ends |
| **Provider manager** `providers/manager.py`, `providers/interface.py` | settings, enabled flags, health, cached instances, active provider, fallback chain, all without a lock | enable, disable, set_active, get_instance, call, health_check, set_fallback_chain, the endpoints | requests, agents and calls change one object between any two steps of another, the look at a cached instance and its use included; every request applies the environment again | flags and health agree, an agent's provider is usable, a call gives up without the safety net only when a disable takes an instance out of its hands |
| **Rate limiter** `backend/rate_limiter.py` | a token bucket per client, in two limiters | check, cleanup, the middleware | debts of denied requests, Retry-After cut to whole seconds, buckets forgotten with their debt | admissions of any interval are bounded, the headers are kept |
| **Jules sessions** `backend/ai_provider.py` | remote sessions; a call keeps its session id and deadline | create session, approve plan, poll, collect, retry a request | an asynchronous remote job behind a synchronous call; retries of requests that may have been received | a result comes from a session that has ended, sessions per call and requests after the deadline are bounded, the call ends |
| **Provider adapters** `providers/*_provider.py` | none | one HTTP request each | - | - |
| **Workspace sessions** `backend/sessions.py` | table of sessions | look for an active one, touch or insert; restore, close, delete | the look and the insert are two calls of the database | one active session per repository |
| **Workspace manager** `backend/workspace_manager.py` | the directories, the table of recent workspaces | create with a clone, rename, delete, switch | the row is written after an await, when the directory may be another one | what the manager made is shown |
| **Workspace files and git** `backend/workspace.py`, `github.py` | a directory per repository: branches, index, files; the remote | clone or pull, branch, stage, commit, push, pull request, from the set-up, tools, finalize and endpoints | tasks share the directory; a finalize is five commands; a clone is moved over what is there; failures that are ignored | work is lost only by what takes it away on purpose or by a clone, what is said to be pushed is pushed |
| **GitHub API workspace** `backend/github_api_workspace.py` | a plain directory | fetch, push over HTTP | a file is fetched on the first read, over what another task wrote meanwhile | see workspace files |
| **Authentication** `backend/auth.py` | `AUTH_SECRET`; tokens at the clients | log in, verify | restarts, a secret that changes or is missing | a token lasts as long as its secret |
| **CSRF tokens** `backend/rate_limiter.py` | a key | issue, verify | - | - |
| **Secrets, settings** `backend/secret_store.py`, `user_settings.py`, `settings_store.py` | sealed rows and preferences of each user, `GITHUB_TOKEN` in the environment | save, delete, connect, disconnect, update, build_user_settings | each read and write is a connection of its own with awaits between; reads that fail give the server's values; tasks share the environment | the rows of a connection agree, a task gets its user's settings |
| **Backup** `backend/backup.py` | backup files named by the second | create, restore, rotate | threads without a lock on the directory; restore over a database in use; failures between steps | what a restore overwrites is kept, rotation spares the newest |
| **History, export** `backend/history.py`, `exporter.py` | none | read | - | - |
| **Index and context** `backend/indexing.py`, `context_engine.py` | a cache per task | index, context | - | - |
| **Monitoring, logs, policy, configuration, shutdown, entry point, dashboard, scripts** | counters, none | - | - | - |

How they interact:

```
 dashboard --HTTP--> handlers --enqueue, pause, retry...--> scheduler <--pop, mark-- worker
     ^                  |  \                                    |                      |
     | SSE, WebSocket   |   \--cancel_task--> _RUNTIMES         | rows                 | start_fn
     |                  v                        |              v                      v
  streams <--queues-- event bus <--publish-- agent thread   scheduler_queue       agent thread
                                                 |  \--_persist--> table tasks
                                                 |--run_command--> process + reader threads
                                                 \--coordinator--> seven agents --> directory, git

 handlers --secrets, preferences--> database file <--copy, overwrite-- backup threads
     |  \--build_user_settings--> environment --token--> agent thread
     \--workspace manager, git endpoints--> directories <--clone, edit, finalize-- agent threads
```

## 2. Modules and code

| module | models | composed of |
|---|---|---|
| `TaskScheduler` | the scheduler and its table | |
| `ReadyPool` | abstract: what the scheduler promises the worker | refined by `TaskScheduler` |
| `SchedulerRecovery` | the scheduler over crashes and restarts | extends `TaskScheduler` |
| `BackgroundWorker` | worker loops, runner threads, agent executions | extends `TaskScheduler` |
| `AgentTask` | one task: executions, registry, row, handlers, crash | |
| `EventStream` | one task's events: bus, publishers, streams | |
| `AgentCoordinator` | the multi-agent loop and its agents | |
| `RateLimiter` | the token buckets of one limiter, time, observers | |
| `JulesSession` | synchronous calls over the Jules API, and the API | |
| `ProviderManager` | the manager, its endpoints, agents that choose, calls with fallback | |
| `Database` | the database file | |
| `Accounts` | log-ins, secrets, preferences, GitHub connections, a task's settings | extends `Database` |
| `Backup` | backups, restores and rotation of the file | extends `Database` |
| `ServerData` | requests and backups on one file | extends `Accounts`, `Backup` |
| `Repository` | directories, the remote, and git's commands on them | |
| `TaskGit` | tasks that set up, edit and finalize; git tools and endpoints | extends `Repository` |
| `WorkspaceManager` | directories made, renamed, deleted; recent workspaces | extends `Repository` |
| `Sessions` | sessions of repositories | |
| `Workspaces` | tasks, manager and sessions on one disk, and a crash | extends `TaskGit`, `WorkspaceManager`, `Sessions` |
| `TaskSchedulerProofs` | theorems about scheduler, recovery and worker | extends `SchedulerRecovery`, `BackgroundWorker` |
| `ServerDataProofs` | theorems about backups, requests, settings | extends `ServerData` |
| `WorkspacesProofs` | theorems about directories, tasks' git, manager, sessions | extends `Workspaces` |
| `ProvidersProofs` | theorems about the provider manager and Jules sessions | extends `ProviderManager`, `JulesSession` |
| `AgentTaskProofs`, `EventStreamProofs`, `AgentCoordinatorProofs`, `RateLimiterProofs` | theorems | extend the modules they are about |
| `MC*` | bounds, fairness and symmetry for TLC | extend one module each |

An operator whose name ends in `Mutant` is a definition with a plausible bug; no
action uses it. It shows that the property next to it would notice.

### TaskScheduler

Every mutating method holds one lock from its first read to its last write,
including the write of its table row: one action. `enqueue` checks the dependencies
before the lock, inserts under it, reads the item for the row after it and commits
the row: four actions (`EnqueueCheck`, `EnqueueInsert`, `EnqueueRead`,
`EnqueueWrite`). `remove` deletes the row after the lock: two actions. The HTTP
handlers call the scheduler synchronously on one event loop, so while a call is in
progress (`call`) no other handler runs; the worker's threads do. `pop_next` and
`mark_done` promote WAITING tasks as part of their action (`Promotable`,
`PromotedItems`, `PromotedHeap`, `PromotedRows`), in insertion order.

`heap` is the set of entries pushed and not popped, stale ones included: the heap
order is total (`SequencesUnique`), so popping until a live entry comes is removing
every entry up to the least live one (`Remaining`). `owed` counts how often a task
was handed out and not reported on; only then may its runner report. New task ids
are fresh, as `new_task_id` makes them. `remove` and `peek_next` are called by tests
only, and are modelled all the same. `enqueued_at`, `started_at` and `error` are
left out. A failure of SQLite is swallowed by the code and not modelled.

### SchedulerRecovery

`Crash` loses everything but the rows, at any point of a call or of recovery.
`Restart` is init_scheduler plus the SELECT of load_queue, `LoadRow` one turn of its
loop, with the row that enqueue rewrites (`LoadedRow`) and the fields that are then
set in memory only (`LoadedItem`). `before` and `held` are histories: what each
task's status was when the server died, which tasks the operator is holding.

### BackgroundWorker

A worker's loop goes through check, pop and spawn; a runner thread through call,
execute, report and release. `InitWorker` makes another worker and stops the current
one, whose loop and threads go on; `StopWorker`'s join is bounded by a timeout and is
modelled as timed out. `Blocking` are the answers, call by call, to whether start_fn
returns when the execution ends, which is what the worker is written for, or at once,
like `agent.start_task`, which main.py passes. `requeued` counts how often an operator
re-queued a task that had not been reported on.

### AgentTask

A run is one execution (`TaskRuntime` and thread). `RunState` has the thread's
position, its status and flag, the process, the step, the retries and tools spent.
A handler in progress (`request`) stands at the await between its check and its
effect. The set-up is three actions: `Setup` (workspace, repository, first look at the
flag), `Explore` (the index; a question about GitHub is answered here, and its event
completed is mirrored into the row before the run has ended) and `Context` (the files,
second look, plan). An attempt chooses freely between finishing, failing, a command and another
tool (`Choices`), up to `MaxTools`. `Streaming` is the set of executions that use an AI
provider: those look at the flag before each tool, the local provider does not.
The create handler picks one of `Ways`: the scheduler's queue, a thread of a server that
stays up, or, serverless, a run it waits for, holding the event loop (`LoopFree`), and gives up
at the deadline. The bus swallows a row write that fails: `Announce` and `Publish` may leave
the row alone, and `announced` is the history of the first. A process may end any time, or never: the
command's timeout then abandons it. `Mirrored` is the status_map of `_persist`.

### EventStream

`Publish` appends to the history and copies the subscriber list (under the lock),
`Deliver` fills one queue (outside it). `Subscribe`, `Replay` and `Send` are the
handlers; SSE and WebSocket differ in `Replay`. `Closes` are the event types that end
a stream; `error` also occurs in the middle of a task, and so does the completed of a
question about GitHub, which the model's kind "error" stands for too. Reader threads publish
plain events only. The events' copy in SQLite is left out. A page that reconnects is
another stream.

### AgentCoordinator

`Advance` is the head of execute's loop and `_next_state`, `Failure` is
`_handle_failure`, `Run` is `BaseAgent.run` up to the cancel check, and each agent is
one action: what it does to the context and to the files, its outcome and its hint.
A file compiles or does not; the model's edits, the project's own test command and
git's outcomes are nondeterministic, an edit may raise in the middle. `tested`,
`reviewed` and `committed` are histories. The limits of 5, 8 and 10 files the agents
look at are omitted, as is what tests do to files.

### RateLimiter

The clock is a float: `now` counts ticks, any number (`Second`) of which make a second.
Tokens are counted in parts of a request, so many (`Cost` is `Window * Second`) that a tick
refills `Max` of them: the refill rate is an integer whatever the tick, and only the rounding of
the floats themselves is left out. A denied request is charged too, so a bucket may be in debt,
and `Answer` is what the headers say, both cut to whole numbers as the code does (`Remaining`,
`RetryAfter`, the latter in seconds). `CutOff` is the second that `int()` may take from Retry-After
under a tiny limit. `Cleanup` takes any of `Ages` as its max_age, reads the clock before
it takes the lock and may therefore see a past time; `early` counts the removals of a bucket
within its window. Nothing in the server calls it, tests do. `Observe` is no code: an observer
begins to count admissions of one key at any time, which makes "any interval" a state property.

### JulesSession

A call is always at one request (`Place`): create, poll, approve, collect. A request
may succeed, be lost before or after the server has received it, be refused with a
status that is or is not repeated, or come back garbled; `Again`, `MayRetry` and
`Lost` are the retry loop of `_request`, shared by all places. `LateCreate` and
`LateApproval` are copies still on the wire. `ServerStep` is the Jules API as the code
uses it (external): sessions move along `Follows` and never leave a terminal state.
`Expire` is the deadline, which the code looks at only where `Wake` does.

### ProviderManager

The manager is one record, and each method an operator on such records (`Enable`,
`Disable`, `SetActive`, `AutoChain`, `Instantiated`, `Failed`...), so that an endpoint
is written as the code is: `PostEnable` is `Enable(Configured(m), p)`, as the handler
calls `_provider_manager` and then `enable`. Endpoints are single actions, because
their handlers await nothing between reading the manager and leaving it; a probe
(`ProbeHealth`, `ProbeKey`) has two, since threads move while the event loop waits
for the provider (`probed`). Agents and calls are threads, and get_instance is not one step
for them: `Look` and `Try` see the provider in the cache or absent from it, `Index` and `Fetch` then
index it, `Build` and `Construct` are the end of a construction. A disable in between makes the
index a KeyError: the agent's goes to the factory, a call's leaves `call` (`popped` is its
history). An agent starts with `Manage` (get_manager) and ends with `Unwrap`, which takes the
provider inside an adapter, or the factory's where there is none. `Lenient` are the
providers whose adapter keeps quiet about a missing key and is therefore cached
(Mistral's). A call stands between providers (`loop`), at a look or a construction, or at one
(`running`); `Invoke` may find an adapter without the method. `cached` names the user with
whose settings an instance was made. The error thresholds 3 and 5 are constants.

### Accounts, Backup, ServerData

A request of `Accounts` is a record in a slot of `Call`, with a `pc` between two
connections of the database: `Link` writes the token of a connect or disconnect,
`ReadPrefs` and `WritePrefs` are update_settings_for_user, `WriteFails` a database that
does not let them. `AskProvider` to `Finish` are build_user_settings, one action per
read, and `SetUp` the thread of the task that looks for its token, in the environment
first (`UsedToken`). Any read may fail (`Fails`; on a torn database it must): the code swallows that and
takes the value of the configuration, which `Instead` notes. A connect may name an owner
and a repository (`Binding`); `bound` is the history of the owner. A secret is `Sealed` with the `AUTH_SECRET` of the time and
`Opened` with it only; `Restart` may bring another one. A token stands for its account,
so that the login and owner that GitHub reports for token t are written t.

A call of `Backup` is a record in a slot of `Job`: the name is taken from the clock
(`Begin`), the file appears (`Open`), the copy is one transaction of SQLite (`Copy`), a
restore then overwrites the database (`Overwrite`, which may leave it `Torn`); rotation
lists once (`List`) and removes file by file (`Remove`). `CreateFails` is the handler that
removes the partial file, `Crash` the end of a process in between. What the database
holds is a member of `Content`, so that the theorems are about any server; `ServerData`
puts the rows of `Accounts` in its place and lets every request see a restored database
(`Shaken`); a build goes on over a torn one, with the defaults. `late`, `clash`, `failed`, `torn`, `alone`, `providers` and `tokens` are
histories: each names the circumstance under which a promise is not kept, so that the
properties say exactly which they are.

### Repository, TaskGit

`Repository` has git as the callers use it (external): the branch HEAD is on, and whose
edits each branch, the index and the files hold. All edits of one task are one member
of `Task`; `over` are those the index has and the files no longer (`InFiles`). A clone leaves
`Begun` and then `Cloned`, between which the directory is `Partial`: it has a .git, and every
command fails in it. `Stripped` is what a command may take from a directory, one part at
a time.

`TaskGit` has a task's thread as `pc`: `Check` to `MoveIn` are clone_or_pull, `Edit` and
`Overwrite` the file tools (a write over another task's file, a deletion, and the late fetch of a
file in GitHub API mode are one action), `RunCommand` a command that takes edits or a
branch away or pushes by force, `Finalize` to `Push` are `_git_finalize`, one action
per git command, as each is a process of its own; a `git add` that fails goes unnoticed, as in
the code. `GitCheckout`, `GitFile` and `GitPush` are what a tool of the agent (a step of its
thread) and an endpoint (at any time) have in common. Tasks of one repository share `Root`. An
endpoint blocks the event loop, so `committing` keeps other endpoints out between the two
commands of a commit, and not the threads. `mine`, `steady` and `raced` are histories.

### WorkspaceManager, Sessions, Workspaces

A request of the manager does its work on the disk and then waits for the database
(`waiting`) to write or remove the row. A create with a repository first clones, in two steps
(`CloneInto`, `CloneOver`) that hold the event loop and not the tasks' threads; the clone may be
done, fail and clear the directory, or run into its timeout. `Shown` is recent_workspaces. A create
request for a session looks (`Look`), then inserts or touches what it found (`Insert`,
`Reuse`); `sessions` is ordered by last_active, as the query is. `Workspaces` lets all
of them (`OfThreads`, `OfGit`, `OfManager`, `OfSessions`) and a crash act on one disk; `made`, `started` and `visited` count
what its bounds limit and model no code.

## 3. Runs

| run | question | instance |
|---|---|---|
| `scheduler` | do heap, table, promotion and retries do what a plain pool would (`ImplementsReadyPool`), lose nothing (`QueuedHasEntry`, `LiveTasksAreRecoverable`) and keep the order (`SequencesUnique`, `PopTakesMostUrgent`)? | 2 tasks, 2 priorities, budgets 0 and 1, calls until 3 sequence numbers are given |
| `recovery` | does every live task come back, and no cancelled one, over crashes at any point and in recovery? | 2 tasks, 2 crashes, 3 numbers per life |
| `worker` | is `_active` exact and within its limit, has every RUNNING task a thread, does a task run twice only when re-queued (`OneRunPerRequeue`), and is every task that could be dispatched served (`ReadyIsServed`)? | 2 tasks, 2 workers in turn, 2 threads, limit 1, no retries, start_fn blocks or not call by call, 1 re-queue of a running task |
| `agent` | is the row truthful, is a running task detectable? | queued, 2 executions, 2 concurrent requests, 1 step and 1 tool, 1 crash, 2 requests or re-queues, row writes that may fail |
| `agent_live` | does every execution end, and is what a cancel cannot stop bounded? | a server that stays up and a serverless one, one streaming and one local execution, 1 step, 2 tools, 1 request |
| `events` | no gap, order, and do WebSockets end? | 2 publishers, an SSE and a WebSocket, 3 events, history and queues of 2 |
| `coordinator` | is committed work tested, a success verified, the loop bounded? | 2 files, 2 fix rounds, cap 15 |
| `limiter` | are admissions of any interval bounded and both headers kept? | 2 buckets (1 and 3 requests per 2 seconds), of which a behaviour uses one, 2 ticks per second, cleanup ages 0 and 4 ticks, 10 ticks, a debt of 1 request before a request |
| `jules` | is a result final, are sessions and late requests bounded, does the call end? | 1 call (of edit or another method), 2 retries (the code's default), every failure of every request |
| `providers` | is an agent's provider usable, does a call reach the safety net? | local and Mistral, settings of the server and of a user, 1 agent, 1 call, thresholds 1 and 2 |
| `accounts` | do token, login and owner of a connection agree, are a task's settings its user's, is a restore safe and does rotation spare the newest? | 2 users, 2 requests at once, 1 account and an owner beside it, 2 values of `AUTH_SECRET`, 2 backup threads, 2 seconds, 1 file kept, 3 requests, backups and restores in all, any number of restarts |
| `workspaces` | is work kept, is pushed what is said to be, are workspaces shown, is there one active session? | 2 tasks of one repository, 2 directories, 2 starts, 2 requests, tools or crashes; or 6 requests for sessions, 3 rows, 2 at once |

Why the bounds are enough. *Scheduler*: the hazards are about one task's entries
(needs two pushes of the same task and a second task to overtake it: 3 numbers and 2
priorities) and about one dependency; a task with two dependencies adds only more of
the same conjunction. MaxSequence stops new calls and not the ones in progress or the
worker. *Recovery*: one crash for the state and one in the middle of the recovery from
it. *Worker*: two workers are one that is stopped and one that replaces it; limit 1 is
the tightest; a re-queue and a late report need one execution each, retries are the
scheduler's. *Agent*: two executions are what it takes to share one registry entry;
two requests cross at their awaits; the run is about queued tasks, as the serverless handler holds
the loop; one step with its retries is all steps, since a step starts afresh. *Events*: 3 events in a history of 2 trim it and
overfill the queue. *Coordinator*: fix rounds have the code's value; the cap is 15
in place of 30, just low enough to be reached only at the end of the longest run, so
`Exhausted` and `BudgetSuffices` both matter. *Limiter*: five seconds are more than
two windows, so a bucket is refilled, indebted and forgotten, too early too; half a second is
enough for Retry-After to be cut; a limit of 1 is one where that matters and 3 one where it
does not. *Jules*: calls
share nothing, so one is enough; a request may be received three times. *Providers*: two providers
are one that may fail, with a lenient adapter, and the safety net; thresholds 1 and 2 keep a step between
degraded and unhealthy; the agent's user has a key the server has not, without which
`ChosenIsUsable` could not fail. *Accounts*: a connection is torn by two requests, or by one
and a restore with its backup, which are three; a build that meets another user's takes two users
and their two requests. Names of repositories
are left out, as none of its properties is about them. *Workspaces*: two tasks are what it takes to
share a directory, and two requests what it takes to do something to it between two of
their commands and to undo it. Sessions share nothing with the directories but the event
loop and the crash, and requests for git and for the manager meet in what the threads do
between them, so a behaviour of the instance has requests of one kind (`about`), the threads
beside the first two; the proofs have no such limit.

No run checks a type invariant: each is a theorem (section 6), as a part of the inductive
invariant of its module.

Deadlock is not checked: every instance stops at its bound.

## 4. Fairness

Only what threads and coroutines give: a thread that can go on eventually does.
`worker`: each loop, each runner with a start_fn that ends, the rest of a call in progress,
and the server starting its worker; no operator call is ever assumed to happen, nor that
an agent that start_task left behind ever ends. A loop whose worker was replaced goes on
like any other. A stop is allowed only while another worker can still be made: who
shuts the server down for good leaves the queue.
`agent_live`: the execution's thread only; processes owe nothing (`Wait` has the
timeout), cancels and deadlines need not come. A serverless platform freezes threads once the
response is sent (`src/backend/main.py:1543`), so an execution that no request waits for is promised
nothing there (`Frozen`). `events`: a publication goes on
filling queues and an open handler goes on sending; nobody must publish or connect.
`jules`: a call goes on, each of its requests ends by its HTTP timeout, and the
deadline passes; the server owes nothing. Weak fairness is enough throughout: no step of a thread is disabled by another
thread for good.

## 5. Findings and promises the code does not keep

Modelling met disagreements between the code and what its documents and comments say.
Each is stated as a definition of its module and was violated in TLC; they are
written down here so that the definitions can be checked again (put the name in a
.cfg), without a run of their own:

* `PopTakesHighestPriority` of `TaskScheduler` (`src/backend/scheduler.py:395`): reorder pushes a second entry and leaves the old one, and pop_next only checks that the task is QUEUED, so a task demoted to a lower priority is still popped at its former one, before more urgent tasks; the docstring at src/backend/scheduler.py:219 says "Pop the highest-priority *ready* (``QUEUED``) task".
* `DispatchedAfterDependencies` of `TaskScheduler` (`src/backend/scheduler.py:335`): retry sets QUEUED whatever the status and never looks at depends_on, so a retried WAITING task is dispatched before its dependencies; enqueue's docstring at src/backend/scheduler.py:175 says "the task will not be dispatched until all dependencies have status ``DONE``".
* `CancelledUntilRetried` of `TaskScheduler` (`src/backend/scheduler.py:366`): mark_failed does not look at the status: a task cancelled while it runs, whose runner then raises, is re-queued by the automatic retry and runs again although nobody retried it; tests/test_scheduler.py:69 says "cancelled tasks are skipped during pop".
* `QueueSurvivesRestart` of `SchedulerRecovery` (`src/backend/scheduler_persistence.py:150`): load_queue selects only queued, running and paused rows, so every task WAITING for its dependencies is missing after a restart; src/backend/scheduler.py:21 says the "queue state survives restarts via SQLite".
* `HeldUntilResumed` of `SchedulerRecovery` (`src/backend/scheduler_persistence.py:177`): load_queue restores PAUSED in memory only, after enqueue has replaced the row by a QUEUED one: the next restart loads the task as QUEUED and it runs; src/backend/scheduler.py:42 says PAUSED is "held by the operator; will not run until resumed".
* `ConcurrencyLimited` of `BackgroundWorker` (`src/backend/worker.py:130`): main.py passes agent.start_task as start_fn, which starts a thread and returns at once, so _active is decremented while the agent still runs and any number of agents run together; src/backend/worker.py:12 says "at most ``WORKER_MAX_CONCURRENCY`` tasks run at once; the rest stay queued until a worker is free".
* `CancelStopsWork` of `AgentTask` (`src/backend/agent.py:1039`): without an AI provider a step whose command the cancel has killed counts as a recoverable failure: _execute_plan_steps retries it with no look at the flag and the command runs again, up to two more times, and nothing kills it; src/backend/agent.py:16 says "the cancel flag is checked before every step and the running subprocess is killed so a cancel actually stops work".
* `CancelledWasRunning` of `AgentTask` (`src/backend/main.py:1609`): runtimes are never removed from _RUNTIMES, so cancel_task returns True for a task that has ended and the endpoint writes cancelled over success; src/backend/models.py:40 says cancelled means "user cancelled the running task".
* `CancelReachesRunning` of `AgentTask` (`src/backend/agent.py:470`): _RUNTIMES has one entry per task id; a task handed out again while it runs has two executions and only the one that registered last, or ended last (run() registers itself again when it ends), is cancelled; src/backend/agent.py:1616 says "Cancel a running task: set the flag and kill any live subprocess."
* `InterruptedWasRunning` of `AgentTask` (`src/backend/main.py:1155`): status_map has no entry for the error event, so the row of a failed task stays running and after a restart the task is reported as interrupted although it had ended; src/backend/recovery.py:10 says "This means the process died / was restarted and the task never reached a terminal status."
* `RunningIsFound` of `AgentTask` (`src/backend/agent.py:136`): publish swallows an exception of _persist, so an execution whose first row write fails goes on with a row that was never running, and after a crash nothing finds it; src/backend/recovery.py:8 says "A task is **interrupted** when its persisted status is ``running`` (or ``busy``) but there is *no* live :class:`TaskRuntime` for it in memory."
* `RecoverySparesTerminal` of `AgentTask` (`src/backend/main.py:2221`): mark-failed (and resume) only check that there is no runtime, which holds for every task after a restart, and overwrite a success or cancelled row; src/backend/recovery.py:41 says "Statuses that are terminal (recovery should not touch them)."
* `OneExecution` of `AgentTask` (`src/backend/main.py:2230`): the resume endpoint looks for a runtime, awaits the database and starts a thread that registers its runtime only when it runs: two requests both find none and the task runs twice at once; the check at src/backend/main.py:2232 says "Task already has a live runtime."
* `ClosedWhenFinished` of `EventStream` (`src/backend/main.py:1667`): events of type error are published in the middle of a task (a failed clone, an unreadable file, a failed commit) and each of them in the history closes a WebSocket that connects later, while the task goes on; src/backend/main.py:1668 says "Already finished; send history then close."
* `StreamedToFrontend` of `EventStream` (`src/backend/agent.py:138`): publish fills the queues after releasing the lock, so an output event of a command may reach a queue after the last event, which has closed the stream; src/backend/agent.py:8 says "Every step emits an :class:`Event` that is persisted to SQLite and streamed to the frontend via SSE **and** WebSocket."
* `CommitIsReviewed` of `AgentCoordinator` (`src/agents/review_agent.py:51`): the review looks at ctx.edits, which holds the edits of the last coding round only (src/agents/coding_agent.py:57), and the git agent commits every change of the workspace (src/agents/git_agent.py:80): files written in an earlier fix round, or by a round that raised after a write, are committed unreviewed; src/agents/review_agent.py:3 says "Reviews the generated code, detects potential issues, and suggests improvements before commit".
* `CancelledEndsCancelled` of `AgentCoordinator` (`src/backend/agent.py:1000`): a cancelled coordinator returns success=False and _run_via_coordinator raises for it, so run() writes failed and publishes an error instead of cancelled; src/backend/agent.py:932 says "rt.cancel (so cancellation still works)" and src/backend/models.py:40 "cancelled  — user cancelled the running task".
* `ResultMeansCompleted` of `JulesSession` (`src/backend/ai_provider.py:910`): generate, stream_chat and edit drop the session that _poll_to_terminal returns, so a session that ended as FAILED is collected like any other and its text is returned as a success: src/backend/ai_provider.py:913 then says "(Jules completed the session with no agent message.)".
* `OneSessionPerCall` of `JulesSession` (`src/backend/ai_provider.py:778`): the POST that creates a session is repeated after a timeout or a 5xx although the first may have been received: a call can leave one session per attempt at work on the server, and polls only the last; src/backend/ai_provider.py:634 says "each synchronous call creates a short-lived Jules session".
* `LimitPerWindow` of `RateLimiter` (`src/backend/rate_limiter.py:63`): a full bucket and the refill of the window are admitted together, almost twice the limit in one window: src/README.md:926 says "General rate limit (requests per window)".
* `RetryAfterIsEnough` of `RateLimiter` (`src/backend/rate_limiter.py:75`): int() cuts up to a second off: with a limit of one request in two seconds, a client that is denied at the half second after its first request and waits as told is denied again. src/README.md:905 lists Retry-After among the headers of an answer; the time it names is not enough there.
* `ActiveIsEnabled` of `ProviderManager` (`src/providers/manager.py:385`): call promotes a fallback that succeeded without a look at its enabled flag: if it was disabled while the call ran it becomes active although src/providers/manager.py:236 says "Active provider disabled -> fall back to local".
* `DisabledHasNoInstance` of `ProviderManager` (`src/providers/manager.py:309`): an instance whose construction began before the disable is stored after it, and a re-enable uses it: src/providers/manager.py:233 says "Clear any cached instance so a re-enable re-initialises."
* `DisabledIsShown` of `ProviderManager` (`src/providers/interface.py:99`): record_failure on a disabled provider (a health probe is enough) overwrites its status: src/README.md:362 says "Disabled providers" are "DISABLED".
* `OwnKeyIsUsed` of `ProviderManager` (`src/providers/manager.py:295`): the instance made with one user's settings is cached and handed to the agents of another: src/README.md:829 says "per-user stored key" comes first.
* `LookupFallsBack` of `ProviderManager` (`src/providers/manager.py:295`): get_instance looks an instance up and then indexes the cache; a disable in between makes that a KeyError outside the try of call, which ends without its fallback: src/providers/manager.py:354 says "Invoke ``method`` on the active provider with automatic fallback".
* `CachedIsUsable` of `ProviderManager` (`src/providers/manager.py:309`): the Mistral adapter records no error without a key (src/providers/mistral_provider.py:44-55), so get_instance keeps and returns it although src/providers/manager.py:290 says "or None if unusable"; every call of it fails and counts.
* `ChoiceLasts` of `ProviderManager` (`src/backend/main.py:1363`): every request that reads the providers or the configuration sets the active provider back to AI_PROVIDER: src/API.md:356 says of the endpoint "Set the active provider used by all agents".
* `DisableLasts` of `ProviderManager` (`src/backend/main.py:1358`): with PROVIDER_ENABLED set every request enables the listed providers again, one disabled by POST /api/providers/disable (src/API.md:352) included.
* `FallbackOrderIsKept` of `ProviderManager` (`src/backend/main.py:1363`): _provider_manager sets the configured chain and then the active provider, which builds the automatic chain again: src/README.md:377 says "Overrides auto-built chain".
* `SafetyIsKept` of `Backup` (`src/backend/backup.py:117`): two restores within one second make safety backups of one name, and the second overwrites the first: src/backend/backup.py:117 says "Create a safety backup of the current DB before restoring".
* `OnlyPartialRemoved` of `Backup` (`src/backend/backup.py:76`): the handler of a failed creation removes the file of its name, and that may be the complete backup another call made in the same second: src/backend/backup.py:76 says "Clean up partial backup".
* `KeyFitsProvider` of `Accounts` (`src/backend/user_settings.py:113`): build_user_settings asks for the provider once and resolve_user_ai_key once more; an update between the two puts the key of one provider into the field of the other: src/backend/user_settings.py:113 says "Inject the resolved key into the right env-backed field depending on the provider".
* `EnvironmentIsCleared` of `Accounts` (`src/backend/user_settings.py:139`): nothing takes the token out of the environment again: src/backend/user_settings.py:140 says "for the duration of the task".
* `RepositoryFallsBack` of `Accounts` (`src/backend/main.py:789`): a connect without a repository leaves the row of the former connection: the docstring of github_connect says that it falls back to the repository the server is configured with.
* `LoginLasts` of `Accounts` (`src/backend/auth.py:103`): without AUTH_SECRET every call of get_auth_service with settings makes a service with a key of its own, so no token is ever accepted: src/backend/auth.py:103 says "random one per process".
* `PushedIsTheWork` of `TaskGit` (`src/backend/agent.py:1575`): the result of git add -A is ignored: when it fails (another task's git holds the lock of the index, a file cannot be read) what another task or an endpoint had staged is committed and pushed in place of the work, and src/backend/agent.py:1589 says "Pushed branch {branch}."; a checkout that failed, edits another thread took back and a forced push do the same.
* `OwnWorkOnly` of `TaskGit` (`src/backend/workspace.py:71`): with a repository the directory is named after it and shared, so a task commits and pushes the edits of the others: src/README.md:265 says "Each task gets its own directory under `workspaces/<task_id>`".
* `DefaultIsSpared` of `TaskGit` (`src/backend/agent.py:1568`): the result of the checkout of an existing branch is ignored: when git refuses it, "Created branch" (src/backend/agent.py:1571) is said and the work is committed and pushed on the branch HEAD is on, the default branch for a task that runs again.
* `LocalWorkIsKept` of `TaskGit` (`src/backend/github.py:288`): the clone of a later run is moved over what a run in local-only mode had made: src/backend/agent.py:782 says "Continuing in local-only mode. The agent can still run tasks".
* `NewWorkspaceIsShown` of `WorkspaceManager` (`src/backend/workspace_manager.py:211`): a delete that waits for the database removes the row of a workspace made meanwhile under the same name: the comment says "Remove from recents." of the deleted one.
* `ActiveIsReused` of `Sessions` (`src/backend/main.py:2111`): two create requests both find no active session and both insert one: src/backend/main.py:2111 says that an active session of the repository is reused.

The instances: those of the module's passing run; `CancelStopsWork` with the local
provider (`Streaming` {}), `OneExecution` without re-queues, and of `ProviderManager` `MCFallback` set to
<<"mistral", "local">> for `FallbackOrderIsKept`, `EnabledList` to both providers for
`DisableLasts`, a key of the server's own for `OwnKeyIsUsed`, `Blocking` {FALSE} for `ConcurrencyLimited`,
`Configured` FALSE for `LoginLasts`, and a repository in `Repo` for `RepositoryFallsBack`.

## 6. Proofs

`TaskSchedulerProofs` proves, for every finite set of tasks, every set of integer
priorities and every set of retry budgets:

* `TypeCorrect`: `TypeOK` always holds.
* `NoReadyTaskLost`: `QueuedHasEntry` always holds. Together with `TypeOK` it is
  inductive. A push covers its task (`PushCovers`), a promotion every task it
  promotes (`PromotionCovers`); the interesting step is `PopNext`, which throws away
  every entry up to the least live one: an entry of a QUEUED task is live, hence not
  among them.
* `SchedulerImplementsPool`: `ImplementsReadyPool`. Every action maps to a change of
  the pool, a take, or a miss. It rests on `QueuedHasEntry`: without it `pop_next`
  could return None (a miss) with a task ready.
* `HeapOrderIsTotal` (`SequencesUnique`). Numbers of the heap below `counter` and distinct
  (`Numbered`) is not inductive: a promotion gives a task the number `counter` + how many
  promoted tasks come before it by `_seq`, so the order of the known tasks by `_seq` must be
  strict (`Ordered`); both together are.
* `MostUrgentIsTaken` (`PopTakesMostUrgent`), an action property, from `QueuedHasEntry` and
  the minimum that `Remaining` is cut at.
* `LiveTasksHaveRows` (`LiveTasksAreRecoverable`). The invariant `RowsAgree` says what row a task
  has for each status of its item when no call writes it (`RowAgrees`), and what a call
  between two of its steps knows of its task (`CallAgrees`): an enqueue between insert and
  write may find it queued, running or done, never cancelled, since no handler runs.
* `RecoveryTypeCorrect`, `CrashesLoseNoRow` (`RowsStayRecoverable`), `LiveTasksComeBack`
  (`LiveTasksReturn`) and `CancelledIsNotLoaded` (`CancelledStaysCancelled`), over any number of
  crashes, crashes of the recovery included. The invariant `RecoveryAgrees` is `RowsAgree`
  while the server runs; when it died, a row still tells what its task was (`Remembered`);
  while `load_queue` works, every row it would find is either in memory or fetched
  (`LoadAgrees`).

Its last part proves of the worker, for every number of workers made in
turn, of runner threads and of slots, with a `start_fn` that blocks or not:

* `WorkerTypeCorrect`, and `ActiveCounts` (`ActiveIsExact`). The invariant `Slots` adds
  that a worker whose loop stands between its look at the limit and the start of the
  thread still has room: only that loop raises the worker's count.
* `WorkersUseScheduler`: `WorkerSpec => Spec`, so every theorem about the scheduler holds with
  the workers at work.
* `RunningIsAttended` (`RunningHasRunner`). Only a pop makes a task RUNNING, and the loop
  that popped has it; a report always takes it out of RUNNING. It needs that what an
  enqueue inserts is QUEUED or WAITING (`InsertsFresh`) and that a loop not yet made is
  not about to start anything.
* `RunsAreRequeues` (`OneRunPerRequeue`). The invariant `OwedBounded` adds that a QUEUED or
  WAITING task was re-queued once for each of its hand-outs still to be reported on, and
  `InsertsFresh` that a task inserted owes nothing.

`AgentTaskProofs` proves, for any number of executions and requests, any plan, either kind of
provider, any of the ways to run, the serverless deadline included:

* `TaskTypeCorrect`, `RowNeverInvents` (`RowIsTruthful`), `WorkIsDetectable`
  (`RunningIsDetectable`), with row writes that fail. The invariant `TaskInv` says of each execution that the end it is
  about to publish was reached (`RunAgrees`) and of each request that the status it read and
  will write later was reached, and, while nobody asked for an end, is still the one of
  the only execution (`RequestAgrees`): this is what keeps the stale writes of the git
  endpoints harmless there.
* `LateCommandsAreFew` (`LateCommandsBounded`). How many commands started after the flag is an
  account over the execution's place, `InBounds`: one with the check before each tool, without
  it one per attempt of the step.

`EventStreamProofs` proves, for any number of publishers, streams and events and any size of the
history and the queues:

* `StreamTypeCorrect`, `NothingFallsBetween` (`NoGap`): the history is the end of what was
  published (`HistoryIsLast`), and a stream subscribes before it reads it (`HandlerAgrees`).
* `PublishersStayInOrder` (`PublisherOrder`). The invariant `ArrivesInOrder` orders what a stream has
  sent, its queue, and what each publisher holds in its hands: a publisher has one event
  at a time, and delivers it to every queue before its next.

`AgentCoordinatorProofs` proves, for every set of files, every set of registered
roles, every number of fix rounds and iterations:

* `TypeCorrect`; `OnlyTestedWorkIsCommitted` (`CommitIsTested`), `SuccessIsVerified`
  (`DoneIsVerified`), `IterationsBounded` (`BudgetSuffices`) and `CapNeverNeeded`: with a cap of at least
  4 * MaxFixRounds + 8 `Exhausted` never ends a run (the code has 30 and 2).
* The inductive invariant ranks the states of the pipeline: an iteration moves one
  rank ahead, a failure goes back to coding and pays with a fix round, hence
  `iterations < 4 * fixRounds + Rank[next]`; and at or behind the review state the
  workspace is as tested (`TestedAhead`), at git the edits are reviewed and compile
  (`ReviewedAhead`). That the hints of the agents never skip a rank is
  `HintsLeadToAgents`.

`RateLimiterProofs` proves, for all keys, limits, windows, ticks per second and cleanup
ages: `TypeCorrect`, `AdmissionsBounded` (`AdmittedBounded`), `RemainingHonest`
(`RemainingIsHonest`) and `RetryAfterHonest` (`RetryAfterIsHonest`). The inductive invariant has
an account per observer (`Account`): what it has seen admitted, plus what the bucket still holds,
never exceeds a full bucket, the refill since it began, and a full bucket for each removal
within the window; a bucket that cleanup forgets later than that is full anyway. `Honest` ties
the last answer to the bucket. That a client is admitted after Retry-After is arithmetic
about `int()` (`WaitedAdmits`): a denial makes it wait for a bucket, where it needs one request, and
`CutMadeUp` is the condition under which that covers the second cut off.

`ProvidersProofs` proves, for any registered providers, users, agents and calls:

* `ProvidersTypeCorrect`, `LocalIsTheNet` (`SafetyNet`) and `ChoicesAreUsable` (`ChosenIsUsable`).
  The invariant `ProviderInv` asks of the manager (`Sound`) that a chain it built has local in
  it; of an agent (`AgentAgrees`) that what it has chosen can be used, which is due to what it
  unwraps and not to what is cached; of a call (`CallAgrees`) that it has met local, is about
  to, still will, or had its instance dropped. Each method of the manager has a lemma that it leaves
  a sound manager sound, and an endpoint is the composition of some. The chain is built by
  a recursive function over the registered providers (`InOrder`); that the recursion has
  a solution, of the right type, is shown by its least counterexample (`SelectionExists`,
  `InOrderTyped`).

Its second part proves of `JulesSession`, for any number of calls and of retries: `JulesTypeCorrect`,
`ResultsAreFinal` (`ResultIsFinal`), `FewSessions` (`SessionsBounded`) and
`FewLateRequests` (`LateRequestsBounded`). The invariant has three parts per call: where it
may stand with which session, that sessions and copies on the wire never exceed the
attempts made, and how many requests it can still send after the deadline from where
it stands.

`ServerDataProofs` proves, for any content of the database, any threads, any clock and any number
of files kept: `BackupTypeCorrect`, `RestoreSafety` (`RestoreIsSafe`) and `RotationSafety`
(`RotationKeepsNewest`), with the server as the action `Write`. For the restore: as long as no
two calls took one name, the file a call works on is its own, so between its copy and
its overwrite only rotation can have removed it, and only a write or another restore
can have changed the database. For rotation: the files a call has yet to remove are
older than at least Keep others of its list, another rotation removes the oldest first
and spares as many, and only a failed creation takes a newer one away.

Then, for any users, requests, tokens and restarts:

* `ServerIsAWriter`: `Spec => BackupSpec`. Every step of a request is a `Write`, a step of a
  backup is one of the backups, and the log-in histories stutter. Hence
  `ServerRestoreSafety` and `ServerRotationSafety`, the same two properties with the requests
  at work, and `ServerTypeCorrect`.
* `ConnectionsStayCoherent` (`ConnectionsCoherent`). Connect writes the token row and the
  preferences in two steps, and a restore may put any backup in between, so coherence
  must hold of every file as well (`ImagesWhole`), except for the users whose connection
  `torn` marks; and a call that is alone in changing a connection is about to write
  the account of the row that is there (`LinksAgree`).
* `SettingsAreTheUsers` (`BuiltFromOwnChoices`) and `TokensMixOnlyByOvertaking`
  (`OwnTokenUnlessOvertaken`). After each of its reads a build holds what its user had chosen
  at some time since it began, or the server's where the read failed (`BuildsAgree`).

`WorkspacesProofs` proves, for any directories, branches, tasks, requests and sessions, with
several tasks in one directory or not:

* `WorkspacesCorrect`: the inductive invariant `WorkspacesInv`. A directory with a finished clone
  has HEAD on a branch, one without has nothing staged or committed (`Sound`, in `DiskInv`); the
  remote has its default branch (`RemoteInv`). `TasksInv` follows a finalize that nobody
  disturbed (`TaskAgrees`): its edits stay in hand (`InHand`, among the files when it looks and stages,
  staged when it commits, then on its branch), HEAD is on that branch from the checkout on, and
  once pushed the edits stay on origin. Each action has a lemma about its effect on the
  directories and on the tasks that watch (`Watches`): what it leaves is `Solid`, and it keeps what a
  finalize of another task has in hand or ends its `steady`. A remote that only grows
  keeps what was pushed (`GrowsKeeps`); a forced push does not, and ends `steady` as well
  (`OriginKept`).
* `PushedIsPushed` (`PushedAsTold`), from `TasksInv`.
* `WorkStays` (`WorkIsKept`), an action property: of each step, that what it leaves of a
  directory holds every task's edits it held, or that it is one of the losses the property
  names (`MayLose`): the deletion of a directory, a clone that fails and clears it, of a task or of
  the manager, a clone moved over it, and a discard, a tool or a command that takes just that.
  `OnlyTheseLose` puts the steps together.
* `WorkspacesAreShown` (`RecentsFollow`). `ManagerInv`: a directory the manager knows has its row,
  or a request that is about to touch it, or one whose write failed.
* `OneSessionPerRepo` (`OneActivePerRepo`). `SessionsInv`: a create that looked and found nothing
  has, of all active sessions of its repository, only those it knows appeared since
  (`Knows`), which it then notes; and any two active rows of a repository are `Apart`.
  Rows move by `RemoveAt` and `Append`, whose positions are lemmas of their own.

Assumptions: those in the ASSUMEs of the modules, no others. Those that say more than that a
bound is a number: `None` is neither a directory nor a sealed row, `NoTask`, `NoRun` and `Nobody`
are none of the things they stand for the lack of, the set of tasks and that of executions are
finite, and the branch of a task is never the default one (`TaskGitAssumption`: it is
"pk-ninja/<id>", `src/backend/agent.py:1564`).

Where a proof needs the largest or least position of a sequence (`LargestExists`, `LeastExists`),
or an induction over positions, it comes from the library's theorem that strict inclusion of finite sets is well-founded.

## 7. What is only model-checked, what is not modelled

Liveness (`ReadyIsServed`, `RunsEnd`, `WebSocketsEnd`, `CallsEnd`) is out of the prover's
reach and stays with TLC. Every other property of the runs, invariant or action property, is
proved. The runs keep their use next to the theorems: they reach the interesting
states, and show that a bug in the code would be noticed.

What the models take for granted:

* the directory of the workspaces does not lie in another git repository, and a clone has
  one remote;
* a command of an agent or a terminal takes edits or branches away, one part at a time, or pushes by
  force; one that moves edits (stash, soft reset) or removes .git itself is left out;
* sessions are ordered by last_active without ties, and recent_workspaces shows more rows
  than there are directories (the code shows ten);
* the GitHub account of a token does not change its name;
* SQLite is atomic per transaction; its failures are modelled where the code goes on
  without what it wanted to write (`WriteFails`, `WriteRecent`, `CreateFails`, `Announce`, `Fails`), and not in the scheduler's persistence.

Not modelled, with the reason:

* stateless wrappers and predicates: provider adapters, the command and path policy, CSRF
  tokens, configuration;
* what only reads and formats: history, export, monitoring, metrics, logs, the release
  checks, the file and search tools that only read, diffs;
* the index and the context engine: a cache that only makes prompts better or poorer;
* the requests of the GitHub API workspace and dulwich: other ways to fetch and push. A task
  that uses the first starts in `TaskGit` without a clone, and what its fetches do to files of
  others is in `Overwrite`;
* prompts, plans and the texts of models, and the browser.

## 8. Plan

Done, in the order of importance: scheduler, persistence, worker (with proofs), agent run, events,
coordinator; rate limiter and Jules sessions, with proofs; provider manager; accounts,
settings and backups on one database; tasks, git, workspace manager and sessions on one disk;
proofs about all of them.

Left:

1. Composition of `AgentTask` with `TaskGit`: a cancel between two commands of a finalize.
2. Failures of SQLite in the scheduler's persistence, with with_retry of `backend/db.py`.
