# CloudTask: formal models and proofs

TLA+ models of the CloudTask distributed task platform (this repository), the
TLC runs that check them on small instances, and TLAPS proofs of their main
properties for every instance. Paths below are relative to the repository root
(`services/...`, `pkg/...`); module names are files in this directory.

## 1. The system

CloudTask accepts tasks over HTTP, keeps them in PostgreSQL, announces them
through RabbitMQ, and executes them in worker processes that coordinate through
Redis. Everything is asyncio: each `await` is a point at which every other
coroutine of every process may run, and no database statement locks a row.

| Component | State it keeps | Operations | Interacts with |
|---|---|---|---|
| Task service (`services/task-service/routes.py`) | rows of `tasks` and `task_attempts` (PostgreSQL) | create, batch, cancel, retry, replay-all, clear-history, start-processing, mode, stream, reports | database; publishes to RabbitMQ after the commit, or starts an execution directly when that fails; publishes abort signals on Redis |
| Worker executor (`services/worker/executor.py`) | one session per execution with its own copy of the row; the abort subscription | `execute_task`, `check_and_trigger_dependents` | Redis lock `lock:task:<id>`, database, handlers, RabbitMQ |
| Worker process (`services/worker/main.py`) | unacknowledged messages | `on_message`, `poll_and_execute_tasks`, `process_priority_queue` | starts executions |
| Scheduler (`services/scheduler/main.py`) | `task_schedules`, leader lock | `process_due_schedules`, `process_delayed_tasks` | database, RabbitMQ; the first also runs in the gateway |
| Redis client (`pkg/redis_client.py`) | lock keys, idempotency keys, rate counters, execution mode | `distributed_lock`, `check/store_idempotency`, `check_rate_limit`, `get/set_execution_mode` | everything; each falls back to a permissive answer when Redis is down |
| Broker client (`pkg/messaging.py`) | task queue, dead-letter queue, notification queue | `publish_task`, `publish_event` | RabbitMQ |
| API gateway (`services/api-gateway/main.py`) | none of its own | rate-limit middleware, retrying proxy, poller loop, scheduler loop, pages | all services, in process or by HTTP |
| Notification service (`services/notification-service/main.py`) | `notifications` | log an event, call a webhook | RabbitMQ, database |
| Console (the dashboard page inside `services/api-gateway/main.py`) | the list it last fetched, buttons, the token, its pollers, processing runs | dispatch, cancel, retry, replay, clear, mode, demo tasks, export; four fetchers | gateway by HTTP |
| Auth service (`services/auth-service/routes.py`) | `users` | register, login, verify, me | the console logs in again when a token is refused |
| SDK (`sdk/cloudtask/client.py`) | none | submit, batch, cancel, retry; `TaskPromise.wait` polls every second | gateway by HTTP |
| Models, config, logging, migrations, deployment, reports | see `PROJECT.json` | | |

What is hard here:

* **Several ways to start one execution.** A broker message, the poller (every
  two seconds, for every QUEUED row), a priority run and the direct fallback
  may all start `execute_task` for one task. Only the Redis lock and the status
  guard behind it keep them apart, and the lock has no owner, no renewal, and
  a grant-by-default when Redis is away.
* **Stale rows.** Sessions are opened with `expire_on_commit=False`. A status is
  read once and written several awaits later; cancel, retry, replay, resolvers
  and the scheduler do the same without looking again.
* **Dual writes.** The row is committed and the message published in two steps,
  in either order, with a crash or a broker failure possible in between.
* **Signals.** The abort of a running execution is a Redis PUBLISH, which only
  reaches who is listening at that moment.
* **Wake-ups.** A task that waits for others is released by whichever resolver
  sees them all succeeded, once, in a background coroutine.
* **Resent requests.** The gateway sends a request again when the connection
  fails, while the first one may still be at work; clients repeat theirs. The
  idempotency key is looked up and stored in separate steps (in a batch, stored
  before the commit), beside a search for duplicates that commits later.
* **Late answers.** The console has up to four fetches under way at once, each
  replacing the whole list, and its buttons act on what it shows.
* **Two tellers.** A progress message follows its commit, a stream subscribes
  after it has read the row, an event passes an exchange that may not route it.

The correctness properties that follow, by component:

* executor and lock: executions of one task exclude each other; a task
  completes once per time it is set going; a settled task stays settled; no
  task is left RUNNING with nobody at work on it; every task comes to rest;
* cancel, retry and replay: they do not undo a settled task and no execution
  undoes them (the second half is not kept by the code, see section 5);
* release: no task begins before its prerequisites and its countdown; no
  release is lost; what is ready leaves PENDING;
* scheduler: a schedule is fired once per occurrence, and every due one is fired;
* submission: one task per idempotency key, whatever is resent; a client is told
  of committed tasks only; a repeated request is honoured;
* observers: what is shown has been so, never goes back, and reaches its end; an
  event in the notification queue is logged or counted, once unless there is a crash;
* console: it sends a dispatch once (that the gateway may send it again, and so make
  a second task, is section 5's), tells the truth about outcomes, undoes no task it
  could have known to be finished, and converges to the table through rate limits and
  lost answers.

## 2. Modules

| Module | Models | Extends / instantiates |
|---|---|---|
| `DistributedLock` | abstract lock: what callers of `distributed_lock` rely on | |
| `TaskLife` | abstract life of a row of `tasks`: which status may follow which, whoever writes it | |
| `TaskExecution` | `execute_task`, the ways it is started, the lock's keys, the message broker, cancel, retry, replay, crashes | instantiates `TaskLife` |
| `TaskExecutionProofs` | theorems about `TaskExecution` | extends it, `TLAPS` |
| `TaskRelease` | PENDING: dependency resolution, delays, priority promotion, history clearing | instantiates `TaskLife` |
| `TaskReleaseProofs` | theorems about `TaskRelease` | extends it, `TLAPS` |
| `Scheduler` | recurring schedules: due rows, leader lock, lock per row, the gateway's loop | instantiates `DistributedLock` |
| `SchedulerProofs` | theorems about `Scheduler` | extends it, `TLAPS` |
| `Submission` | requests on their way to a row: gateway retries, idempotency keys, duplicates, batches | instantiates `TaskLife` |
| `SubmissionProofs` | theorems about `Submission` | extends it, `TLAPS` |
| `SubmissionKeyProofs` | that idempotency keys are honoured | extends `SubmissionProofs` |
| `Observers` | progress stream, `TaskPromise.wait`, notification service, topic exchange | |
| `ObserversProofs` | theorems about `Observers` | extends it, `SequenceTheorems`, `TLAPS` |
| `RateLimiter` | the fixed-window counter of the gateway and its two-command fallback | |
| `Dashboard` | the console, the gateway's proxy, and the handlers of the task service that answer it | extends `RateLimiter` |
| `DashboardViewProofs` | types, that the console shows the truth, that rows live as `TaskLife` says | extends `Dashboard`, `TLAPS`; instantiates `TaskLife` |
| `DashboardProofs` | what a click makes, and what requests may undo | extends `DashboardViewProofs` |
| `MCTaskExecution`, `MCTaskRelease`, `MCScheduler`, `MCSubmission`, `MCDashboard` | small instances | extend the above |

`Dashboard` composes the limiter with the page, the proxy and the endpoints. The other
modules meet at the row, and `TaskLife` is what they agree on. It lists every pair of
statuses some writer of the column may leave one after the other: not a transition
table of the code, which has none, but what remains of all its writers together.

* `TaskExecution` with a reliable lock, and `TaskRelease`, implement it
  (`LifeContract` in both, checked and proved). Without the lock an execution writes
  its own outcome over a SUCCESS, which `TaskLife` does not allow.
* `Submission` takes its environment from it: `Live` moves a task as `Life!Moves`
  says, insertions excepted, with the ended statuses folded into one (`Abridged`). Nothing
  that holds there rests on more about executions than `TaskLife` says.
* `Dashboard` (`Worker`, `Ready`, and its endpoints) and `Observers` (`Work`,
  `Cancel`, `Redrive`) have simplified executions of their own: `Dashboard`'s know no
  RETRY, those of `Observers` come one at a time. They stay within `TaskLife`
  (`RowsLive`, `RowLives`, proved) without making all of its moves; what an
  overwritten cancel does to the console is not examined.

`TaskLife` is weaker than the diagram of `docs/architecture/state-machine.md`, since
the code is (section 5): QUEUED may follow any status, also SUCCESS, and a cancelled
task may run on.

### TaskExecution

A *runner* is one activation of `execute_task` in any process. Its `pc` names
what the code does next: `lock` (inside the 50 attempts of `distributed_lock`),
`load` (SELECT and status guard), `begin` (commit of RUNNING), `start` (attempt
row, subscription), `handler`, `persist` (the 0.3 s after a success in which an
abort is still heard), `succeed` / `fail` / `aborted` (final commit), `backoff`
and `publish` (the retry), `release` (the `finally` of the lock), `reply`
(acknowledgement). One action is one stretch of code between two awaits that
others can observe; a commit and the assignments it writes are one action.

| State | Code |
|---|---|
| `status`, `attempt`, `completed` | `tasks.status`, `tasks.current_attempt`, number of SUCCESS rows in `task_attempts` |
| `locked` | existing keys `lock:task:<id>`; keys carry no owner |
| `queue` | ready messages on the task queue (counted per task; order is not modelled, so every order is considered) |
| `via` | `"message"` while an unacknowledged delivery stands for the activation |
| `seen` | the session's copy of the row; `Written` is SQLAlchemy's rule that an unchanged attribute is not written |
| `abort` | the subscription to `task:abort:<id>`: off, listening, signalled |
| `posting`, `cancel`, `redrive`, `read` | requests between their statements |
| `redriven`, `faults` | counters that name bounds |

Faults: a process dies (`Crash`: its message returns to the queue, its lock key
stays, or goes with an orderly shutdown), the broker connection drops
(`Disconnect`: the message is delivered elsewhere while the handler goes on),
a database statement raises (`DbFails`: out of `execute_task`, message rejected
to a queue nobody reads), a publish fails (`PutOrLose`), the API process dies
between its statements (`ApiCrash`), Redis is away or the key expires under
its holder (`AcquireFallback`, `LockExpires` with `LockReliable = FALSE`).
The five flags select which of these an instance has, so that a property is
stated with exactly the faults it survives.

The lock is modelled as the code uses it, by its key; that executions exclude each
other is `MutualExclusion`. (`DistributedLock` is used by `Scheduler`, where the pass of
a leader is shown to implement it beside loops that take no lock.)

Abstractions: PENDING belongs to `TaskRelease`. Handlers compute nothing; they
succeed, fail or are aborted. The commit of `progress = 70` behind a handler that has
succeeded is not a step of its own: when it fails the code goes on as after a success,
or leaves `execute_task` with the exception, which are `HandlerSucceeds` and `DbFails`;
it never counts as a failure of the handler. Only SUCCESS rows of
`task_attempts` are counted. The broker's own dead-letter queue is not read by
anything, so a rejected message is gone. A task has at most one cancel and one
redrive request in flight.

### TaskRelease

`status`, `creating` (a create request between its look-up and its insert),
`elapsed` (countdowns that are over), `working` (executions in progress, one per
task, as `TaskExecution!MutualExclusion` allows), the resolvers (`phase`, `of`,
`list`, `todo`, `kept`, `pick`: the coroutine `check_and_trigger_dependents` between its
queries, with the rows it keeps copies of), `batch` (the list of due
tasks a scheduler works through), `promoting` (a priority run between reading
and committing), `clearing` (the ids `clear_history` has selected).

`Met` is the code's condition, with its `len(rows) == len(depends_on)`: a
deleted prerequisite, or one named twice, is never met. `Seen` is the view a
resolver's session has of the rows: the copies it still holds win over what the
database says, which are all PENDING rows of its first query (`list`) and the
prerequisites of the dependent it examined before (`kept`; SQLAlchemy's identity map
is weak, so older ones are gone).
`Release` and `ReleaseDelayed` write QUEUED whatever the row says by then.

`succeeded` and `missed` are history variables: no guard reads them. `missed`
records the two ways the code can lose a release (the dependent was inserted
after its last prerequisite had succeeded, or a resolver ended early), so that
`NoLostWakeup` says that there is no third.

Abstractions: RETRY is folded into QUEUED, the lock around an execution is taken
as reliable, cancel and retry are atomic (their races are in `TaskExecution`),
and messages are not modelled since the poller picks up every QUEUED row.

### Scheduler

A *loop* is a replica of the scheduler service (`Electing`: `run_scheduler` takes
the leader lock for a pass) or the background loop of a gateway (it takes none).
`at` is where its pass stands: `select` (the query for due rows), `work` (between
two rows), `fire` (inside the lock of a row), `unlock` (after the commit, publish
included), `leave`. `began` is the `now` captured at the start of the pass, which
becomes `last_run_at`; `nextRun` is computed from the clock at the time of the
firing. `leader` and `keys` are the Redis keys; `tasks` counts the rows inserted.
`Fire` never looks at the row again: `list` is what the code holds.

Abstractions: the capture of `now` and the query are one action. croniter is
external: any function that returns a later instant or fails. The publish after
the commit is left out, because the poller finds every QUEUED row. No code writes
`is_enabled`. `process_delayed_tasks`, which a leader calls next, is in
`TaskRelease`.

### Submission

A *call* is a request a client makes; a repeated one is a call of its own, and
`before` keeps what clients had been told when it was made. A *handler*
`<<call, attempt>>` is one activation of `create_task` or `create_batch_tasks`;
the gateway starts the next attempt (`ConnectionFails`) while the last one may be
at work, finished, dead, or never have begun. `pc` names what a handler does next:
`key` (GET of the idempotency key), `row` (the SELECT of the id it names), `dup`
(the search for an active duplicate), `insert`, `store` (SET of the key),
`commit` (batch only), `publish` (and reading the answer back). A single task is
committed at `insert` and its key stored afterwards; a batch stores keys in its
loop and commits once at the end. `Unique` is the unique index on
`idempotency_key`.

| State | Code |
|---|---|
| `status`, `stored`, `sent` | `tasks.status`, `idempotency:<key>`, rows published or started directly |
| `item`, `cached`, `made`, `reply` | locals of the handler: loop index, `cached_id`, `created_tasks`, the response |
| `attempt`, `answer` | `proxy_request`'s loop and what its client receives |
| `during`, `before`, `shaken` | history only: rows that became active since a handler looked for duplicates; what clients knew; keys that Redis lost or whose task was cleared |

`Live` is the life of a task elsewhere, taken from `TaskLife` with SUCCESS,
CANCELLED and DEAD_LETTERED folded into one ended status, which is all that the
handlers distinguish. Faults:
connections, deaths of a handler's process, failing GET and SET (both are
swallowed by the code), failing commits, keys that expire.

### Observers

One task, one execution at a time. Each commit of `execute_task` and the
`publish_progress` behind it are two actions, so that a subscriber may come
between them. A behaviour has one observer, chosen in `Init` by `watching`,
since none of the three affects another: a stream (`stream`, `loaded`, `inbox`),
a `TaskPromise.wait` (`wait`), or the notification service (`ready`,
`subscribed`, and per handler `at` and `held`). `shown` is what the client has
been sent. `Matches` is RabbitMQ's topic rule on words; `PublishEvent` drops
what matches no binding. A handler writes its e-mail row, posts the webhook,
writes the second row, and only then is the message acknowledged.

`PublishProgress` may lose its message, since `publish_progress` swallows an error of
Redis; `lost` says which commit that was, one per behaviour.

Abstractions: `progress` takes the values the code assigns. `StreamTimesOut`
stands for the 180 s limit and is enabled only when the task rests (a shorter
stream would only end sooner). The handler catches its own
errors, so `message.process(requeue=False)` always acknowledges; a message comes
back only when the process dies.

### RateLimiter and Dashboard

`RateLimiter` has `hits` and `expiry`, `Count` for a counted request and
`CountOnly` for the fallback whose EXPIRE fails. `Dashboard` takes it as its own
(`EXTENDS`) and counts every request of the page, logins included.

A round trip of the page begins with `Send`, which passes the limit and the login, and
ends with `Handle`, when the page has its answer; between the two the page and the
table move on. The list and the export are answered in the step of `Send`. What
changes the table is *received* by a handler of the task service (`work`), which
*looks* at the table in one step (`Look`: the duplicate search, the status check, the
select) and *commits* in another (`Commit`), over whatever the rows have become, as
the endpoints do: nothing is locked in between. A row deleted meanwhile makes an UPDATE
raise (`Vanished`); a DELETE, and an INSERT, go through. The priority run that `start`
and `mode` launch is a handler too (`Background`), and another user's clear-history may
be under way when the page is loaded (`Clearing`).

`Resend` and `GivesUp` are `proxy_request`: its connection to a handler fails or times
out, the handler is dead or works on with nobody listening, and the request is sent to
another one, `Attempts` times in all, before the page is told of a 503. The console
sends no idempotency key. `Lose` is the connection between page and gateway, which
nobody sends again.

`Requests` counts what a round trip costs the limit:
a login when there is no token, the refused attempt, the login and the repetition
when the token is stale. The fetchers are `timer`, `poll` (the result of a
dispatched task) and `fast1`, `fast2` (two overlapping fetches of a processing
run); every one ends in `Lands`, which replaces the list. `disabled`, `filter`,
`polled`, `attempts`, `live`, `polls` and `demos` are the page's own variables;
`isProcessingQueue` keeps its name. `history`, `made`, `dropped` and the fields `request`
and `since` of a handler are history: no guard reads them.

Abstractions: a request is passed on in the step that sends it, and its token is
checked there (the checks of a handler before its first query change nothing).
Endpoints that call another service's code find it (`run_local.sh`,
`Dockerfile.render`); in the images of docker-compose they answer 500, which is
`Refuse`, except that a mode has been set by then (`OthersSwitchMode` beside `Refuse`).
The table orders tasks by a fixed `Order`; one dispatched task at a
time has its result polled; `online` is written by the answers to fetches only
(a login also writes it); handlers of the workers are `TaskExecution`'s. The
inspection dialog, the toasts and the warning that offers to send a duplicate
again are not modelled.

## 3. Runs

`exec_*`: two runners, one task: tasks meet only in sharing runners and in the joint commit
of a replay, and the properties are per task; two activations are what it takes
for any of the races (a third only waits for the same lock). The proofs cover any
number of both. `Retries = 2` gives a first attempt, a retry and a dead letter;
`MaxQueue = 2` and `MaxAttempt = 3` bound the state space through a CONSTRAINT
(a third ready copy of a message behaves as the second); one fault and one
redrive per behaviour.

| Run | Instance | Shows |
|---|---|---|
| `exec_safety` | reliable lock, every other fault | type invariant, mutual exclusion, refinement of `TaskLife`, one completion per time set going |
| `exec_unreliable` | lock lost at any time, no failing statements, polled executions do not die | settled is final; nothing is stranded in RUNNING or RETRY |
| `exec_delivery` | fair, lost publishes, one crash | every submitted task settles |
| `exec_cancel` | no fault at all | violation: CANCELLED is overwritten |
| `exec_stranded` | fair, a polled execution may die | violation: a task stays RUNNING for ever |
| `release` | fair; c waits for a and b, b is delayed; two resolvers | type invariant, prerequisites first, countdown first, no lost wake-up, refinement of `TaskLife`, what is ready leaves PENDING |
| `release_prereq` | c is delayed and has prerequisites | violation: the scheduler releases it without them |
| `scheduler` | fair; two replicas, reliable lock, one cron and one interval schedule, instants 0 to 3, one crash or failing commit | type invariant, once per occurrence, the leader lock implements `DistributedLock`, what is due is fired |
| `submission` | fair; a request, its repetition and a batch, two of the three in one behaviour; two attempts by the gateway, one fault, two steps of tasks | type invariant, one row per key, only committed tasks are named, one answer per key, keys are honoured, duplicates only by overlap, every call is answered |
| `observers` | fair; one redrive, `max_retries = 2`, two faults, two foreign events, webhook, one handler | type invariant, shown is true and goes forward, ends are heard unless Redis loses that message, followers end, events are accounted for, repeats need a crash, the queue drains |
| `notify` | no fault, no redrive | violation: no outcome of a task is ever notified |
| `dashboard` | fair; see below | type invariant, the page shows what was, one task per attempt and several per click only over a lost connection, announced outcomes are true, finished tasks stay but for the gap between look and commit, the page converges, processing runs end |

The instance of `release` is the smallest in which two prerequisites can succeed
together, one of them late, with a resolver each. It has one dependent, so that `kept`
plays no part in it; that older copies of prerequisites neither start a task early nor
lose it is what the theorems `Prerequisites` and `Wakeup` show, for any workflow.

In `scheduler` four instants let the cron schedule (every second instant) and the
interval schedule (two) each come due twice from any first instant; a pass reads
both, so a fault may hit between them.

In `submission` the request is forwarded by the gateway and its repetition is
not, the batch has a key of its own and shares the title of the request, and its
second item is created PENDING. Two attempts are the least with which a resent
request meets the first one at work; the third attempt of the code would meet two
of the same kind. Two calls at a time give every pair: a request and its
repetition, a request and the batch. (All three calls together, or two faults,
multiply the states beyond what can be kept.) `MaxMoves = 2` takes a task out of
the active statuses and back, or to its end and out of the table.

In `observers` an execution can be dead-lettered, put back and run again while a
stream is open; two faults allow a crash and a failing insert in one behaviour.

In `dashboard` two tasks have one title; the page is loaded with no task, with one
queued beside one that waits in RETRY, with one that has succeeded beside room for
another, or with one that is running while somebody else clears the history.
`RateLimit = 2` lets a renewed login (three requests) exhaust the window, where
the 200 of the code need many; `MaxInFlight = 2` gives every pair of overtaking
answers; `MaxPolls = MaxAttempts = 2` has each poller end by finding something
and by giving up. Two handlers are a click's request beside its own second attempt,
beside a priority run, or beside the other user's clear-history; `Attempts = 2` is the
least that repeats. At most one click or other event of the operator and one fault per
behaviour: fetches, answers, handlers, workers and windows are not limited, so a click
meets any state of those. It has about 494 000 states and is the longest run (some
three minutes with two workers). The proofs have any number of all of these.

Most runs switch deadlock checking off: the system may stop when every task is
settled and no request comes. `dashboard` does not, since the page's timer never
stops.

## 4. Fairness

Coroutines that are ready run (asyncio), so `Step` of every activation, the
resolvers' steps, and the requests the API has accepted are weakly fair.
RabbitMQ delivers what is ready; a Redis key with EX goes away; countdowns pass; the
scheduler polls every five seconds. That somebody polls for QUEUED rows every two
seconds (`Poll` of `TaskExecution`) holds where a gateway has `services/worker` beside
it (`run_local.sh`, `Dockerfile.render`), or a worker could not subscribe to RabbitMQ.
The images of docker-compose and Kubernetes have only `pkg` and their own service, and a
worker that has subscribed does not poll: there `Settles` is not granted (section 5).
One assumption is strong fairness:
`ReleaseDelayed`, since a scheduler that dies or fails to take a lock drops its
list and reads it again; it says that the scheduler does not fail on one task
for ever. In `Scheduler` weak fairness of the passes and of key expiry is enough,
since faults are bounded there. In `Submission` a handler that is ready runs, an
answer that was sent arrives, and the gateway notices when the other end of a
connection is dead (its timeouts). In `Observers` executions proceed, the loops
of the stream and of `wait` turn, and the notification service subscribes again
(`run_notification_service` tries every three seconds) and serves. In `Dashboard`
timers fire and answers are handled, handlers go on, workers take and end what they
may, and the limiter's window passes. Users (submit, cancel, retry, click) and faults are
never fair.

## 5. Where the code differs from its documents

Four runs end in a violation, each of one property that restates a document;
`PROJECT.json` quotes the lines:

* `exec_cancel`: a cancel is overwritten by an execution that does not hear it
  (state machine, ADR 010);
* `exec_stranded`: a polled execution that dies leaves its task RUNNING (ADR 003,
  "zero task loss");
* `release_prereq`: a delay overrides prerequisites (ADR 009);
* `notify`: the events of finished tasks have three words and the binding
  `notification.*` takes two, so nobody is notified (README, state machine).

More were met while modelling. No run is kept for them; each can be seen with an
instance of a module here, but for the first, which is an assumption of one:

* In the deployments of docker-compose and Kubernetes no one polls for QUEUED rows once
  the worker has subscribed, and the direct fallback of `create_task` cannot import the
  worker: a task whose publish is lost stays QUEUED until somebody starts a processing
  run. `Settles` needs the fairness of `Poll` for exactly this.
* The gateway sends a dispatch of the console again when its connection fails or times
  out, also after the row was inserted, and the request has no key: one click makes two
  tasks unless `prevent_duplicates` finds the first. `OneTaskPerClick` says that this is
  the only way; without its `dropped` it fails in `MCDashboard.cfg`.
* cancel, retry, replay-all and clear-history commit what they decided some awaits
  earlier: a cancel overwrites a SUCCESS, a clear deletes a task that was queued again.
  `FinishedStays` says that only such a handler does so; without its `since` it fails
  in `MCDashboard.cfg`.
* The lock does not ensure single execution (ADR 004): `CompletionsBounded` fails
  in `MCExecSafety.cfg` with `LockReliable = FALSE`.
* A dead-lettered task is run by a late message (ADR 003): the guard of
  `execute_task` turns away SUCCESS and CANCELLED only (`Load` of `TaskExecution`).
* A resolver that lists dependents before they run writes QUEUED over a task that
  has finished meanwhile (state machine): `Release` of `TaskRelease` with three
  resolvers.
* The gateway's loop takes no leader lock (`services/scheduler/main.py:75`): with
  `Electing = {l1}` in `MCScheduler.cfg`, `OncePerOccurrence` fails.
* A batch that shares an idempotency key with a single request stores the key for
  a row of its own, after which its commit fails on the unique column. Repeating
  the first request then finds a key that names no row, and is refused as a
  duplicate or fails with a 500 until the key expires (ADR 004 promises the first
  task): `KeyHonoured` fails when the batch in `MCSubmission` is given
  the key `k1`, with `MaxCalls = 3` and `MaxFaults = 0`.

## 6. Proofs

For all tasks, runners, retries, workflows, resolvers, schedulers, requests,
rate limits and bounds.

`TaskExecutionProofs`:

* `Typing`: `Spec => []TypeOK`. One lemma per group of actions.
* `Exclusion` (reliable lock): from `MutexInv`, which adds `KeyHeld` (whoever is
  inside holds an existing key) to mutual exclusion. `LockEffect` sums up what
  any step does to keys and stages, so the invariant is argued once.
* `Completions` (reliable lock): the bound is not inductive by itself.
  `CompletionInv` adds that a task which has used up its completions is quiet: the row
  has a status the guard refuses and no execution of it is past the guard (a late
  cancel moves the row only from one such status to another). It rests on `MutexInv` and on `SeenInv`, what an execution past
  the guard can have seen.
* `LifeRefinement` (reliable lock): every step moves rows as `TaskLife` allows. Besides
  mutual exclusion it needs `LifeInv`: an execution past its guard still works on a
  row that is not in SUCCESS (`GuardKept`; only the holder of the lock writes that
  status), and nothing stands for a task not inserted yet (`SpokenInserted`: no
  message, activation, copy of the row or request).
* `Finality` (no assumption about the lock): an action property; a settled task
  has no execution past its guard, and a new one is turned away by `Load`. The run
  `exec_unreliable` checks it without failing statements; the theorem has all faults.
* `Stranding` (no failing statements, polled executions do not die): by cases on
  who moved a task into RUNNING or RETRY.

`TaskReleaseProofs`:

* `Typing`.
* `Prerequisites` and `Countdown`, assuming `OneGate` (no task has both a delay
  and prerequisites; without it the first is false, run `release_prereq`).
  `GateInv` says that whatever has left PENDING, is being released, promoted or
  created as QUEUED satisfies both conditions; it needs `succeeded` rather than the
  current status because history may be cleared, and because a resolver may go by an
  older copy (what it has seen in SUCCESS is in `succeeded`).
* `Wakeup`: `NoLostWakeup` with two more conjuncts, `Recorded` (SUCCESS is in
  `succeeded`) and `OwnWork` (what a resolver has to examine names the task the
  resolver was started for; before its first query it holds no copies). A resolver that
  keeps a copy of a prerequisite older than its success will not release the dependent,
  but the resolver of that prerequisite, started later, will.
* `LifeRefinement`, from a `LifeInv` of its own: a task is inserted once, and what
  is on a list, picked, promoted, executed or about to be cleared has been inserted
  (`InsertedOnce`, `HandsInserted`, `BegunRows`). It has no assumption: with `OneGate`
  broken a task begins too early, but its row still moves as it may.

`SchedulerProofs`:

* `Typing`; a pass, and the last run of a schedule, is never in the future.
* `LeaderRefinement` (reliable lock; gateways allowed): `LeaderEffect` sums up what
  a step does to the leadership, `LeaderInv` is the analogue of `MutexInv`.
* `FiredOnce` (reliable lock, every loop elects): `FireInv` says that what is on a
  list is still due (`ListsDue`; a step of another loop would break it, so it needs
  `LeaderInv`), and that a schedule is always moved past its last pass (`MovedOn`).
  The instance of section 5 shows why every loop must elect.

`SubmissionProofs`, for any calls, batches, attempts and faults:

* `Typing`, with `Placed` (a handler that looks for a row has an id).
* `UniqueKeys`: `StatusChanges` sums up what a step does to the table (one commit
  of fresh rows that satisfy `Unique`, one move of one task, or nothing).
* `Named`, from `NamedInv`: what a handler has made is committed, or is its own and
  not yet announced (`Kept`), and so are answers and what was sent. It is what a key
  that a batch stored and never committed cannot break.
* `OneAnswer`, from `OneRowPerKey`, `Keyed` (a stored id has the key it is stored
  under) and `Related` (what a handler has made or answered carries keys of its
  request, and a single request has one).
* `NoSilentTwins`, an action property: `TwinInv` says of every handler that what it
  is about to commit has been checked against the rows active then (`Checked`), that
  later ones are in `during`, and that attempts not yet made have not begun
  (`Unstarted`).

`SubmissionKeyProofs`:

* `KeysHonoured`, assuming `SoloKeys` (no batch carries the key of a single
  request; the batch of section 5 is the counterexample without it). A key is
  `Trusted` while Redis has not lost it and no task of it has been cleared.
  `KeyInv` says that a trusted key names an existing row (`Names`), that a handler
  of a request holds and answers what its key names, and is on the way to `"ok"`
  if its client knew that row (`Leads`), the same of answers received (`Settles`),
  and that requests not sent have no answer (`Silent`). `Steady` is the heart of it:
  a trusted key that names a row names it for good.

`ObserversProofs`, for any retries, redrives, faults, events and handlers:

* `Typing`, with `Counted` (an attempt is begun only while one is left).
* `Truth` and `Forward`: `FollowInv` says that what was shown, loaded or announced
  is a commit that happened (`Reached`, `Truthful`), and that the announcements in an
  open inbox are in the order of their commits and not before what was shown
  (`Apart`, `Ordered`; this is where sequences are needed).
* `Accounts` and `Repeats`: `ServiceInv` says that an event is ready or with one
  handler (`Placed`), and compares how often its e-mail, webhook and second row were made
  with how often the service has crashed (`Tallied`).
* `NeverNotified`: the outcome of a task never gets into the notification queue, in
  any instance; run `notify` is not an accident of its bounds.
* `RowLives`: the task moves as in `TaskLife`, since an execution between its first and
  its last commit has a row that is not in SUCCESS (`Unsettled`).

`DashboardViewProofs`, for any tasks, page size, handlers, attempts, answers and
troubles:

* `Typing`, `ShownWas` and `TruthTold` from one invariant, `ViewInv`. `Recorded` ties the
  table to its history; `Serving` says that what a handler holds suits the table
  (`Fits`: one that inserts has an id for itself, any other has rows that exist or have
  existed) and that no two handlers answer one round trip or make one row (`Apart`);
  `Answers` says of every answer under way, `Listed` of everything on the page, that it
  tells what the history holds, and bounds their lengths (a dispatch under way counts
  for the list, to which it will add a card); `Pending` keeps what a handler of an answer
  relies on. `Onward` sums up what every step does: the table moves as it may, and the
  invariant holds again; then the history only grows and what was true stays true.
* That a page of the list is true (`PageHonest`) needs the k-th row of an ordered
  set to exist. `NthExists` argues by a least counterexample over a set of positions
  (`LeastExists`), where induction on k would need a theorem with an operator parameter.
* `RowsLive`: no handler, however late its commit, moves a row otherwise than `TaskLife`
  says, from the same `Onward`.

`DashboardProofs`, with the same generality:

* `OneTask`, from `ReqInv`: the handlers that insert, and the rows inserted, are each one
  attempt at one request, no two the same (`Distinct`); a request belongs to a click or
  a demo task in the past, and a second attempt has cost a connection (`Requested`); the
  handler the gateway waits for is at the latest attempt (`Latest`), so the next one is
  new. Without `Latest` a resent request could repeat an attempt.
* `NothingUndone`, from `FoundInv`: a row a handler is about to write is as it found it,
  that is, not finished (or finished, for a clear), or it has changed since (`since`).
  `Spares` is the property step by step: only a `Commit` undoes anything.

Only model-checked: the liveness properties (`Settles`, `EventuallyReleased`,
`DueFires`, `Answered`, `EndHeard`, `FollowersEnd`, `QueueDrains`, `Converges`,
`ProcessingEnds`), for which the prover used here has no rules, and that the
violations exist. Every invariant and action property that a passing run checks is
proved.

## 7. Not modelled

`PROJECT.json`, "components", lists every part. Left out are:

* the order in which `process_priority_queue` and the poller pick tasks, and the
  poller's limit: every order is considered;
* rows of `task_attempts` other than SUCCESS;
* RabbitMQ's prefetch, and its dead-letter queue, which nothing consumes;
* registration, `verify` and `me` of the auth service: single statements; hashing
  and signatures are library calls;
* of the console, the inspection dialog, the warning about duplicates, toasts and
  layout;
* results of handlers, formatting of messages and pages;
* `build_full_specification.py`, `report_diagrams.py`, the PDF report: scripts that
  write documents;
* configuration, logging, metrics, migrations, seeds, deployment.

`FAILED` is declared in `pkg/models/task.py` and assigned nowhere.

## 8. Plan

1. `TaskExecution`, its runs and proofs - done.
2. `TaskRelease` with its proofs - done.
3. `Scheduler` and its `DistributedLock`, with its proofs - done.
4. `Submission` with its proofs - done.
5. `Observers` with its proofs - done.
6. `RateLimiter` and `Dashboard` with their proofs - done.
7. `TaskLife`, and that the detailed modules implement it - done.
8. `PriorityDispatch`: the order of `process_priority_queue` and the poller's
   limit, as functions, with a reference definition - open.
