# Formal models of gaussdataflow

gaussdataflow moves data from sources to destinations on a schedule. A REST
server keeps connections, actors (sources and destinations) and jobs in
PostgreSQL; orchestrator workers claim jobs from a queue table and run
connectors, two child processes joined by the replication engine. The modules
here model the parts of it where steps of several actors interleave, where
processes die between two statements, and where what is persisted must be right
afterwards; TLC checks them on small instances and TLAPS proves their safety
properties for every instance.

Paths below are relative to `src/crates/` unless they start with `docs/` or
`README.md`.

## 1. Inventory

| Component | State | Operations | Hard behaviour | What makes it correct |
|---|---|---|---|---|
| Job queue (`gauss-store/src/repo/jobs.rs`, migration 0002) | tables `jobs`, `attempts` | create, claim_next, create_attempt, heartbeat, finish_attempt, reschedule, finish, cancel, reap_stale | statements of several workers and the API interleave; `finish` and `reschedule` test no status | one active job per connection; terminal is final; each attempt number used once |
| Worker (`gauss-orchestrator/src/lib.rs`, `executor.rs`) | loop position, the locals of `execute`, two background tasks | run, execute, heartbeat and cancel tasks, finish, notify | crash between any two statements, failed statements, stalls that make a live worker look dead | no two syncs of one connection at once; jobs conclude; cancellation stops a sync and only on request; the webhook tells the truth |
| Scheduler (`gauss-orchestrator/src/scheduler.rs`) | none of its own: reads connections and their last job | schedule_due on each turn of each worker | decides on a list read earlier; edits, deletions, other workers meanwhile | every due time gives one job, none gives two |
| Replication engine (`gauss-sync/src/lib.rs`) | position in the pump, state map, ack queue | run_sync, dst_task, on_checkpoint | three bounded pipes, selects, early returns, silent or dying processes | the checkpoint never runs ahead of flushed data, never regresses; success means everything arrived; the run returns |
| Connector runtime and CDK (`gauss-connector-runtime`, `gauss-cdk`, `gauss-mock-connector`) | child processes and their pipes | next, write, wait, kill on drop | blocking reads and writes | children end with the run |
| Actors (`gauss-server/src/api/actors.rs`, `gauss-store/src/repo/actors.rs`) | table `actors` with redacted configurations | create, update, delete, check, discover | secrets live in a backend without a common transaction; handlers are cut between awaits | references resolve; secrets are not leaked; a connector gets the values of its own configuration |
| Secret envelope and backends (`gauss-secrets`, `gauss-store/src/secrets_backend.rs`) | secret values by id | split, hydrate, put, get, delete | each call may fail | ids are fresh, values immutable |
| Declarative sources (`gauss-declarative`) | page cursor, high-water cursor | sync_stream | the upstream changes between two pages | no record lost behind the checkpoint; the page loop ends |
| Connections and states (`repo/connections.rs`, `repo/states.rs`) | rows | CRUD, list_schedulable, get/set | deletion cascades under running jobs | see queue, scheduler, sync |
| Authentication, tokens, audit (`gauss-server/src/auth.rs`, `repo/governance.rs`) | tokens, audit rows | middleware, token CRUD | tokens change between the check and the effect; audit written by a detached task after the response | nobody acts beyond the token's role; effects are audited |
| OAuth (`api/oauth.rs`) | pending states with a time to live | authorize, complete | single use, expiry, failure after use | a state is honoured exactly once and in time |
| Import, registry, workspaces, definitions | rows | upserts and CRUD | import is not one transaction | a repeated import |
| MCP gateway (`gauss-mcp`) | none | the REST operations as tools | as REST | as REST |
| Terminal console (`gauss-tui`) | screen, lists, cursors, overlay; channels to and from the fetch task | key events, timer, commands, updates | answers to old questions arrive late | lists belong to what is open; actions go to the row the user sees; what is shown converges |
| Web console, CLI, benchmarks | presentation | | | |

How they interact: the API and the scheduler insert jobs; workers poll the table
and share nothing but the database; a worker runs `run_sync`, which reports
checkpoints back through a callback that writes `connection_states`; the API
reaches a running sync only through the column `cancel_requested`; launching a
connector reads an actor's row and then its secrets one by one.

`PROJECT.json` lists the hazards line by line with the properties that cover them.

## 2. Plan

Order: the queue first, because every other guarantee hangs on it; then what
feeds it (scheduler), what it runs (replication), what that starts from (actors
and secrets) and the source with logic of its own (paging).

| Module | Status | Purpose |
|---|---|---|
| `JobLifecycle` | done | abstract specification: the life of a job as its users see it |
| `JobQueue` | done | queue, workers, faults; refines `JobLifecycle` |
| `JobQueueProofs` | done | theorems about `JobQueue`: every safety property of it |
| `Scheduler`, `SchedulerProofs` | done | schedule_due of several workers |
| `Replication` | done | abstract specification: what replication promises about checkpoints and success |
| `Sync`, `SyncProofs` | done | run_sync, its pipes and its runs; refines `Replication` |
| `ActorSecrets`, `ActorSecretsProofs` | done | actor handlers over the secrets backend |
| `Paging`, `PagingProofs` | done | sync_stream of declarative sources over a changing API |
| `Access`, `AccessProofs` | done | the auth layer, tokens, audit and OAuth states |
| `Checkpoints`, `CheckpointsProofs` | done | composes the queue's executions with the state they load and write |
| `Console`, `ConsoleProofs` | done | late updates, cursors and overlays of the terminal console |

Every safety property of the table is proved, and both abstract specifications are
proved to be implemented (section 5). The walk of split and hydrate over JSON trees
is not modelled; `ActorSecrets` has what it does to a set of references.

## 3. The modules and the code

### JobQueue (refines JobLifecycle)

One SQL statement is one action, since PostgreSQL runs it atomically and the
code never wraps two of them in a transaction except inside `claim_next` and
`reap_stale`, which are one action each. `jobs` and `attempts` are the tables.
Times are kept as what the statements test: `due` is `scheduled_at <= now()`,
and an attempt is `stale` when its heartbeat is older than `stale_after`.
`pc[w]` is the position of worker `w` in `Orchestrator::run` (`reap`, `claim`,
`sleep`) or `execute` (`attempt`, `sync`, `record`, `settle`, `notify`), and
`task[w]` its locals with the state of the heartbeat and cancel-watcher tasks.

`Reap`, `Claim`, `CreateAttempt`, `Heartbeat`, `WatchCancel`, `RecordAttempt`,
`Reschedule`, `Finish`, `Notify` follow the functions of the same names.
`AttemptRefused` and `RescheduleRefused` are the error branches (a row that is
gone, a unique index in the way, a failed statement). `run_sync_job` is one
interval, between `CreateAttempt` and `SyncEnds`; `Sync` is about its inside. In it
the task may be `deaf` (`SyncBlocks`): `src.wait()` waits for a source that has closed
its stdout, or a secrets backend does not answer, and neither looks at the cancel
flag. The API's
`Create`, `Cancel` and `DeleteConnection` happen at any time. Faults are
selected by a constant: `crash` (a process dies and may be restarted), `db` (one
statement of a worker fails; a heartbeat that fails ends the heartbeat task, as
in `executor.rs`), `stall` (heartbeats of a live worker land too late), `block` (a
sync becomes deaf).

`JobLifecycle` has no workers, attempts or faults: a job is pending, may start,
may be retried, ends once, and ends `cancelled` only if asked to. `JobQueue`
implements it with `status` and `asked` read off the table, for crashes only:
with `db` or `stall` a zombie's unconditional `finish` really overwrites a
terminal status.

### Scheduler

`ListSchedulable`, `Evaluate` (`next_due`) and `Enqueue` (the insert) are steps of
their own per worker, so that edits, manual triggers, deletions, jobs that end
and other workers come between. A schedule is an interval, a cron expression
reduced to the multiples of its period, or one that cannot be evaluated. Jobs are reduced to `busy` and
`last`, which is what `list_schedulable` and the unique index look at. `raced[w]` is
history: the connections that got a job since `w` read the list of its pass.

### Sync

`phase` is the position in `run_sync`: the head of the pump loop, the drain of
`dst_rx`, the read of the source, the write to the destination (the select with
the acks), `src.wait`, the loop after it. That loop ends when `dst_tx` is dropped, which
is when the destination has exited (`AcksEnd`: the task that owns it waits for the
process), so that `dst_task.await` after it waits for nothing. `pipe` holds the
three OS pipes with capacity `PipeCap`; a process blocks on a full one, as the
pump does. `saved` is `connection_states`; a run starts from it. The connectors
follow the protocol and `gauss-mock-connector`: a source sends numbered records
and, wherever it likes, a state message with the number of the last record; a
destination flushes before it acknowledges. Events (cancellation, a failing
process or checkpoint, silence, a process that closes stdout and stays, a crash) are bounded
by `MaxEvents`, runs by `MaxRuns`.

`Replication` is what is left of this for someone who sees only the tables: records
become durable (`Deliver`), one stream's checkpoint moves forward over durable
records (`Commit`), and the connection is in sync once every checkpoint is at its
stream's end (`Complete`), after which no checkpoint moves. `Promise` in `Sync`
instantiates it with `durable`, `saved` and `result = "succeeded"`.

### ActorSecrets

Each `await` of the create, update and delete handlers is a step: one `Put` per
sealed secret, one `Drop` per obsolete one, `WriteRow` or `DeleteRow`; `Launch`
and `Fetch` are `hydrate_config` one reference at a time. `Fails` ends one handler between two
awaits (an error, or axum dropping it with its connection), `Crash` all of them.
A configuration is the set of its references; a value is the number of the
request that sealed it. `causes` remembers what disturbed an actor, so that the
invariants can say exactly when a reference may dangle or a secret may leak:
overlapping handlers, a cut handler, a client that sends back references that
are gone, the cascade of a workspace's deletion. Import and the MCP gateway
create actors with the same sequence of calls.

### Paging

`table` is what the API lists at the moment, by key, oldest or newest change
first; `Insert`, `Change`, `Remove` and `Tick` happen between two pages.
`Fetch` is one round of the loop of `sync_stream`: the page at the cursor's
position, the skip of what `state_cursor` covers, the high-water mark, and
`PageCursor::advance` for each kind of paginator; the last round emits the
checkpoint. A record with no cursor field has `at = 0`. `slipped` collects the
records that a change moved behind the reader's position, and those written
with a cursor value the checkpoint had already reached: the code cannot see
them, and the invariants show that it loses nothing else. The API and its tokens are
external: a token advances by the page it came with.

### Checkpoints (extends JobQueue)

`run_sync_job` loads the connection's per-stream state into a map of its own
(`Load`), inserts each acknowledged checkpoint and writes the whole map back
(`Checkpoint`). The module adds these to the workers of `JobQueue`: a step of the
queue keeps the map of a worker that goes on syncing and drops that of one that
leaves (`Follow`). Which positions are acknowledged is `Sync`'s subject; here
any later one may be. `furthest` is the furthest position ever written.

### Access

`layer` and the handlers inside it as one request per entry of `request`: sent,
allowed, effected, exchanging and sealing (inside `complete`), auditing, over.
Every await is a step, so that a token may be deleted or created in between,
the client may go away (hyper drops the future of layer and handler where they
wait) and the server may die. `Authenticate` is the lookup with the comparison
of roles, `Insert` and `Revoke` the statements of `TokenRepo`, `AuthorizeUrl`
and `Present` the two uses of the mutex over the OAuth states, `Exchange` the
provider's answer, `Seal` one `put`, `Record` the audit task. A token's names
are unique and its role is one of three (migration 0003), so a token stands for
its row, its raw value and its subject; `age` is `Instant::elapsed`, counted up
to `STATE_TTL`. `late`, `granter`, `given` and `spent` are history.

### Console

`screen`, `pane`, `view`, `sel` and `overlay` are the fields of `App`; `cmds` and
`upds` the two channels, `fetch` the request at hand. Each key that does
something is an action (`Move` ... `Quit`), `Tick` the timer's reload, `Fetch`
one await of the fetch task's `handle` (a load makes two or three calls, between
which the world may change), `Apply` one update taken from the channel by the
event loop, with the tests `App::apply` makes (`Wanted`) and the cursor that
follows its row (`Remap`). The API is external: `Effect` is what a request does,
`Others` what everybody else does, `Lands` a request that the server carries out
after its client gave up.

## 4. The runs

| Run | Instance | Shows |
|---|---|---|
| `QueueFaults` | 2 workers, 2 jobs of 1 deletable connection, 2 attempts, 2 faults of any kind | `OneActiveJobPerConnection`, `AttemptHasOneOwner`, `CancelledOnlyOnRequest` |
| `QueueCrash` | the same, with the state of 2 streams (`Checkpoints`), up to 3 crashes and no other fault | `NoConcurrentExecution` with its inductive form `CrashInv`, `NoCheckpointLost`, `TerminalIsFinal`, `WebhookTellsOutcome`, `NoPrematureFailure`, `NotRequeuedUnderLiveWorker`, refinement of `JobLifecycle` |
| `QueueLive` | 1 job, 2 workers, 2 faults of any kind, fairness | `EveryJobConcludes`, `CancelStopsSync` |
| `QueueBusy` | 2 jobs of 2 connections, 1 worker, 2 faults of any kind, fairness | `OrphanedAttemptsReaped` |
| `Sched` | 1 worker, 2 connections with editable schedules, one of them triggered by users, 4 points in time, 1 cut pass, fairness | `NoDoubleEnqueue`, `DueConnectionsEnqueued` |
| `SyncRuns` | 2 streams of 2 records, pipes of 1 message, 2 events of 7 kinds, 2 runs, fairness | `CheckpointNeverAhead`, `SuccessIsComplete`, refinement of `Replication`, `RunReturns` |
| `Secrets` | 1 actor, 3 ids, 2 concurrent handlers or workers, 3 sealing requests, 1 fault | `RefsResolve`, `NoLeakedSecrets`, `HydratedAsStored` |
| `Paged` | 5 kinds of paginator, 3 orders, pages of 2, 3 writes, 2 clock values, 1 failed run, fairness | `NoSilentLoss`, `NothingResent`, `RunsEnd` |
| `Access` | 2 tokens, 2 OAuth states, 3 requests, 2 at a time, both modes, 1 fault, fairness | `ActsWithinRole`, `EffectsAudited`, `StatesHonoured` |
| `Console` | 2 workspaces and a third to create, 3 connections, 3 jobs, 4 keys, 1 disturbance (a change by others, an outage or a timeout), 3 messages on their way, fairness | `ShownBelongs`, `CursorStaysOnRow`, `Converges` |
| `QueueAbandoned` | 1 worker, 1 crash | **violated**: `DeadWorkersJobsRequeued` (`docs/ARCHITECTURE.md:93`) |
| `SchedNeverRan` | a cron connection without jobs | **violated**: `NeverRanDueAtOnce` (`scheduler.rs:14`) |

Each of the system modules has one type invariant, checked in its first run.

**Bounds.** Two workers are enough for a zombie and its successor, two jobs of
one connection for a retry against a new job; two attempts for a retry and a
last attempt; two faults for a stall followed by a crash of the successor.
`QueueFaults` has no blocked syncs: those only restrict when a sync may end, so every
state without them covers one with them. `QueueBusy` has one worker, because the
question is what becomes of a dead worker's job while everybody left is busy with
another: with one, everybody is. A
pipe of one message is the tightest in which everybody can wait for everybody,
and two streams are needed for a map that loses the other stream's cursor. Three
ids let an update replace one of two secrets while another is stored. Three
writes make a second page and a change during it. In the scheduler four points
in time hold two due times of the shorter schedule; a trigger by hand races a pass
as another worker's insert does, and `NoDouble` (section 5) is about any number of
workers. `Secrets` has a
single actor because actors share nothing but the generator of ids and their
workspace. Two tokens let one be deleted while the other acts, two states let one expire
while the other is presented, and two of three requests overlap; a time to live
of one tick has the two cases the code tells apart. Four keys open a
connection of a workspace, leave it and act, while three messages are on their
way. Identifiers that are interchangeable are made symmetric where only
invariants are checked, never where liveness is.

**Deadlock** is checked except in the runs of `Sync`, `ActorSecrets`, `Access` and
`Console`, whose bounded runs, requests and keys really come to an end.

**Fairness.** `JobQueue!FairSpec`: a live worker's loop and `execute` go on (the
tokio runtime schedules them and statements return), the cancel watcher polls, a
told sync ends while it is where the code looks at the flag (`Sync`'s `RunReturns`
shows that it does), dead workers are restarted, clocks advance. Nothing is assumed
of API calls, faults, shutdown, a deaf sync, or the end of a sync that nobody
cancels. What the code leaves to its surroundings is a hypothesis of the property:
that syncs end (`SyncsEnd`), that a worker's claim loop finds the queue empty again
and again and so comes back to its reap (`QueueDrains`), that no sync stays deaf
(`CancelStopsSync`). Without `QueueDrains`, TLC refutes `OrphanedAttemptsReaped` in
`QueueBusy`: the one worker executes the other job for ever. All of it is weak
fairness. `Scheduler`: a pass that has begun goes on to its end. Between two passes a
worker executes jobs itself, so that another one begins is a hypothesis of
`DueConnectionsEnqueued` (`PassesBegin`); nothing is assumed of time, users or
jobs. `Sync`: the pump's enabled steps and the idle timeout happen; of the connectors, that
one which is neither silent nor lingering keeps reading, writing and exiting.
`Paging`: a connector at work asks for its next page; that the API's records stop
changing is the hypothesis of `RunsEnd` (`WritesStop`), since an API that grows by a
full page between every two fetches keeps the loop going. The bound on the writes
makes it true of the instance; what the run adds is that no offset, token or order
the writes left behind keeps the loop from its end. `Access`: the server's tasks
are scheduled and its statements end; nothing is assumed of clients and of the
OAuth provider, whose answer the code awaits without a timeout. `Console`: the
timer ticks, the fetch task goes on (reqwest's timeout ends every request) and
the event loop takes its updates.

## 5. What is proved

`tlapm` proves, for any finite or infinite sets that the constants name and any
bounds:

- `JobQueueProofs!TypeCorrect`: `Spec => []TypeOK`, under every fault.
- `JobQueueProofs!OneActive`, `CancelInvariant`, `CancelledOnRequest`:
  `OneActiveJobPerConnection`, `CancelInv` and `CancelledOnlyOnRequest` under
  every fault. `CancelledOnlyOnRequest` is not inductive: that a worker writes
  `cancelled` only when asked needs that its locals (`told`, a result of
  `cancelled`) were set after the flag, that the flag is never cleared, and that
  the row of an identifier in use is not a fresh one. `CancelInv` says so.
- `JobQueueProofs!CrashInvariant`, `ExclusiveExecution`,
  `QueueImplementsLifecycle`, `TerminalStaysFinal`: under the assumption
  `CrashOnly` (`Faults \subseteq {"crash"}`), `CrashInv`,
  `NoConcurrentExecution`, the refinement and `TerminalIsFinal`. The code makes
  no test of the status in `finish` and `reschedule`; that they are harmless
  rests on `CrashInv`: a working worker's job is running (or gone with its
  connection), its attempt is the only open one and is fresh, and every open
  attempt belongs to a running job, so that a reap touches only jobs nobody
  works on.
- `JobQueueProofs!AttemptsOwned`: `AttemptHasOneOwner`, under every
  fault. What a worker holds is the number of a row (`OwnerInv`), rows are only
  added at the end (`RowKept`), and only one worker adds the row of a step.
- `JobQueueProofs!LiveWorkersKeepJobs`, `WebhookTruthful`,
  `AllAttemptsMade`: `NotRequeuedUnderLiveWorker`, `WebhookTellsOutcome` and
  `NoPrematureFailure` under `CrashOnly`. Each adds to `CrashInv` what a worker
  carries past a step: at the webhook the job has the status it is about to tell,
  and the refinement says that it keeps it (`NoticeInv`); done with its attempt,
  it has a row of that number, and gave up early only past the budget (`DoneInv`).
  That neither `create_attempt` nor `reschedule` is refused while the job's row is
  there is `NotRefused`: nobody else executes the job, and no other job of the
  connection is active.
- `CheckpointsProofs!CheckpointsKept`, `StateTypeCorrect`: `NoCheckpointLost` and
  `StateTypeOK` under `CrashOnly`. The argument composes two modules: every step
  of `Checkpoints` is one of `JobQueue` or leaves the queue alone, so that
  `ExclusiveExecution` holds of it; hence the map of the one worker that syncs a
  connection is the row's own content (`MapIsRow`), and a checkpoint merges
  into it. `SyncKeepsJob` is the lemma that a worker in the middle of a sync
  does not change its connection.
- `AccessProofs!TypeCorrect`, `WithinRole`, `HonouredOnce`: `TypeOK`,
  `ActsWithinRole` and `StatesHonoured` under every fault. The inductive
  invariant `AccessInv` says of every request past the check what the check
  established (`Sound`), and of an unchecked one sent with a deleted token that
  the token is still gone; that a row never changes its role and never comes back
  is what a growing table keeps (`TableGrows`, `SoundStays`). For the states it
  says that sweeping and presenting take away nothing that is fresh and unspent.

- `SyncProofs!TypeCorrect`, `NeverAhead`, `NeverRegress`, `Complete`: `TypeOK`,
  `CheckpointNeverAhead`, `CheckpointsNeverRegress` (which the run checks as part of
  the refinement below) and `SuccessIsComplete`.
  `SyncInv` follows the messages from the source through its pipe, the pump's hand,
  the destination and back to the queue of acknowledgements: what an acknowledged
  cursor stands for is flushed and what one on its way stands for is held or comes before it
  (`FlushInv`); the states on their way lie, in order, between what is persisted
  and what was sent (`OrderInv`), so that no checkpoint goes back; the last one of a
  stream is persisted or on its way, and each phase after the pump knows which
  process has ended and which pipe is empty (`EndInv`).
- `SyncProofs!SyncImplementsReplication`: seen through the persisted cursors, the
  flushed records and the reported success, every step of the runs is a step of
  `Replication` or invisible. `PromiseKinds` sorts the steps into those that flush,
  those that report and the one that persists; `NextCommit` says of the last that
  the acknowledgement it handles is flushed (`FlushInv`) and not behind the cursor
  (`OrderInv`); `EndInv` says that nothing happens after a success. An
  acknowledgement that repeats the cursor is a stutter.
- `ActorSecretsProofs!TypeCorrect`, `Hydrated`, `Resolve`, `NoLeak`: `TypeOK`,
  `HydratedAsStored`, `RefsResolve` and `NoLeakedSecrets`. `Bound` says that an id goes
  with one value wherever it is (`Coherent`), what a request at work holds
  (`Shaped`), and that an actor's references are to secrets sealed for it
  (`Owned`); `OneWriter` that handlers which never overlapped follow one
  another. `ResolveInv` and `LeakInv` add to these how far the one writer of an
  undisturbed actor has come: what it has yet to put, has deleted, and answers for.
- `SchedulerProofs!TypeCorrect`, `NoDouble`: `TypeOK` and `NoDoubleEnqueue`, for any
  number of workers. The property exempts a connection that got a job from somebody
  else after the pass read its list, and section 6 says what happens then. Of every
  other connection, what the pass has listed, and the due time it computed from
  that, are still so when it enqueues (`ListedLast`, `ItemLast`); a job of it can only
  come from `CreateJob`, which `raced` records.
- `PagingProofs!TypeCorrect`, `NoLoss`, `NoResend`: `TypeOK`, and `NoSilentLoss` and
  `NothingResent` under `FullPages`: a paginator that takes a short page for the
  last one asks for pages the API grants. Without it the read ends after its
  first page (section 6). `PageInv` says that every record before the reader's position
  was emitted, skipped as covered by the checkpoint, or slipped (`PagesCovered`),
  that no cursor value past the high-water mark was met (`Marked`), and that the
  checkpoint is not behind what completed runs emitted (`SettledBehind`). That a
  finite set of cursor values has a largest one is proved from the
  well-foundedness of the order (`WFMin`).

- `ConsoleProofs!TypeCorrect`, `OnlyOwnRows`, `CursorsStay`: `TypeOK`, `ShownBelongs`
  and `CursorStaysOnRow`. Rows are lists in the order of ids, which exist for every
  finite set of rows (`Sortable`: a smallest set without one, less its oldest row, would
  have one). `ConsoleInv` adds to the types that a screen has what it is about open
  (`Screens`), and that an answer, half read, on its way or just arrived, is about what
  was asked for (`AnswersBelong`); `Wanted` compares that with what is open now. What
  `remap_selection` returns is the lemma `RemapIs`.

The assumption `CrashOnly` is needed: section 6 says what a failed heartbeat
does. The other assumptions are those the modules state of their constants. TLC checked each inductive invariant on a small
instance before it was proved.

Only model-checked: liveness (`EveryJobConcludes`, `CancelStopsSync`,
`OrphanedAttemptsReaped`, `DueConnectionsEnqueued`, `RunReturns`, `RunsEnd`,
`EffectsAudited`, `Converges`),
which TLAPS cannot do.

## 6. Where code and documents disagree

The two violated runs are recorded in `PROJECT.json` with their quotations. Others
were met while modelling; the models contain the behaviour, and no run is
devoted to them:

- One failed heartbeat statement ends the heartbeat task while the sync goes on
  (`executor.rs:50-57`); the live worker's job then goes stale, is reaped and
  executed a second time beside it. This is why `QueueCrash` and the theorems on
  exclusive execution exclude `db` faults.
- A failed `create_attempt` fails the job without a retry (`executor.rs:30`).
- An attempt that fails between `cancel()` and the watcher's next poll is
  rescheduled, and the cancelled job runs again, until the watcher of that run
  sees the flag (`executor.rs:109-119`).
- A job cancelled while pending, and one that ends by an early return of
  `execute`, sends no webhook (`docs/ARCHITECTURE.md:100`).
- A cancel at the head of the pump loop drops the acknowledgements received and
  not yet handled, so the next run repeats that work (`README.md:43-45`);
  `CheckpointNeverAhead` shows that nothing worse happens.
- `src.wait()` (`gauss-sync/src/lib.rs:276`) looks neither at the cancel flag nor at
  the clock, so a source that closes stdout and stays keeps a cancelled job
  running, and so does a secrets backend that does not answer
  (`docs/ARCHITECTURE.md:95-98`); `RunReturns` and `CancelStopsSync` name the
  exception. A destination that closes stdout and stays is ended by a cancel or the
  idle timeout of the drain loop (284-291).
- `schedule_due` enqueues from the `last_job_at` it listed at the start of its pass.
  If another worker, or a user, starts the connection's job meanwhile and that job
  ends, the index no longer objects and the same due time is enqueued a second
  time, although `scheduler.rs:3` says "the partial unique index makes
  double-enqueueing impossible". `NoDoubleEnqueue` exempts exactly this (`raced`);
  without the exemption TLC refutes it in `Sched`.
- A worker reaps and schedules only between two drains of the queue
  (`gauss-orchestrator/src/lib.rs:112-123`): while every worker executes a job that
  does not end, no dead worker's job is "reaped back into the queue automatically"
  (`docs/ARCHITECTURE.md:93`) and no due connection is enqueued.
- On an early return of `run_sync` the destination lives on in the detached
  `dst_task` (`gauss-sync/src/lib.rs:160`), although line 20 says "child processes
  are killed on drop".
- A page paginator with a page_size the API does not grant stops after its first
  page, well and with a checkpoint (`gauss-declarative/src/lib.rs:244`), although
  `manifest.rs:118` says "advancing while pages are non-empty". `Paged` has an API
  that grants it.
- With `db` or `stall` faults `NoCheckpointLost` fails: the zombie and its successor
  overwrite each other's maps (`executor.rs:236`).
- Denied requests, requests whose client goes away before the response, what the
  MCP gateway does and what `--create-token` and `--import-file` do leave no row in
  the audit log, although `auth.rs:13` says "Every mutating request is recorded in
  the audit log either way" and `docs/ARCHITECTURE.md:107` "every mutation recorded".
  `EffectsAudited` is about what remains.
- `complete` exchanges the code without a timeout, and secrets it sealed before one
  fails to be sealed stay behind (`oauth.rs:142`).
- `Update::RefreshFailed` says the API is unreachable or unhealthy
  (`fetch.rs:49-50`), but a connection that somebody else deleted answers 404 and
  the console shows "offline" for as long as that connection is open; `Converges`
  names this case.
- The job detail asked for opens over whatever overlay is there when it arrives, also
  over a name that is being typed (`app.rs:297`).
- The MCP gateway always seals with the PostgreSQL backend, whatever
  `--secrets-backend` the server was started with (`gauss-mcp/src/lib.rs:17`: "same
  store and secrets backend as the API server").
- `import.rs` creates a workspace on every run, so a document that failed half-way and
  is imported again leaves two.
- A full refresh that does not see the last record sets a declarative stream's
  checkpoint back; a later incremental run repeats what lies between.

## 7. What is not modelled

Wire formats, logging, statistics and layout; the order in which `claim_next`
takes due jobs; the length of retry delays; real cron expressions; the text of
configurations and what a schema marks secret; the import
command, a sequence of inserts nothing interleaves with; statistics and layout of the
console; check,
discover and spec calls, which keep no state; CRUD on one row; the web console, CLI
and benchmarks. A reference pasted into the configurations of two actors is left
out of `ActorSecrets` (the first actor's update deletes the secret of both), and
so is a cursor API that repeats its tokens in `Paging`.
