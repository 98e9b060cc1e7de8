------------------------------ MODULE JobQueue ------------------------------
(***************************************************************************)
(* The job queue of gaussdataflow: the `jobs` and `attempts` tables of      *)
(* gauss-store, the statements JobRepo runs on them, and the orchestrator    *)
(* processes that claim, execute, retry, reap and cancel jobs.               *)
(*                                                                          *)
(* Every SQL statement is one atomic step, as PostgreSQL runs it; whatever   *)
(* happens between two statements of one worker (another worker, an API      *)
(* call, the passage of time, a crash) is an interleaving here.              *)
(***************************************************************************)
EXTENDS Naturals, Sequences, FiniteSets

CONSTANTS
  Conns,        \* connections
  JobIds,       \* identifiers the jobs table may hand out
  ConnOf,       \* connection_id of the row with each identifier
  Workers,      \* orchestrator processes
  MaxAttempts,  \* WorkerOptions::max_attempts
  Deletable,    \* connections the API may delete while the system runs
  Faults,       \* what may go wrong, a subset of FaultKinds
  MaxFaults     \* bound: how many faults happen in a behaviour

\* "crash"  a worker process dies
\* "db"     one statement of a worker fails, its effect rolled back
\* "stall"  a live worker's heartbeats do not land for stale_after seconds
\* "block"  a sync waits where it sees neither its cancel channel nor a clock
FaultKinds == {"crash", "db", "stall", "block"}

ASSUME JobQueueAssumption ==
  /\ ConnOf \in [JobIds -> Conns]
  /\ MaxAttempts \in Nat \ {0}
  /\ Deletable \subseteq Conns
  /\ Faults \subseteq FaultKinds
  /\ MaxFaults \in Nat

VARIABLES
  jobs,         \* the jobs table
  attempts,     \* attempts[j][n]: attempt_number n of job j
  connections,  \* connections whose row exists
  pc,           \* where each worker is in Orchestrator::run and execute
  task,         \* the local variables of each worker's execute call
  notices,      \* statuses sent to the webhook, per job
  faults        \* faults so far

vars == <<jobs, attempts, connections, pc, task, notices, faults>>

-----------------------------------------------------------------------------

Active   == {"pending", "running"}
Terminal == {"succeeded", "failed", "cancelled"}

\* "none": the identifier is not yet used; "deleted": the row is gone again.
\* due: scheduled_at <= now(); asked: the column cancel_requested.
Job == [status : {"none", "deleted"} \cup Active \cup Terminal,
        due : BOOLEAN, asked : BOOLEAN]

\* "stale" is a row whose status is still running and whose last_heartbeat_at
\* is older than stale_after.
AttemptStatus == {"running", "stale", "succeeded", "failed"}
Open == {"running", "stale"}

\* reap, claim, sleep: the loop of run; attempt .. notify: inside execute.
Phase   == {"down", "reap", "claim", "sleep",
            "attempt", "sync", "record", "settle", "notify"}
Working == {"attempt", "sync", "record", "settle"}

\* failed: the attempt failed and may be retried; final: it failed and may not;
\* aborted: execute returns before its webhook (executor.rs 30 and 42).
Result == {"none", "succeeded", "cancelled", "failed", "final", "aborted"}

Task == [job : JobIds, number : Nat, result : Result,
         beating : BOOLEAN, told : BOOLEAN, deaf : BOOLEAN]

\* beating: the attempt's row was inserted or beaten within stale_after and the
\* heartbeat task has not given up; told: the cancel watcher has fired; deaf: the
\* sync waits where it does not look at the watcher's channel.
NoTask == [job |-> "none", number |-> 0, result |-> "none",
           beating |-> FALSE, told |-> FALSE, deaf |-> FALSE]

TypeOK ==
  /\ jobs \in [JobIds -> Job]
  /\ attempts \in [JobIds -> Seq(AttemptStatus)]
  /\ connections \subseteq Conns
  /\ pc \in [Workers -> Phase]
  /\ task \in [Workers -> Task \cup {NoTask}]
  /\ \A w \in Workers : pc[w] \in Working \cup {"notify"} => task[w] \in Task
  /\ notices \in [JobIds -> SUBSET Terminal]
  /\ faults \in 0..MaxFaults

Init ==
  /\ jobs = [j \in JobIds |-> [status |-> "none", due |-> FALSE, asked |-> FALSE]]
  /\ attempts = [j \in JobIds |-> <<>>]
  /\ connections = Conns
  /\ pc = [w \in Workers |-> "reap"]
  /\ task = [w \in Workers |-> NoTask]
  /\ notices = [j \in JobIds |-> {}]
  /\ faults = 0

-----------------------------------------------------------------------------
(* Helpers. *)

Exists(j) == jobs[j].status \notin {"none", "deleted"}

\* Mutant: the index covers pending rows only.
IndexPendingOnly(j) ==
  \A k \in JobIds \ {j} : ConnOf[k] = ConnOf[j] => jobs[k].status # "pending"

\* Row j may hold an active status: jobs_one_active_per_connection.
IndexAllows(j) ==
  \A k \in JobIds \ {j} : ConnOf[k] = ConnOf[j] => jobs[k].status \notin Active

\* One more fault of this kind happens in this step.
Fault(kind) ==
  /\ kind \in Faults
  /\ faults < MaxFaults
  /\ faults' = faults + 1

NoFault == UNCHANGED faults

Goto(w, phase) == pc' = [pc EXCEPT ![w] = phase]

\* Worker w is executing attempt n of job j.
Holds(w, j, n) ==
  /\ pc[w] \in {"sync", "record"}
  /\ task[w].job = j
  /\ task[w].number = n

Beating(j, n) == \E w \in Workers : Holds(w, j, n) /\ task[w].beating

-----------------------------------------------------------------------------
(* The API and the scheduler. *)

\* JobRepo::create, called by trigger_sync and by schedule_due. A violation of
\* the unique index or of the foreign key changes nothing.
Create(j) ==
  /\ jobs[j].status = "none"
  /\ ConnOf[j] \in connections
  /\ IndexAllows(j)
  /\ jobs' = [jobs EXCEPT ![j] = [status |-> "pending", due |-> TRUE, asked |-> FALSE]]
  /\ UNCHANGED <<attempts, connections, pc, task, notices, faults>>

\* Mutant: a running job, too, becomes cancelled before its worker stops.
CancelAtOnce(j) ==
  /\ jobs[j].status \in Active
  /\ jobs' = [jobs EXCEPT ![j].asked = TRUE, ![j].status = "cancelled"]
  /\ UNCHANGED <<attempts, connections, pc, task, notices, faults>>

\* JobRepo::cancel: a pending job ends at once, a running one is only flagged.
Cancel(j) ==
  /\ jobs[j].status \in Active
  /\ jobs' = [jobs EXCEPT ![j].asked = TRUE,
       ![j].status = IF jobs[j].status = "pending" THEN "cancelled" ELSE @]
  /\ UNCHANGED <<attempts, connections, pc, task, notices, faults>>

\* ConnectionRepo::delete: ON DELETE CASCADE removes the jobs and attempts.
DeleteConnection(c) ==
  /\ c \in Deletable \cap connections
  /\ connections' = connections \ {c}
  /\ jobs' = [j \in JobIds |->
       IF ConnOf[j] = c /\ Exists(j)
       THEN [status |-> "deleted", due |-> FALSE, asked |-> FALSE]
       ELSE jobs[j]]
  /\ attempts' = [j \in JobIds |-> IF ConnOf[j] = c THEN <<>> ELSE attempts[j]]
  /\ UNCHANGED <<pc, task, notices, faults>>

-----------------------------------------------------------------------------
(* Time. *)

\* The retry delay of a rescheduled job has passed.
BecomeDue(j) ==
  /\ jobs[j].status = "pending"
  /\ ~jobs[j].due
  /\ jobs' = [jobs EXCEPT ![j].due = TRUE]
  /\ UNCHANGED <<attempts, connections, pc, task, notices, faults>>

\* stale_after seconds pass without a heartbeat. A worker whose heartbeat task
\* runs prevents it, unless it stalls.
GoStale(j, n) ==
  /\ n \in DOMAIN attempts[j]
  /\ attempts[j][n] = "running"
  /\ IF Beating(j, n) THEN Fault("stall") ELSE NoFault
  /\ attempts' = [attempts EXCEPT ![j][n] = "stale"]
  /\ UNCHANGED <<jobs, connections, pc, task, notices>>

-----------------------------------------------------------------------------
(* The worker loop, Orchestrator::run. *)

\* Mutants: every open attempt is reaped; only attempts of running jobs are.
ReapsFresh(j, n) == attempts[j][n] \in Open
ReapsOfRunning(j, n) == attempts[j][n] = "stale" /\ jobs[j].status = "running"

\* The rows reap_stale fails: status running, last heartbeat too old.
Reaps(j, n) == attempts[j][n] = "stale"

\* JobRepo::reap_stale, one transaction.
Reap(w) ==
  /\ pc[w] = "reap"
  /\ \/ /\ attempts' = [j \in JobIds |->
             [n \in DOMAIN attempts[j] |->
               IF Reaps(j, n) THEN "failed" ELSE attempts[j][n]]]
        /\ jobs' = [j \in JobIds |->
             IF /\ jobs[j].status = "running"
                /\ \E n \in DOMAIN attempts[j] : Reaps(j, n)
             THEN [jobs[j] EXCEPT !.status = "pending", !.due = TRUE]
             ELSE jobs[j]]
        /\ NoFault
     \/ Fault("db") /\ UNCHANGED <<jobs, attempts>>
  /\ Goto(w, "claim")
  /\ UNCHANGED <<connections, task, notices>>

\* JobRepo::claim_next. Any due job may be taken: ORDER BY scheduled_at, id is
\* not modelled, SKIP LOCKED passes over rows another claim holds anyway.
Claim(w, j) ==
  /\ pc[w] = "claim"
  /\ jobs[j].status = "pending"
  /\ jobs[j].due
  /\ jobs' = [jobs EXCEPT ![j].status = "running"]
  /\ task' = [task EXCEPT ![w] = [NoTask EXCEPT !.job = j]]
  /\ Goto(w, "attempt")
  /\ UNCHANGED <<attempts, connections, notices, faults>>

\* The queue is drained, or the claim errored: leave the inner loop.
ClaimNothing(w) ==
  /\ pc[w] = "claim"
  /\ \/ /\ \A j \in JobIds : ~(jobs[j].status = "pending" /\ jobs[j].due)
        /\ NoFault
     \/ Fault("db")
  /\ Goto(w, "sleep")
  /\ UNCHANGED <<jobs, attempts, connections, task, notices>>

Wake(w) ==
  /\ pc[w] = "sleep"
  /\ Goto(w, "reap")
  /\ UNCHANGED <<jobs, attempts, connections, task, notices, faults>>

\* The shutdown channel is looked at only while the loop sleeps.
Shutdown(w) ==
  /\ pc[w] = "sleep"
  /\ Goto(w, "down")
  /\ UNCHANGED <<jobs, attempts, connections, task, notices, faults>>

-----------------------------------------------------------------------------
(* Orchestrator::execute. *)

\* Mutant: a retry takes over the row of the last attempt.
CreateAttemptReusing(w) ==
  LET j == task[w].job
      n == IF attempts[j] = <<>> THEN 1 ELSE Len(attempts[j])
  IN /\ pc[w] = "attempt"
     /\ Exists(j)
     /\ attempts' = [attempts EXCEPT ![j] =
          [m \in 1..n |-> IF m = n THEN "running" ELSE attempts[j][m]]]
     /\ task' = [task EXCEPT ![w] = [@ EXCEPT !.number = n, !.beating = TRUE]]
     /\ Goto(w, "sync")
     /\ UNCHANGED <<jobs, connections, notices, faults>>

\* JobRepo::create_attempt succeeds: attempt_number is MAX + 1. Past the budget
\* execute records a failed attempt and gives the job up.
CreateAttempt(w) ==
  LET j == task[w].job
      n == Len(attempts[j]) + 1
  IN /\ pc[w] = "attempt"
     /\ Exists(j)
     /\ attempts' = [attempts EXCEPT ![j] = Append(@, "running")]
     /\ IF n > MaxAttempts
        THEN /\ task' = [task EXCEPT ![w] =
                  [@ EXCEPT !.number = n, !.beating = TRUE, !.result = "aborted"]]
             /\ Goto(w, "record")
        ELSE /\ task' = [task EXCEPT ![w] = [@ EXCEPT !.number = n, !.beating = TRUE]]
             /\ Goto(w, "sync")
     /\ UNCHANGED <<jobs, connections, notices, faults>>

\* create_attempt fails: the row it refers to is gone, a concurrent insert took
\* the same attempt_number, or the database errs. execute fails the job.
AttemptRefused(w) ==
  LET j == task[w].job
      raced == \E v \in Workers \ {w} : pc[v] = "attempt" /\ task[v].job = j
  IN /\ pc[w] = "attempt"
     /\ \/ (~Exists(j) \/ raced) /\ NoFault
        \/ Fault("db")
     /\ task' = [task EXCEPT ![w].result = "aborted"]
     /\ Goto(w, "settle")
     /\ UNCHANGED <<jobs, attempts, connections, notices>>

\* The heartbeat task: UPDATE by attempt id, whatever the row's status.
Heartbeat(w) ==
  LET j == task[w].job
      n == task[w].number
  IN /\ pc[w] = "sync"
     /\ task[w].beating
     /\ n \in DOMAIN attempts[j]
     /\ attempts[j][n] = "stale"
     /\ attempts' = [attempts EXCEPT ![j][n] = "running"]
     /\ UNCHANGED <<jobs, connections, pc, task, notices, faults>>

\* One failed heartbeat ends the heartbeat task; the sync goes on.
HeartbeatFails(w) ==
  /\ pc[w] = "sync"
  /\ task[w].beating
  /\ Fault("db")
  /\ task' = [task EXCEPT ![w].beating = FALSE]
  /\ UNCHANGED <<jobs, attempts, connections, pc, notices>>

\* Mutants: the watcher does not read the flag; it dies with the heartbeat task.
WatchCancelBlind(w) ==
  /\ pc[w] = "sync"
  /\ ~task[w].told
  /\ task' = [task EXCEPT ![w].told = TRUE]
  /\ UNCHANGED <<jobs, attempts, connections, pc, notices, faults>>

WatchCancelWhileBeating(w) ==
  /\ pc[w] = "sync" /\ task[w].beating
  /\ jobs[task[w].job].asked
  /\ WatchCancelBlind(w)

\* The cancel watcher polls cancel_requested; errors and missing rows read false.
WatchCancel(w) ==
  /\ pc[w] = "sync"
  /\ ~task[w].told
  /\ Exists(task[w].job)
  /\ jobs[task[w].job].asked
  /\ task' = [task EXCEPT ![w].told = TRUE]
  /\ UNCHANGED <<jobs, attempts, connections, pc, notices, faults>>

\* run_sync_job waits for a secrets backend that sets no timeout, or run_sync in
\* src.wait for a source that has closed its stdout; or the wait is over.
SyncBlocks(w) ==
  /\ pc[w] = "sync"
  /\ IF task[w].deaf THEN NoFault ELSE Fault("block")
  /\ task' = [task EXCEPT ![w].deaf = ~@]
  /\ UNCHANGED <<jobs, attempts, connections, pc, notices>>

\* run_sync_job returns; the heartbeat and the watcher are aborted. A sync that
\* was told to cancel may still end otherwise first.
SyncEnds(w, result) ==
  /\ pc[w] = "sync"
  /\ result = "cancelled" => task[w].told
  /\ result # "failed" => ~task[w].deaf
  /\ task' = [task EXCEPT ![w] =
       [@ EXCEPT !.result = result, !.told = FALSE, !.deaf = FALSE]]
  /\ Goto(w, "record")
  /\ UNCHANGED <<jobs, attempts, connections, notices, faults>>

\* JobRepo::finish_attempt; execute ignores its error.
RecordAttempt(w) ==
  LET j == task[w].job
      n == task[w].number
      final == IF task[w].result = "succeeded" THEN "succeeded" ELSE "failed"
  IN /\ pc[w] = "record"
     /\ \/ /\ attempts' = IF n \in DOMAIN attempts[j]
                          THEN [attempts EXCEPT ![j][n] = final]
                          ELSE attempts
           /\ NoFault
        \/ Fault("db") /\ UNCHANGED attempts
     /\ task' = [task EXCEPT ![w].beating = FALSE]
     /\ Goto(w, "settle")
     /\ UNCHANGED <<jobs, connections, notices>>

\* Mutant: the last attempt is never made.
MayRetryButOne(w) == task[w].result = "failed" /\ task[w].number + 1 < MaxAttempts

MayRetry(w) == task[w].result = "failed" /\ task[w].number < MaxAttempts

\* JobRepo::reschedule, whatever the row's status is by now.
Reschedule(w) ==
  LET j == task[w].job
  IN /\ pc[w] = "settle"
     /\ MayRetry(w)
     /\ Exists(j)
     /\ IndexAllows(j)
     /\ jobs' = [jobs EXCEPT ![j].status = "pending", ![j].due = FALSE]
     /\ task' = [task EXCEPT ![w] = NoTask]
     /\ Goto(w, "claim")
     /\ UNCHANGED <<attempts, connections, notices, faults>>

\* reschedule fails: execute falls back to finishing the job.
RescheduleRefused(w) ==
  LET j == task[w].job
  IN /\ pc[w] = "settle"
     /\ MayRetry(w)
     /\ \/ ~(Exists(j) /\ IndexAllows(j)) /\ NoFault
        \/ Fault("db")
     /\ task' = [task EXCEPT ![w].result = "final"]
     /\ UNCHANGED <<jobs, attempts, connections, pc, notices>>

\* Mutant: the outcome is written as it came.
VerdictVerbatim(result) == result

Verdict(result) ==
  IF result \in {"succeeded", "cancelled"} THEN result ELSE "failed"

\* JobRepo::finish, whatever the row's status is by now; its error is only
\* logged. The early returns skip the webhook.
Finish(w) ==
  LET j == task[w].job
  IN /\ pc[w] = "settle"
     /\ ~MayRetry(w)
     /\ \/ /\ jobs' = IF Exists(j)
                      THEN [jobs EXCEPT ![j].status = Verdict(task[w].result)]
                      ELSE jobs
           /\ NoFault
        \/ Fault("db") /\ UNCHANGED jobs
     /\ Goto(w, IF task[w].result = "aborted" THEN "claim" ELSE "notify")
     /\ task' = IF task[w].result = "aborted" THEN [task EXCEPT ![w] = NoTask] ELSE task
     /\ UNCHANGED <<attempts, connections, notices>>

\* The webhook: nothing is sent when the connection is gone or has no URL, and
\* delivery is not retried.
Notify(w) ==
  LET j == task[w].job
  IN /\ pc[w] = "notify"
     /\ \/ /\ ConnOf[j] \in connections
           /\ notices' = [notices EXCEPT ![j] = @ \cup {Verdict(task[w].result)}]
        \/ UNCHANGED notices
     /\ task' = [task EXCEPT ![w] = NoTask]
     /\ Goto(w, "claim")
     /\ UNCHANGED <<jobs, attempts, connections, faults>>

-----------------------------------------------------------------------------
(* The process. *)

Crash(w) ==
  /\ pc[w] # "down"
  /\ Fault("crash")
  /\ Goto(w, "down")
  /\ task' = [task EXCEPT ![w] = NoTask]
  /\ UNCHANGED <<jobs, attempts, connections, notices>>

Restart(w) ==
  /\ pc[w] = "down"
  /\ Goto(w, "reap")
  /\ UNCHANGED <<jobs, attempts, connections, task, notices, faults>>

-----------------------------------------------------------------------------

ApiStep ==
  \/ \E j \in JobIds : Create(j) \/ Cancel(j)
  \/ \E c \in Conns : DeleteConnection(c)

TimeStep ==
  \/ \E j \in JobIds : BecomeDue(j)
  \/ \E j \in JobIds : \E n \in DOMAIN attempts[j] : GoStale(j, n)

\* What a live worker does on its own account between two syncs.
LoopStep(w) ==
  \/ Reap(w) \/ ClaimNothing(w) \/ Wake(w)
  \/ \E j \in JobIds : Claim(w, j)

ExecuteStep(w) ==
  \/ CreateAttempt(w) \/ AttemptRefused(w)
  \/ RecordAttempt(w)
  \/ Reschedule(w) \/ RescheduleRefused(w) \/ Finish(w)
  \/ Notify(w)

BackgroundStep(w) ==
  Heartbeat(w) \/ HeartbeatFails(w) \/ WatchCancel(w) \/ SyncBlocks(w)

SyncStep(w) == \E result \in {"succeeded", "failed", "cancelled"} : SyncEnds(w, result)

WorkerStep(w) ==
  \/ LoopStep(w) \/ ExecuteStep(w) \/ BackgroundStep(w) \/ SyncStep(w)
  \/ Shutdown(w) \/ Crash(w) \/ Restart(w)

Next ==
  \/ ApiStep
  \/ TimeStep
  \/ \E w \in Workers : WorkerStep(w)

Spec == Init /\ [][Next]_vars

(***************************************************************************)
(* Fairness.  A live worker keeps running its loop and its execute call (the *)
(* tokio runtime schedules it and every statement returns), its cancel       *)
(* watcher keeps polling, a told sync stops where it looks at its channel     *)
(* (RunReturns of Sync), a dead process is restarted by its supervisor, and   *)
(* clocks advance.  Nothing is assumed of the API, of faults, of shutdown, of *)
(* when a sync ends by itself, or of when a wait that heeds nothing is over.  *)
(***************************************************************************)
Expire(j) == \E n \in DOMAIN attempts[j] : ~Beating(j, n) /\ GoStale(j, n)

Fairness ==
  /\ \A w \in Workers :
       /\ WF_vars(LoopStep(w)) /\ WF_vars(ExecuteStep(w))
       /\ WF_vars(WatchCancel(w)) /\ WF_vars(SyncEnds(w, "cancelled"))
       /\ WF_vars(Restart(w))
  /\ \A j \in JobIds : WF_vars(BecomeDue(j)) /\ WF_vars(Expire(j))

FairSpec == Spec /\ Fairness

-----------------------------------------------------------------------------
(* Properties under every fault. *)

\* The partial unique index keeps one pending or running job per connection
\* through claims, reaps, retries of zombies and concurrent creates.
OneActiveJobPerConnection ==
  \A j, k \in JobIds :
    j # k /\ ConnOf[j] = ConnOf[k] =>
      ~(jobs[j].status \in Active /\ jobs[k].status \in Active)

\* However often a job is reaped and claimed again, no two workers execute
\* under the same attempt number: each of the max_attempts is used once.
AttemptHasOneOwner ==
  \A v, w \in Workers : \A j \in JobIds : \A n \in 1..MaxAttempts :
    Holds(v, j, n) /\ Holds(w, j, n) /\ Exists(j) => v = w

\* A job ends cancelled, and the webhook says so, only if the API asked for it.
CancelledOnlyOnRequest ==
  \A j \in JobIds :
    jobs[j].status = "cancelled" \/ (Exists(j) /\ "cancelled" \in notices[j])
      => jobs[j].asked

\* Why: a worker was told, or its sync was cancelled, only after the flag of its
\* job's row was set; identifiers are not reused and the flag is never cleared.
RowUsed ==
  /\ \A w \in Workers :
       pc[w] \in Working \cup {"notify"} => jobs[task[w].job].status # "none"
  /\ \A j \in JobIds : notices[j] # {} => jobs[j].status # "none"

AskedWhileRow(j) == Exists(j) => jobs[j].asked

Stopping(w) == task[w].told \/ task[w].result = "cancelled"

CancelInv ==
  /\ RowUsed
  /\ \A w \in Workers :
       pc[w] \in Working \cup {"notify"} /\ Stopping(w) => AskedWhileRow(task[w].job)
  /\ \A j \in JobIds :
       jobs[j].status = "cancelled" \/ "cancelled" \in notices[j] => AskedWhileRow(j)

-----------------------------------------------------------------------------
(* Properties that hold when workers may crash and nothing else goes wrong. *)

\* No two live workers execute jobs of the same connection: crashes, reaping
\* and retries never start a second sync beside a running one.
NoConcurrentExecution ==
  \A v, w \in Workers :
    v # w /\ pc[v] \in Working /\ pc[w] \in Working
      => ConnOf[task[v].job] # ConnOf[task[w].job]

\* Why that is so: a working worker's job is still running (or gone); the only
\* attempt row of it that is open is the worker's own, and it is fresh; an open
\* row belongs to a running job, so that closing it before the job is settled
\* leaves reap_stale nothing to requeue.
JobIsHeld ==
  \A w \in Workers :
    pc[w] \in Working => jobs[task[w].job].status \in {"running", "deleted"}

OpenAttempts ==
  \A j \in JobIds : \A n \in DOMAIN attempts[j] :
    attempts[j][n] \in Open =>
      /\ jobs[j].status = "running"
      /\ \A m \in DOMAIN attempts[j] : attempts[j][m] \in Open => m = n
      /\ \A w \in Workers :
           pc[w] \in Working /\ task[w].job = j =>
             Holds(w, j, n) /\ task[w].beating /\ attempts[j][n] = "running"

RowsConsistent ==
  \A j \in JobIds :
    /\ jobs[j].status = "deleted" => ConnOf[j] \notin connections
    /\ jobs[j].status \in Active => ConnOf[j] \in connections
    /\ jobs[j].status = "none" => ~jobs[j].asked

CrashInv ==
  JobIsHeld /\ OpenAttempts /\ RowsConsistent /\ NoConcurrentExecution

\* A job that succeeded, failed or was cancelled keeps that status: finish and
\* reschedule, which test no status, never overwrite it.
TerminalIsFinal ==
  [][\A j \in JobIds :
       jobs[j].status \in Terminal =>
         jobs'[j].status \in {jobs[j].status, "deleted"}]_vars

\* Only a job's own worker, or a reap after that worker's death, puts a running
\* job back in the queue (lib.rs: "stale jobs from crashed workers").
NotRequeuedUnderLiveWorker ==
  [][\A j \in JobIds : \A w \in Workers :
       /\ jobs[j].status = "running" /\ jobs'[j].status = "pending"
       /\ pc[w] \in Working /\ task[w].job = j
       => pc'[w] # pc[w]]_vars

\* What the webhook was told is the status the job has and keeps.
WebhookTellsOutcome ==
  \A j \in JobIds : notices[j] # {} /\ Exists(j) => notices[j] = {jobs[j].status}

\* A job is given up only after all of its max_attempts (lib.rs: "Failures retry
\* with exponential backoff up to max_attempts").
NoPrematureFailure ==
  \A j \in JobIds : jobs[j].status = "failed" => Len(attempts[j]) >= MaxAttempts

\* Seen through the jobs table alone, the queue does what JobLifecycle promises:
\* a job ends once, is requeued only while it runs, and ends cancelled only when
\* asked to, although finish and reschedule test none of this.
Lifecycle == INSTANCE JobLifecycle WITH
  Jobs   <- JobIds,
  status <- [j \in JobIds |-> jobs[j].status],
  asked  <- [j \in JobIds |-> jobs[j].asked]

ImplementsLifecycle == Lifecycle!Spec

-----------------------------------------------------------------------------
(* Liveness. *)

\* Conditions of the properties, which the code does not give: every sync ends by
\* itself; and some worker finds nothing more to claim again and again, as it must
\* before it reaps (the inner loop of run).
SyncsEnd == \A w \in Workers : []<>(pc[w] # "sync")
QueueDrains == []<>(\E w \in Workers : pc[w] = "sleep")

\* Running, and no worker has it. Abandoned: nor is an attempt row open that a
\* reap would find; the worker died before it made the row or after it closed it,
\* or its last statement failed.
Orphaned(j) ==
  /\ jobs[j].status = "running"
  /\ \A w \in Workers : ~(pc[w] \in Working /\ task[w].job = j)

Abandoned(j) ==
  Orphaned(j) /\ \A n \in DOMAIN attempts[j] : attempts[j][n] \notin Open

\* If syncs end and the queue drains, a queued job ends or is abandoned, however
\* often its workers stall, die or fail and its attempts are reaped and made again;
\* a death in mid-sync alone does not leave it where it is.
EveryJobConcludes ==
  SyncsEnd /\ QueueDrains =>
    \A j \in JobIds :
      jobs[j].status = "pending"
        ~> jobs[j].status \in Terminal \cup {"deleted"} \/ Abandoned(j)

\* A worker syncing a job whose cancellation was asked stops that sync, even one
\* that would never end by itself, whatever became of its heartbeats and of its
\* attempt's row; provided that the sync does not wait forever where it does not
\* look (docs/ARCHITECTURE.md names no such exception).
CancelStopsSync ==
  \A w \in Workers :
    []<>~(pc[w] = "sync" /\ task[w].deaf) =>
      \A j \in JobIds :
        pc[w] = "sync" /\ task[w].job = j /\ jobs[j].asked
          ~> ~(pc[w] = "sync" /\ task[w].job = j) \/ ~Exists(j)

\* An attempt row left open by a dead worker, or by a finish_attempt that
\* failed, is closed by some worker's reap; and a job whose worker died in the
\* middle of the attempt does not stay running without one.
OpenOrphan(j) ==
  \E n \in DOMAIN attempts[j] :
    attempts[j][n] \in Open /\ \A w \in Workers : ~Holds(w, j, n)

OrphanedAttemptsReaped ==
  QueueDrains =>
    \A j \in JobIds :
      /\ OpenOrphan(j) ~> ~OpenOrphan(j)
      /\ OpenOrphan(j) /\ Orphaned(j) ~> ~Orphaned(j)

-----------------------------------------------------------------------------
(* A claim of the repository that the code does not keep. *)

\* docs/ARCHITECTURE.md: jobs whose worker died are reaped back into the queue.
\* A worker that dies after its claim and before its attempt row, or after
\* finish_attempt and before finish, leaves nothing for reap_stale to find.
DeadWorkersJobsRequeued == \A j \in JobIds : Abandoned(j) ~> ~Abandoned(j)
=============================================================================
