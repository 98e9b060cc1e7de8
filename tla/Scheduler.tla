------------------------------ MODULE Scheduler ------------------------------
(***************************************************************************)
(* How gauss-orchestrator turns schedules into jobs: every worker, on every  *)
(* turn of its loop, lists the connections that could run, works out when    *)
(* each is due, and creates a job for those that are.  The list is read once *)
(* per pass; other workers, the API and the jobs themselves move on while    *)
(* the pass goes through it.  The jobs a connection has are seen here only as *)
(* `busy` (one is pending or running) and `last` (the newest created_at);     *)
(* JobQueue is about what happens to them.                                   *)
(***************************************************************************)
EXTENDS Naturals

CONSTANTS
  Conns,        \* connections
  Workers,      \* orchestrator processes
  Choices,      \* Choices[c]: the schedules the API may give c
  Triggerable,  \* connections a user may also trigger by hand
  MaxTime,      \* bound: the clock stops here
  MaxFaults     \* bound: how many passes are cut short by an error or a crash

\* every: the minutes of an interval, or of a cron expression that fires at the
\* multiples of it. "bad" is a schedule next_due cannot evaluate.
Schedule == [kind : {"interval", "cron", "bad"}, every : Nat]

ASSUME SchedulerAssumption ==
  /\ "none" \notin Conns
  /\ Choices \in [Conns -> SUBSET Schedule]
  /\ \A c \in Conns : \A s \in Choices[c] : s.kind = "cron" => s.every > 0
  /\ Triggerable \subseteq Conns
  /\ MaxTime \in Nat
  /\ MaxFaults \in Nat

VARIABLES
  now,       \* the database's and the workers' clock
  status,    \* status of each connection; "deleted" when its row is gone
  schedule,  \* schedule of each connection
  busy,      \* whether the connection has a pending or running job
  last,      \* whether it ever had a job, and when the newest was created
  pc,        \* where each worker is in schedule_due
  listed,    \* the rows of list_schedulable it has still to look at
  item,      \* the connection it looks at, and when next_due says it is due
  raced,     \* history, read by no action: the connections that have got a job,
             \* from anyone, since the worker read the list of its present pass
  faults     \* faults so far

vars == <<now, status, schedule, busy, last, pc, listed, item, raced, faults>>
rows == <<status, schedule, busy, last>>

Time == 0..MaxTime
LastJob == [ran : BOOLEAN, at : Time]
NoItem == [conn |-> "none", due |-> 0]

TypeOK ==
  /\ now \in Time
  /\ status \in [Conns -> {"active", "inactive", "deleted"}]
  /\ schedule \in [Conns -> Schedule] /\ \A c \in Conns : schedule[c] \in Choices[c]
  /\ busy \in [Conns -> BOOLEAN]
  /\ last \in [Conns -> LastJob]
  /\ pc \in [Workers -> {"idle", "pass", "due"}]
  /\ listed \in [Workers -> SUBSET [conn : Conns, schedule : Schedule, last : LastJob]]
  /\ item \in [Workers -> [conn : Conns, due : Nat] \cup {NoItem}]
  /\ \A w \in Workers : pc[w] = "due" <=> item[w] # NoItem
  /\ raced \in [Workers -> SUBSET Conns]
  /\ faults \in 0..MaxFaults

Init ==
  /\ now = 0
  /\ status = [c \in Conns |-> "active"]
  /\ schedule \in {f \in [Conns -> UNION {Choices[c] : c \in Conns}] :
                     \A c \in Conns : f[c] \in Choices[c]}
  /\ busy = [c \in Conns |-> FALSE]
  /\ last = [c \in Conns |-> [ran |-> FALSE, at |-> 0]]
  /\ pc = [w \in Workers |-> "idle"]
  /\ listed = [w \in Workers |-> {}]
  /\ item = [w \in Workers |-> NoItem]
  /\ raced = [w \in Workers |-> {}]
  /\ faults = 0

-----------------------------------------------------------------------------
(* The API, the queue and the clock. *)

\* ConnectionRepo::update: COALESCE keeps what the patch leaves out.
Update(c, st, s) ==
  /\ status[c] # "deleted"
  /\ status' = [status EXCEPT ![c] = st]
  /\ schedule' = [schedule EXCEPT ![c] = s]
  /\ UNCHANGED <<now, busy, last, pc, listed, item, raced, faults>>

Delete(c) ==
  /\ status[c] # "deleted"
  /\ status' = [status EXCEPT ![c] = "deleted"]
  /\ busy' = [busy EXCEPT ![c] = FALSE]
  /\ last' = [last EXCEPT ![c] = [ran |-> FALSE, at |-> 0]]
  /\ UNCHANGED <<now, schedule, pc, listed, item, raced, faults>>

\* JobRepo::create, when the unique index and the foreign key let it.
CreateJob(c) ==
  /\ status[c] # "deleted" /\ ~busy[c]
  /\ busy' = [busy EXCEPT ![c] = TRUE]
  /\ last' = [last EXCEPT ![c] = [ran |-> TRUE, at |-> now]]
  /\ raced' = [w \in Workers |-> IF pc[w] = "idle" THEN {} ELSE raced[w] \cup {c}]
  /\ UNCHANGED <<status, schedule>>

\* A job by hand: the REST handler's check that the connection is active comes
\* earlier and may be outdated; the MCP tool makes none.
Trigger(c) ==
  /\ c \in Triggerable
  /\ CreateJob(c)
  /\ UNCHANGED <<now, pc, listed, item, faults>>

\* The job reaches a terminal status.
JobEnds(c) ==
  /\ busy[c]
  /\ busy' = [busy EXCEPT ![c] = FALSE]
  /\ UNCHANGED <<now, status, schedule, last, pc, listed, item, raced, faults>>

Tick ==
  /\ now < MaxTime
  /\ now' = now + 1
  /\ UNCHANGED <<status, schedule, busy, last, pc, listed, item, raced, faults>>

-----------------------------------------------------------------------------
(* schedule_due. *)

\* ConnectionRepo::list_schedulable.
Schedulable(c) == status[c] = "active" /\ ~busy[c]

ListSchedulable(w) ==
  /\ pc[w] = "idle"
  /\ pc' = [pc EXCEPT ![w] = "pass"]
  /\ listed' = [listed EXCEPT ![w] =
       {[conn |-> c, schedule |-> schedule[c], last |-> last[c]] :
          c \in {d \in Conns : Schedulable(d)}}]
  /\ UNCHANGED <<now, rows, item, raced, faults>>

\* The first fire of a cron schedule strictly after t.
NextFire(every, t) == (t \div every + 1) * every

\* Mutants: a fire at the base itself counts; the base is always the present.
NextDueInclusive(s, l) ==
  IF s.kind = "interval" THEN (IF l.ran THEN l.at + s.every ELSE now)
  ELSE ((IF l.ran THEN l.at ELSE now) \div s.every) * s.every
NextDueFromNow(s, l) ==
  IF s.kind = "interval" THEN (IF l.ran THEN l.at + s.every ELSE now)
  ELSE NextFire(s.every, now)

\* next_due of a schedule s that can be evaluated, after the last job l.
NextDue(s, l) ==
  IF s.kind = "interval" THEN (IF l.ran THEN l.at + s.every ELSE now)
  ELSE NextFire(s.every, IF l.ran THEN l.at ELSE now)

\* One row of the list, in no given order. A bad schedule is skipped.
Evaluate(w) ==
  /\ pc[w] = "pass"
  /\ \E r \in listed[w] :
       /\ listed' = [listed EXCEPT ![w] = @ \ {r}]
       /\ IF r.schedule.kind = "bad" THEN UNCHANGED <<pc, item>>
          ELSE /\ pc' = [pc EXCEPT ![w] = "due"]
               /\ item' = [item EXCEPT ![w] =
                    [conn |-> r.conn, due |-> NextDue(r.schedule, r.last)]]
  /\ UNCHANGED <<now, rows, raced, faults>>

\* Mutant: the connection looked at is not forgotten.
AbandonList(w) ==
  /\ pc' = [pc EXCEPT ![w] = "idle"]
  /\ listed' = [listed EXCEPT ![w] = {}]
  /\ raced' = [raced EXCEPT ![w] = {}]
  /\ UNCHANGED item

\* The pass ends before its list does.
Abandon(w) ==
  /\ pc' = [pc EXCEPT ![w] = "idle"]
  /\ listed' = [listed EXCEPT ![w] = {}]
  /\ raced' = [raced EXCEPT ![w] = {}]
  /\ item' = [item EXCEPT ![w] = NoItem]

\* The second half of the loop body, with a later reading of the clock. A
\* conflict is skipped; the missing row of a deleted connection is an error,
\* which ends the pass.
Enqueue(w) ==
  LET c == item[w].conn
      next == /\ pc' = [pc EXCEPT ![w] = "pass"]
              /\ item' = [item EXCEPT ![w] = NoItem]
              /\ UNCHANGED listed
  IN /\ pc[w] = "due"
     /\ \/ item[w].due > now /\ next /\ UNCHANGED <<rows, raced>>
        \/ item[w].due <= now /\ CreateJob(c) /\ next
        \/ item[w].due <= now /\ busy[c] /\ next /\ UNCHANGED <<rows, raced>>
        \/ item[w].due <= now /\ status[c] = "deleted" /\ Abandon(w) /\ UNCHANGED rows
     /\ UNCHANGED <<now, faults>>

PassEnds(w) ==
  /\ pc[w] = "pass"
  /\ listed[w] = {}
  /\ pc' = [pc EXCEPT ![w] = "idle"]
  /\ raced' = [raced EXCEPT ![w] = {}]
  /\ UNCHANGED <<now, rows, listed, item, faults>>

\* A failed statement ends the pass, a crash the process; the next pass starts
\* from a new list either way. A failed list_schedulable changes nothing.
PassFails(w) ==
  /\ pc[w] # "idle"
  /\ faults < MaxFaults
  /\ faults' = faults + 1
  /\ Abandon(w)
  /\ UNCHANGED <<now, rows>>

-----------------------------------------------------------------------------

Pass(w) == ListSchedulable(w) \/ Evaluate(w) \/ Enqueue(w) \/ PassEnds(w)

Api(c) ==
  \/ \E st \in {"active", "inactive"}, s \in Choices[c] : Update(c, st, s)
  \/ Delete(c) \/ Trigger(c)

Next ==
  \/ Tick
  \/ \E c \in Conns : Api(c) \/ JobEnds(c)
  \/ \E w \in Workers : Pass(w) \/ PassFails(w)

Spec == Init /\ [][Next]_vars

\* A worker that has begun a pass goes through with it. It need not begin another:
\* between two passes it executes jobs itself, for as long as they take and come.
FairSpec ==
  Spec /\ \A w \in Workers : WF_vars(Evaluate(w) \/ Enqueue(w) \/ PassEnds(w))

-----------------------------------------------------------------------------

\* What "due" means, said without next_due: the interval has gone by since the
\* newest job, or the cron expression fired after it.
RunDue(c, s) ==
  LET t == last[c].at
  IN /\ last[c].ran
     /\ \/ s.kind = "interval" /\ t + s.every <= now
        \/ s.kind = "cron" /\ \E f \in (t + 1)..now : f % s.every = 0

\* Worker w creates a job for c.
Enqueued(w, c) ==
  pc[w] = "due" /\ pc'[w] = "pass" /\ item[w].conn = c /\ ~busy[c] /\ busy'[c]

\* However many workers make passes: no schedule a connection may have had creates
\* a second job between two of its due times, however late the pass comes to it and
\* whatever is edited, paused, deleted or finished meanwhile, unless the connection
\* got a job from another worker or by hand after the list was read (which the
\* partial unique index, scheduler.rs:3-4, does not prevent once that job is over).
NoDoubleEnqueue ==
  [][\A w \in Workers : \A c \in Conns :
       Enqueued(w, c) /\ last[c].ran /\ c \notin raced[w]
         => \E s \in Choices[c] : RunDue(c, s)]_vars

\* A connection that is due does not stay due: it gets its job unless it is
\* paused, rescheduled or deleted, whatever ends the passes of the workers; as
\* long as some worker comes back from its jobs and begins a pass.
Overdue(c) == Schedulable(c) /\ RunDue(c, schedule[c])

PassesBegin == []<>(\E w \in Workers : pc[w] = "pass")

DueConnectionsEnqueued ==
  PassesBegin => \A c \in Conns : Overdue(c) ~> ~Overdue(c)

\* scheduler.rs, next_due: never ran means due immediately.
NeverRanDueAtOnce ==
  [][\A w \in Workers : \A r \in listed[w] :
       r \notin listed'[w] /\ pc'[w] = "due" /\ ~r.last.ran
         => item'[w].due <= now]_vars
=============================================================================
