--------------------------- MODULE JobQueueProofs ---------------------------
(***************************************************************************)
(* Proofs about JobQueue, for every set of jobs, connections and workers,    *)
(* every attempt budget and every number of faults: the types; what holds    *)
(* whatever fails; what holds when workers may crash and nothing else goes    *)
(* wrong; and what becomes of attempts and jobs.                             *)
(***************************************************************************)
EXTENDS JobQueue, SequenceTheorems, TLAPS

(***************************************************************************)
(* The type invariant, one conjunct per variable.                            *)
(***************************************************************************)
LEMMA InitTypeOK == Init => TypeOK
  BY JobQueueAssumption DEF Init, TypeOK, Job, Phase, Working

\* The fault counter stays within its bound.
LEMMA FaultTypeOK ==
  ASSUME TypeOK, NoFault \/ \E kind \in FaultKinds : Fault(kind)
  PROVE  faults' \in 0..MaxFaults
  BY JobQueueAssumption DEF TypeOK, Fault, NoFault

\* A job's record with another status is a job's record.
LEMMA StatusTypeOK ==
  ASSUME NEW r \in Job, NEW s \in {"none", "deleted"} \cup Active \cup Terminal
  PROVE  /\ [r EXCEPT !.status = s] \in Job
         /\ \A d \in BOOLEAN : [r EXCEPT !.status = s, !.due = d] \in Job
  BY DEF Job

\* Steps of the API and of time.
LEMMA EnvironmentTypeOK ==
  ASSUME TypeOK, ApiStep \/ TimeStep
  PROVE  TypeOK'
<1> USE JobQueueAssumption DEF TypeOK
<1>1. ASSUME NEW j \in JobIds, Create(j)
      PROVE  TypeOK'
  BY <1>1 DEF Create, Job, Active
<1>2. ASSUME NEW j \in JobIds, Cancel(j)
      PROVE  TypeOK'
  <2>1. jobs[j] \in Job
    OBVIOUS
  <2>2. jobs'[j] = [status |-> IF jobs[j].status = "pending" THEN "cancelled"
                                ELSE jobs[j].status,
                    due |-> jobs[j].due, asked |-> TRUE]
    BY <1>2, <2>1 DEF Cancel, Job
  <2>3. jobs'[j] \in Job
    BY <2>1, <2>2 DEF Job, Terminal
  <2> QED
    BY <1>2, <2>3 DEF Cancel
<1>3. ASSUME NEW c \in Conns, DeleteConnection(c)
      PROVE  TypeOK'
  BY <1>3 DEF DeleteConnection, Job
<1>4. ASSUME NEW j \in JobIds, BecomeDue(j)
      PROVE  TypeOK'
  BY <1>4 DEF BecomeDue, Job
<1>5. ASSUME NEW j \in JobIds, NEW n \in DOMAIN attempts[j], GoStale(j, n)
      PROVE  TypeOK'
  BY <1>5 DEF GoStale, AttemptStatus, Fault, NoFault
<1> QED
  BY <1>1, <1>2, <1>3, <1>4, <1>5 DEF ApiStep, TimeStep

\* Steps of the worker loop and of the process.
LEMMA LoopTypeOK ==
  ASSUME TypeOK, NEW w \in Workers,
         LoopStep(w) \/ Shutdown(w) \/ Crash(w) \/ Restart(w)
  PROVE  TypeOK'
<1> USE JobQueueAssumption DEF TypeOK, Goto, Fault, NoFault
<1>1. CASE Reap(w)
  <2>1. attempts' \in [JobIds -> Seq(AttemptStatus)]
    <3>1. CASE UNCHANGED attempts
      BY <3>1
    <3>2. CASE attempts' = [j \in JobIds |-> [n \in DOMAIN attempts[j] |->
                 IF attempts[j][n] = "stale" THEN "failed" ELSE attempts[j][n]]]
      <4> SUFFICES ASSUME NEW j \in JobIds
                   PROVE  [n \in DOMAIN attempts[j] |->
                             IF attempts[j][n] = "stale" THEN "failed" ELSE attempts[j][n]]
                            \in Seq(AttemptStatus)
        BY <3>2
      <4>1. attempts[j] \in Seq(AttemptStatus) /\ DOMAIN attempts[j] = 1..Len(attempts[j])
            /\ Len(attempts[j]) \in Nat
        OBVIOUS
      <4> QED
        BY <4>1, IsASeq DEF AttemptStatus
    <3> QED
      BY <1>1, <3>1, <3>2 DEF Reap, Reaps
  <2>2. \A j \in JobIds : [jobs[j] EXCEPT !.status = "pending", !.due = TRUE] \in Job
    BY StatusTypeOK DEF Active
  <2>3. jobs' \in [JobIds -> Job]
    BY <1>1, <2>2 DEF Reap, Reaps
  <2>4. faults' \in 0..MaxFaults
    BY <1>1, FaultTypeOK DEF Reap, Reaps, FaultKinds
  <2> QED
    BY <1>1, <2>1, <2>3, <2>4 DEF Reap, Reaps, Phase, Working
<1>2. CASE ClaimNothing(w)
  BY <1>2 DEF ClaimNothing, Phase, Working
<1>3. CASE Wake(w)
  BY <1>3 DEF Wake, Phase, Working
<1>4. ASSUME NEW j \in JobIds, Claim(w, j)
      PROVE  TypeOK'
  <2>1. [NoTask EXCEPT !.job = j] \in Task
    BY DEF NoTask, Task, Result
  <2>2. jobs' \in [JobIds -> Job]
    BY <1>4 DEF Claim, Job, Active
  <2> QED
    BY <1>4, <2>1, <2>2 DEF Claim, Phase, Working
<1>5. CASE Shutdown(w)
  BY <1>5 DEF Shutdown, Phase, Working
<1>6. CASE Crash(w)
  BY <1>6 DEF Crash, Phase, Working
<1>7. CASE Restart(w)
  BY <1>7 DEF Restart, Phase, Working
<1> QED
  BY <1>1, <1>2, <1>3, <1>4, <1>5, <1>6, <1>7 DEF LoopStep

\* A worker moves to phase p with locals t.
LEMMA MoveTypeOK ==
  ASSUME TypeOK, NEW w \in Workers, NEW p \in Phase, NEW t \in Task,
         pc' = [pc EXCEPT ![w] = p], task' = [task EXCEPT ![w] = t]
  PROVE  /\ pc' \in [Workers -> Phase]
         /\ task' \in [Workers -> Task \cup {NoTask}]
         /\ \A v \in Workers :
              pc'[v] \in Working \cup {"notify"} => task'[v] \in Task
  BY DEF TypeOK

\* Steps of execute and of the tasks it spawns.
LEMMA ExecuteTypeOK ==
  ASSUME TypeOK, NEW w \in Workers,
         ExecuteStep(w) \/ BackgroundStep(w) \/ SyncStep(w)
  PROVE  TypeOK'
<1> DEFINE t == task[w]
<1>0. /\ pc[w] \in Working \cup {"notify"} => t \in Task
      /\ "sync" \in Phase /\ "record" \in Phase /\ "settle" \in Phase
      /\ "claim" \in Phase /\ "notify" \in Phase
  BY DEF TypeOK, Phase
<1>1. CASE CreateAttempt(w)
  <2> DEFINE n == Len(attempts[t.job]) + 1
             u == [t EXCEPT !.number = n, !.beating = TRUE]
             x == [t EXCEPT !.number = n, !.beating = TRUE, !.result = "aborted"]
  <2>1. t \in Task /\ t.job \in JobIds
    BY <1>0, <1>1 DEF CreateAttempt, Working, Task
  <2>2. attempts[t.job] \in Seq(AttemptStatus) /\ n \in Nat
    BY <2>1 DEF TypeOK
  <2>3. u \in Task /\ x \in Task
    BY <2>1, <2>2 DEF Task, Result
  <2>4. attempts' \in [JobIds -> Seq(AttemptStatus)]
    BY <1>1, <2>1, <2>2 DEF CreateAttempt, TypeOK, AttemptStatus
  <2>5. CASE n > MaxAttempts
    <3>1. task' = [task EXCEPT ![w] = x] /\ pc' = [pc EXCEPT ![w] = "record"]
      BY <1>1, <2>5 DEF CreateAttempt, Goto
    <3> QED
      BY <1>0, <1>1, <2>3, <2>4, <3>1, MoveTypeOK DEF CreateAttempt, TypeOK
  <2>6. CASE ~(n > MaxAttempts)
    <3>1. task' = [task EXCEPT ![w] = u] /\ pc' = [pc EXCEPT ![w] = "sync"]
      BY <1>1, <2>6 DEF CreateAttempt, Goto
    <3> QED
      BY <1>0, <1>1, <2>3, <2>4, <3>1, MoveTypeOK DEF CreateAttempt, TypeOK
  <2> QED
    BY <2>5, <2>6
<1>2. CASE AttemptRefused(w)
  <2>1. t \in Task
    BY <1>0, <1>2 DEF AttemptRefused, Working
  <2>2. [t EXCEPT !.result = "aborted"] \in Task
    BY <2>1 DEF Task, Result
  <2> QED
    BY <1>0, <1>2, <2>2, MoveTypeOK, JobQueueAssumption
    DEF AttemptRefused, Goto, Fault, NoFault, TypeOK
<1>3. CASE RecordAttempt(w)
  <2>1. t \in Task /\ t.job \in JobIds
    BY <1>0, <1>3 DEF RecordAttempt, Working, Task
  <2>2. [t EXCEPT !.beating = FALSE] \in Task
    BY <2>1 DEF Task
  <2>3. attempts' \in [JobIds -> Seq(AttemptStatus)]
    <3> DEFINE f == IF t.result = "succeeded" THEN "succeeded" ELSE "failed"
    <3>1. f \in AttemptStatus
      BY DEF AttemptStatus
    <3>2. \/ attempts' = attempts
          \/ /\ t.number \in DOMAIN attempts[t.job]
             /\ attempts' = [attempts EXCEPT ![t.job][t.number] = f]
      BY <1>3 DEF RecordAttempt
    <3>3. CASE attempts' = attempts
      BY <3>3 DEF TypeOK
    <3>4. CASE /\ t.number \in DOMAIN attempts[t.job]
               /\ attempts' = [attempts EXCEPT ![t.job][t.number] = f]
      <4> HIDE DEF f
      <4>1. attempts[t.job] \in Seq(AttemptStatus)
        BY <2>1 DEF TypeOK
      <4>2. [attempts[t.job] EXCEPT ![t.number] = f] \in Seq(AttemptStatus)
        BY <3>1, <3>4, <4>1, ExceptSeq
      <4> QED
        BY <2>1, <3>4, <4>2 DEF TypeOK
    <3> QED
      BY <3>2, <3>3, <3>4
  <2>4. faults' \in 0..MaxFaults
    BY <1>3, FaultTypeOK DEF RecordAttempt, FaultKinds
  <2>5. task' = [task EXCEPT ![w] = [t EXCEPT !.beating = FALSE]]
        /\ pc' = [pc EXCEPT ![w] = "settle"]
    BY <1>3 DEF RecordAttempt, Goto
  <2> QED
    BY <1>0, <1>3, <2>2, <2>3, <2>4, <2>5, MoveTypeOK DEF RecordAttempt, TypeOK
<1>4. CASE Reschedule(w)
  BY <1>0, <1>4, ZenonT(30) DEF Reschedule, Goto, TypeOK, Phase, Working, Job, Active
<1>5. CASE RescheduleRefused(w)
  <2>1. t \in Task
    BY <1>0, <1>5 DEF RescheduleRefused, Working
  <2>2. [t EXCEPT !.result = "final"] \in Task
    BY <2>1 DEF Task, Result
  <2>3. /\ task' \in [Workers -> Task \cup {NoTask}]
        /\ \A v \in Workers : pc'[v] \in Working \cup {"notify"} => task'[v] \in Task
    BY <1>5, <2>2 DEF RescheduleRefused, TypeOK
  <2>4. faults' \in 0..MaxFaults
    BY <1>5, FaultTypeOK DEF RescheduleRefused, FaultKinds
  <2> QED
    BY <1>5, <2>3, <2>4 DEF RescheduleRefused, TypeOK
<1>6. CASE Finish(w)
  <2>1. t \in Task /\ t.job \in JobIds
    BY <1>0, <1>6 DEF Finish, Working, Task
  <2>2. jobs' \in [JobIds -> Job]
    <3>1. Verdict(t.result) \in {"none", "deleted"} \cup Active \cup Terminal
      BY DEF Verdict, Terminal
    <3>2. [jobs[t.job] EXCEPT !.status = Verdict(t.result)] \in Job
      BY <2>1, <3>1, StatusTypeOK DEF TypeOK
    <3> QED
      BY <1>6, <2>1, <3>2 DEF Finish, TypeOK
  <2>3. /\ pc' \in [Workers -> Phase]
        /\ task' \in [Workers -> Task \cup {NoTask}]
        /\ \A v \in Workers : pc'[v] \in Working \cup {"notify"} => task'[v] \in Task
    BY <1>0, <1>6, <2>1 DEF Finish, Goto, TypeOK, Phase, Working
  <2>4. faults' \in 0..MaxFaults
    BY <1>6, FaultTypeOK DEF Finish, FaultKinds
  <2> QED
    BY <1>6, <2>2, <2>3, <2>4 DEF Finish, TypeOK
<1>7. CASE Notify(w)
  <2>1. t \in Task /\ t.job \in JobIds
    BY <1>0, <1>7 DEF Notify, Task
  <2>2. Verdict(t.result) \in Terminal
    BY DEF Verdict, Terminal
  <2>3. notices' \in [JobIds -> SUBSET Terminal]
    <3> DEFINE s == Verdict(t.result)
    <3>1. notices' = notices \/ notices' = [notices EXCEPT ![t.job] = @ \cup {s}]
      BY <1>7 DEF Notify
    <3>2. s \in Terminal
      BY <2>2
    <3> HIDE DEF s
    <3>3. notices[t.job] \cup {s} \in SUBSET Terminal
      BY <2>1, <3>2 DEF TypeOK
    <3> QED
      BY <2>1, <3>1, <3>3 DEF TypeOK
  <2> QED
    BY <1>7, <2>3 DEF Notify, Goto, TypeOK, Phase, Working
<1>8. CASE Heartbeat(w)
  <2>1. t \in Task /\ t.job \in JobIds
    BY <1>0, <1>8 DEF Heartbeat, Working, Task
  <2> QED
    BY <1>8, <2>1 DEF Heartbeat, TypeOK, AttemptStatus
<1>9. CASE HeartbeatFails(w)
  <2>1. t \in Task /\ [t EXCEPT !.beating = FALSE] \in Task
    BY <1>0, <1>9 DEF HeartbeatFails, Working, Task
  <2>2. faults' \in 0..MaxFaults
    BY <1>9, FaultTypeOK DEF HeartbeatFails, FaultKinds
  <2> QED
    BY <1>9, <2>1, <2>2 DEF HeartbeatFails, TypeOK
<1>10. CASE WatchCancel(w)
  <2>1. t \in Task /\ [t EXCEPT !.told = TRUE] \in Task
    BY <1>0, <1>10 DEF WatchCancel, Working, Task
  <2> QED
    BY <1>10, <2>1 DEF WatchCancel, TypeOK
<1>12. CASE SyncBlocks(w)
  <2>1. t \in Task /\ [t EXCEPT !.deaf = ~t.deaf] \in Task
    BY <1>0, <1>12 DEF SyncBlocks, Working, Task
  <2>2. faults' \in 0..MaxFaults
    BY <1>12, FaultTypeOK DEF SyncBlocks, FaultKinds
  <2> QED
    BY <1>12, <2>1, <2>2 DEF SyncBlocks, TypeOK
<1>11. ASSUME NEW result \in {"succeeded", "failed", "cancelled"}, SyncEnds(w, result)
       PROVE  TypeOK'
  <2>1. t \in Task
    BY <1>0, <1>11 DEF SyncEnds, Working
  <2>2. [t EXCEPT !.result = result, !.told = FALSE, !.deaf = FALSE] \in Task
    BY <2>1 DEF Task, Result
  <2> QED
    BY <1>0, <1>11, <2>2, MoveTypeOK DEF SyncEnds, Goto, TypeOK
<1> QED
  BY <1>1, <1>2, <1>3, <1>4, <1>5, <1>6, <1>7, <1>8, <1>9, <1>10, <1>11, <1>12
  DEF ExecuteStep, BackgroundStep, SyncStep

LEMMA StepTypeOK == TypeOK /\ [Next]_vars => TypeOK'
<1> SUFFICES ASSUME TypeOK, [Next]_vars
             PROVE  TypeOK'
  OBVIOUS
<1>1. CASE ApiStep \/ TimeStep
  BY <1>1, EnvironmentTypeOK
<1>2. ASSUME NEW w \in Workers, WorkerStep(w)
      PROVE  TypeOK'
  BY <1>2, LoopTypeOK, ExecuteTypeOK DEF WorkerStep
<1>3. CASE UNCHANGED vars
  BY <1>3 DEF vars, TypeOK
<1> QED
  BY <1>1, <1>2, <1>3 DEF Next

(***************************************************************************)
(* Whatever fails, every variable keeps its type.                            *)
(***************************************************************************)
THEOREM TypeCorrect == Spec => []TypeOK
  BY InitTypeOK, StepTypeOK, PTL DEF Spec

-----------------------------------------------------------------------------
(***************************************************************************)
(* What holds whatever fails: the unique index keeps one active job per       *)
(* connection, and a job ends cancelled only on request.                     *)
(***************************************************************************)

\* A step disturbs the property only by making a job active; the index then
\* allows it when every other job stays as it was.
LEMMA SlotPreserved ==
  ASSUME OneActiveJobPerConnection,
         \/ \A j \in JobIds : jobs'[j].status \in Active => jobs[j].status \in Active
         \/ \E j \in JobIds : /\ IndexAllows(j)
                              /\ \A k \in JobIds \ {j} : jobs'[k] = jobs[k]
  PROVE  OneActiveJobPerConnection'
<1>1. CASE \A j \in JobIds : jobs'[j].status \in Active => jobs[j].status \in Active
  BY <1>1 DEF OneActiveJobPerConnection
<1>2. CASE \E j \in JobIds : /\ IndexAllows(j)
                             /\ \A k \in JobIds \ {j} : jobs'[k] = jobs[k]
  <2>1. PICK j \in JobIds : /\ IndexAllows(j)
                            /\ \A k \in JobIds \ {j} : jobs'[k] = jobs[k]
    BY <1>2
  <2>2. ASSUME NEW a \in JobIds, NEW b \in JobIds, a # b, ConnOf[a] = ConnOf[b],
               jobs'[a].status \in Active, jobs'[b].status \in Active
        PROVE  FALSE
    <3>1. CASE a = j
      BY <2>1, <2>2, <3>1 DEF IndexAllows
    <3>2. CASE b = j
      BY <2>1, <2>2, <3>2 DEF IndexAllows
    <3>3. CASE a # j /\ b # j
      BY <2>1, <2>2, <3>3 DEF OneActiveJobPerConnection
    <3> QED
      BY <3>1, <3>2, <3>3
  <2> QED
    BY <2>2 DEF OneActiveJobPerConnection
<1> QED
  BY <1>1, <1>2

\* Every step that makes a job active passes the index; the others only keep
\* or end what was active.
LEMMA SlotStep ==
  ASSUME TypeOK, OneActiveJobPerConnection, [Next]_vars
  PROVE  OneActiveJobPerConnection'
<1> DEFINE Kept == \A j \in JobIds : jobs'[j].status \in Active => jobs[j].status \in Active
           Indexed == \E j \in JobIds : /\ IndexAllows(j)
                                        /\ \A k \in JobIds \ {j} : jobs'[k] = jobs[k]
<1> SUFFICES Kept \/ Indexed
  BY SlotPreserved
<1>0. /\ jobs \in [JobIds -> Job]
      /\ \A w \in Workers : pc[w] \in Working => task[w].job \in JobIds
  BY DEF TypeOK, Task
<1>1. ASSUME NEW j \in JobIds, Create(j)
      PROVE  Indexed
  BY <1>0, <1>1 DEF Create
<1>2. ASSUME NEW j \in JobIds, Cancel(j)
      PROVE  Kept
  BY <1>0, <1>2 DEF Cancel
<1>3. ASSUME NEW c \in Conns, DeleteConnection(c)
      PROVE  Kept
  BY <1>0, <1>3 DEF DeleteConnection, Active
<1>4. ASSUME NEW j \in JobIds, BecomeDue(j)
      PROVE  Kept
  BY <1>0, <1>4 DEF BecomeDue, Job
<1>5. ASSUME NEW w \in Workers, Reap(w)
      PROVE  Kept
  BY <1>0, <1>5 DEF Reap, Reaps, Active, Job
<1>6. ASSUME NEW w \in Workers, NEW j \in JobIds, Claim(w, j)
      PROVE  Kept
  BY <1>0, <1>6 DEF Claim, Active, Job
<1>7. ASSUME NEW w \in Workers, Reschedule(w)
      PROVE  Indexed
  BY <1>0, <1>7 DEF Reschedule, Working
<1>8. ASSUME NEW w \in Workers, Finish(w)
      PROVE  Kept
  <2>1. task[w].job \in JobIds /\ Verdict(task[w].result) \notin Active
    BY <1>0, <1>8 DEF Finish, Working, Verdict, Active
  <2> HIDE DEF Verdict
  <2> QED
    BY <1>0, <1>8, <2>1 DEF Finish, Job
<1>9. CASE UNCHANGED jobs
  BY <1>9
<1> QED
  BY <1>1, <1>2, <1>3, <1>4, <1>5, <1>6, <1>7, <1>8, <1>9
  DEF Next, ApiStep, TimeStep, WorkerStep, LoopStep, ExecuteStep, BackgroundStep,
      SyncStep, vars, GoStale, ClaimNothing, Wake, Shutdown, Crash, Restart,
      CreateAttempt, AttemptRefused, RecordAttempt, RescheduleRefused, Notify,
      Heartbeat, HeartbeatFails, WatchCancel, SyncBlocks, SyncEnds

(***************************************************************************)
(* Whatever fails, a connection has at most one pending or running job.      *)
(***************************************************************************)
THEOREM OneActive == Spec => []OneActiveJobPerConnection
<1>1. Init => OneActiveJobPerConnection
  BY DEF Init, OneActiveJobPerConnection, Active
<1>2. TypeOK /\ OneActiveJobPerConnection /\ [Next]_vars => OneActiveJobPerConnection'
  BY SlotStep
<1> QED
  BY <1>1, <1>2, TypeCorrect, PTL DEF Spec

-----------------------------------------------------------------------------

Busy == Working \cup {"notify"}

LEMMA CancelBasics ==
  ASSUME TypeOK
  PROVE  /\ jobs \in [JobIds -> Job] /\ notices \in [JobIds -> SUBSET Terminal]
         /\ pc \in [Workers -> Phase] /\ task \in [Workers -> Task \cup {NoTask}]
         /\ \A w \in Workers : pc[w] \in Busy =>
              task[w] \in Task /\ task[w].job \in JobIds
  BY DEF TypeOK, Task, Busy

\* A row that was used stays used, and a set flag stays set while the row exists.
LEMMA FlagKept ==
  ASSUME TypeOK, [Next]_vars, NEW j \in JobIds, jobs[j].status # "none"
  PROVE  /\ jobs'[j].status # "none"
         /\ AskedWhileRow(j) => AskedWhileRow(j)'
<1> USE CancelBasics DEF Exists, AskedWhileRow
<1>1. ASSUME NEW k \in JobIds, Create(k)
      PROVE  jobs'[j] = jobs[j]
  BY <1>1 DEF Create
<1>2. ASSUME NEW k \in JobIds, Cancel(k)
      PROVE  /\ jobs'[j].status # "none"
             /\ jobs'[j].asked = (jobs[j].asked \/ j = k)
             /\ Exists(j)' => Exists(j)
  <2>1. CASE j = k
    <3>1. jobs[j] \in Job /\ jobs[j].status \in Active
      BY <1>2, <2>1 DEF Cancel
    <3>2. jobs'[j].asked = TRUE /\ jobs'[j].status \in {"cancelled", jobs[j].status}
      BY <1>2, <2>1, <3>1 DEF Cancel, Job
    <3> QED
      BY <2>1, <3>1, <3>2 DEF Active
  <2>2. CASE j # k
    <3>1. jobs'[j] = jobs[j] /\ jobs[j].asked \in BOOLEAN
      BY <1>2, <2>2 DEF Cancel, Job
    <3> QED
      BY <2>2, <3>1
  <2> QED
    BY <2>1, <2>2
<1>3. ASSUME NEW c \in Conns, DeleteConnection(c)
      PROVE  jobs'[j] = jobs[j] \/ jobs'[j].status = "deleted"
  BY <1>3 DEF DeleteConnection
<1> DEFINE Kept == /\ jobs'[j].asked = jobs[j].asked /\ jobs'[j].status # "none"
                   /\ Exists(j)' => Exists(j)
<1>4. ASSUME NEW k \in JobIds, BecomeDue(k)
      PROVE  Kept
  BY <1>4 DEF BecomeDue, Job
<1>5. ASSUME NEW w \in Workers, Reap(w)
      PROVE  Kept
  BY <1>5, ZenonT(30) DEF Reap, Reaps, Job
<1>6. ASSUME NEW w \in Workers, NEW k \in JobIds, Claim(w, k)
      PROVE  Kept
  BY <1>6 DEF Claim, Job
<1>7. ASSUME NEW w \in Workers, Reschedule(w)
      PROVE  Kept
  BY <1>7 DEF Reschedule, Job, Busy, Working
<1>8. ASSUME NEW w \in Workers, Finish(w)
      PROVE  Kept
  BY <1>8 DEF Finish, Verdict, Job, Busy, Working
<1>9. CASE UNCHANGED jobs
  BY <1>9
<1>10. \/ \E k \in JobIds : Create(k) \/ Cancel(k) \/ BecomeDue(k)
       \/ \E c \in Conns : DeleteConnection(c)
       \/ \E w \in Workers : Reap(w) \/ Reschedule(w) \/ Finish(w)
       \/ \E w \in Workers, k \in JobIds : Claim(w, k)
       \/ UNCHANGED jobs
  BY DEF Next, ApiStep, TimeStep, WorkerStep, LoopStep, ExecuteStep, BackgroundStep,
      SyncStep, vars, GoStale, ClaimNothing, Wake, Shutdown, Crash, Restart,
      CreateAttempt, AttemptRefused, RecordAttempt, RescheduleRefused, Notify,
      Heartbeat, HeartbeatFails, WatchCancel, SyncBlocks, SyncEnds
<1> QED
  BY <1>1, <1>2, <1>3, <1>4, <1>5, <1>6, <1>7, <1>8, <1>9, <1>10

\* A worker keeps the job it is busy with, and turns to stopping it only when the
\* job's flag is set; or it takes up a used row and is not stopping.
LEMMA BusyStep ==
  ASSUME TypeOK, [Next]_vars, NEW v \in Workers, pc'[v] \in Busy
  PROVE  \/ /\ pc[v] \in Busy /\ task'[v].job = task[v].job
            /\ Stopping(v)' => Stopping(v) \/ jobs[task[v].job].asked
         \/ /\ task'[v].job \in JobIds /\ jobs'[task'[v].job].status # "none"
            /\ ~Stopping(v)'
<1> USE CancelBasics
<1> DEFINE Same == pc[v] \in Busy /\ task'[v] = task[v]
<1>1. CASE pc'[v] = pc[v] /\ task'[v] = task[v]
  BY <1>1 DEF Stopping
<1>2. ASSUME NEW w \in Workers, WorkerStep(w), w # v
      PROVE  pc'[v] = pc[v] /\ task'[v] = task[v]
  BY <1>2 DEF WorkerStep, LoopStep, ExecuteStep, BackgroundStep, SyncStep, Reap, Reaps,
      Claim, ClaimNothing, Wake, Shutdown, Crash, Restart, CreateAttempt,
      AttemptRefused, RecordAttempt, Reschedule, RescheduleRefused, Finish, Notify,
      Heartbeat, HeartbeatFails, WatchCancel, SyncBlocks, SyncEnds, Goto
<1>3. ASSUME NEW j \in JobIds, Claim(v, j)
      PROVE  task'[v].job = j /\ jobs'[j].status = "running" /\ ~Stopping(v)'
  BY <1>3 DEF Claim, Job, NoTask, Stopping
<1> DEFINE Goes(r) == /\ pc[v] \in Busy /\ task'[v].job = task[v].job
                      /\ task'[v].told = task[v].told /\ task'[v].result = r
<1>4. ASSUME CreateAttempt(v) \/ AttemptRefused(v) \/ RescheduleRefused(v)
      PROVE  Goes(task[v].result) \/ Goes("aborted") \/ Goes("final")
  <2>1. pc[v] \in Busy /\ task[v] \in Task
    BY <1>4 DEF CreateAttempt, AttemptRefused, RescheduleRefused, Busy, Working
  <2> DEFINE n == Len(attempts[task[v].job]) + 1
             t == task[v]
             a == [t EXCEPT !.number = n, !.beating = TRUE]
             b == [t EXCEPT !.number = n, !.beating = TRUE, !.result = "aborted"]
             c == [t EXCEPT !.result = "aborted"]
             d == [t EXCEPT !.result = "final"]
  <2>2. \E u \in {a, b, c, d} : task' = [task EXCEPT ![v] = u]
    BY <1>4 DEF CreateAttempt, AttemptRefused, RescheduleRefused
  <2>3. \A u \in {a, b, c, d} : /\ u.job = t.job /\ u.told = t.told
                                /\ u.result \in {t.result, "aborted", "final"}
    BY <2>1 DEF Task
  <2> HIDE DEF a, b, c, d
  <2>4. task'[v] \in {a, b, c, d}
    BY <2>2
  <2> QED
    BY <2>1, <2>3, <2>4
<1>5. ASSUME RecordAttempt(v) \/ HeartbeatFails(v) \/ SyncBlocks(v)
      PROVE  Goes(task[v].result)
  BY <1>5 DEF RecordAttempt, HeartbeatFails, SyncBlocks, Busy, Working, Task
<1>6. CASE WatchCancel(v)
  <2>1. pc[v] \in Busy /\ task[v] \in Task /\ jobs[task[v].job].asked
    BY <1>6 DEF WatchCancel, Busy, Working
  <2>2. task'[v].job = task[v].job
    BY <1>6, <2>1 DEF WatchCancel, Task
  <2> QED
    BY <2>1, <2>2
<1>7. ASSUME NEW r \in {"succeeded", "failed", "cancelled"}, SyncEnds(v, r)
      PROVE  /\ pc[v] \in Busy /\ task'[v].job = task[v].job
             /\ Stopping(v)' => Stopping(v)
  <2>1. pc[v] \in Busy /\ task[v] \in Task
    BY <1>7 DEF SyncEnds, Busy, Working
  <2> DEFINE u == [task[v] EXCEPT !.result = r, !.told = FALSE, !.deaf = FALSE]
  <2>2. task'[v] = u
    BY <1>7, <2>1 DEF SyncEnds
  <2>3. u.job = task[v].job /\ u.told = FALSE /\ u.result = r
    BY <2>1 DEF Task
  <2>4. r = "cancelled" => task[v].told
    BY <1>7 DEF SyncEnds
  <2> HIDE DEF u
  <2> QED
    BY <2>1, <2>2, <2>3, <2>4 DEF Stopping
<1>8. ASSUME Finish(v)
      PROVE  Same
  BY <1>8 DEF Finish, Goto, Busy, Working
<1>9. ASSUME \/ Reap(v) \/ ClaimNothing(v) \/ Wake(v) \/ Shutdown(v) \/ Crash(v)
             \/ Restart(v) \/ Reschedule(v) \/ Notify(v)
      PROVE  FALSE
  BY <1>9 DEF Reap, Reaps, ClaimNothing, Wake, Shutdown, Crash, Restart, Reschedule, Notify,
      Goto, Busy, Working
<1>10. ASSUME Heartbeat(v)
       PROVE  Same
  BY <1>10 DEF Heartbeat, Busy, Working
<1>11. CASE WorkerStep(v)
  <2>1. Goes(task[v].result) => (Stopping(v)' => Stopping(v))
    BY DEF Stopping
  <2>2. Goes("aborted") \/ Goes("final") => (Stopping(v)' => Stopping(v))
    BY DEF Stopping
  <2>3. Same => (Stopping(v)' => Stopping(v))
    BY DEF Stopping
  <2> QED
    BY <1>3, <1>4, <1>5, <1>6, <1>7, <1>8, <1>9, <1>10, <1>11, <2>1, <2>2, <2>3
    DEF WorkerStep, LoopStep, ExecuteStep, BackgroundStep, SyncStep
<1>12. CASE ApiStep \/ TimeStep \/ UNCHANGED vars
  BY <1>1, <1>12 DEF ApiStep, TimeStep, Create, Cancel, DeleteConnection, BecomeDue,
      GoStale, vars
<1> QED
  BY <1>1, <1>2, <1>11, <1>12 DEF Next

\* A job becomes cancelled, or a cancellation is posted, only by the API's cancel
\* or by a worker that is stopping the job.
LEMMA CancelledStep ==
  ASSUME TypeOK, [Next]_vars, NEW j \in JobIds
  PROVE  /\ jobs'[j].status = "cancelled" /\ jobs[j].status # "cancelled" =>
              \/ jobs'[j].asked
              \/ \E w \in Workers : pc[w] \in Busy /\ task[w].job = j /\ Stopping(w)
         /\ notices'[j] \subseteq notices[j] \/
              \E w \in Workers :
                /\ pc[w] \in Busy /\ task[w].job = j
                /\ "cancelled" \in notices'[j] =>
                     "cancelled" \in notices[j] \/ Stopping(w)
<1> USE CancelBasics
<1>1. ASSUME NEW w \in Workers, Notify(w)
      PROVE  /\ jobs' = jobs
             /\ \/ notices'[j] = notices[j]
                \/ /\ pc[w] \in Busy /\ task[w].job = j
                   /\ "cancelled" \in notices'[j] =>
                        "cancelled" \in notices[j] \/ Stopping(w)
  <2> DEFINE s == Verdict(task[w].result)
  <2>1. notices' = notices \/ notices' = [notices EXCEPT ![task[w].job] = @ \cup {s}]
    BY <1>1 DEF Notify
  <2>2. s = "cancelled" => task[w].result = "cancelled"
    BY DEF Verdict
  <2> HIDE DEF s
  <2>3. pc[w] \in Busy /\ jobs' = jobs
    BY <1>1 DEF Notify, Busy
  <2>4. CASE task[w].job = j
    BY <2>1, <2>2, <2>3, <2>4 DEF Stopping
  <2>5. CASE task[w].job # j
    BY <2>1, <2>3, <2>5
  <2> QED
    BY <2>4, <2>5
<1>2. ASSUME NEW w \in Workers, Finish(w)
      PROVE  /\ notices' = notices
             /\ jobs'[j].status = "cancelled" /\ jobs[j].status # "cancelled" =>
                  pc[w] \in Busy /\ task[w].job = j /\ Stopping(w)
  <2>1. pc[w] \in Busy /\ notices' = notices
    BY <1>2 DEF Finish, Busy, Working
  <2> DEFINE s == Verdict(task[w].result)
  <2>2. jobs' = jobs \/ jobs' = [jobs EXCEPT ![task[w].job].status = s]
    BY <1>2 DEF Finish
  <2>3. s = "cancelled" => task[w].result = "cancelled"
    BY DEF Verdict
  <2> HIDE DEF s
  <2>4. jobs[j] \in Job
    OBVIOUS
  <2> QED
    BY <2>1, <2>2, <2>3, <2>4 DEF Stopping, Job
<1>3. ASSUME NEW k \in JobIds, Cancel(k)
      PROVE  notices' = notices /\ (jobs'[j] = jobs[j] \/ jobs'[j].asked)
  <2>1. jobs[j] \in Job
    OBVIOUS
  <2> QED
    BY <1>3, <2>1 DEF Cancel, Job
<1> DEFINE Quiet == /\ notices' = notices
                    /\ jobs'[j].status = "cancelled" => jobs[j].status = "cancelled"
<1>4. ASSUME NEW k \in JobIds, Create(k) \/ BecomeDue(k)
      PROVE  Quiet
  BY <1>4 DEF Create, BecomeDue, Job
<1>5. ASSUME NEW c \in Conns, DeleteConnection(c)
      PROVE  Quiet
  BY <1>5 DEF DeleteConnection
<1>6. ASSUME NEW w \in Workers, Reap(w) \/ Reschedule(w) \/ \E k \in JobIds : Claim(w, k)
      PROVE  Quiet
  <2>1. jobs[j] \in Job
    OBVIOUS
  <2>2. CASE Reap(w)
    BY <2>1, <2>2, ZenonT(30) DEF Reap, Reaps, Job
  <2>3. CASE Reschedule(w)
    BY <2>1, <2>3 DEF Reschedule, Job, Busy, Working
  <2>4. ASSUME NEW k \in JobIds, Claim(w, k)
        PROVE  Quiet
    BY <2>1, <2>4 DEF Claim, Job
  <2> QED
    BY <1>6, <2>2, <2>3, <2>4
<1>7. ASSUME UNCHANGED <<jobs, notices>>
      PROVE  Quiet
  BY <1>7
<1>8. \/ \E k \in JobIds : Create(k) \/ Cancel(k) \/ BecomeDue(k)
      \/ \E c \in Conns : DeleteConnection(c)
      \/ \E w \in Workers : \/ Reap(w) \/ Reschedule(w) \/ Finish(w) \/ Notify(w)
                             \/ \E k \in JobIds : Claim(w, k)
      \/ UNCHANGED <<jobs, notices>>
  BY DEF Next, ApiStep, TimeStep, WorkerStep, LoopStep, ExecuteStep, BackgroundStep,
      SyncStep, vars, GoStale, ClaimNothing, Wake, Shutdown, Crash, Restart,
      CreateAttempt, AttemptRefused, RecordAttempt, RescheduleRefused,
      Heartbeat, HeartbeatFails, WatchCancel, SyncBlocks, SyncEnds
<1> QED
  BY <1>1, <1>2, <1>3, <1>4, <1>5, <1>6, <1>7, <1>8

LEMMA CancelStep ==
  ASSUME TypeOK, CancelInv, [Next]_vars
  PROVE  CancelInv'
<1>1. \A v \in Workers : pc[v] \in Busy =>
        /\ task[v].job \in JobIds /\ jobs[task[v].job].status # "none"
        /\ Stopping(v) => AskedWhileRow(task[v].job)
  BY CancelBasics DEF CancelInv, RowUsed, Busy
<1>2. ASSUME NEW v \in Workers, pc'[v] \in Busy
      PROVE  \E j \in JobIds : /\ task'[v].job = j /\ jobs'[j].status # "none"
                               /\ Stopping(v)' => AskedWhileRow(j)'
  <2>1. CASE /\ pc[v] \in Busy /\ task'[v].job = task[v].job
             /\ Stopping(v)' => Stopping(v) \/ jobs[task[v].job].asked
    <3>1. PICK j \in JobIds : j = task[v].job
      BY <1>1, <2>1
    <3>2. jobs[j].asked => AskedWhileRow(j)
      BY DEF AskedWhileRow
    <3>3. /\ jobs'[j].status # "none"
          /\ AskedWhileRow(j) => AskedWhileRow(j)'
      BY <1>1, <2>1, <3>1, FlagKept
    <3>4. Stopping(v) => AskedWhileRow(j)
      BY <1>1, <2>1, <3>1
    <3>5. Stopping(v)' => Stopping(v) \/ jobs[j].asked
      BY <2>1, <3>1, Zenon
    <3>6. task'[v].job = j
      BY <2>1, <3>1
    <3>7. Stopping(v)' => AskedWhileRow(j)'
      BY <3>2, <3>3, <3>4, <3>5, Zenon
    <3> QED
      BY <3>3, <3>6, <3>7, Zenon
  <2>2. CASE /\ task'[v].job \in JobIds /\ jobs'[task'[v].job].status # "none"
             /\ ~Stopping(v)'
    BY <2>2
  <2> QED
    BY <1>2, <2>1, <2>2, BusyStep
<1>3. ASSUME NEW j \in JobIds, notices'[j] # {}
      PROVE  jobs'[j].status # "none"
  <2>1. jobs[j].status # "none"
    BY <1>1, <1>3, CancelledStep, CancelBasics DEF CancelInv, RowUsed
  <2> QED
    BY <2>1, FlagKept
<1>4. ASSUME NEW j \in JobIds, jobs'[j].status = "cancelled"
      PROVE  AskedWhileRow(j)'
  <2>1. CASE jobs[j].status = "cancelled"
    BY <2>1, FlagKept DEF CancelInv
  <2>2. CASE jobs'[j].asked
    BY <2>2 DEF AskedWhileRow
  <2>3. CASE \E w \in Workers : pc[w] \in Busy /\ task[w].job = j /\ Stopping(w)
    BY <1>1, <2>3, FlagKept
  <2> QED
    BY <1>4, <2>1, <2>2, <2>3, CancelledStep
<1>5. ASSUME NEW j \in JobIds, "cancelled" \in notices'[j]
      PROVE  AskedWhileRow(j)'
  <2>1. CASE "cancelled" \in notices[j]
    BY <2>1, FlagKept DEF CancelInv, RowUsed
  <2>2. CASE \E w \in Workers : pc[w] \in Busy /\ task[w].job = j /\ Stopping(w)
    BY <1>1, <2>2, FlagKept
  <2> QED
    BY <1>5, <2>1, <2>2, CancelledStep
<1>6. RowUsed'
  BY <1>2, <1>3 DEF RowUsed, Busy
<1>7. ASSUME NEW v \in Workers, pc'[v] \in Busy, Stopping(v)'
      PROVE  Exists(task[v].job)' => jobs'[task'[v].job].asked
  <2>1. PICK j \in JobIds : task'[v].job = j /\ AskedWhileRow(j)'
    BY <1>2, <1>7
  <2> QED
    BY <2>1 DEF AskedWhileRow, Exists
<1> QED
  BY <1>4, <1>5, <1>6, <1>7 DEF CancelInv, Busy, AskedWhileRow

(***************************************************************************)
(* Whatever fails, a job is cancelled, and the webhook told so, only when     *)
(* the API asked for it.                                                     *)
(***************************************************************************)
THEOREM CancelInvariant == Spec => []CancelInv
<1>1. Init => CancelInv
  BY DEF Init, CancelInv, RowUsed, Working
<1>2. TypeOK /\ CancelInv /\ [Next]_vars => CancelInv'
  BY CancelStep
<1> QED
  BY <1>1, <1>2, TypeCorrect, PTL DEF Spec

THEOREM CancelledOnRequest == Spec => []CancelledOnlyOnRequest
<1>1. CancelInv => CancelledOnlyOnRequest
  BY DEF CancelInv, CancelledOnlyOnRequest, AskedWhileRow, Exists
<1> QED
  BY <1>1, CancelInvariant, PTL

-----------------------------------------------------------------------------
(***************************************************************************)
(* When workers may crash and nothing else goes wrong: no two workers ever    *)
(* execute jobs of one connection, a job that ended keeps its status, and the *)
(* queue implements JobLifecycle.                                            *)
(***************************************************************************)

CrashOnly == Faults \subseteq {"crash"}

\* The facts about types the proofs below use, and that no statement fails.
LEMMA Basics ==
  ASSUME TypeOK
  PROVE  /\ jobs \in [JobIds -> Job]
         /\ attempts \in [JobIds -> Seq(AttemptStatus)]
         /\ pc \in [Workers -> Phase]
         /\ task \in [Workers -> Task \cup {NoTask}]
         /\ \A w \in Workers : pc[w] \in Working \cup {"notify"} =>
              task[w] \in Task /\ task[w].job \in JobIds /\ task[w].number \in Nat
         /\ \A j \in JobIds : ConnOf[j] \in Conns
         /\ CrashOnly => ~Fault("db") /\ ~Fault("stall")
  BY JobQueueAssumption DEF TypeOK, Task, CrashOnly, Fault

LEMMA InitCrashInv == Init => CrashInv
  BY DEF Init, CrashInv, JobIsHeld, OpenAttempts, RowsConsistent,
         NoConcurrentExecution, Working, Active

\* Steps of the API and of time.
LEMMA EnvironmentCrashInv ==
  ASSUME TypeOK, CrashInv, CrashOnly, ApiStep \/ TimeStep
  PROVE  CrashInv'
<1> USE Basics DEF CrashInv
<1>1. ASSUME NEW j \in JobIds, Create(j)
      PROVE  CrashInv'
  BY <1>1 DEF Create, JobIsHeld, OpenAttempts, RowsConsistent, Holds,
              NoConcurrentExecution, Active
<1>2. ASSUME NEW j \in JobIds, Cancel(j)
      PROVE  CrashInv'
  BY <1>2 DEF Cancel, JobIsHeld, OpenAttempts, RowsConsistent, Holds,
              NoConcurrentExecution, Active, Job
<1>3. ASSUME NEW c \in Conns, DeleteConnection(c)
      PROVE  CrashInv'
  BY <1>3 DEF DeleteConnection, JobIsHeld, OpenAttempts, RowsConsistent,
              Holds, NoConcurrentExecution, Active, Exists
<1>4. ASSUME NEW j \in JobIds, BecomeDue(j)
      PROVE  CrashInv'
  BY <1>4 DEF BecomeDue, JobIsHeld, OpenAttempts, RowsConsistent, Holds,
              NoConcurrentExecution, Active, Job
<1>5. ASSUME NEW j \in JobIds, NEW n \in DOMAIN attempts[j], GoStale(j, n)
      PROVE  CrashInv'
  <2>1. ~Beating(j, n)
    BY <1>5 DEF GoStale
  <2>2. \A w \in Workers : ~(pc[w] \in Working /\ task[w].job = j)
    BY <1>5, <2>1 DEF GoStale, OpenAttempts, Beating, Open
  <2>3. JobIsHeld' /\ RowsConsistent' /\ NoConcurrentExecution'
    BY <1>5 DEF GoStale, JobIsHeld, RowsConsistent, NoConcurrentExecution
  <2>4. OpenAttempts'
    BY <1>5, <2>2 DEF GoStale, OpenAttempts, Holds, Open
  <2> QED
    BY <2>3, <2>4
<1> QED
  BY <1>1, <1>2, <1>3, <1>4, <1>5 DEF ApiStep, TimeStep

\* Steps of the worker loop and of the process.
LEMMA LoopCrashInv ==
  ASSUME TypeOK, OneActiveJobPerConnection, CrashInv, CrashOnly,
         NEW w \in Workers, LoopStep(w) \/ Shutdown(w) \/ Crash(w) \/ Restart(w)
  PROVE  CrashInv'
<1> USE Basics DEF CrashInv, Goto
<1>1. CASE Reap(w)
  <2>0. /\ attempts' = [j \in JobIds |-> [n \in DOMAIN attempts[j] |->
               IF attempts[j][n] = "stale" THEN "failed" ELSE attempts[j][n]]]
        /\ jobs' = [j \in JobIds |->
             IF /\ jobs[j].status = "running"
                /\ \E n \in DOMAIN attempts[j] : attempts[j][n] = "stale"
             THEN [jobs[j] EXCEPT !.status = "pending", !.due = TRUE]
             ELSE jobs[j]]
    BY <1>1 DEF Reap, Reaps
  <2>1. \A v \in Workers : pc'[v] \in Working => pc[v] \in Working /\ task'[v] = task[v]
    BY <1>1 DEF Reap, Reaps, Working
  <2>2. \A j \in JobIds :
          /\ DOMAIN attempts'[j] = DOMAIN attempts[j]
          /\ \A n \in DOMAIN attempts[j] :
               attempts'[j][n] = IF attempts[j][n] = "stale" THEN "failed" ELSE attempts[j][n]
    BY <2>0, Zenon
  <2>3. \A j \in JobIds :
          jobs'[j].status = IF /\ jobs[j].status = "running"
                               /\ \E n \in DOMAIN attempts[j] : attempts[j][n] = "stale"
                            THEN "pending" ELSE jobs[j].status
    <3> SUFFICES ASSUME NEW j \in JobIds
                 PROVE  jobs'[j].status =
                          IF /\ jobs[j].status = "running"
                             /\ \E n \in DOMAIN attempts[j] : attempts[j][n] = "stale"
                          THEN "pending" ELSE jobs[j].status
      OBVIOUS
    <3>1. jobs[j] \in Job
      OBVIOUS
    <3> QED
      BY <2>0, <3>1 DEF Job
  <2>4. JobIsHeld'
    BY <2>1, <2>3, SMTT(30) DEF JobIsHeld, OpenAttempts, Open
  <2>5. OpenAttempts'
    <3> SUFFICES ASSUME NEW j \in JobIds, NEW n \in DOMAIN attempts'[j],
                        attempts'[j][n] \in Open
                 PROVE  /\ jobs'[j].status = "running"
                        /\ \A m \in DOMAIN attempts'[j] : attempts'[j][m] \in Open => m = n
                        /\ \A v \in Workers : pc'[v] \in Working /\ task'[v].job = j =>
                             Holds(v, j, n)' /\ task'[v].beating /\ attempts'[j][n] = "running"
      BY DEF OpenAttempts
    <3>1. n \in DOMAIN attempts[j] /\ attempts[j][n] = "running"
      BY <2>2 DEF Open
    <3>2. \A m \in DOMAIN attempts[j] : attempts[j][m] \in Open => m = n
      BY <3>1 DEF OpenAttempts, Open
    <3>3. jobs'[j].status = "running"
      BY <2>3, <3>1, <3>2 DEF OpenAttempts, Open
    <3>4. \A m \in DOMAIN attempts'[j] : attempts'[j][m] \in Open => m = n
      BY <2>2, <3>2 DEF Open
    <3>5. \A v \in Workers : pc'[v] \in Working /\ task'[v].job = j =>
            Holds(v, j, n)' /\ task'[v].beating /\ attempts'[j][n] = "running"
      <4>1. n \in DOMAIN attempts[j] /\ attempts'[j][n] = "running"
        BY <2>2, <3>1
      <4>2. UNCHANGED task /\ \A v \in Workers : pc'[v] \in Working => pc'[v] = pc[v]
        BY <1>1 DEF Reap, Reaps, Working
      <4> QED
        BY <3>1, <4>1, <4>2 DEF OpenAttempts, Open, Holds
    <3> QED
      BY <3>3, <3>4, <3>5
  <2>6. RowsConsistent'
    BY <1>1, <2>3 DEF RowsConsistent, Reap, Reaps, Active
  <2>7. NoConcurrentExecution'
    BY <2>1 DEF NoConcurrentExecution
  <2> QED
    BY <2>4, <2>5, <2>6, <2>7
<1>2. ASSUME NEW j \in JobIds, Claim(w, j)
      PROVE  CrashInv'
  <2>1. /\ task'[w].job = j /\ pc'[w] = "attempt"
        /\ \A v \in Workers \ {w} : pc'[v] = pc[v] /\ task'[v] = task[v]
    BY <1>2 DEF Claim, NoTask
  <2>2. /\ jobs[j].status = "pending" /\ jobs'[j].status = "running"
        /\ \A k \in JobIds \ {j} : jobs'[k] = jobs[k]
    BY <1>2 DEF Claim, Job
  <2>3. \A v \in Workers \ {w} :
          pc[v] \in Working => ConnOf[task[v].job] # ConnOf[j]
    <3> SUFFICES ASSUME NEW v \in Workers \ {w}, pc[v] \in Working,
                        ConnOf[task[v].job] = ConnOf[j]
                 PROVE  FALSE
      OBVIOUS
    <3>1. task[v].job \in JobIds /\ jobs[task[v].job].status \in {"running", "deleted"}
      BY DEF JobIsHeld
    <3>2. CASE jobs[task[v].job].status = "running"
      BY <2>2, <3>1, <3>2 DEF OneActiveJobPerConnection, Active
    <3>3. CASE jobs[task[v].job].status = "deleted"
      BY <2>2, <3>1, <3>3 DEF RowsConsistent, Active
    <3> QED
      BY <3>1, <3>2, <3>3
  <2>4. JobIsHeld' /\ NoConcurrentExecution'
    <3>1. \A v \in Workers \ {w} : pc'[v] \in Working =>
            /\ task'[v].job \in JobIds \ {j}
            /\ jobs'[task'[v].job].status \in {"running", "deleted"}
      BY <2>1, <2>2, <2>3 DEF JobIsHeld
    <3>2. JobIsHeld'
      BY <2>1, <2>2, <3>1 DEF JobIsHeld
    <3>3. ASSUME NEW u \in Workers, NEW v \in Workers, u # v,
                 pc'[u] \in Working, pc'[v] \in Working
          PROVE  ConnOf[task'[u].job] # ConnOf[task'[v].job]
      <4>1. CASE u = w
        BY <2>1, <2>3, <3>3, <4>1
      <4>2. CASE v = w
        BY <2>1, <2>3, <3>3, <4>2
      <4>3. CASE u # w /\ v # w
        BY <2>1, <3>3, <4>3 DEF NoConcurrentExecution
      <4> QED
        BY <4>1, <4>2, <4>3
    <3> QED
      BY <3>2, <3>3 DEF NoConcurrentExecution
  <2>5. \A n \in DOMAIN attempts[j] : attempts[j][n] \notin Open
    BY <2>2 DEF OpenAttempts
  <2>6. OpenAttempts'
    BY <1>2, <2>1, <2>2, <2>5 DEF OpenAttempts, Claim, Holds
  <2>7. RowsConsistent'
    BY <1>2, <2>2 DEF RowsConsistent, Claim, Active
  <2> QED
    BY <2>4, <2>6, <2>7
<1>3. CASE ClaimNothing(w) \/ Wake(w) \/ Shutdown(w) \/ Crash(w) \/ Restart(w)
  <2>1. /\ \A v \in Workers : pc'[v] \in Working => pc'[v] = pc[v] /\ task'[v] = task[v]
        /\ UNCHANGED <<jobs, attempts, connections>>
    BY <1>3 DEF ClaimNothing, Wake, Shutdown, Crash, Restart, Working
  <2> QED
    BY <2>1 DEF JobIsHeld, OpenAttempts, RowsConsistent, NoConcurrentExecution, Holds
<1> QED
  BY <1>1, <1>2, <1>3 DEF LoopStep

\* A worker that goes on working with the job it has, or stops working, leaves
\* JobIsHeld and NoConcurrentExecution as they are when no other job changes.
LEMMA SameJob ==
  ASSUME TypeOK, CrashInv, NEW w \in Workers, pc[w] \in Working,
         \A v \in Workers \ {w} : pc'[v] = pc[v] /\ task'[v] = task[v],
         \A k \in JobIds \ {task[w].job} : jobs'[k] = jobs[k],
         \/ pc'[w] \notin Working
         \/ task'[w].job = task[w].job /\ jobs' = jobs
  PROVE  JobIsHeld' /\ NoConcurrentExecution'
<1> DEFINE j == task[w].job
<1>1. \A v \in Workers \ {w} : pc[v] \in Working =>
        /\ ConnOf[task[v].job] # ConnOf[j]
        /\ task[v].job \in JobIds \ {j}
  BY Basics DEF CrashInv, NoConcurrentExecution
<1>2. \A v \in Workers \ {w} : pc'[v] \in Working =>
        jobs'[task'[v].job].status \in {"running", "deleted"}
  BY <1>1 DEF CrashInv, JobIsHeld
<1>3. pc'[w] \in Working =>
        jobs'[task'[w].job].status \in {"running", "deleted"} /\ task'[w].job = j
  BY DEF CrashInv, JobIsHeld
<1>4. JobIsHeld'
  BY <1>2, <1>3 DEF JobIsHeld
<1>5. ASSUME NEW u \in Workers, NEW v \in Workers, u # v,
             pc'[u] \in Working, pc'[v] \in Working
      PROVE  ConnOf[task'[u].job] # ConnOf[task'[v].job]
  <2>1. CASE u = w
    BY <1>1, <1>3, <1>5, <2>1
  <2>2. CASE v = w
    BY <1>1, <1>3, <1>5, <2>2
  <2>3. CASE u # w /\ v # w
    BY <1>5, <2>3 DEF CrashInv, NoConcurrentExecution
  <2> QED
    BY <2>1, <2>2, <2>3
<1> QED
  BY <1>4, <1>5 DEF NoConcurrentExecution

\* A worker whose job has no open attempt, or that has none to work on, may move
\* on; the rows of other jobs are not its concern.
LEMMA OpenKept ==
  ASSUME TypeOK, CrashInv, NEW w \in Workers,
         \A v \in Workers \ {w} : pc'[v] = pc[v] /\ task'[v] = task[v],
         pc'[w] \in Working => task'[w].job = task[w].job,
         \A i \in JobIds : \A m \in DOMAIN attempts'[i] :
           attempts'[i][m] \in Open =>
             /\ attempts'[i] = attempts[i] /\ jobs'[i] = jobs[i]
             /\ pc'[w] \in Working => i # task[w].job
  PROVE  OpenAttempts'
<1> SUFFICES ASSUME NEW i \in JobIds, NEW m \in DOMAIN attempts'[i],
                    attempts'[i][m] \in Open
             PROVE  /\ jobs'[i].status = "running"
                    /\ \A l \in DOMAIN attempts'[i] : attempts'[i][l] \in Open => l = m
                    /\ \A v \in Workers : pc'[v] \in Working /\ task'[v].job = i =>
                         Holds(v, i, m)' /\ task'[v].beating /\ attempts'[i][m] = "running"
  BY DEF OpenAttempts
<1>1. /\ m \in DOMAIN attempts[i] /\ attempts[i][m] \in Open
      /\ attempts'[i] = attempts[i] /\ jobs'[i] = jobs[i]
  OBVIOUS
<1>2. ASSUME NEW v \in Workers, pc'[v] \in Working, task'[v].job = i
      PROVE  v # w
  BY <1>2
<1> QED
  BY <1>1, <1>2 DEF CrashInv, OpenAttempts, Holds

\* Steps of execute and of the tasks it spawns.
LEMMA ExecuteCrashInv ==
  ASSUME TypeOK, CrashInv, CrashOnly, NEW w \in Workers,
         ExecuteStep(w) \/ BackgroundStep(w) \/ SyncStep(w)
  PROVE  CrashInv'
<1> USE Basics DEF CrashInv
<1> DEFINE j == task[w].job
           n == task[w].number
\* A worker that works has a job; it is running or gone.
<1>0. ASSUME pc[w] \in Working
      PROVE  /\ j \in JobIds /\ n \in Nat
             /\ jobs[j] \in Job /\ jobs[j].status \in {"running", "deleted"}
             /\ attempts[j] \in Seq(AttemptStatus)
             /\ \A v \in Workers \ {w} :
                  pc[v] \in Working => task[v].job # j
  BY <1>0 DEF JobIsHeld, NoConcurrentExecution
\* Outside sync and record its job has no open attempt.
<1>00. ASSUME pc[w] \in {"attempt", "settle"}
       PROVE  \A m \in DOMAIN attempts[j] : attempts[j][m] \notin Open
  BY <1>00, <1>0 DEF OpenAttempts, Holds, Working
<1>1. CASE CreateAttempt(w)
  <2> DEFINE k == Len(attempts[j]) + 1
  <2>1. /\ pc[w] = "attempt" /\ pc'[w] \in {"sync", "record"}
        /\ task'[w].job = j /\ task'[w].number = k /\ task'[w].beating
        /\ \A v \in Workers \ {w} : pc'[v] = pc[v] /\ task'[v] = task[v]
        /\ UNCHANGED <<jobs, connections>>
        /\ attempts' = [attempts EXCEPT ![j] = Append(@, "running")]
    <3>1. pc[w] = "attempt" /\ task[w] \in Task
      BY <1>1 DEF CreateAttempt, Working
    <3> DEFINE u == [task[w] EXCEPT !.number = k, !.beating = TRUE]
               x == [task[w] EXCEPT !.number = k, !.beating = TRUE, !.result = "aborted"]
    <3>2. /\ u.job = j /\ u.number = k /\ u.beating
          /\ x.job = j /\ x.number = k /\ x.beating
      BY <3>1 DEF Task
    <3>3. \E t \in {u, x} : task' = [task EXCEPT ![w] = t]
      BY <1>1 DEF CreateAttempt
    <3>4. \E p \in {"sync", "record"} : pc' = [pc EXCEPT ![w] = p]
      BY <1>1 DEF CreateAttempt, Goto
    <3> HIDE DEF u, x
    <3>5. \E t \in {u, x} : task'[w] = t /\ \A v \in Workers \ {w} : task'[v] = task[v]
      BY <3>3
    <3>6. pc'[w] \in {"sync", "record"} /\ \A v \in Workers \ {w} : pc'[v] = pc[v]
      BY <3>4
    <3> QED
      BY <1>1, <3>1, <3>2, <3>5, <3>6 DEF CreateAttempt
  <2>2. j \in JobIds /\ jobs[j].status = "running" /\ attempts[j] \in Seq(AttemptStatus)
    BY <1>0, <1>1, <2>1 DEF CreateAttempt, Exists, Working
  <2>3. JobIsHeld' /\ NoConcurrentExecution'
    BY <2>1, SameJob DEF Working
  <2>4. /\ DOMAIN attempts'[j] = DOMAIN attempts[j] \cup {k}
        /\ attempts'[j][k] = "running" /\ k \notin DOMAIN attempts[j]
        /\ \A m \in DOMAIN attempts[j] : attempts'[j][m] = attempts[j][m]
    BY <2>1, <2>2
  <2>5. \A m \in DOMAIN attempts'[j] : attempts'[j][m] \in Open => m = k
    BY <1>00, <2>1, <2>4
  <2>6. OpenAttempts'
    <3> SUFFICES ASSUME NEW i \in JobIds, NEW m \in DOMAIN attempts'[i],
                        attempts'[i][m] \in Open
                 PROVE  /\ jobs'[i].status = "running"
                        /\ \A l \in DOMAIN attempts'[i] : attempts'[i][l] \in Open => l = m
                        /\ \A v \in Workers : pc'[v] \in Working /\ task'[v].job = i =>
                             Holds(v, i, m)' /\ task'[v].beating /\ attempts'[i][m] = "running"
      BY DEF OpenAttempts
    <3>1. CASE i = j
      <4>1. m = k
        BY <2>5, <3>1
      <4>2. \A v \in Workers : pc'[v] \in Working /\ task'[v].job = j => v = w
        BY <1>0, <2>1 DEF Working
      <4> QED
        BY <2>1, <2>2, <2>4, <2>5, <3>1, <4>1, <4>2 DEF Holds
    <3>2. CASE i # j
      <4>1. attempts'[i] = attempts[i]
        BY <2>1, <3>2
      <4> QED
        BY <2>1, <3>2, <4>1 DEF OpenAttempts, Holds
    <3> QED
      BY <3>1, <3>2
  <2>7. RowsConsistent'
    BY <2>1 DEF RowsConsistent
  <2> QED
    BY <2>3, <2>6, <2>7
\* The worker moves on with its job, whose attempts stay as they are and are not
\* open: it had none, or finish_attempt has just closed it.
<1>2. CASE AttemptRefused(w) \/ RescheduleRefused(w)
  <2>1. /\ pc[w] \in {"attempt", "settle"} /\ pc'[w] = "settle"
        /\ task'[w].job = j
        /\ \A v \in Workers \ {w} : pc'[v] = pc[v] /\ task'[v] = task[v]
        /\ UNCHANGED <<jobs, attempts, connections>>
    BY <1>2 DEF AttemptRefused, RescheduleRefused, Goto, Working, Task
  <2>2. JobIsHeld' /\ NoConcurrentExecution'
    BY <2>1, SameJob DEF Working
  <2>3. OpenAttempts'
    BY <1>00, <2>1, OpenKept
  <2> QED
    BY <2>1, <2>2, <2>3 DEF RowsConsistent
<1>3. CASE RecordAttempt(w)
  <2> DEFINE f == IF task[w].result = "succeeded" THEN "succeeded" ELSE "failed"
  <2>1. /\ pc[w] = "record" /\ pc'[w] = "settle" /\ task'[w].job = j
        /\ \A v \in Workers \ {w} : pc'[v] = pc[v] /\ task'[v] = task[v]
        /\ UNCHANGED <<jobs, connections>>
        /\ attempts' = IF n \in DOMAIN attempts[j]
                       THEN [attempts EXCEPT ![j][n] = f] ELSE attempts
    BY <1>3 DEF RecordAttempt, Goto, Working, Task
  <2>2. JobIsHeld' /\ NoConcurrentExecution'
    BY <2>1, SameJob DEF Working
  <2>3. \A m \in DOMAIN attempts[j] : attempts[j][m] \in Open => m = n
    BY <1>0, <2>1 DEF OpenAttempts, Holds, Working
  <2>4. /\ \A i \in JobIds \ {j} : attempts'[i] = attempts[i]
        /\ \A m \in DOMAIN attempts'[j] : attempts'[j][m] \notin Open
    <3>1. j \in JobIds /\ f \notin Open
      BY <1>0, <2>1 DEF Working, Open
    <3> HIDE DEF f
    <3> QED
      BY <2>1, <2>3, <3>1
  <2>5. OpenAttempts'
    BY <2>1, <2>4, OpenKept
  <2> QED
    BY <2>1, <2>2, <2>5 DEF RowsConsistent
\* The worker leaves a job without open attempts.
<1>4. CASE Reschedule(w) \/ Finish(w)
  <2>1. /\ pc[w] = "settle" /\ pc'[w] \notin Working
        /\ \A v \in Workers \ {w} : pc'[v] = pc[v] /\ task'[v] = task[v]
        /\ UNCHANGED <<attempts, connections>>
        /\ \A k \in JobIds \ {j} : jobs'[k] = jobs[k]
    BY <1>4 DEF Reschedule, Finish, Goto, Working
  <2>2. JobIsHeld' /\ NoConcurrentExecution'
    BY <2>1, SameJob DEF Working
  <2>3. OpenAttempts'
    BY <1>00, <2>1, OpenKept
  <2>4. jobs'[j] = jobs[j] \/ (Exists(j) /\ jobs'[j].status \notin {"deleted", "none"})
    BY <1>0, <1>4, <2>1 DEF Reschedule, Finish, Verdict, Job, Working
  <2>5. RowsConsistent'
    <3> SUFFICES ASSUME NEW k \in JobIds
                 PROVE  /\ jobs'[k].status = "deleted" => ConnOf[k] \notin connections
                        /\ jobs'[k].status \in Active => ConnOf[k] \in connections
                        /\ jobs'[k].status = "none" => ~jobs'[k].asked
      BY <2>1 DEF RowsConsistent
    <3>1. CASE jobs'[k] = jobs[k]
      BY <3>1 DEF RowsConsistent
    <3>2. CASE jobs'[k] # jobs[k]
      <4>1. k = j /\ Exists(j) /\ jobs'[j].status \notin {"deleted", "none"}
        BY <2>1, <2>4, <3>2
      <4>2. jobs[j].status = "running"
        BY <1>0, <2>1, <4>1 DEF Exists, Working
      <4>3. ConnOf[j] \in connections
        BY <4>1, <4>2 DEF RowsConsistent, Active
      <4> QED
        BY <4>1, <4>3
    <3> QED
      BY <3>1, <3>2
  <2> QED
    BY <2>2, <2>3, <2>5
<1>5. CASE Notify(w)
  <2>1. /\ pc[w] \notin Working /\ pc'[w] \notin Working
        /\ \A v \in Workers \ {w} : pc'[v] = pc[v] /\ task'[v] = task[v]
        /\ UNCHANGED <<jobs, attempts, connections>>
    BY <1>5 DEF Notify, Goto, Working
  <2>2. \A v \in Workers : pc'[v] \in Working => v # w
    BY <2>1
  <2>3. OpenAttempts'
    BY <2>1, OpenKept
  <2>4. JobIsHeld' /\ NoConcurrentExecution'
    <3>1. \A v \in Workers : pc'[v] \in Working => pc[v] \in Working /\ task'[v] = task[v]
      BY <2>1, <2>2
    <3>2. JobIsHeld'
      BY <2>1, <3>1 DEF JobIsHeld
    <3>3. NoConcurrentExecution'
      BY <3>1 DEF NoConcurrentExecution
    <3> QED
      BY <3>2, <3>3
  <2>5. RowsConsistent'
    BY <2>1 DEF RowsConsistent
  <2> QED
    BY <2>3, <2>4, <2>5
<1>6. CASE Heartbeat(w)
  <2>1. pc[w] = "sync" /\ n \in DOMAIN attempts[j] /\ attempts[j][n] = "stale"
    BY <1>6 DEF Heartbeat
  <2> QED
    BY <1>0, <2>1 DEF OpenAttempts, Open, Working
<1>7. CASE HeartbeatFails(w)
  BY <1>7 DEF HeartbeatFails
<1>8. CASE \/ WatchCancel(w) \/ SyncBlocks(w)
           \/ \E r \in {"succeeded", "failed", "cancelled"} : SyncEnds(w, r)
  <2>1. /\ pc[w] = "sync" /\ pc'[w] \in {"sync", "record"}
        /\ task'[w].job = j /\ task'[w].number = n /\ task'[w].beating = task[w].beating
        /\ \A v \in Workers \ {w} : pc'[v] = pc[v] /\ task'[v] = task[v]
        /\ UNCHANGED <<jobs, attempts, connections>>
    <3>1. pc[w] = "sync" /\ task[w] \in Task
      BY <1>8 DEF WatchCancel, SyncBlocks, SyncEnds, Working
    <3>2. CASE WatchCancel(w) \/ SyncBlocks(w)
      BY <3>1, <3>2 DEF WatchCancel, SyncBlocks, Task
    <3>3. ASSUME NEW r \in {"succeeded", "failed", "cancelled"}, SyncEnds(w, r)
          PROVE  /\ pc'[w] = "record"
                 /\ task'[w].job = j /\ task'[w].number = n
                 /\ task'[w].beating = task[w].beating
                 /\ \A v \in Workers \ {w} : pc'[v] = pc[v] /\ task'[v] = task[v]
                 /\ UNCHANGED <<jobs, attempts, connections>>
      <4> DEFINE u == [task[w] EXCEPT !.result = r, !.told = FALSE, !.deaf = FALSE]
      <4>1. u.job = j /\ u.number = n /\ u.beating = task[w].beating
        BY <3>1 DEF Task
      <4>2. task' = [task EXCEPT ![w] = u] /\ pc' = [pc EXCEPT ![w] = "record"]
        BY <3>3 DEF SyncEnds, Goto
      <4> HIDE DEF u
      <4> QED
        BY <3>3, <4>1, <4>2 DEF SyncEnds
    <3> QED
      BY <1>8, <3>1, <3>2, <3>3
  <2>2. JobIsHeld' /\ NoConcurrentExecution'
    BY <2>1, SameJob DEF Working
  <2>3. OpenAttempts'
    BY <2>1 DEF OpenAttempts, Holds, Working
  <2> QED
    BY <2>1, <2>2, <2>3 DEF RowsConsistent
<1> QED
  BY <1>1, <1>2, <1>3, <1>4, <1>5, <1>6, <1>7, <1>8
  DEF ExecuteStep, BackgroundStep, SyncStep

LEMMA CrashInvStep ==
  ASSUME CrashOnly
  PROVE  TypeOK /\ OneActiveJobPerConnection /\ CrashInv /\ [Next]_vars => CrashInv'
<1> SUFFICES ASSUME TypeOK, OneActiveJobPerConnection, CrashInv, [Next]_vars
             PROVE  CrashInv'
  OBVIOUS
<1>1. CASE ApiStep \/ TimeStep
  BY <1>1, EnvironmentCrashInv
<1>2. ASSUME NEW w \in Workers, WorkerStep(w)
      PROVE  CrashInv'
  BY <1>2, LoopCrashInv, ExecuteCrashInv DEF WorkerStep
<1>3. CASE UNCHANGED vars
  BY <1>3 DEF vars, CrashInv, JobIsHeld, OpenAttempts, RowsConsistent,
              NoConcurrentExecution, Holds
<1> QED
  BY <1>1, <1>2, <1>3 DEF Next

(***************************************************************************)
(* The inductive invariant of the crash-only system, and with it exclusive   *)
(* execution: crashes, reaping and retries never start a second execution    *)
(* for a connection beside one that lives.                                   *)
(***************************************************************************)
THEOREM CrashInvariant ==
  ASSUME CrashOnly
  PROVE  Spec => []CrashInv
  BY InitCrashInv, CrashInvStep, TypeCorrect, OneActive, PTL DEF Spec

THEOREM ExclusiveExecution ==
  ASSUME CrashOnly
  PROVE  Spec => []NoConcurrentExecution
<1>1. CrashInv => NoConcurrentExecution
  BY DEF CrashInv
<1> QED
  BY <1>1, CrashInvariant, PTL

-----------------------------------------------------------------------------
(* The queue implements JobLifecycle. *)

\* The jobs a reap puts back are running.
LEMMA RequeueStep ==
  ASSUME NEW S \in SUBSET JobIds, \A j \in S : jobs[j].status = "running",
         \A j \in JobIds :
           /\ jobs'[j].status = IF j \in S THEN "pending" ELSE jobs[j].status
           /\ jobs'[j].asked = jobs[j].asked
  PROVE  Lifecycle!Next
<1>1. Lifecycle!Requeue(S)
  BY DEF Lifecycle!Requeue
<1> QED
  BY <1>1 DEF Lifecycle!Next

\* A worker ends a running job with a status it may end with.
LEMMA EndStep ==
  ASSUME NEW j \in JobIds, NEW s \in Terminal, jobs[j].status = "running",
         s = "cancelled" => jobs[j].asked,
         \A k \in JobIds :
           /\ jobs'[k].status = IF k = j THEN s ELSE jobs[k].status
           /\ jobs'[k].asked = jobs[k].asked
  PROVE  Lifecycle!Next
<1>1. Lifecycle!End(j, s)
  BY DEF Lifecycle!End
<1>2. s \in Lifecycle!Ended
  BY DEF Lifecycle!Ended, Terminal
<1> QED
  BY <1>1, <1>2 DEF Lifecycle!Next

LEMMA EnvironmentLifecycle ==
  ASSUME TypeOK, CrashInv, ApiStep \/ TimeStep
  PROVE  Lifecycle!Next \/ UNCHANGED Lifecycle!vars
<1> USE Basics
<1>0. \A j \in JobIds : jobs[j] \in Job
  OBVIOUS
<1>1. ASSUME NEW j \in JobIds, Create(j)
      PROVE  Lifecycle!Next
  <2>1. \A k \in JobIds : ConnOf[k] = ConnOf[j] => jobs[k].status \notin Active
    BY <1>1 DEF Create, IndexAllows, Active
  <2>2. ~jobs[j].asked
    BY <1>1 DEF Create, CrashInv, RowsConsistent
  <2>3. \A k \in JobIds : /\ jobs'[k].status = IF k = j THEN "pending" ELSE jobs[k].status
                          /\ jobs'[k].asked = jobs[k].asked
    <3> SUFFICES ASSUME NEW k \in JobIds
                 PROVE  /\ jobs'[k].status = IF k = j THEN "pending" ELSE jobs[k].status
                        /\ jobs'[k].asked = jobs[k].asked
      OBVIOUS
    <3>1. CASE k = j
      <4>1. jobs'[j].asked = FALSE /\ jobs'[j].status = "pending"
        BY <1>1 DEF Create
      <4>2. jobs[j].asked = FALSE
        BY <1>0, <2>2 DEF Job
      <4> QED
        BY <3>1, <4>1, <4>2
    <3>2. CASE k # j
      BY <1>1, <3>2 DEF Create
    <3> QED
      BY <3>1, <3>2
  <2>4. Lifecycle!Submit(j)
    BY <1>1, <2>1, <2>3 DEF Create, Lifecycle!Submit, Lifecycle!Active, Active
  <2> QED
    BY <2>4 DEF Lifecycle!Next
<1>2. ASSUME NEW j \in JobIds, Cancel(j)
      PROVE  Lifecycle!Next
  <2>1. \A k \in JobIds :
          /\ jobs'[k].status = IF k = j /\ jobs[j].status = "pending"
                               THEN "cancelled" ELSE jobs[k].status
          /\ jobs'[k].asked = IF k = j THEN TRUE ELSE jobs[k].asked
    BY <1>0, <1>2 DEF Cancel, Job
  <2>2. Lifecycle!Ask(j)
    BY <1>2, <2>1 DEF Cancel, Lifecycle!Ask, Lifecycle!Active, Active
  <2> QED
    BY <2>2 DEF Lifecycle!Next
<1>3. ASSUME NEW c \in Conns, DeleteConnection(c)
      PROVE  Lifecycle!Next
  <2>1. \A j \in JobIds : ConnOf[j] = c => jobs[j].status # "deleted"
    BY <1>3 DEF DeleteConnection, CrashInv, RowsConsistent
  <2>2. \A j \in JobIds :
          IF ConnOf[j] = c /\ jobs[j].status # "none"
          THEN jobs'[j].status = "deleted" /\ jobs'[j].asked = FALSE
          ELSE jobs'[j] = jobs[j]
    BY <1>3, <2>1 DEF DeleteConnection, Exists
  <2>3. Lifecycle!Remove(c)
    BY <2>2 DEF Lifecycle!Remove
  <2> QED
    BY <2>3 DEF Lifecycle!Next
<1>4. ASSUME NEW j \in JobIds, BecomeDue(j)
      PROVE  UNCHANGED Lifecycle!vars
  <2>1. \A k \in JobIds : jobs'[k].status = jobs[k].status /\ jobs'[k].asked = jobs[k].asked
    BY <1>0, <1>4 DEF BecomeDue, Job
  <2> QED
    BY <2>1 DEF Lifecycle!vars
<1>5. ASSUME UNCHANGED jobs
      PROVE  UNCHANGED Lifecycle!vars
  BY <1>5 DEF Lifecycle!vars
<1> QED
  BY <1>1, <1>2, <1>3, <1>4, <1>5 DEF ApiStep, TimeStep, GoStale

LEMMA WorkerLifecycle ==
  ASSUME TypeOK, CrashInv, CancelInv, CrashOnly, NEW w \in Workers, WorkerStep(w)
  PROVE  Lifecycle!Next \/ UNCHANGED Lifecycle!vars
<1> USE Basics
<1>0. \A j \in JobIds : jobs[j] \in Job
  OBVIOUS
<1>1. CASE Reap(w)
  <2> DEFINE S == {j \in JobIds : jobs'[j] # jobs[j]}
  <2>1. \A j \in JobIds :
          jobs'[j] = jobs[j] \/
            /\ jobs[j].status = "running"
            /\ jobs'[j] = [jobs[j] EXCEPT !.status = "pending", !.due = TRUE]
    BY <1>1 DEF Reap, Reaps
  <2>2. \A j \in S : jobs[j].status = "running"
    BY <2>1
  <2>3. \A j \in JobIds : /\ jobs'[j].status = IF j \in S THEN "pending" ELSE jobs[j].status
                          /\ jobs'[j].asked = jobs[j].asked
    BY <1>0, <2>1 DEF Job
  <2> HIDE DEF S
  <2>4. S \in SUBSET JobIds
    BY DEF S
  <2> QED
    BY <2>2, <2>3, <2>4, RequeueStep
<1>2. ASSUME NEW j \in JobIds, Claim(w, j)
      PROVE  Lifecycle!Next
  <2>1. \A k \in JobIds : /\ jobs'[k].status = IF k = j THEN "running" ELSE jobs[k].status
                          /\ jobs'[k].asked = jobs[k].asked
    BY <1>0, <1>2 DEF Claim, Job
  <2>2. Lifecycle!Start(j)
    BY <1>2, <2>1 DEF Claim, Lifecycle!Start
  <2> QED
    BY <2>2 DEF Lifecycle!Next
<1> DEFINE j == task[w].job
<1>3. ASSUME pc[w] \in Working
      PROVE  /\ j \in JobIds
             /\ Exists(j) => jobs[j].status = "running"
  BY <1>3 DEF CrashInv, JobIsHeld, Exists
<1>4. CASE Reschedule(w)
  <2>1. j \in JobIds /\ jobs[j].status = "running"
    BY <1>3, <1>4 DEF Reschedule, Working
  <2>2. \A k \in JobIds :
          /\ jobs'[k].status = IF k \in {j} THEN "pending" ELSE jobs[k].status
          /\ jobs'[k].asked = jobs[k].asked
    BY <1>0, <1>4, <2>1 DEF Reschedule, Job
  <2>3. {j} \in SUBSET JobIds
    BY <2>1
  <2> QED
    BY <2>1, <2>2, <2>3, RequeueStep
<1>5. CASE Finish(w)
  <2> DEFINE s == Verdict(task[w].result)
  <2>1. j \in JobIds /\ pc[w] \in Working
    BY <1>3, <1>5 DEF Finish, Working
  <2>2. CASE ~Exists(j)
    <3>1. jobs' = jobs
      BY <1>5, <2>2 DEF Finish
    <3> QED
      BY <3>1 DEF Lifecycle!vars
  <2>3. CASE Exists(j)
    <3>1. jobs' = [jobs EXCEPT ![j].status = s]
      BY <1>5, <2>3 DEF Finish
    <3>2. s \in Terminal /\ (s = "cancelled" => task[w].result = "cancelled")
      BY DEF Verdict, Terminal
    <3> HIDE DEF s
    <3>3. s = "cancelled" => jobs[j].asked
      BY <2>1, <2>3, <3>2 DEF CancelInv, Stopping, AskedWhileRow
    <3>4. \A k \in JobIds : /\ jobs'[k].status = IF k = j THEN s ELSE jobs[k].status
                            /\ jobs'[k].asked = jobs[k].asked
      BY <1>0, <2>1, <3>1 DEF Job
    <3> QED
      BY <1>3, <2>1, <2>3, <3>2, <3>3, <3>4, EndStep
  <2> QED
    BY <2>2, <2>3
<1>6. ASSUME UNCHANGED jobs
      PROVE  UNCHANGED Lifecycle!vars
  BY <1>6 DEF Lifecycle!vars
<1> QED
  BY <1>1, <1>2, <1>4, <1>5, <1>6
  DEF WorkerStep, LoopStep, ExecuteStep, BackgroundStep, SyncStep, ClaimNothing, Wake,
      Shutdown, Crash, Restart, CreateAttempt, AttemptRefused, RecordAttempt,
      RescheduleRefused, Notify, Heartbeat, HeartbeatFails, WatchCancel, SyncBlocks, SyncEnds

LEMMA LifecycleStep ==
  ASSUME CrashOnly
  PROVE  TypeOK /\ CrashInv /\ CancelInv /\ [Next]_vars
           => [Lifecycle!Next]_Lifecycle!vars
<1> SUFFICES ASSUME TypeOK, CrashInv, CancelInv, [Next]_vars
             PROVE  Lifecycle!Next \/ UNCHANGED Lifecycle!vars
  OBVIOUS
<1>1. CASE UNCHANGED vars
  BY <1>1 DEF vars, Lifecycle!vars
<1> QED
  BY <1>1, EnvironmentLifecycle, WorkerLifecycle DEF Next

(***************************************************************************)
(* With crashes as the only fault the queue keeps its promise about jobs:    *)
(* the initial state maps to the abstract one, every step to an abstract     *)
(* step or a stutter.                                                        *)
(***************************************************************************)
THEOREM QueueImplementsLifecycle ==
  ASSUME CrashOnly
  PROVE  Spec => ImplementsLifecycle
<1>1. Init => Lifecycle!Init
  BY DEF Init, Lifecycle!Init
<1>2. TypeOK /\ CrashInv /\ CancelInv /\ [Next]_vars => [Lifecycle!Next]_Lifecycle!vars
  BY LifecycleStep
<1> QED
  BY <1>1, <1>2, TypeCorrect, CrashInvariant, CancelInvariant, PTL
  DEF Spec, ImplementsLifecycle, Lifecycle!Spec

-----------------------------------------------------------------------------

\* An abstract step moves no job out of a status it ended with.
LEMMA AbstractFinal ==
  ASSUME TypeOK, Lifecycle!Next \/ UNCHANGED Lifecycle!vars,
         NEW j \in JobIds, jobs[j].status \in Terminal
  PROVE  jobs'[j].status \in {jobs[j].status, "deleted"}
<1>1. CASE UNCHANGED Lifecycle!vars
  <2>1. [k \in JobIds |-> jobs'[k].status] = [k \in JobIds |-> jobs[k].status]
    BY <1>1 DEF Lifecycle!vars
  <2> QED
    BY <2>1
<1>2. CASE Lifecycle!Next
  <2> USE DEF Terminal
  <2>1. ASSUME NEW k \in JobIds, Lifecycle!Submit(k) \/ Lifecycle!Start(k) \/ Lifecycle!Ask(k)
        PROVE  jobs'[j].status = jobs[j].status
    BY <2>1 DEF Lifecycle!Submit, Lifecycle!Start, Lifecycle!Ask, Lifecycle!Active
  <2>2. ASSUME NEW S \in SUBSET JobIds, Lifecycle!Requeue(S)
        PROVE  jobs'[j].status = jobs[j].status
    BY <2>2 DEF Lifecycle!Requeue
  <2>3. ASSUME NEW k \in JobIds, NEW s \in Lifecycle!Ended, Lifecycle!End(k, s)
        PROVE  jobs'[j].status = jobs[j].status
    BY <2>3 DEF Lifecycle!End
  <2>4. ASSUME NEW c \in Conns, Lifecycle!Remove(c)
        PROVE  jobs'[j].status \in {jobs[j].status, "deleted"}
    BY <2>4 DEF Lifecycle!Remove
  <2> QED
    BY <1>2, <2>1, <2>2, <2>3, <2>4 DEF Lifecycle!Next
<1> QED
  BY <1>1, <1>2

(***************************************************************************)
(* With crashes as the only fault, no finish or reschedule overwrites the     *)
(* status a job ended with.                                                  *)
(***************************************************************************)
THEOREM TerminalStaysFinal ==
  ASSUME CrashOnly
  PROVE  Spec => TerminalIsFinal
<1>1. TypeOK /\ CrashInv /\ CancelInv /\ [Next]_vars =>
        [\A j \in JobIds : jobs[j].status \in Terminal =>
           jobs'[j].status \in {jobs[j].status, "deleted"}]_vars
  BY LifecycleStep, AbstractFinal
<1> QED
  BY <1>1, TypeCorrect, CrashInvariant, CancelInvariant, PTL DEF Spec, TerminalIsFinal

-----------------------------------------------------------------------------
(***************************************************************************)
(* What becomes of attempts and jobs: no two workers execute under one        *)
(* attempt number, under every fault; and, when workers may crash and nothing *)
(* else goes wrong, no live worker's job is requeued, no job is given up       *)
(* before its last attempt, and the webhook says what is and stays true.       *)
(***************************************************************************)

\* Another worker's steps leave worker v where it is.
LEMMA OthersStay ==
  ASSUME TypeOK, NEW u \in Workers, WorkerStep(u), NEW v \in Workers \ {u}
  PROVE  pc'[v] = pc[v] /\ task'[v] = task[v]
<1> USE Basics DEF Goto
<1>1. CASE LoopStep(u) \/ Shutdown(u) \/ Crash(u) \/ Restart(u)
  BY <1>1 DEF LoopStep, Reap, ClaimNothing, Wake, Claim, Shutdown, Crash, Restart
<1>2. CASE CreateAttempt(u) \/ AttemptRefused(u) \/ RecordAttempt(u)
  BY <1>2 DEF CreateAttempt, AttemptRefused, RecordAttempt
<1>3. CASE Reschedule(u) \/ RescheduleRefused(u) \/ Finish(u) \/ Notify(u)
  BY <1>3 DEF Reschedule, RescheduleRefused, Finish, Notify
<1>4. CASE BackgroundStep(u) \/ SyncStep(u)
  BY <1>4 DEF BackgroundStep, Heartbeat, HeartbeatFails, WatchCancel, SyncBlocks, SyncStep, SyncEnds
<1> QED
  BY <1>1, <1>2, <1>3, <1>4 DEF WorkerStep, ExecuteStep

\* How worker v gets to where it holds an attempt or has a result.
LEMMA WorkerMoves ==
  ASSUME TypeOK, [Next]_vars, NEW v \in Workers,
         pc'[v] \in {"sync", "record", "settle", "notify"}
  PROVE  \/ /\ pc'[v] = pc[v] /\ task'[v].job = task[v].job
            /\ task'[v].number = task[v].number /\ task'[v].result = task[v].result
         \/ CreateAttempt(v) \/ AttemptRefused(v) \/ SyncStep(v) \/ RecordAttempt(v)
         \/ RescheduleRefused(v) \/ Finish(v)
<1> USE Basics DEF Goto
<1>1. CASE ApiStep \/ TimeStep
  BY <1>1 DEF ApiStep, TimeStep, Create, Cancel, DeleteConnection, BecomeDue, GoStale
<1>2. ASSUME NEW u \in Workers, WorkerStep(u), u # v
      PROVE  pc'[v] = pc[v] /\ task'[v] = task[v]
  BY <1>2, OthersStay
<1>3. CASE LoopStep(v) \/ Shutdown(v) \/ Crash(v) \/ Restart(v)
  BY <1>3 DEF LoopStep, Reap, ClaimNothing, Wake, Claim, Shutdown, Crash, Restart
<1>4. CASE Reschedule(v) \/ Notify(v)
  BY <1>4 DEF Reschedule, Notify
<1>5. CASE BackgroundStep(v)
  <2>1. task[v] \in Task
    BY <1>5 DEF BackgroundStep, Heartbeat, HeartbeatFails, WatchCancel, SyncBlocks, Working
  <2>2. CASE Heartbeat(v)
    BY <2>2 DEF Heartbeat
  <2>3. CASE HeartbeatFails(v)
    BY <2>1, <2>3 DEF HeartbeatFails, Task
  <2>4. CASE WatchCancel(v) \/ SyncBlocks(v)
    BY <2>1, <2>4 DEF WatchCancel, SyncBlocks, Task
  <2> QED
    BY <1>5, <2>2, <2>3, <2>4 DEF BackgroundStep
<1>6. CASE UNCHANGED vars
  BY <1>6 DEF vars
<1> QED
  BY <1>1, <1>2, <1>3, <1>4, <1>5, <1>6 DEF Next, WorkerStep, ExecuteStep

\* A row once used is not made again, and while it is there its attempts stay.
LEMMA RowKept ==
  ASSUME TypeOK, [Next]_vars, NEW j \in JobIds, jobs[j].status # "none", Exists(j)'
  PROVE  Exists(j) /\ DOMAIN attempts[j] \subseteq DOMAIN attempts'[j]
<1> USE Basics DEF Exists
<1>0. jobs[j] \in Job /\ attempts[j] \in Seq(AttemptStatus)
  OBVIOUS
<1>1. CASE ApiStep
  <2>1. ASSUME NEW k \in JobIds, Create(k)
        PROVE  Exists(j) /\ attempts' = attempts
    BY <2>1 DEF Create
  <2>2. ASSUME NEW k \in JobIds, Cancel(k)
        PROVE  Exists(j) /\ attempts' = attempts
    <3>1. jobs[k] \in Job /\ (k # j => jobs'[j] = jobs[j])
      BY <2>2 DEF Cancel
    <3> QED
      BY <2>2, <3>1 DEF Cancel, Active
  <2>3. ASSUME NEW c \in Conns, DeleteConnection(c)
        PROVE  Exists(j) /\ attempts'[j] = attempts[j]
    BY <2>3 DEF DeleteConnection
  <2> QED
    BY <1>1, <2>1, <2>2, <2>3 DEF ApiStep
<1>2. CASE TimeStep
  BY <1>0, <1>2 DEF TimeStep, BecomeDue, GoStale
<1>3. ASSUME NEW w \in Workers, WorkerStep(w)
      PROVE  Exists(j) /\ DOMAIN attempts[j] \subseteq DOMAIN attempts'[j]
  <2>1. CASE Reap(w)
    <3> DEFINE closed(k, n) == IF Reaps(k, n) THEN "failed" ELSE attempts[k][n]
    <3>1. \/ attempts' = attempts
          \/ attempts' = [k \in JobIds |-> [n \in DOMAIN attempts[k] |-> closed(k, n)]]
      BY <2>1 DEF Reap
    <3> HIDE DEF closed
    <3>2. DOMAIN attempts'[j] = DOMAIN attempts[j]
      BY <3>1
    <3>3. jobs'[j] # jobs[j] => jobs[j].status = "running"
      BY <2>1 DEF Reap
    <3> QED
      BY <3>2, <3>3
  <2>2. CASE ClaimNothing(w) \/ Wake(w) \/ Shutdown(w) \/ Crash(w) \/ Restart(w)
    BY <2>2 DEF ClaimNothing, Wake, Shutdown, Crash, Restart
  <2>3. CASE \E k \in JobIds : Claim(w, k)
    BY <2>3 DEF Claim
  <2>4. CASE CreateAttempt(w)
    <3>1. attempts' = [attempts EXCEPT ![task[w].job] = Append(@, "running")] /\ jobs' = jobs
      BY <2>4 DEF CreateAttempt
    <3>2. DOMAIN attempts[j] \subseteq DOMAIN Append(attempts[j], "running")
      BY <1>0
    <3> QED
      BY <3>1, <3>2
  <2>5. CASE AttemptRefused(w) \/ RescheduleRefused(w) \/ Notify(w)
    BY <2>5 DEF AttemptRefused, RescheduleRefused, Notify
  <2>6. CASE RecordAttempt(w)
    <3>1. jobs' = jobs
      BY <2>6 DEF RecordAttempt
    <3>2. \/ attempts' = attempts
          \/ \E k, n, s : attempts' = [attempts EXCEPT ![k][n] = s]
      BY <2>6 DEF RecordAttempt
    <3>3. DOMAIN attempts'[j] = DOMAIN attempts[j]
      BY <3>2, SMTT(30)
    <3> QED
      BY <3>1, <3>3
  <2>7. CASE Reschedule(w) \/ Finish(w)
    <3>1. /\ attempts' = attempts
          /\ jobs'[j] = jobs[j] \/ (task[w].job = j /\ Exists(j))
      BY <2>7 DEF Reschedule, Finish, Working
    <3> QED
      BY <3>1
  <2>8. CASE BackgroundStep(w) \/ SyncStep(w)
    BY <2>8 DEF BackgroundStep, Heartbeat, HeartbeatFails, WatchCancel, SyncBlocks, SyncStep, SyncEnds
  <2> QED
    BY <1>3, <2>1, <2>2, <2>3, <2>4, <2>5, <2>6, <2>7, <2>8
    DEF WorkerStep, LoopStep, ExecuteStep
<1>4. CASE UNCHANGED vars
  BY <1>4 DEF vars
<1> QED
  BY <1>1, <1>2, <1>3, <1>4 DEF Next

-----------------------------------------------------------------------------
(* Under every fault. *)

\* Why attempt numbers have one owner: they are the numbers of rows.
OwnerInv ==
  /\ \A w \in Workers :
       pc[w] \in {"sync", "record"} /\ Exists(task[w].job)
         => task[w].number \in DOMAIN attempts[task[w].job]
  /\ \A v, w \in Workers : \A j \in JobIds : \A n \in Nat :
       Holds(v, j, n) /\ Holds(w, j, n) /\ Exists(j) => v = w

\* How a worker comes to hold an attempt.
LEMMA HoldStep ==
  ASSUME TypeOK, [Next]_vars, NEW v \in Workers, pc'[v] \in {"sync", "record"}
  PROVE  \/ /\ pc[v] \in {"sync", "record"} /\ task'[v].job = task[v].job
            /\ task'[v].number = task[v].number
         \/ /\ CreateAttempt(v)
            /\ task'[v].job = task[v].job
            /\ task'[v].number = Len(attempts[task[v].job]) + 1
            /\ attempts' = [attempts EXCEPT ![task[v].job] = Append(@, "running")]
<1> USE Basics DEF Goto
<1>1. CASE CreateAttempt(v)
  <2>1. task[v] \in Task
    BY <1>1 DEF CreateAttempt, Working
  <2> DEFINE n == Len(attempts[task[v].job]) + 1
  <2>2. /\ attempts' = [attempts EXCEPT ![task[v].job] = Append(@, "running")]
        /\ \/ task' = [task EXCEPT ![v] =
                [@ EXCEPT !.number = n, !.beating = TRUE, !.result = "aborted"]]
           \/ task' = [task EXCEPT ![v] = [@ EXCEPT !.number = n, !.beating = TRUE]]
    BY <1>1 DEF CreateAttempt
  <2> HIDE DEF n
  <2>3. \/ task'[v] = [task[v] EXCEPT !.number = n, !.beating = TRUE, !.result = "aborted"]
        \/ task'[v] = [task[v] EXCEPT !.number = n, !.beating = TRUE]
    BY <2>2
  <2>4. task'[v].job = task[v].job /\ task'[v].number = n
    BY <2>1, <2>3 DEF Task
  <2> QED
    BY <1>1, <2>2, <2>4 DEF n
<1>2. CASE SyncStep(v)
  <2>1. PICK result : SyncEnds(v, result)
    BY <1>2 DEF SyncStep
  <2>2. task[v] \in Task
    BY <2>1 DEF SyncEnds, Working
  <2>3. /\ pc[v] = "sync"
        /\ task'[v] = [task[v] EXCEPT !.result = result, !.told = FALSE, !.deaf = FALSE]
    BY <2>1 DEF SyncEnds
  <2> QED
    BY <2>2, <2>3 DEF Task
<1>3. ~AttemptRefused(v) /\ ~RecordAttempt(v) /\ ~Finish(v) /\ ~RescheduleRefused(v)
  BY DEF AttemptRefused, RecordAttempt, Finish, RescheduleRefused
<1> QED
  BY <1>1, <1>2, <1>3, WorkerMoves

LEMMA OwnerStep ==
  ASSUME TypeOK, CancelInv, OwnerInv, [Next]_vars
  PROVE  OwnerInv'
<1> USE Basics
<1>0. \A j \in JobIds : DOMAIN attempts[j] = 1..Len(attempts[j]) /\ Len(attempts[j]) \in Nat
  OBVIOUS
<1>1. ASSUME NEW v \in Workers, pc[v] \in Working, NEW j \in JobIds,
             task[v].job = j, Exists(j)'
      PROVE  Exists(j) /\ DOMAIN attempts[j] \subseteq DOMAIN attempts'[j]
  <2>1. jobs[j].status # "none"
    BY <1>1 DEF CancelInv, RowUsed
  <2> QED
    BY <1>1, <2>1, RowKept
\* A worker that holds an attempt now held it before, or has just made its row.
<1>2. ASSUME NEW v \in Workers, NEW j \in JobIds, NEW n \in Nat,
             Holds(v, j, n)', Exists(j)'
      PROVE  \/ Holds(v, j, n) /\ Exists(j) /\ n \in DOMAIN attempts[j]
                /\ n \in DOMAIN attempts'[j]
             \/ CreateAttempt(v) /\ n = Len(attempts[j]) + 1 /\ n \in DOMAIN attempts'[j]
  <2>1. pc'[v] \in {"sync", "record"} /\ task'[v].job = j /\ task'[v].number = n
    BY <1>2 DEF Holds
  <2>2. CASE /\ pc[v] \in {"sync", "record"} /\ task'[v].job = task[v].job
             /\ task'[v].number = task[v].number
    <3>1. Exists(j) /\ DOMAIN attempts[j] \subseteq DOMAIN attempts'[j]
      BY <1>1, <1>2, <2>1, <2>2 DEF Working
    <3>2. n \in DOMAIN attempts[j]
      BY <2>1, <2>2, <3>1 DEF OwnerInv
    <3> QED
      BY <2>1, <2>2, <3>1, <3>2 DEF Holds
  <2>3. CASE /\ CreateAttempt(v) /\ task'[v].job = task[v].job
             /\ task'[v].number = Len(attempts[task[v].job]) + 1
             /\ attempts' = [attempts EXCEPT ![task[v].job] = Append(@, "running")]
    <3>1. n = Len(attempts[j]) + 1 /\ attempts'[j] = Append(attempts[j], "running")
      BY <2>1, <2>3
    <3>2. Len(attempts[j]) + 1 \in DOMAIN Append(attempts[j], "running")
      BY <1>0
    <3> QED
      BY <2>3, <3>1, <3>2
  <2> QED
    BY <2>1, <2>2, <2>3, HoldStep
<1>3. ASSUME NEW v \in Workers, pc'[v] \in {"sync", "record"}
      PROVE  task'[v].job \in JobIds /\ task'[v].number \in Nat
  <2>1. TypeOK'
    BY StepTypeOK
  <2> QED
    BY <1>3, <2>1 DEF TypeOK, Working, Task
<1>4. ASSUME NEW v \in Workers, NEW j \in JobIds, NEW n \in Nat,
             pc'[v] \in {"sync", "record"}, task'[v].job = j, task'[v].number = n,
             Exists(j)'
      PROVE  n \in DOMAIN attempts'[j]
  <2>1. Holds(v, j, n)'
    BY <1>4 DEF Holds
  <2> QED
    BY <1>2, <1>4, <2>1
\* Only one worker makes a row, and its number is new.
<1>5. ASSUME NEW v \in Workers, NEW w \in Workers, NEW j \in JobIds, NEW n \in Nat,
             Holds(v, j, n)', Holds(w, j, n)', Exists(j)', v # w
      PROVE  FALSE
  <2>1. ~(Holds(v, j, n) /\ Exists(j) /\ Holds(w, j, n))
    BY <1>5 DEF OwnerInv
  <2>2. ASSUME NEW u \in Workers, CreateAttempt(u)
        PROVE  \A x \in Workers \ {u} : ~CreateAttempt(x)
    <3> SUFFICES ASSUME NEW x \in Workers \ {u}, CreateAttempt(x) PROVE FALSE
      OBVIOUS
    <3>1. pc'[x] = pc[x]
      BY <2>2, OthersStay DEF WorkerStep, ExecuteStep
    <3> QED
      BY <3>1 DEF CreateAttempt, Goto
  <2>3. n \in DOMAIN attempts[j] => n # Len(attempts[j]) + 1
    BY <1>0
  <2> QED
    BY <1>2, <1>5, <2>1, <2>2, <2>3
<1>6. \A v \in Workers : pc'[v] \in {"sync", "record"} /\ Exists(task[v].job)' =>
        task'[v].number \in DOMAIN attempts'[task'[v].job]
  BY <1>3, <1>4 DEF Exists
<1> QED
  BY <1>5, <1>6 DEF OwnerInv

\* JobRepo::create_attempt numbers attempts MAX + 1: however often a job is reaped
\* and claimed again, no two workers execute under one number of it.
THEOREM AttemptsOwned == Spec => []AttemptHasOneOwner
<1>1. Init => OwnerInv
  BY DEF Init, OwnerInv, Holds
<1>2. TypeOK /\ OwnerInv => AttemptHasOneOwner
  BY JobQueueAssumption DEF OwnerInv, AttemptHasOneOwner
<1> QED
  BY <1>1, <1>2, OwnerStep, TypeCorrect, CancelInvariant, PTL DEF Spec

-----------------------------------------------------------------------------
(* When workers may crash and nothing else goes wrong. *)

\* Only reap_stale and a job's own worker requeue it, and reap_stale finds no
\* stale attempt of a job whose worker lives.
LEMMA RequeueNeedsDeadWorker ==
  ASSUME CrashOnly, TypeOK, CrashInv, [Next]_vars, NEW j \in JobIds, NEW w \in Workers,
         jobs[j].status = "running", jobs'[j].status = "pending",
         pc[w] \in Working, task[w].job = j
  PROVE  pc'[w] # pc[w]
<1> USE Basics
<1>0. jobs[j] \in Job
  OBVIOUS
<1>1. ~ApiStep
  <2>1. ASSUME NEW k \in JobIds, Create(k) PROVE FALSE
    BY <2>1, <1>0 DEF Create
  <2>2. ASSUME NEW k \in JobIds, Cancel(k) PROVE FALSE
    <3>1. jobs[k] \in Job
      OBVIOUS
    <3>2. jobs'[k].status = IF jobs[k].status = "pending" THEN "cancelled" ELSE jobs[k].status
      BY <2>2, <3>1 DEF Cancel, Job
    <3>3. k # j => jobs'[j] = jobs[j]
      BY <2>2 DEF Cancel
    <3> QED
      BY <3>2, <3>3
  <2>3. ASSUME NEW c \in Conns, DeleteConnection(c) PROVE FALSE
    BY <2>3 DEF DeleteConnection
  <2> QED
    BY <2>1, <2>2, <2>3 DEF ApiStep
<1>2. ~TimeStep
  BY DEF TimeStep, BecomeDue, GoStale
<1>3. ASSUME NEW u \in Workers, WorkerStep(u)
      PROVE  pc'[w] # pc[w]
  <2>1. CASE Reap(u)
    <3>1. jobs'[j] # jobs[j] => \E n \in DOMAIN attempts[j] : Reaps(j, n)
      BY <2>1 DEF Reap
    <3>2. PICK n \in DOMAIN attempts[j] : attempts[j][n] = "stale"
      BY <3>1 DEF Reaps
    <3> QED
      BY <3>2 DEF CrashInv, OpenAttempts, Open
  <2>2. CASE Reschedule(u)
    <3>1. pc[u] = "settle" /\ pc'[u] = "claim" /\ task[u].job = j
      BY <2>2 DEF Reschedule, Goto
    <3>2. u = w
      BY <3>1 DEF CrashInv, NoConcurrentExecution, Working
    <3> QED
      BY <3>1, <3>2
  <2>3. CASE Finish(u)
    <3> DEFINE verdict == Verdict(task[u].result)
    <3>1. verdict \in {"succeeded", "cancelled", "failed"}
      BY DEF Verdict
    <3>2. jobs' = jobs \/ jobs' = [jobs EXCEPT ![task[u].job].status = verdict]
      BY <2>3 DEF Finish
    <3> HIDE DEF verdict
    <3>3. jobs'[j].status \in {jobs[j].status, verdict}
      BY <3>2, <1>0, ZenonT(30) DEF Job
    <3> QED
      BY <3>1, <3>3
  <2>4. CASE ClaimNothing(u) \/ Wake(u) \/ \E k \in JobIds : Claim(u, k)
    BY <2>4, <1>0 DEF ClaimNothing, Wake, Claim
  <2>5. CASE Shutdown(u) \/ Crash(u) \/ Restart(u)
    BY <2>5 DEF Shutdown, Crash, Restart
  <2>6. CASE CreateAttempt(u) \/ AttemptRefused(u) \/ RecordAttempt(u)
    BY <2>6 DEF CreateAttempt, AttemptRefused, RecordAttempt
  <2>7. CASE RescheduleRefused(u) \/ Notify(u)
    BY <2>7 DEF RescheduleRefused, Notify
  <2>8. CASE BackgroundStep(u) \/ SyncStep(u)
    BY <2>8 DEF BackgroundStep, Heartbeat, HeartbeatFails, WatchCancel, SyncBlocks, SyncStep, SyncEnds
  <2> QED
    BY <1>3, <2>1, <2>2, <2>3, <2>4, <2>5, <2>6, <2>7, <2>8
    DEF WorkerStep, LoopStep, ExecuteStep
<1>4. ~UNCHANGED vars
  BY DEF vars
<1> QED
  BY <1>1, <1>2, <1>3, <1>4 DEF Next

\* JobRepo::reap_stale and reschedule: a running job goes back to the queue only
\* when its worker gives it back or is dead.
THEOREM LiveWorkersKeepJobs ==
  ASSUME CrashOnly
  PROVE  Spec => NotRequeuedUnderLiveWorker
<1>1. TypeOK /\ CrashInv /\ [Next]_vars =>
        [\A j \in JobIds : \A w \in Workers :
           /\ jobs[j].status = "running" /\ jobs'[j].status = "pending"
           /\ pc[w] \in Working /\ task[w].job = j
           => pc'[w] # pc[w]]_vars
  BY RequeueNeedsDeadWorker
<1> QED
  BY <1>1, TypeCorrect, CrashInvariant, PTL DEF Spec, NotRequeuedUnderLiveWorker

-----------------------------------------------------------------------------
(* The webhook. *)

\* Why the webhook tells the truth: it is sent when the status is written.
NoticeInv ==
  /\ \A w \in Workers :
       pc[w] = "notify" /\ Exists(task[w].job)
         => jobs[task[w].job].status = Verdict(task[w].result)
  /\ WebhookTellsOutcome

\* A job that has ended, and whose row is still there, has the status it had.
LEMMA EndedStays ==
  ASSUME CrashOnly, TypeOK, CrashInv, CancelInv, [Next]_vars,
         NEW j \in JobIds, jobs[j].status \in Terminal, Exists(j)'
  PROVE  jobs'[j].status = jobs[j].status
<1>1. Lifecycle!Next \/ UNCHANGED Lifecycle!vars
  BY LifecycleStep
<1>2. jobs'[j].status \in {jobs[j].status, "deleted"}
  BY <1>1, AbstractFinal
<1> QED
  BY <1>2 DEF Exists

LEMMA NoticeStep ==
  ASSUME CrashOnly, TypeOK, CrashInv, CancelInv, NoticeInv, [Next]_vars
  PROVE  NoticeInv'
<1> USE Basics
<1>1. ASSUME NEW v \in Workers, NEW j \in JobIds,
             pc'[v] = "notify", task'[v].job = j, Exists(j)'
      PROVE  jobs'[j].status = Verdict(task'[v].result)
  <2>1. \/ pc[v] = "notify" /\ task[v].job = j /\ task'[v].result = task[v].result
        \/ Finish(v)
    BY <1>1, WorkerMoves DEF CreateAttempt, AttemptRefused, SyncStep, SyncEnds,
       RecordAttempt, RescheduleRefused, Goto
  <2>2. CASE pc[v] = "notify" /\ task[v].job = j /\ task'[v].result = task[v].result
    <3>1. jobs[j].status # "none"
      BY <2>2 DEF CancelInv, RowUsed
    <3>2. Exists(j)
      BY <1>1, <3>1, RowKept
    <3>3. jobs[j].status = Verdict(task[v].result)
      BY <2>2, <3>2 DEF NoticeInv
    <3> QED
      BY <1>1, <2>2, <3>3, EndedStays DEF Verdict, Terminal
  <2>3. CASE Finish(v)
    <3>1. task[v].result # "aborted" /\ task' = task
      BY <1>1, <2>3 DEF Finish, Goto
    <3>2. jobs' = IF Exists(j)
                  THEN [jobs EXCEPT ![j].status = Verdict(task[v].result)] ELSE jobs
      BY <1>1, <2>3, <3>1 DEF Finish, CrashOnly, Fault
    <3>3. jobs[j] \in Job
      OBVIOUS
    <3> QED
      BY <1>1, <3>1, <3>2, <3>3 DEF Exists, Job
  <2> QED
    BY <2>1, <2>2, <2>3
<1>2. ASSUME NEW j \in JobIds, notices[j] # {}, Exists(j)'
      PROVE  notices[j] = {jobs'[j].status}
  <2>1. jobs[j].status # "none"
    BY <1>2 DEF CancelInv, RowUsed
  <2>2. Exists(j)
    BY <1>2, <2>1, RowKept
  <2>3. notices[j] = {jobs[j].status}
    BY <1>2, <2>2 DEF NoticeInv, WebhookTellsOutcome
  <2>4. jobs[j].status \in Terminal
    BY <2>3 DEF TypeOK
  <2> QED
    BY <1>2, <2>3, <2>4, EndedStays
<1>3. ASSUME NEW j \in JobIds, notices'[j] # {}, Exists(j)'
      PROVE  notices'[j] = {jobs'[j].status}
  <2>1. CASE notices'[j] = notices[j]
    BY <1>2, <1>3, <2>1
  <2>2. CASE notices'[j] # notices[j]
    <3>1. PICK w \in Workers : Notify(w)
      BY <2>2 DEF Next, ApiStep, TimeStep, Create, Cancel, DeleteConnection, BecomeDue,
         GoStale, WorkerStep, LoopStep, ExecuteStep, BackgroundStep, SyncStep, Reap,
         ClaimNothing, Wake, Claim, Shutdown, Crash, Restart, CreateAttempt,
         AttemptRefused, RecordAttempt, Reschedule, RescheduleRefused, Finish,
         Heartbeat, HeartbeatFails, WatchCancel, SyncBlocks, SyncEnds, vars
    <3>2. /\ pc[w] = "notify" /\ task[w].job = j /\ jobs' = jobs
          /\ notices'[j] = notices[j] \cup {Verdict(task[w].result)}
      BY <2>2, <3>1 DEF Notify, TypeOK
    <3>3. jobs[j].status = Verdict(task[w].result)
      BY <1>3, <3>2 DEF NoticeInv, Exists
    <3> QED
      BY <1>2, <1>3, <3>2, <3>3
  <2> QED
    BY <2>1, <2>2
<1>4. \A v \in Workers : pc'[v] = "notify" => task'[v].job \in JobIds
  BY StepTypeOK DEF TypeOK, Task
<1>5. \A v \in Workers : pc'[v] = "notify" /\ Exists(task[v].job)' =>
        jobs'[task'[v].job].status = Verdict(task'[v].result)
  BY <1>1, <1>4 DEF Exists
<1> QED
  BY <1>3, <1>5 DEF NoticeInv, WebhookTellsOutcome, Exists, Verdict

\* The webhook after JobRepo::finish: what it told is the status the job has and
\* keeps as long as its row is there.
THEOREM WebhookTruthful ==
  ASSUME CrashOnly
  PROVE  Spec => []WebhookTellsOutcome
<1>1. Init => NoticeInv
  BY DEF Init, NoticeInv, WebhookTellsOutcome
<1>2. TypeOK /\ CrashInv /\ CancelInv /\ NoticeInv /\ [Next]_vars => NoticeInv'
  BY NoticeStep
<1>3. NoticeInv => WebhookTellsOutcome
  BY DEF NoticeInv
<1> QED
  BY <1>1, <1>2, <1>3, TypeCorrect, CrashInvariant, CancelInvariant, PTL DEF Spec

-----------------------------------------------------------------------------
(* Giving a job up. *)

\* What a worker that is done with its attempt knows, as long as the job's row is
\* there: the attempt has a row, and it was aborted only past the budget.
DoneInv ==
  \A w \in Workers :
    pc[w] \in {"record", "settle"} /\ Exists(task[w].job) =>
      /\ task[w].number \in DOMAIN attempts[task[w].job]
      /\ \/ task[w].result \in {"succeeded", "cancelled", "failed"}
         \/ task[w].result = "aborted" /\ task[w].number > MaxAttempts

\* Whatever a working worker does to the rows, its job was there before.
LEMMA HadRow ==
  ASSUME TypeOK, CancelInv, [Next]_vars, NEW w \in Workers, pc[w] \in Working,
         NEW j \in JobIds, task[w].job = j, Exists(j)'
  PROVE  Exists(j) /\ DOMAIN attempts[j] \subseteq DOMAIN attempts'[j]
<1>1. jobs[j].status # "none"
  BY DEF CancelInv, RowUsed
<1> QED
  BY <1>1, RowKept

\* While its job is there, a worker's statements on it are not refused.
LEMMA NotRefused ==
  ASSUME CrashOnly, TypeOK, OneActiveJobPerConnection, CrashInv, NEW w \in Workers,
         AttemptRefused(w) \/ RescheduleRefused(w)
  PROVE  jobs' = jobs /\ ~Exists(task[w].job)
<1> USE Basics
<1>1. CASE AttemptRefused(w)
  <2>1. ~\E v \in Workers \ {w} : pc[v] = "attempt" /\ task[v].job = task[w].job
    BY <1>1 DEF AttemptRefused, CrashInv, NoConcurrentExecution, Working
  <2> QED
    BY <1>1, <2>1 DEF AttemptRefused, CrashOnly, Fault
<1>2. CASE RescheduleRefused(w)
  <2>1. SUFFICES ASSUME Exists(task[w].job) PROVE FALSE
    BY <1>2 DEF RescheduleRefused
  <2>2. jobs[task[w].job].status = "running"
    BY <1>2, <2>1 DEF RescheduleRefused, CrashInv, JobIsHeld, Working, Exists
  <2>3. task[w].job \in JobIds
    BY <1>2 DEF RescheduleRefused, Working
  <2>4. IndexAllows(task[w].job)
    BY <2>2, <2>3 DEF OneActiveJobPerConnection, IndexAllows, Active
  <2> QED
    BY <1>2, <2>1, <2>4 DEF RescheduleRefused, CrashOnly, Fault
<1> QED
  BY <1>1, <1>2

LEMMA DoneStep ==
  ASSUME CrashOnly, TypeOK, OneActiveJobPerConnection, CrashInv, CancelInv, OwnerInv,
         DoneInv, [Next]_vars, NEW w \in Workers, NEW j \in JobIds,
         pc'[w] \in {"record", "settle"}, task'[w].job = j, Exists(j)'
  PROVE  /\ task'[w].number \in DOMAIN attempts'[j]
         /\ \/ task'[w].result \in {"succeeded", "cancelled", "failed"}
            \/ task'[w].result = "aborted" /\ task'[w].number > MaxAttempts
<1> USE Basics DEF Goto
<1>1. CASE /\ pc'[w] = pc[w] /\ task'[w].job = task[w].job
           /\ task'[w].number = task[w].number /\ task'[w].result = task[w].result
  <2>1. Exists(j) /\ DOMAIN attempts[j] \subseteq DOMAIN attempts'[j]
    BY <1>1, HadRow DEF Working
  <2> QED
    BY <1>1, <2>1 DEF DoneInv
<1>2. CASE CreateAttempt(w)
  <2> DEFINE n == Len(attempts[task[w].job]) + 1
  <2>1. /\ pc[w] = "attempt" /\ n > MaxAttempts
        /\ attempts' = [attempts EXCEPT ![task[w].job] = Append(@, "running")]
        /\ task'[w] = [task[w] EXCEPT !.number = n, !.beating = TRUE, !.result = "aborted"]
    BY <1>2 DEF CreateAttempt
  <2> HIDE DEF n
  <2>2. task'[w].job = task[w].job /\ task'[w].number = n /\ task'[w].result = "aborted"
    BY <2>1 DEF Task, Working
  <2>3. n \in DOMAIN Append(attempts[j], "running")
    BY <2>2 DEF n
  <2> QED
    BY <2>1, <2>2, <2>3
<1>3. CASE SyncStep(w)
  <2>1. PICK result \in {"succeeded", "failed", "cancelled"} : SyncEnds(w, result)
    BY <1>3 DEF SyncStep
  <2>2. /\ pc[w] = "sync" /\ attempts' = attempts /\ jobs' = jobs
        /\ task'[w] = [task[w] EXCEPT !.result = result, !.told = FALSE, !.deaf = FALSE]
    BY <2>1 DEF SyncEnds
  <2>3. task'[w].job = task[w].job /\ task'[w].number = task[w].number
        /\ task'[w].result = result
    BY <2>2 DEF Task, Working
  <2> QED
    BY <2>2, <2>3 DEF OwnerInv, Exists
<1>4. CASE RecordAttempt(w)
  <2>1. /\ pc[w] = "record" /\ jobs' = jobs
        /\ task'[w] = [task[w] EXCEPT !.beating = FALSE]
    BY <1>4 DEF RecordAttempt
  <2>2. \/ attempts' = attempts
        \/ \E s : attempts' = [attempts EXCEPT ![task[w].job][task[w].number] = s]
    BY <1>4 DEF RecordAttempt
  <2>3. DOMAIN attempts'[j] = DOMAIN attempts[j]
    BY <2>2
  <2>4. task'[w].job = task[w].job /\ task'[w].number = task[w].number
        /\ task'[w].result = task[w].result
    BY <2>1 DEF Task, Working
  <2> QED
    BY <2>1, <2>3, <2>4 DEF DoneInv, Exists
<1>5. ~AttemptRefused(w) /\ ~RescheduleRefused(w)
  <2>1. SUFFICES ASSUME AttemptRefused(w) \/ RescheduleRefused(w) PROVE FALSE
    OBVIOUS
  <2>2. task[w] \in Task
    BY <2>1 DEF AttemptRefused, RescheduleRefused, Working
  <2>3. \E r : task' = [task EXCEPT ![w].result = r]
    BY <2>1 DEF AttemptRefused, RescheduleRefused
  <2>4. task'[w].job = task[w].job
    BY <2>2, <2>3 DEF Task
  <2> QED
    BY <2>1, <2>4, NotRefused DEF Exists
<1>6. ~Finish(w)
  BY DEF Finish
<1> QED
  BY <1>1, <1>2, <1>3, <1>4, <1>5, <1>6, WorkerMoves

\* Only JobRepo::finish writes the status failed.
LEMMA OnlyFinishFails ==
  ASSUME TypeOK, [Next]_vars, NEW j \in JobIds,
         jobs[j].status # "failed", jobs'[j].status = "failed"
  PROVE  \E w \in Workers : Finish(w)
<1> USE Basics
<1>0. jobs[j] \in Job
  OBVIOUS
<1>1. ~ApiStep
  <2>1. ASSUME NEW k \in JobIds, Create(k) PROVE FALSE
    BY <2>1 DEF Create
  <2>2. ASSUME NEW k \in JobIds, Cancel(k) PROVE FALSE
    <3>1. jobs[k] \in Job /\ (k # j => jobs'[j] = jobs[j])
      BY <2>2 DEF Cancel
    <3>2. jobs'[k].status = IF jobs[k].status = "pending" THEN "cancelled" ELSE jobs[k].status
      BY <2>2, <3>1 DEF Cancel, Job
    <3> QED
      BY <3>1, <3>2
  <2>3. ASSUME NEW c \in Conns, DeleteConnection(c) PROVE FALSE
    BY <2>3 DEF DeleteConnection
  <2> QED
    BY <2>1, <2>2, <2>3 DEF ApiStep
<1>2. ~TimeStep
  BY <1>0 DEF TimeStep, BecomeDue, GoStale, Job
<1>3. ASSUME NEW w \in Workers, WorkerStep(w)
      PROVE  Finish(w)
  <2>1. ~Reap(w)
    <3>1. SUFFICES ASSUME Reap(w) PROVE FALSE
      OBVIOUS
    <3>2. \/ jobs'[j] = jobs[j]
          \/ jobs'[j] = [jobs[j] EXCEPT !.status = "pending", !.due = TRUE]
      BY <3>1 DEF Reap
    <3> QED
      BY <1>0, <3>2 DEF Job
  <2>2. ASSUME NEW k \in JobIds, Claim(w, k) PROVE FALSE
    BY <2>2, <1>0 DEF Claim, Job
  <2>3. ~Reschedule(w)
    <3>1. SUFFICES ASSUME Reschedule(w) PROVE FALSE
      OBVIOUS
    <3>2. \/ jobs'[j] = jobs[j]
          \/ jobs'[j] = [jobs[j] EXCEPT !.status = "pending", !.due = FALSE]
      BY <3>1, Zenon DEF Reschedule
    <3> QED
      BY <1>0, <3>2 DEF Job
  <2>4. jobs' # jobs
    OBVIOUS
  <2> QED
    BY <1>3, <2>1, <2>2, <2>3, <2>4 DEF WorkerStep, LoopStep, ClaimNothing, Wake,
       ExecuteStep, CreateAttempt, AttemptRefused, RecordAttempt, RescheduleRefused,
       Notify, BackgroundStep, Heartbeat, HeartbeatFails, WatchCancel, SyncBlocks, SyncStep,
       SyncEnds, Shutdown, Crash, Restart
<1> QED
  BY <1>1, <1>2, <1>3 DEF Next, vars

\* A job fails when its worker, with no attempt left, gives it up.
LEMMA FailStep ==
  ASSUME CrashOnly, TypeOK, CrashInv, CancelInv, DoneInv, NoPrematureFailure,
         [Next]_vars, NEW j \in JobIds, jobs'[j].status = "failed"
  PROVE  Len(attempts'[j]) >= MaxAttempts
<1> USE Basics
<1>0. /\ jobs[j] \in Job /\ attempts[j] \in Seq(AttemptStatus)
      /\ attempts'[j] \in Seq(AttemptStatus)
  BY StepTypeOK DEF TypeOK
<1>1. CASE jobs[j].status = "failed"
  <2>1. DOMAIN attempts[j] \subseteq DOMAIN attempts'[j]
    BY <1>1, RowKept DEF Exists
  <2>2. Len(attempts[j]) >= MaxAttempts
    BY <1>1 DEF NoPrematureFailure
  <2>3. Len(attempts[j]) \in DOMAIN attempts[j]
    BY <1>0, <2>2, JobQueueAssumption
  <2>4. Len(attempts[j]) \in 1..Len(attempts'[j])
    BY <1>0, <2>1, <2>3
  <2> QED
    BY <1>0, <2>2, <2>4, JobQueueAssumption
<1>2. CASE jobs[j].status # "failed"
  <2>1. PICK w \in Workers : Finish(w)
    BY <1>2, OnlyFinishFails
  <2>2. /\ pc[w] = "settle" /\ ~MayRetry(w) /\ attempts' = attempts
        /\ jobs' # jobs
    BY <1>2, <2>1 DEF Finish
  <2>3. task[w].job = j /\ Exists(j) /\ Verdict(task[w].result) = "failed"
    <3>1. /\ Exists(task[w].job)
          /\ jobs' = [jobs EXCEPT ![task[w].job].status = Verdict(task[w].result)]
      BY <2>1, <2>2 DEF Finish
    <3>2. task[w].job = j
      BY <1>2, <3>1
    <3>3. jobs'[j].status = Verdict(task[w].result)
      BY <1>0, <3>1, <3>2 DEF Job, TypeOK
    <3> QED
      BY <3>1, <3>2, <3>3
  <2>4. /\ task[w].number \in DOMAIN attempts[j] /\ task[w].number \in Nat
        /\ \/ task[w].result \in {"succeeded", "cancelled", "failed"}
           \/ task[w].result = "aborted" /\ task[w].number > MaxAttempts
    BY <2>2, <2>3 DEF DoneInv, Working
  <2>5. task[w].number >= MaxAttempts
    BY <2>2, <2>3, <2>4, JobQueueAssumption DEF MayRetry, Verdict
  <2> QED
    BY <1>0, <2>2, <2>4, <2>5, JobQueueAssumption
<1> QED
  BY <1>1, <1>2

\* lib.rs, "Failures retry with exponential backoff up to max_attempts": a job is
\* given up only after all of them, however often its workers died.
THEOREM AllAttemptsMade ==
  ASSUME CrashOnly
  PROVE  Spec => []NoPrematureFailure
<1>1. Init => OwnerInv /\ DoneInv /\ NoPrematureFailure
  BY DEF Init, OwnerInv, DoneInv, Holds, NoPrematureFailure
<1>2. TypeOK /\ CancelInv /\ OwnerInv /\ [Next]_vars => OwnerInv'
  BY OwnerStep
<1>3. TypeOK /\ OneActiveJobPerConnection /\ CrashInv /\ CancelInv /\ OwnerInv
        /\ DoneInv /\ [Next]_vars => DoneInv'
  <2> SUFFICES ASSUME TypeOK, OneActiveJobPerConnection, CrashInv, CancelInv, OwnerInv,
                      DoneInv, [Next]_vars, NEW w \in Workers, pc'[w] \in {"record", "settle"},
                      Exists(task[w].job)'
               PROVE  /\ task'[w].number \in DOMAIN attempts'[task'[w].job]
                      /\ \/ task'[w].result \in {"succeeded", "cancelled", "failed"}
                         \/ /\ task'[w].result = "aborted"
                            /\ task'[w].number > MaxAttempts
    BY DEF DoneInv
  <2>1. task'[w].job \in JobIds
    BY StepTypeOK DEF TypeOK, Working, Task
  <2> QED
    BY <2>1, DoneStep DEF Exists
<1>4. TypeOK /\ CrashInv /\ CancelInv /\ DoneInv /\ NoPrematureFailure /\ [Next]_vars
        => NoPrematureFailure'
  BY FailStep DEF NoPrematureFailure
<1> QED
  BY <1>1, <1>2, <1>3, <1>4, TypeCorrect, OneActive, CrashInvariant, CancelInvariant,
     PTL DEF Spec
=============================================================================
