-------------------------- MODULE CheckpointsProofs --------------------------
(***************************************************************************)
(* When workers may crash and nothing else goes wrong, no checkpoint is lost: *)
(* executions of one connection exclude each other (JobQueueProofs), so       *)
(* the map of the one that runs is the row's own content.                     *)
(***************************************************************************)
EXTENDS Checkpoints, JobQueueProofs

\* A worker that goes on syncing goes on with its job.
LEMMA SyncKeepsJob ==
  ASSUME TypeOK, [Next]_vars, NEW w \in Workers, pc[w] = "sync", pc'[w] = "sync"
  PROVE  task'[w].job = task[w].job
<1> USE Basics
<1>1. CASE ApiStep \/ TimeStep
  BY <1>1 DEF ApiStep, TimeStep, Create, Cancel, DeleteConnection, BecomeDue, GoStale
<1>2. ASSUME NEW v \in Workers, WorkerStep(v)
      PROVE  task'[w].job = task[w].job
  <2>1. CASE LoopStep(v) \/ Shutdown(v) \/ Crash(v) \/ Restart(v)
    BY <2>1 DEF LoopStep, Reap, ClaimNothing, Wake, Claim, Shutdown, Crash, Restart,
                Goto, Phase, Working
  <2>2. CASE ExecuteStep(v)
    BY <2>2 DEF ExecuteStep, CreateAttempt, AttemptRefused, RecordAttempt, Reschedule,
                RescheduleRefused, Finish, Notify, Goto
  <2>3. CASE BackgroundStep(v)
    <3>0. task[w] \in Task /\ task \in [Workers -> Task \cup {NoTask}]
      BY DEF TypeOK, Working
    <3>1. CASE Heartbeat(v)
      BY <3>1 DEF Heartbeat
    <3>2. CASE HeartbeatFails(v)
      BY <3>0, <3>2 DEF HeartbeatFails, Task
    <3>3. CASE WatchCancel(v) \/ SyncBlocks(v)
      BY <3>0, <3>3 DEF WatchCancel, SyncBlocks, Task
    <3> QED
      BY <2>3, <3>1, <3>2, <3>3 DEF BackgroundStep
  <2>4. CASE SyncStep(v)
    BY <2>4 DEF SyncStep, SyncEnds, Goto
  <2> QED
    BY <1>2, <2>1, <2>2, <2>3, <2>4 DEF WorkerStep
<1>3. CASE UNCHANGED vars
  BY <1>3 DEF vars
<1> QED
  BY <1>1, <1>2, <1>3 DEF Next

\* Deleted connections do not come back.
LEMMA ConnectionsShrink ==
  ASSUME [Next]_vars
  PROVE  connections' \subseteq connections
<1>1. CASE ApiStep \/ TimeStep
  BY <1>1 DEF ApiStep, TimeStep, Create, Cancel, DeleteConnection, BecomeDue, GoStale
<1>2. ASSUME NEW v \in Workers, WorkerStep(v)
      PROVE  UNCHANGED connections
  BY <1>2 DEF WorkerStep, LoopStep, Reap, ClaimNothing, Wake, Claim, Shutdown, Crash, Restart,
    ExecuteStep, CreateAttempt, AttemptRefused, RecordAttempt, Reschedule,
    RescheduleRefused, Finish, Notify,
    BackgroundStep, Heartbeat, HeartbeatFails, WatchCancel, SyncBlocks, SyncStep, SyncEnds
<1> QED
  BY <1>1, <1>2 DEF Next, vars

-----------------------------------------------------------------------------

\* Every step is a step of the queue or leaves the queue alone.
LEMMA StepOfQueue ==
  ASSUME [StateNext]_allvars
  PROVE  [Next]_vars
BY DEF StateNext, Load, Checkpoint, allvars, vars

LEMMA QueueSpec == StateSpec => Spec
<1>1. StateInit => Init
  BY DEF StateInit
<1> QED
  BY <1>1, StepOfQueue, PTL DEF StateSpec, Spec

StateInv == StateTypeOK /\ MapIsRow /\ NoCheckpointLost

LEMMA InitStateInv == StateInit => StateInv
  BY CheckpointsAssumption
  DEF StateInit, Init, StateInv, StateTypeOK, MapIsRow, NoCheckpointLost, Positions, Start

LEMMA StateInvStep ==
  ASSUME TypeOK, NoConcurrentExecution, StateInv, [StateNext]_allvars
  PROVE  StateInv'
<1> USE CheckpointsAssumption DEF StateInv, Positions, Start
<1>1. CASE Next /\ Follow
  <2>1. StateTypeOK'
    BY <1>1 DEF Follow, StateTypeOK
  <2>2. MapIsRow'
    <3> SUFFICES ASSUME NEW w \in Workers, Syncing(w)', w \in loaded'
                 PROVE  map'[w] = stored'[ConnectionOf(w)']
      BY DEF MapIsRow
    <3>1. w \in loaded /\ pc[w] = "sync" /\ pc'[w] = "sync"
      BY <1>1 DEF Follow, StateTypeOK, Syncing
    <3>2. task'[w].job = task[w].job
      BY <1>1, <3>1, SyncKeepsJob
    <3>3. ConnectionOf(w) \in connections
      BY <1>1, <3>2, ConnectionsShrink DEF Syncing, ConnectionOf
    <3>4. map'[w] = map[w] /\ stored' = stored
      BY <1>1 DEF Follow
    <3> QED
      BY <3>1, <3>2, <3>3, <3>4 DEF MapIsRow, Syncing, ConnectionOf
  <2>3. NoCheckpointLost'
    BY <1>1, ConnectionsShrink DEF Follow, NoCheckpointLost
  <2> QED
    BY <2>1, <2>2, <2>3
<1>2. ASSUME NEW w \in Workers, Load(w)
      PROVE  StateInv'
  <2>0. UNCHANGED vars /\ ConnectionOf(w) \in Conns
    BY <1>2, Basics DEF Load, Syncing, ConnectionOf, TypeOK, Working
  <2>1. StateTypeOK'
    BY <1>2, <2>0 DEF Load, Syncing, StateTypeOK, vars
  <2>2. MapIsRow'
    BY <1>2, <2>0 DEF Load, MapIsRow, StateTypeOK, Syncing, ConnectionOf, vars
  <2>3. NoCheckpointLost'
    BY <1>2, <2>0 DEF Load, NoCheckpointLost, vars
  <2> QED
    BY <2>1, <2>2, <2>3
<1>3. ASSUME NEW w \in Workers, NEW s \in Streams, NEW n \in 1..MaxPosition,
             Checkpoint(w, s, n)
      PROVE  StateInv'
  <2> DEFINE c == ConnectionOf(w)
  <2>0. UNCHANGED vars /\ c \in Conns
    BY <1>3, Basics DEF Checkpoint, Syncing, ConnectionOf, TypeOK, Working
  <2>1. StateTypeOK'
    BY <1>3, <2>0 DEF Checkpoint, StateTypeOK, vars
  <2>2. MapIsRow'
    \* No other worker syncs the connection.
    <3>1. \A v \in Workers \ {w} : Syncing(v) => ConnectionOf(v) # c
      BY <1>3 DEF Checkpoint, Syncing, ConnectionOf, NoConcurrentExecution, Working
    <3>2. map'[w] = stored'[c]
      BY <1>3, <2>0 DEF Checkpoint, StateTypeOK
    <3>3. \A v \in Workers :
            /\ Syncing(v)' <=> Syncing(v)
            /\ ConnectionOf(v)' = ConnectionOf(v)
      BY <2>0 DEF Syncing, ConnectionOf, vars
    <3>4. /\ loaded' = loaded
          /\ \A v \in Workers \ {w} : map'[v] = map[v]
          /\ \A d \in Conns \ {c} : stored'[d] = stored[d]
      BY <1>3 DEF Checkpoint, StateTypeOK
    <3>5. \A v \in Workers : Syncing(v) => ConnectionOf(v) \in Conns
      BY Basics DEF Syncing, ConnectionOf, TypeOK, Working
    <3>6. ASSUME NEW v \in Workers, Syncing(v)', v \in loaded'
          PROVE  map'[v] = stored'[ConnectionOf(v)']
      <4>1. CASE v = w
        BY <3>2, <3>3, <4>1
      <4>2. CASE v # w
        <5>1. map'[v] = map[v] /\ map[v] = stored[ConnectionOf(v)]
          BY <3>3, <3>4, <3>6, <4>2 DEF MapIsRow
        <5>2. stored'[ConnectionOf(v)] = stored[ConnectionOf(v)]
          BY <3>1, <3>3, <3>4, <3>5, <3>6, <4>2
        <5> QED
          BY <3>3, <5>1, <5>2
      <4> QED
        BY <4>1, <4>2
    <3> QED
      BY <3>6 DEF MapIsRow
  <2>3. NoCheckpointLost'
    <3>1. map[w] = stored[c] /\ stored[c] = furthest[c]
      BY <1>3 DEF Checkpoint, MapIsRow, NoCheckpointLost, Syncing
    <3>2. n > furthest[c][s]
      BY <1>3, <3>1 DEF Checkpoint
    <3>3. stored'[c] = [map[w] EXCEPT ![s] = n]
      BY <1>3, <2>0 DEF Checkpoint, StateTypeOK
    <3>4. furthest'[c] = [furthest[c] EXCEPT ![s] = n]
      BY <1>3, <2>0, <3>2 DEF Checkpoint, StateTypeOK
    <3>5. \A d \in Conns \ {c} : stored'[d] = stored[d] /\ furthest'[d] = furthest[d]
      BY <1>3, <2>0 DEF Checkpoint, StateTypeOK
    <3>6. connections' = connections /\ connections \subseteq Conns
      BY <2>0 DEF vars, TypeOK
    <3> QED
      BY <3>1, <3>3, <3>4, <3>5, <3>6 DEF NoCheckpointLost
  <2> QED
    BY <2>1, <2>2, <2>3
<1>4. CASE UNCHANGED allvars
  BY <1>4 DEF allvars, StateTypeOK, MapIsRow, NoCheckpointLost, Syncing, ConnectionOf
<1> QED
  BY <1>1, <1>2, <1>3, <1>4 DEF StateNext

-----------------------------------------------------------------------------

(***************************************************************************)
(* With crashes as the only fault, the row of a connection holds the furthest *)
(* position ever written to it, for any number of connections, jobs, workers, *)
(* retries and streams: run_sync_job never writes an older map over a newer.   *)
(***************************************************************************)
THEOREM CheckpointsKept ==
  ASSUME CrashOnly
  PROVE  StateSpec => []NoCheckpointLost
<1>1. Spec => [](TypeOK /\ NoConcurrentExecution)
  BY TypeCorrect, ExclusiveExecution, PTL
<1>2. StateSpec => []StateInv
  BY <1>1, QueueSpec, InitStateInv, StateInvStep, PTL DEF StateSpec
<1>3. StateInv => NoCheckpointLost
  BY DEF StateInv
<1> QED
  BY <1>2, <1>3, PTL

\* The variables of the state keep their types, with crashes as the only fault.
THEOREM StateTypeCorrect ==
  ASSUME CrashOnly
  PROVE  StateSpec => []StateTypeOK
<1>1. Spec => [](TypeOK /\ NoConcurrentExecution)
  BY TypeCorrect, ExclusiveExecution, PTL
<1>2. StateSpec => []StateInv
  BY <1>1, QueueSpec, InitStateInv, StateInvStep, PTL DEF StateSpec
<1>3. StateInv => StateTypeOK
  BY DEF StateInv
<1> QED
  BY <1>2, <1>3, PTL
=============================================================================
