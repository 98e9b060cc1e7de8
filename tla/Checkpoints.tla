----------------------------- MODULE Checkpoints -----------------------------
(***************************************************************************)
(* The queue's workers and the state of their connections: run_sync_job      *)
(* loads the connection's per-stream state into a map of its own, inserts     *)
(* each checkpoint the destination acknowledges and writes the whole map      *)
(* back.  Two executions that overlap would overwrite each other; whether     *)
(* they can is a matter of JobQueue, which this module extends.               *)
(*                                                                          *)
(* The state of a stream is the position its source resumes from. What        *)
(* run_sync does between two checkpoints is the subject of Sync.              *)
(***************************************************************************)
EXTENDS JobQueue

CONSTANTS
  Streams,     \* streams of the connections' catalogs
  MaxPosition  \* bound: the last position of a stream

ASSUME CheckpointsAssumption == MaxPosition \in Nat

VARIABLES
  stored,  \* connection_states: the position of each stream of each connection
  furthest,   \* the furthest position ever written to it
  loaded,  \* workers whose run_sync_job has read the state
  map      \* the per-stream map of each worker's run_sync_job

state == <<stored, furthest, loaded, map>>
allvars == <<jobs, attempts, connections, pc, task, notices, faults,
             stored, furthest, loaded, map>>

Positions == [Streams -> 0..MaxPosition]
Start == [s \in Streams |-> 0]

StateTypeOK ==
  /\ stored \in [Conns -> Positions] /\ furthest \in [Conns -> Positions]
  /\ map \in [Workers -> Positions]
  /\ loaded \subseteq {w \in Workers : pc[w] = "sync"}

StateInit ==
  /\ Init
  /\ stored = [c \in Conns |-> Start] /\ furthest = [c \in Conns |-> Start]
  /\ loaded = {}
  /\ map = [w \in Workers |-> Start]

-----------------------------------------------------------------------------

ConnectionOf(w) == ConnOf[task[w].job]

Syncing(w) == pc[w] = "sync" /\ ConnectionOf(w) \in connections

\* Mutant: every run starts from the beginning.
LoadNothing(w) ==
  /\ Syncing(w) /\ w \notin loaded
  /\ loaded' = loaded \cup {w}
  /\ map' = [map EXCEPT ![w] = Start]
  /\ UNCHANGED <<vars, stored, furthest>>

\* run_sync_job up to run_sync: ConnectionStateRepo::get.
Load(w) ==
  /\ Syncing(w) /\ w \notin loaded
  /\ loaded' = loaded \cup {w}
  /\ map' = [map EXCEPT ![w] = stored[ConnectionOf(w)]]
  /\ UNCHANGED <<vars, stored, furthest>>

\* on_checkpoint: stream s is acknowledged up to n, which lies after the position
\* its source resumed from; ConnectionStateRepo::set writes the whole map. When
\* that fails, the run fails and its map is gone: SyncEnds.
Checkpoint(w, s, n) ==
  LET c == ConnectionOf(w)
      merged == [map[w] EXCEPT ![s] = n]
  IN /\ Syncing(w) /\ w \in loaded
     /\ n > map[w][s]
     /\ map' = [map EXCEPT ![w] = merged]
     /\ stored' = [stored EXCEPT ![c] = merged]
     /\ furthest' = [furthest EXCEPT ![c][s] = IF n > @ THEN n ELSE @]
     /\ UNCHANGED <<vars, loaded>>

\* Mutant: what was loaded is kept for the worker's next run.
KeepLoaded ==
  /\ loaded' = loaded /\ map' = map
  /\ UNCHANGED <<stored, furthest>>

\* What a step of the queue means for the state: the map is a local variable of
\* the execution, and a run ends well, or by a cancel, only after it has begun.
Follow ==
  /\ \A w \in Workers :
       pc[w] = "sync" /\ pc'[w] = "record" /\ w \notin loaded => task'[w].result = "failed"
  /\ loaded' = {w \in loaded : pc'[w] = "sync"}
  /\ map' = [w \in Workers |-> IF w \in loaded' THEN map[w] ELSE Start]
  /\ UNCHANGED <<stored, furthest>>

StateNext ==
  \/ Next /\ Follow
  \/ \E w \in Workers : Load(w)
  \/ \E w \in Workers, s \in Streams, n \in 1..MaxPosition : Checkpoint(w, s, n)

StateSpec == StateInit /\ [][StateNext]_allvars

-----------------------------------------------------------------------------

\* With crashes as the only faults the row always holds, of every stream, the
\* furthest position ever written to it, through any number of jobs, retries and
\* workers: no checkpoint is overwritten by the older map of another execution.
NoCheckpointLost ==
  \A c \in connections : stored[c] = furthest[c]

\* Why: a map that may be written is the row's own content.
MapIsRow ==
  \A w \in Workers : Syncing(w) /\ w \in loaded => map[w] = stored[ConnectionOf(w)]
=============================================================================
