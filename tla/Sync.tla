-------------------------------- MODULE Sync --------------------------------
(***************************************************************************)
(* gauss-sync: run_sync pumps a source process into a destination process    *)
(* over bounded OS pipes, collects the state messages the destination sends  *)
(* back, and has each persisted (run_sync_job's on_checkpoint).  A run that   *)
(* failed, was cancelled or crashed is followed by another, which resumes    *)
(* from the persisted state.                                                 *)
(*                                                                          *)
(* The connectors are external: what they do is taken from the protocol and  *)
(* from the reference connector of gauss-mock-connector. Records of a stream *)
(* are numbered; a state message carries the number of the last record       *)
(* before it. Logs, traces and statistics are left out.                      *)
(***************************************************************************)
EXTENDS Naturals, Sequences

CONSTANTS
  Streams,    \* configured streams
  Total,      \* how many records each stream has
  PipeCap,    \* messages an OS pipe holds
  Events,     \* what may happen to a run, a subset of EventKinds
  MaxEvents,  \* bound: how many of them happen
  MaxRuns     \* bound: how many runs there are

\* "cancel"   the cancel flag is raised    "db"    a checkpoint is not persisted
\* "source", "destination"   that process fails
\* "silence"  a process stops reading and writing but keeps its pipes open
\* "linger"   a process closes its stdout but does not exit
\* "crash"    the orchestrator process dies
EventKinds ==
  {"cancel", "db", "source", "destination", "silence", "linger", "crash"}

ASSUME SyncAssumption ==
  /\ Total \in Nat
  /\ PipeCap \in Nat \ {0}
  /\ Events \subseteq EventKinds
  /\ MaxEvents \in Nat
  /\ MaxRuns \in Nat

VARIABLES
  phase,    \* where run_sync is
  result,   \* how the last run ended
  writing,  \* the message being written to the destination's stdin, if any
  queue,    \* dst_rx: acks received and not yet handled
  map,      \* the state map of the run
  saved,    \* connection_states: the persisted cursor of each stream
  src,      \* the source process: its status, what it sent, its last states
  dst,      \* the destination process: status, unflushed records, ack to send
  pipe,     \* the pipes: source stdout, destination stdin, destination stdout
  durable,  \* the records the destination has flushed
  cancel,   \* the cancel watch channel
  events,   \* events so far
  runs      \* runs so far

vars == <<phase, result, writing, queue, map, saved, src, dst, pipe, durable,
          cancel, events, runs>>

\* top .. write: the pump loop; wait: src.wait; drain: the loop after it; done:
\* run_sync has returned.
Phase == {"idle", "top", "acks", "read", "write", "wait", "drain", "done"}
Result == {"none", "succeeded", "failed", "cancelled", "timeout", "crashed"}
ProcessStatus == {"none", "live", "silent", "lingers", "exited", "failed"}

Cursor == [Streams -> 0..Total]
Record == [kind : {"record"}, stream : Streams, n : 1..Total]
State == [kind : {"state"}, stream : Streams, n : 1..Total]
Message == Record \cup State

SourceProcess == [status : ProcessStatus, sent : Cursor, stated : Cursor]
DestinationProcess == [status : ProcessStatus, held : SUBSET Record, acks : Seq(State)]

TypeOK ==
  /\ phase \in Phase /\ result \in Result
  /\ writing \in Seq(Message) /\ Len(writing) = IF phase = "write" THEN 1 ELSE 0
  /\ queue \in Seq(State)
  /\ map \in Cursor /\ saved \in Cursor
  /\ src \in SourceProcess
  /\ dst \in DestinationProcess
  /\ Len(dst.acks) <= 1
  /\ pipe \in [{"src", "dst", "ack"} -> Seq(Message)]
  /\ \A p \in DOMAIN pipe : Len(pipe[p]) <= PipeCap
  /\ pipe["ack"] \in Seq(State)
  /\ durable \subseteq Record
  /\ cancel \in BOOLEAN
  /\ events \in 0..MaxEvents
  /\ runs \in 0..MaxRuns

Empty == [p \in {"src", "dst", "ack"} |-> <<>>]
Start == [s \in Streams |-> 0]

Init ==
  /\ phase = "idle" /\ result = "none"
  /\ writing = <<>> /\ queue = <<>>
  /\ map = Start /\ saved = Start
  /\ src = [status |-> "none", sent |-> Start, stated |-> Start]
  /\ dst = [status |-> "none", held |-> {}, acks |-> <<>>]
  /\ pipe = Empty
  /\ durable = {}
  /\ cancel = FALSE
  /\ events = 0
  /\ runs = 0

-----------------------------------------------------------------------------

Event(kind) ==
  /\ kind \in Events
  /\ events < MaxEvents
  /\ events' = events + 1

Room(p) == Len(pipe[p]) < PipeCap
Put(p, m) == pipe' = [pipe EXCEPT ![p] = Append(@, m)]
Take(p) == pipe' = [pipe EXCEPT ![p] = Tail(@)]

Running == phase \notin {"idle", "done"}
\* run_sync holds the destination's stdin until src.wait has returned.
StdinOpen == phase \in {"top", "acks", "read", "write", "wait"}

\* A process that closed its stdout, by exiting or not.
Closed(p) == p.status \in {"lingers", "exited", "failed"}
Exited(p) == p.status \in {"exited", "failed"}

\* run_sync returns: the source is killed as its handle is dropped, the
\* destination's stdin is closed, dst_rx and what it holds are gone. The
\* destination itself belongs to dst_task, which nobody awaits any more.
Return(res) ==
  /\ phase' = "done"
  /\ result' = res
  /\ src' = [src EXCEPT !.status = IF Exited(src) THEN @ ELSE "failed"]
  /\ writing' = <<>> /\ queue' = <<>>
  /\ UNCHANGED <<map, dst, pipe, durable, cancel, runs>>

-----------------------------------------------------------------------------
(* The connectors. *)

\* The source emits the next record of a stream, or its state so far.
SourceRecord(s) ==
  /\ src.status = "live" /\ Room("src")
  /\ src.sent[s] < Total
  /\ src' = [src EXCEPT !.sent[s] = @ + 1]
  /\ Put("src", [kind |-> "record", stream |-> s, n |-> src.sent[s] + 1])
  /\ UNCHANGED <<phase, result, writing, queue, map, saved, dst, durable, cancel,
                 events, runs>>

SourceState(s) ==
  /\ src.status = "live" /\ Room("src")
  /\ src.stated[s] < src.sent[s]
  /\ src' = [src EXCEPT !.stated[s] = src.sent[s]]
  /\ Put("src", [kind |-> "state", stream |-> s, n |-> src.sent[s]])
  /\ UNCHANGED <<phase, result, writing, queue, map, saved, dst, durable, cancel,
                 events, runs>>

SourceEnds ==
  /\ \/ /\ src.status = "live"
        /\ \A s \in Streams : src.stated[s] = Total
        /\ \/ src' = [src EXCEPT !.status = "exited"] /\ UNCHANGED events
           \/ src' = [src EXCEPT !.status = "lingers"] /\ Event("linger")
     \/ src.status = "live" /\ src' = [src EXCEPT !.status = "failed"] /\ Event("source")
     \/ src.status = "live" /\ src' = [src EXCEPT !.status = "silent"] /\ Event("silence")
  /\ UNCHANGED <<phase, result, writing, queue, map, saved, dst, pipe, durable,
                 cancel, runs>>

\* The destination reads a message: it keeps a record, and flushes everything it
\* keeps before it acknowledges a state.
DestinationReads ==
  /\ dst.status = "live" /\ dst.acks = <<>>
  /\ pipe["dst"] # <<>>
  /\ LET m == Head(pipe["dst"])
     IN IF m.kind = "record"
        THEN dst' = [dst EXCEPT !.held = @ \cup {m}] /\ UNCHANGED durable
        ELSE /\ dst' = [dst EXCEPT !.held = {}, !.acks = <<m>>]
             /\ durable' = durable \cup dst.held
  /\ Take("dst")
  /\ UNCHANGED <<phase, result, writing, queue, map, saved, src, cancel, events, runs>>

DestinationAcks ==
  /\ dst.status = "live" /\ dst.acks # <<>>
  /\ Room("ack")
  /\ Put("ack", Head(dst.acks))
  /\ dst' = [dst EXCEPT !.acks = <<>>]
  /\ UNCHANGED <<phase, result, writing, queue, map, saved, src, durable, cancel,
                 events, runs>>

\* At the end of its input it flushes and exits; before that it may fail.
DestinationEnds ==
  /\ dst.status = "live"
  /\ \/ /\ dst.acks = <<>> /\ pipe["dst"] = <<>> /\ ~StdinOpen
        /\ durable' = durable \cup dst.held
        /\ \/ dst' = [dst EXCEPT !.status = "exited", !.held = {}] /\ UNCHANGED events
           \/ dst' = [dst EXCEPT !.status = "lingers", !.held = {}] /\ Event("linger")
     \/ dst' = [dst EXCEPT !.status = "failed"] /\ Event("destination") /\ UNCHANGED durable
     \/ dst' = [dst EXCEPT !.status = "silent"] /\ Event("silence") /\ UNCHANGED durable
  /\ UNCHANGED <<phase, result, writing, queue, map, saved, src, pipe, cancel, runs>>

-----------------------------------------------------------------------------
(* run_sync. *)

\* A new attempt: the source resumes from the persisted state. What an earlier
\* destination has still to flush is not seen to arrive.
StartRun ==
  /\ ~Running /\ result # "succeeded"
  /\ runs < MaxRuns
  /\ runs' = runs + 1
  /\ phase' = "top" /\ result' = "none"
  /\ writing' = <<>> /\ queue' = <<>>
  /\ map' = saved
  /\ src' = [status |-> "live", sent |-> saved, stated |-> saved]
  /\ dst' = [status |-> "live", held |-> {}, acks |-> <<>>]
  /\ pipe' = Empty
  /\ cancel' = FALSE
  /\ UNCHANGED <<saved, durable, events>>

\* dst_task reads until run_sync has returned and its sends fail.
Drains == Running

Receive ==
  /\ Drains
  /\ pipe["ack"] # <<>>
  /\ queue' = Append(queue, Head(pipe["ack"]))
  /\ Take("ack")
  /\ UNCHANGED <<phase, result, writing, map, saved, src, dst, durable, cancel,
                 events, runs>>

\* Mutant: the destination's exit is taken for the end of its acks.
AcksEndBlind == Exited(dst)

\* dst_rx is closed: dst_task, which owns the sender, ends when the destination
\* has closed its stdout and has exited.
AcksEnd == queue = <<>> /\ pipe["ack"] = <<>> /\ Exited(dst)

\* Mutant: the row is written from this run's acks alone.
MergedFresh(m) == [s \in Streams |-> IF s = m.stream THEN m.n ELSE 0]

\* The per-stream state map with one more acknowledged state.
Merged(m) == [map EXCEPT ![m.stream] = m.n]

\* handle_dest: the map is merged and persisted before the next message.
HandleAck ==
  /\ phase \in {"acks", "drain"}
  /\ phase = "drain" => ~cancel
  /\ queue # <<>>
  /\ \/ /\ map' = Merged(Head(queue))
        /\ saved' = map'
        /\ queue' = Tail(queue)
        /\ UNCHANGED <<phase, result, writing, src, dst, pipe, durable, cancel, events, runs>>
     \/ Event("db") /\ Return("failed") /\ UNCHANGED saved

EnterLoop ==
  /\ phase = "top" /\ ~cancel
  /\ phase' = "acks"
  /\ UNCHANGED <<result, writing, queue, map, saved, src, dst, pipe, durable, cancel,
                 events, runs>>

AcksHandled ==
  /\ phase = "acks" /\ queue = <<>>
  /\ phase' = "read"
  /\ UNCHANGED <<result, writing, queue, map, saved, src, dst, pipe, durable, cancel,
                 events, runs>>

ReadSource ==
  /\ phase = "read" /\ ~cancel
  /\ pipe["src"] # <<>>
  /\ writing' = <<Head(pipe["src"])>>
  /\ Take("src")
  /\ phase' = "write"
  /\ UNCHANGED <<result, queue, map, saved, src, dst, durable, cancel, events, runs>>

\* Mutant: a state is taken for committed once it is written.
ForwardCommitted ==
  /\ phase = "write" /\ ~cancel
  /\ Room("dst") /\ ~Exited(dst)
  /\ Put("dst", Head(writing))
  /\ writing' = <<>>
  /\ map' = IF Head(writing).kind = "state" THEN Merged(Head(writing)) ELSE map
  /\ saved' = map'
  /\ phase' = "top"
  /\ UNCHANGED <<result, queue, src, dst, durable, cancel, events, runs>>

\* Mutant: the write does not wait.
ForwardUnbounded ==
  /\ phase = "write" /\ ~cancel
  /\ ~Exited(dst)
  /\ Put("dst", Head(writing))
  /\ writing' = <<>>
  /\ phase' = "top"
  /\ UNCHANGED <<result, queue, map, saved, src, dst, durable, cancel, events, runs>>

\* The write to the destination's stdin, which waits for room in the pipe.
Forward ==
  /\ phase = "write" /\ ~cancel
  /\ Room("dst") /\ ~Exited(dst)
  /\ Put("dst", Head(writing))
  /\ writing' = <<>>
  /\ phase' = "top"
  /\ UNCHANGED <<result, queue, map, saved, src, dst, durable, cancel, events, runs>>

BrokenPipe ==
  /\ phase = "write" /\ ~cancel
  /\ Exited(dst)
  /\ Return("failed")
  /\ UNCHANGED <<saved, events>>

SourceEof ==
  /\ phase = "read" /\ ~cancel
  /\ pipe["src"] = <<>> /\ Closed(src)
  /\ phase' = "wait"
  /\ UNCHANGED <<result, writing, queue, map, saved, src, dst, pipe, durable, cancel,
                 events, runs>>

\* src.wait, which neither the cancel channel nor a timeout interrupts.
SourceExits ==
  /\ phase = "wait"
  /\ Exited(src)
  /\ IF src.status = "exited"
     THEN /\ phase' = "drain"
          /\ UNCHANGED <<result, writing, queue, map, src, dst, pipe, durable, cancel, runs>>
     ELSE Return("failed")
  /\ UNCHANGED <<saved, events>>

\* The channel is closed, so dst_task.await returns at once.
Drained ==
  /\ phase = "drain" /\ ~cancel
  /\ AcksEnd
  /\ Return(IF dst.status = "exited" THEN "succeeded" ELSE "failed")
  /\ UNCHANGED <<saved, events>>

\* The head of the loop and the three selects look at the channel first; the
\* acks in between are handled whatever it says.
Cancelled ==
  /\ phase \in {"top", "read", "write", "drain"}
  /\ cancel
  /\ Return("cancelled")
  /\ UNCHANGED <<saved, events>>

\* A process that neither moves by itself nor will be moved by the others.
SourceStuck == pipe["src"] = <<>> /\ src.status = "silent"
DestinationStuck ==
  \/ dst.status \in {"silent", "lingers"}
  \/ dst.status = "live" /\ dst.acks # <<>> /\ ~Room("ack") /\ ~Drains

\* Mutant: only reads are bounded.
IdleTimeoutOfReads ==
  /\ \/ phase = "read" /\ SourceStuck
     \/ phase = "drain" /\ queue = <<>> /\ pipe["ack"] = <<>> /\ DestinationStuck
  /\ ~cancel
  /\ Return("timeout")
  /\ UNCHANGED <<saved, events>>

\* The idle timeout, long enough for whatever still moves.
IdleTimeout ==
  /\ \/ phase = "read" /\ SourceStuck
     \/ phase = "write" /\ ~Room("dst") /\ DestinationStuck
     \/ phase = "drain" /\ queue = <<>> /\ pipe["ack"] = <<>> /\ DestinationStuck
  /\ ~cancel
  /\ Return("timeout")
  /\ UNCHANGED <<saved, events>>

Crash ==
  /\ Running
  /\ Event("crash")
  /\ Return("crashed")
  /\ UNCHANGED saved

Cancel ==
  /\ Running /\ ~cancel
  /\ Event("cancel")
  /\ cancel' = TRUE
  /\ UNCHANGED <<phase, result, writing, queue, map, saved, src, dst, pipe, durable, runs>>

-----------------------------------------------------------------------------

Pump ==
  \/ EnterLoop \/ HandleAck \/ AcksHandled \/ ReadSource \/ Forward \/ BrokenPipe
  \/ SourceEof \/ SourceExits \/ Drained
  \/ Cancelled \/ IdleTimeout

Source == SourceEnds \/ \E s \in Streams : SourceRecord(s) \/ SourceState(s)

Destination == DestinationReads \/ DestinationAcks \/ DestinationEnds

Next == StartRun \/ Pump \/ Receive \/ Source \/ Destination \/ Crash \/ Cancel

Spec == Init /\ [][Next]_vars

\* The tokio tasks and the connector processes keep running.
FairSpec ==
  /\ Spec
  /\ WF_vars(Pump) /\ WF_vars(Receive)
  /\ WF_vars(Source) /\ WF_vars(Destination)

-----------------------------------------------------------------------------

\* The persisted state never runs ahead of the data: every record up to a
\* stream's cursor was flushed by a destination, whatever ended the runs.
CheckpointNeverAhead ==
  \A s \in Streams : \A n \in 1..saved[s] :
    [kind |-> "record", stream |-> s, n |-> n] \in durable

\* No run takes back what an earlier one, or another stream, has checkpointed.
CheckpointsNeverRegress ==
  [][\A s \in Streams : saved'[s] >= saved[s]]_vars

\* A run that reports success has delivered every record of the source, over
\* all runs, and has persisted its last state.
SuccessIsComplete ==
  result = "succeeded" =>
    \A s \in Streams :
      /\ saved[s] = Total
      /\ \A n \in 1..Total : [kind |-> "record", stream |-> s, n |-> n] \in durable

\* Seen through the persisted state, the flushed records and the reported success,
\* the runs do what Replication promises: the checkpoint of one stream moves at a
\* time, forward and over flushed records only, although the pump tests none of
\* this and handles whatever acknowledgement arrives; and a success is reported at
\* the end of every stream, after which the attempts of one job are over.
Promise == INSTANCE Replication WITH
  delivered <- {<<r.stream, r.n>> : r \in durable},
  committed <- saved,
  complete  <- result = "succeeded"

ImplementsReplication == Promise!Spec

\* run_sync returns whatever the connectors do, full pipes, silence, a failed write
\* and a destination that does not exit included, and when it is cancelled; save
\* that src.wait waits for a source that has closed its stdout and stays.
RunReturns == Running ~> phase = "done" \/ (phase = "wait" /\ src.status = "lingers")
=============================================================================
