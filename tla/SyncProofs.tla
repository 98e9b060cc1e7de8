----------------------------- MODULE SyncProofs -----------------------------
(***************************************************************************)
(* Theorems about run_sync and the runs that resume from its checkpoints, for *)
(* any streams, pipe capacity and number of events and runs, any of which may *)
(* happen at any time.                                                       *)
(***************************************************************************)
EXTENDS Sync, SequenceTheorems, TLAPS

-----------------------------------------------------------------------------
(* Types. *)

LEMMA EmptySeqs ==
  /\ <<>> \in Seq(Message) /\ <<>> \in Seq(State) /\ Len(<<>>) = 0
  /\ \A m \in State : <<m>> \in Seq(State) /\ Len(<<m>>) = 1
OBVIOUS

LEMMA DstFields ==
  ASSUME dst \in DestinationProcess, NEW h \in SUBSET Record, NEW a \in Seq(State),
         dst' = [dst EXCEPT !.held = h, !.acks = a]
  PROVE  dst' \in DestinationProcess /\ dst'.acks = a
BY DEF DestinationProcess

LEMMA InitTypeOK == Init => TypeOK
<1>1. Start \in Cursor
  BY SyncAssumption DEF Start, Cursor
<1>2. Empty \in [{"src", "dst", "ack"} -> Seq(Message)]
      /\ \A p \in {"src", "dst", "ack"} : Len(Empty[p]) = 0 /\ Empty[p] = <<>>
  BY DEF Empty
<1> SUFFICES ASSUME Init PROVE TypeOK
  OBVIOUS
<1>4. src \in SourceProcess /\ dst \in DestinationProcess /\ Len(dst.acks) <= 1
  BY <1>1, EmptySeqs DEF Init, ProcessStatus, SourceProcess, DestinationProcess
<1>5. /\ pipe \in [{"src", "dst", "ack"} -> Seq(Message)]
      /\ \A p \in DOMAIN pipe : Len(pipe[p]) <= PipeCap
      /\ pipe["ack"] \in Seq(State)
  BY <1>2, EmptySeqs, SyncAssumption DEF Init
<1>6. /\ phase \in Phase /\ result \in Result
      /\ writing \in Seq(Message) /\ Len(writing) = IF phase = "write" THEN 1 ELSE 0
      /\ queue \in Seq(State)
  BY EmptySeqs DEF Init, Phase, Result
<1>7. /\ map \in Cursor /\ saved \in Cursor /\ durable \subseteq Record
      /\ events \in 0..MaxEvents /\ runs \in 0..MaxRuns
  BY <1>1, SyncAssumption DEF Init
<1>8. cancel \in BOOLEAN
  BY DEF Init
<1> QED
  BY <1>4, <1>5, <1>6, <1>7, <1>8 DEF TypeOK

\* What leaves every variable that run_sync returns with well typed.
LEMMA ReturnTypeOK ==
  ASSUME TypeOK, NEW res \in Result, Return(res), saved' = saved,
         events' \in 0..MaxEvents
  PROVE  TypeOK'
<1>1. src' \in SourceProcess
  BY DEF Return, TypeOK, ProcessStatus, SourceProcess
<1>2. /\ phase' \in Phase /\ queue' \in Seq(State)
      /\ writing' \in Seq(Message) /\ Len(writing') = IF phase' = "write" THEN 1 ELSE 0
  BY EmptySeqs DEF Return, Phase
<1> QED
  BY <1>1, <1>2 DEF Return, TypeOK

LEMMA EventTypeOK ==
  ASSUME TypeOK, NEW kind, Event(kind)
  PROVE  events' \in 0..MaxEvents
BY SyncAssumption DEF TypeOK, Event

\* Putting and taking keep the pipes well typed.
LEMMA PutTypeOK ==
  ASSUME TypeOK, NEW p \in {"src", "dst", "ack"}, NEW m \in Message, Room(p), Put(p, m),
         p = "ack" => m \in State
  PROVE  /\ pipe' \in [{"src", "dst", "ack"} -> Seq(Message)]
         /\ \A q \in DOMAIN pipe' : Len(pipe'[q]) <= PipeCap
         /\ pipe'["ack"] \in Seq(State)
BY SyncAssumption DEF TypeOK, Room, Put

LEMMA TakeTypeOK ==
  ASSUME TypeOK, NEW p \in {"src", "dst", "ack"}, pipe[p] # <<>>, Take(p)
  PROVE  /\ pipe' \in [{"src", "dst", "ack"} -> Seq(Message)]
         /\ \A q \in DOMAIN pipe' : Len(pipe'[q]) <= PipeCap
         /\ pipe'["ack"] \in Seq(State)
         /\ Head(pipe[p]) \in Message
         /\ p = "ack" => Head(pipe[p]) \in State
<1> USE DEF TypeOK
<1>1. /\ Head(pipe[p]) \in Message /\ Tail(pipe[p]) \in Seq(Message)
      /\ Len(Tail(pipe[p])) = Len(pipe[p]) - 1
  BY HeadTailProperties
<1>2. p = "ack" => Head(pipe[p]) \in State /\ Tail(pipe[p]) \in Seq(State)
  BY HeadTailProperties
<1>3. pipe' = [pipe EXCEPT ![p] = Tail(pipe[p])]
  BY DEF Take
<1> QED
  BY <1>1, <1>2, <1>3, SyncAssumption

\* Steps of the connectors.
LEMMA SourceTypeOK ==
  ASSUME TypeOK, Source
  PROVE  TypeOK'
<1>0. src \in SourceProcess
  BY DEF TypeOK
<1>1. CASE SourceEnds
  <2>1. src' \in SourceProcess /\ events' \in 0..MaxEvents
    BY <1>0, <1>1, EventTypeOK DEF SourceEnds, ProcessStatus, TypeOK, SourceProcess
  <2> QED
    BY <1>1, <2>1 DEF SourceEnds, TypeOK
<1>2. ASSUME NEW s \in Streams, SourceRecord(s)
      PROVE  TypeOK'
  <2> DEFINE m == [kind |-> "record", stream |-> s, n |-> src.sent[s] + 1]
  <2>1. src.sent \in Cursor /\ src.sent[s] \in 0..Total /\ src.sent[s] < Total
    BY <1>0, <1>2 DEF SourceRecord, Cursor, SourceProcess
  <2>2. src.sent[s] + 1 \in 1..Total
    BY <2>1, SyncAssumption
  <2>3. m \in Message
    BY <2>2 DEF Message, Record
  <2>4. src' \in SourceProcess
    BY <1>0, <1>2, <2>1, <2>2, SyncAssumption DEF SourceRecord, Cursor, SourceProcess
  <2> QED
    BY <1>2, <2>3, <2>4, PutTypeOK DEF SourceRecord, TypeOK
<1>3. ASSUME NEW s \in Streams, SourceState(s)
      PROVE  TypeOK'
  <2> DEFINE m == [kind |-> "state", stream |-> s, n |-> src.sent[s]]
  <2>1. /\ src.sent \in Cursor /\ src.stated \in Cursor
        /\ src.sent[s] \in 1..Total
    BY <1>0, <1>3, SyncAssumption DEF SourceState, Cursor, SourceProcess
  <2>2. m \in Message
    BY <2>1 DEF Message, State
  <2>3. src' \in SourceProcess
    BY <1>0, <1>3, <2>1, SyncAssumption DEF SourceState, Cursor, SourceProcess
  <2> QED
    BY <1>3, <2>2, <2>3, PutTypeOK DEF SourceState, TypeOK
<1> QED
  BY <1>1, <1>2, <1>3 DEF Source

LEMMA DestinationTypeOK ==
  ASSUME TypeOK, Destination
  PROVE  TypeOK'
<1>0. /\ dst \in DestinationProcess
      /\ Len(dst.acks) <= 1
  BY DEF TypeOK
<1>1. CASE DestinationReads
  <2> DEFINE m == Head(pipe["dst"])
  <2>1. m \in Message /\ pipe["dst"] # <<>> /\ Take("dst")
    BY <1>1, TakeTypeOK DEF DestinationReads
  <2>2. (m.kind = "record" => m \in Record) /\ (m.kind # "record" => m \in State)
    BY <2>1 DEF Message, Record, State
  <2>3. /\ dst' \in DestinationProcess
        /\ Len(dst'.acks) <= 1
        /\ durable' \subseteq Record
    <3>1. CASE m.kind = "record"
      <4>1. dst' = [dst EXCEPT !.held = @ \cup {m}] /\ durable' = durable
        BY <1>1, <3>1 DEF DestinationReads
      <4> QED
        BY <1>0, <2>2, <3>1, <4>1 DEF TypeOK, DestinationProcess
    <3>2. CASE m.kind # "record"
      <4>1. /\ dst' = [dst EXCEPT !.held = {}, !.acks = <<m>>]
            /\ durable' = durable \cup dst.held
        BY <1>1, <3>2 DEF DestinationReads
      <4>2. <<m>> \in Seq(State) /\ Len(<<m>>) = 1
        BY <2>2, <3>2, EmptySeqs
      <4>3. dst' \in DestinationProcess /\ dst'.acks = <<m>>
        BY <1>0, <4>1, <4>2, DstFields
      <4> QED
        BY <1>0, <4>1, <4>2, <4>3 DEF TypeOK, DestinationProcess
    <3> QED
      BY <3>1, <3>2
  <2> QED
    BY <1>1, <2>1, <2>3, TakeTypeOK DEF DestinationReads, TypeOK
<1>2. CASE DestinationAcks
  <2>1. dst.acks \in Seq(State) /\ dst.acks # <<>>
    BY <1>0, <1>2 DEF DestinationAcks, DestinationProcess
  <2>2. Head(dst.acks) \in State /\ Head(dst.acks) \in Message
    BY <2>1, HeadTailProperties DEF Message
  <2>3. /\ dst' \in DestinationProcess
        /\ Len(dst'.acks) = 0
    <3>1. dst' = [dst EXCEPT !.held = dst.held, !.acks = <<>>]
      BY <1>0, <1>2 DEF DestinationAcks, DestinationProcess
    <3> QED
      BY <1>0, <3>1, DstFields, EmptySeqs DEF DestinationProcess
  <2> QED
    BY <1>2, <2>2, <2>3, PutTypeOK DEF DestinationAcks, TypeOK
<1>3. CASE DestinationEnds
  <2>1. /\ dst' \in DestinationProcess
        /\ dst'.acks = dst.acks
    BY <1>0, <1>3 DEF DestinationEnds, ProcessStatus, DestinationProcess
  <2>2. events' \in 0..MaxEvents /\ durable' \subseteq Record
    BY <1>0, <1>3, EventTypeOK DEF DestinationEnds, TypeOK, SourceProcess, DestinationProcess
  <2> QED
    BY <1>0, <1>3, <2>1, <2>2 DEF DestinationEnds, TypeOK
<1> QED
  BY <1>1, <1>2, <1>3 DEF Destination

\* Steps of run_sync.
LEMMA PumpTypeOK ==
  ASSUME TypeOK, StartRun \/ Pump \/ Receive \/ Crash \/ Cancel
  PROVE  TypeOK'
<1>1. CASE StartRun
  <2>1. /\ pipe' \in [{"src", "dst", "ack"} -> Seq(Message)]
        /\ \A p \in {"src", "dst", "ack"} : Len(pipe'[p]) = 0 /\ pipe'[p] = <<>>
    BY <1>1 DEF StartRun, Empty
  <2>2. /\ src' \in SourceProcess
        /\ dst' \in DestinationProcess
        /\ Len(dst'.acks) = 0
    BY <1>1, EmptySeqs DEF StartRun, TypeOK, ProcessStatus, SourceProcess, DestinationProcess
  <2>3. runs' \in 0..MaxRuns
    BY <1>1, SyncAssumption DEF StartRun, TypeOK
  <2>4. /\ \A p \in DOMAIN pipe' : Len(pipe'[p]) <= PipeCap
        /\ pipe'["ack"] \in Seq(State)
    BY <2>1, EmptySeqs, SyncAssumption
  <2>5. /\ phase' \in Phase /\ result' \in Result /\ queue' \in Seq(State)
        /\ writing' \in Seq(Message) /\ Len(writing') = IF phase' = "write" THEN 1 ELSE 0
    BY <1>1, EmptySeqs DEF StartRun, Phase, Result
  <2>6. /\ map' \in Cursor /\ saved' \in Cursor /\ durable' \subseteq Record
        /\ cancel' \in BOOLEAN /\ events' \in 0..MaxEvents
    BY <1>1 DEF StartRun, TypeOK
  <2> QED
    BY <2>1, <2>2, <2>3, <2>4, <2>5, <2>6 DEF TypeOK
<1>2. CASE Receive
  <2>1. Take("ack") /\ pipe["ack"] # <<>>
    BY <1>2 DEF Receive
  <2>2. Append(queue, Head(pipe["ack"])) \in Seq(State)
    BY <2>1, TakeTypeOK, AppendProperties DEF TypeOK
  <2> QED
    BY <1>2, <2>1, <2>2, TakeTypeOK DEF Receive, TypeOK
<1>3. CASE HandleAck
  <2>1. queue \in Seq(State) /\ queue # <<>>
    BY <1>3 DEF HandleAck, TypeOK
  <2>0. Head(queue) \in State /\ Tail(queue) \in Seq(State)
    BY <2>1, HeadTailProperties
  <2>2. Merged(Head(queue)) \in Cursor
    <3>1. Head(queue).stream \in Streams /\ Head(queue).n \in 0..Total
      BY <2>0, SyncAssumption DEF State
    <3> QED
      BY <3>1 DEF Merged, Cursor, TypeOK
  <2>3. CASE Event("db") /\ Return("failed") /\ UNCHANGED saved
    BY <2>3, ReturnTypeOK, EventTypeOK DEF Result
  <2>4. CASE ~(Event("db") /\ Return("failed") /\ UNCHANGED saved)
    BY <1>3, <2>0, <2>2, <2>4 DEF HandleAck, TypeOK
  <2> QED
    BY <2>3, <2>4
<1>4. CASE EnterLoop \/ AcksHandled \/ SourceEof
  BY <1>4 DEF EnterLoop, AcksHandled, SourceEof, TypeOK, Phase
<1>5. CASE ReadSource
  <2>1. pipe["src"] # <<>> /\ Take("src")
    BY <1>5 DEF ReadSource
  <2>2. writing' \in Seq(Message) /\ Len(writing') = 1 /\ phase' = "write"
    BY <1>5, <2>1, TakeTypeOK DEF ReadSource
  <2>3. phase' \in Phase /\ Len(writing') = IF phase' = "write" THEN 1 ELSE 0
    BY <2>2 DEF Phase
  <2> QED
    BY <1>5, <2>1, <2>2, <2>3, TakeTypeOK DEF ReadSource, TypeOK
<1>6. CASE Forward
  <2>0. writing \in Seq(Message) /\ Len(writing) = 1
    BY <1>6 DEF Forward, TypeOK
  <2>1. Head(writing) \in Message
    BY <2>0, HeadTailProperties
  <2> QED
    BY <1>6, <2>1, PutTypeOK DEF Forward, TypeOK, Phase
<1>7. CASE SourceExits /\ src.status = "exited"
  BY <1>7 DEF SourceExits, TypeOK, Phase
<1>8. CASE \/ BrokenPipe \/ Drained \/ Cancelled \/ IdleTimeout
           \/ SourceExits /\ src.status # "exited"
  <2>1. /\ \E res \in Result : Return(res)
        /\ saved' = saved /\ events' = events
    BY <1>8 DEF BrokenPipe, Drained, Cancelled, IdleTimeout, SourceExits, Result
  <2> QED
    BY <2>1, ReturnTypeOK DEF TypeOK
<1>9. CASE Crash
  BY <1>9, ReturnTypeOK, EventTypeOK DEF Crash, Result
<1>10. CASE Cancel
  BY <1>10, EventTypeOK DEF Cancel, TypeOK
<1> QED
  BY <1>1, <1>2, <1>3, <1>4, <1>5, <1>6, <1>7, <1>8, <1>9, <1>10 DEF Pump

LEMMA StepTypeOK == TypeOK /\ [Next]_vars => TypeOK'
<1>1. TypeOK /\ UNCHANGED vars => TypeOK'
  BY DEF vars, TypeOK
<1> QED
  BY <1>1, SourceTypeOK, DestinationTypeOK, PumpTypeOK DEF Next

\* Every state of run_sync and of the connectors is well typed; no pipe holds
\* more than its capacity, and a run holds at most one message in its hands.
THEOREM TypeCorrect == Spec => []TypeOK
BY InitTypeOK, StepTypeOK, PTL DEF Spec

-----------------------------------------------------------------------------
(* What is on its way.  Path is what the source sent and the destination has    *)
(* not read, oldest first; Acks is what the destination acknowledged and        *)
(* handle_dest has not handled.  A state message travels along Path, then Acks.  *)

Path == pipe["dst"] \o writing \o pipe["src"]
Acks == queue \o pipe["ack"] \o dst.acks

Rec(s, n) == [kind |-> "record", stream |-> s, n |-> n]

\* The records of stream s up to number n are all in S.
Upto(s, n, S) == \A k \in 1..n : Rec(s, k) \in S

\* Every state of the list is preceded in it by the records it stands for, save
\* those in S.
Backed(c, S) ==
  \A i \in DOMAIN c : c[i].kind = "state" =>
    Upto(c[i].stream, c[i].n, S \cup {c[k] : k \in 1..(i - 1)})

\* The states of a stream in the list do not go back, and lie between the
\* cursors lo and hi.
Ordered(c, lo, hi) ==
  \A i \in DOMAIN c : c[i].kind = "state" =>
    /\ lo[c[i].stream] <= c[i].n /\ c[i].n <= hi[c[i].stream]
    /\ \A j \in DOMAIN c :
         j > i /\ c[j].kind = "state" /\ c[j].stream = c[i].stream => c[i].n <= c[j].n

\* The newest cursor of each stream is the old one or in the list.
Latest(c, lo, hi) ==
  \A s \in Streams :
    \/ lo[s] = hi[s]
    \/ \E i \in DOMAIN c : c[i] = [kind |-> "state", stream |-> s, n |-> hi[s]]

LEMMA Numbers ==
  /\ \A f \in Cursor : \A s \in Streams : f[s] \in Nat /\ f[s] <= Total
  /\ \A m \in Message : m.stream \in Streams /\ m.n \in Nat
BY SyncAssumption DEF Cursor, Message, Record, State

LEMMA BackedAppend ==
  ASSUME NEW c \in Seq(Message), NEW S, NEW m \in Message, Backed(c, S),
         m.kind = "state" =>
           Upto(m.stream, m.n, S \cup {c[k] : k \in DOMAIN c})
  PROVE  Backed(Append(c, m), S)
<1> DEFINE d == Append(c, m)
<1>1. /\ DOMAIN d = 1..(Len(c) + 1) /\ DOMAIN c = 1..Len(c) /\ Len(c) \in Nat
      /\ \A i \in 1..Len(c) : d[i] = c[i]
      /\ d[Len(c) + 1] = m
  OBVIOUS
<1> HIDE DEF d
<1>2. ASSUME NEW i \in DOMAIN d, d[i].kind = "state", NEW k \in 1..d[i].n
      PROVE  Rec(d[i].stream, k) \in S \cup {d[l] : l \in 1..(i - 1)}
  <2>1. CASE i = Len(c) + 1
    <3>1. Rec(m.stream, k) \in S \cup {c[l] : l \in DOMAIN c}
      BY <1>1, <1>2, <2>1 DEF Upto
    <3> QED
      BY <1>1, <2>1, <3>1
  <2>2. CASE i \in 1..Len(c)
    <3>1. Rec(c[i].stream, k) \in S \cup {c[l] : l \in 1..(i - 1)}
      BY <1>1, <1>2, <2>2 DEF Backed, Upto
    <3>2. \A l \in 1..(i - 1) : d[l] = c[l]
      BY <1>1, <2>2
    <3> QED
      BY <1>1, <2>2, <3>1, <3>2
  <2> QED
    BY <1>1, <2>1, <2>2
<1> QED
  BY <1>2 DEF d, Backed, Upto

\* The oldest message leaves the list; what it held is kept.
LEMMA BackedTail ==
  ASSUME NEW c \in Seq(Message), NEW S, NEW T, c # <<>>, Backed(c, S),
         S \subseteq T, Head(c).kind = "record" => Head(c) \in T
  PROVE  Backed(Tail(c), T)
<1> DEFINE d == Tail(c)
<1>1. /\ DOMAIN d = 1..(Len(c) - 1) /\ DOMAIN c = 1..Len(c) /\ Len(c) \in Nat
      /\ \A i \in DOMAIN d : d[i] = c[i + 1]
      /\ Head(c) = c[1]
  OBVIOUS
<1> HIDE DEF d
<1>2. ASSUME NEW i \in DOMAIN d, d[i].kind = "state", NEW k \in 1..d[i].n
      PROVE  Rec(d[i].stream, k) \in T \cup {d[l] : l \in 1..(i - 1)}
  <2>1. Rec(d[i].stream, k) \in S \cup {c[l] : l \in 1..i}
    BY <1>1, <1>2 DEF Backed, Upto
  <2>2. ASSUME NEW l \in 1..i, Rec(d[i].stream, k) = c[l]
        PROVE  c[l] \in T \cup {d[n] : n \in 1..(i - 1)}
    <3>1. CASE l = 1
      BY <1>1, <2>2, <3>1 DEF Rec
    <3>2. CASE l # 1
      <4>1. l - 1 \in 1..(i - 1) /\ d[l - 1] = c[l]
        BY <1>1, <3>2
      <4> QED
        BY <4>1
    <3> QED
      BY <3>1, <3>2
  <2> QED
    BY <2>1, <2>2
<1> QED
  BY <1>2 DEF d, Backed, Upto

LEMMA OrderedAppend ==
  ASSUME NEW c \in Seq(Message), NEW m \in Message, NEW lo \in Cursor, NEW hi \in Cursor,
         NEW top \in Cursor, \A s \in Streams : hi[s] <= top[s],
         Ordered(c, lo, hi),
         m.kind = "state" =>
           lo[m.stream] <= m.n /\ m.n = top[m.stream] /\ hi[m.stream] <= m.n
  PROVE  Ordered(Append(c, m), lo, top)
<1> DEFINE d == Append(c, m)
<1>1. /\ DOMAIN d = 1..(Len(c) + 1) /\ DOMAIN c = 1..Len(c) /\ Len(c) \in Nat
      /\ \A i \in 1..Len(c) : d[i] = c[i] /\ c[i] \in Message
      /\ d[Len(c) + 1] = m
  OBVIOUS
<1> HIDE DEF d
<1>2. \A x \in Message : x.stream \in Streams /\ x.n \in Nat
  BY Numbers
<1>3. \A s \in Streams : lo[s] \in Nat /\ hi[s] \in Nat /\ top[s] \in Nat
  BY Numbers
<1>4. ASSUME NEW i \in DOMAIN d, d[i].kind = "state"
      PROVE  /\ lo[d[i].stream] <= d[i].n /\ d[i].n <= top[d[i].stream]
             /\ \A j \in DOMAIN d :
                  j > i /\ d[j].kind = "state" /\ d[j].stream = d[i].stream
                    => d[i].n <= d[j].n
  <2>1. CASE i = Len(c) + 1
    BY <1>1, <1>2, <1>3, <1>4, <2>1
  <2>2. CASE i \in 1..Len(c)
    <3>1. /\ lo[c[i].stream] <= c[i].n /\ c[i].n <= hi[c[i].stream]
          /\ \A j \in DOMAIN c :
               j > i /\ c[j].kind = "state" /\ c[j].stream = c[i].stream => c[i].n <= c[j].n
      BY <1>1, <1>4, <2>2 DEF Ordered
    <3>2. c[i].n <= top[c[i].stream]
      BY <1>1, <1>2, <1>3, <2>2, <3>1
    <3>3. m.kind = "state" /\ m.stream = c[i].stream => c[i].n <= m.n
      BY <1>1, <1>2, <1>3, <2>2, <3>1
    <3> QED
      BY <1>1, <2>2, <3>1, <3>2, <3>3
  <2> QED
    BY <1>1, <2>1, <2>2
<1> QED
  BY <1>4 DEF d, Ordered

\* One message leaves the list, from wherever it is.
LEMMA OrderedDrop ==
  ASSUME NEW c \in Seq(Message), NEW d \in Seq(Message), NEW lo, NEW hi, NEW low,
         NEW k \in 1..Len(c), Len(d) = Len(c) - 1,
         \A i \in 1..Len(d) : d[i] = IF i < k THEN c[i] ELSE c[i + 1],
         Ordered(c, lo, hi),
         \A i \in 1..Len(d) : d[i].kind = "state" => low[d[i].stream] <= d[i].n
  PROVE  Ordered(d, low, hi)
<1>1. DOMAIN c = 1..Len(c) /\ DOMAIN d = 1..Len(d) /\ Len(c) \in Nat /\ Len(d) \in Nat
  OBVIOUS
<1> DEFINE at(i) == IF i < k THEN i ELSE i + 1
<1>2. \A i \in 1..Len(d) : at(i) \in 1..Len(c) /\ d[i] = c[at(i)]
  BY <1>1
<1>3. \A i, j \in 1..Len(d) : j > i => at(j) > at(i)
  BY <1>1
<1> HIDE DEF at
<1>4. ASSUME NEW i \in DOMAIN d, d[i].kind = "state"
      PROVE  /\ low[d[i].stream] <= d[i].n /\ d[i].n <= hi[d[i].stream]
             /\ \A j \in DOMAIN d :
                  j > i /\ d[j].kind = "state" /\ d[j].stream = d[i].stream
                    => d[i].n <= d[j].n
  <2>1. at(i) \in 1..Len(c) /\ d[i] = c[at(i)]
    BY <1>1, <1>2, <1>4
  <2>2. /\ c[at(i)].n <= hi[c[at(i)].stream]
        /\ \A j \in DOMAIN c :
             j > at(i) /\ c[j].kind = "state" /\ c[j].stream = c[at(i)].stream
               => c[at(i)].n <= c[j].n
    BY <1>1, <1>4, <2>1 DEF Ordered
  <2>3. low[d[i].stream] <= d[i].n
    BY <1>1, <1>4
  <2>4. ASSUME NEW j \in DOMAIN d, j > i, d[j].kind = "state", d[j].stream = d[i].stream
        PROVE  d[i].n <= d[j].n
    <3>1. at(j) \in 1..Len(c) /\ d[j] = c[at(j)]
      BY <1>1, <1>2, <2>4
    <3>2. at(j) > at(i)
      BY <1>1, <1>3, <1>4, <2>4
    <3> QED
      BY <1>1, <2>1, <2>2, <2>4, <3>1, <3>2
  <2> QED
    BY <2>1, <2>2, <2>3, <2>4
<1> QED
  BY <1>4 DEF Ordered

-----------------------------------------------------------------------------
(* The inductive invariants. *)

Chain == Acks \o Path

\* What an acknowledged or a persisted cursor stands for has been flushed, and
\* what is on its way stands for what the destination holds or reads before it.
FlushInv ==
  /\ CheckpointNeverAhead
  /\ Running =>
       /\ \A i \in DOMAIN Acks : Upto(Acks[i].stream, Acks[i].n, durable)
       /\ Backed(Path, durable \cup dst.held)
       /\ \A s \in Streams :
            Upto(s, src.sent[s], (durable \cup dst.held) \cup {Path[k] : k \in DOMAIN Path})

\* The states on their way lie between what is persisted and what was sent, in
\* the order they were sent.
OrderInv ==
  /\ map = saved
  /\ Running =>
       /\ \A s \in Streams : saved[s] <= src.stated[s] /\ src.stated[s] <= src.sent[s]
       /\ Ordered(Chain, saved, src.stated)

Ended(p) == p.status \in {"exited", "lingers"}

\* The last state of a stream is persisted or on its way until the destination
\* has acknowledged it; it is the last one of the stream once the source ended.
EndInv ==
  /\ Running => Latest(Chain, saved, src.stated)
  /\ Ended(src) => \A s \in Streams : src.stated[s] = Total
  /\ phase \in {"wait", "drain"} => pipe["src"] = <<>> /\ Closed(src)
  /\ phase = "drain" => src.status = "exited"
  /\ Running /\ Ended(dst) => ~StdinOpen /\ pipe["dst"] = <<>> /\ dst.acks = <<>>
  /\ result = "succeeded" => phase = "done" /\ \A s \in Streams : saved[s] = Total

-----------------------------------------------------------------------------
(* How the messages move. *)

LEMMA Concats ==
  \A a, b \in Seq(Message) : a \o b \in Seq(Message)
BY ConcatProperties

LEMMA AppendLast ==
  \A a, b \in Seq(Message), m \in Message : a \o Append(b, m) = Append(a \o b, m)
OBVIOUS

LEMMA AppendThird ==
  ASSUME NEW a \in Seq(Message), NEW b \in Seq(Message), NEW c \in Seq(Message),
         NEW m \in Message
  PROVE  a \o b \o Append(c, m) = Append(a \o b \o c, m)
BY Concats, AppendLast

LEMMA TailFirst ==
  \A a, b \in Seq(Message) : a # <<>> =>
    a \o b # <<>> /\ Head(a \o b) = Head(a) /\ Tail(a \o b) = Tail(a) \o b
OBVIOUS

LEMMA TailThree ==
  \A a, b, c \in Seq(Message) : a # <<>> =>
    /\ a \o b \o c # <<>> /\ Head(a \o b \o c) = Head(a)
    /\ Tail(a \o b \o c) = Tail(a) \o b \o c
BY Concats, TailFirst

LEMMA NothingLeft ==
  \A a \in Seq(Message) : a \o <<>> = a
OBVIOUS

LEMMA NoneLeft == <<>> \o <<>> \o <<>> = <<>>
OBVIOUS

LEMMA OneLeft ==
  ASSUME NEW a \in Seq(Message), Len(a) = 1
  PROVE  Head(a) \in Message /\ a = <<Head(a)>>
<1>1. Head(a) = a[1] /\ Head(a) \in Message
  OBVIOUS
<1>2. /\ <<Head(a)>> \in Seq(Message) /\ Len(<<Head(a)>>) = 1
      /\ <<Head(a)>>[1] = a[1]
  BY <1>1
<1> QED
  BY <1>1, <1>2, SeqEqual

LEMMA HeadMoves ==
  \A a, b \in Seq(Message) : b # <<>> => Append(a, Head(b)) \o Tail(b) = a \o b
OBVIOUS

LEMMA AtMostOne ==
  \A a \in Seq(Message) : a # <<>> /\ Len(a) <= 1 => Len(a) = 1
<1>1. \A a \in Seq(Message) : Len(a) \in Nat /\ (Len(a) = 0 => a = <<>>)
  BY EmptySeq
<1> QED
  BY <1>1, SMTT(30)

LEMMA Singles ==
  \A a \in Seq(Message), m \in Message : Append(a, m) = a \o <<m>>
BY AppendIsConcat

\* The head of the second list moves to the end of the first.
LEMMA MoveFirst ==
  ASSUME NEW a \in Seq(Message), NEW b \in Seq(Message), NEW c \in Seq(Message), b # <<>>
  PROVE  Append(a, Head(b)) \o Tail(b) \o c = a \o b \o c
BY HeadMoves

\* The head of the third list becomes the second, which was empty.
LEMMA MoveSecond ==
  ASSUME NEW a \in Seq(Message), NEW c \in Seq(Message), c # <<>>
  PROVE  a \o <<Head(c)>> \o Tail(c) = a \o <<>> \o c
<1>1. Head(c) \in Message
  OBVIOUS
<1>2. a \o <<Head(c)>> = Append(a, Head(c)) /\ a \o <<>> = a
  BY <1>1, Singles, NothingLeft
<1> QED
  BY <1>2, HeadMoves

\* The second list, of one message, is put at the end of the first.
LEMMA MoveOne ==
  ASSUME NEW a \in Seq(Message), NEW b \in Seq(Message), NEW c \in Seq(Message), Len(b) = 1
  PROVE  Append(a, Head(b)) \o <<>> \o c = a \o b \o c
<1>1. Head(b) \in Message /\ b = <<Head(b)>>
  BY OneLeft
<1>2. Append(a, Head(b)) = a \o b /\ a \o b \in Seq(Message)
  BY <1>1, Singles, Concats
<1> QED
  BY <1>2, NothingLeft

\* The third list, of one message, is put at the end of the second.
LEMMA MoveLast ==
  ASSUME NEW a \in Seq(Message), NEW b \in Seq(Message), NEW c \in Seq(Message), Len(c) = 1
  PROVE  a \o Append(b, Head(c)) \o <<>> = a \o b \o c
<1>1. Head(c) \in Message /\ c = <<Head(c)>>
  BY OneLeft
<1>2. a \o Append(b, Head(c)) = Append(a \o b, Head(c)) /\ a \o b \in Seq(Message)
  BY <1>1, AppendLast, Concats
<1>3. Append(a \o b, Head(c)) = a \o b \o c /\ a \o b \o c \in Seq(Message)
  BY <1>1, <1>2, Singles, Concats
<1> QED
  BY <1>2, <1>3, NothingLeft

LEMMA Lists ==
  ASSUME TypeOK
  PROVE  /\ pipe["dst"] \in Seq(Message) /\ pipe["src"] \in Seq(Message)
         /\ pipe["ack"] \in Seq(Message) /\ writing \in Seq(Message)
         /\ queue \in Seq(Message) /\ dst.acks \in Seq(Message)
         /\ Path \in Seq(Message) /\ Acks \in Seq(Message) /\ Chain \in Seq(Message)
<1>1. /\ pipe["dst"] \in Seq(Message) /\ pipe["src"] \in Seq(Message)
      /\ pipe["ack"] \in Seq(Message) /\ writing \in Seq(Message)
      /\ queue \in Seq(State) /\ dst.acks \in Seq(State)
  BY DEF TypeOK, DestinationProcess
<1>2. \A a \in Seq(State) : a \in Seq(Message)
  BY DEF Message
<1>3. Path \in Seq(Message) /\ Acks \in Seq(Message)
  BY <1>1, <1>2, Concats DEF Path, Acks
<1>4. Chain \in Seq(Message)
  BY <1>3, Concats DEF Chain
<1> QED
  BY <1>1, <1>2, <1>3, <1>4

\* The source puts a message at the end.
LEMMA SentMoves ==
  ASSUME TypeOK, NEW m \in Message, Put("src", m), UNCHANGED <<writing, queue, dst>>
  PROVE  /\ Path' = Append(Path, m) /\ Acks' = Acks
         /\ Chain' = Append(Chain, m)
<1>1. /\ pipe' = [pipe EXCEPT !["src"] = Append(pipe["src"], m)]
      /\ pipe \in [{"src", "dst", "ack"} -> Seq(Message)]
  BY DEF Put, TypeOK
<1>2. /\ pipe'["dst"] = pipe["dst"] /\ pipe'["ack"] = pipe["ack"]
      /\ pipe'["src"] = Append(pipe["src"], m)
  BY <1>1
<1>3. Path' = pipe["dst"] \o writing \o Append(pipe["src"], m)
  BY <1>2 DEF Path
<1>6. pipe["dst"] \o writing \o Append(pipe["src"], m)
        = Append(pipe["dst"] \o writing \o pipe["src"], m)
  <2>1. /\ pipe["dst"] \in Seq(Message) /\ writing \in Seq(Message)
        /\ pipe["src"] \in Seq(Message)
    BY Lists
  <2> QED
    BY <2>1, AppendThird, Zenon
<1>4. Path' = Append(Path, m)
  BY <1>3, <1>6, Zenon DEF Path
<1>5. Acks' = Acks
  BY <1>2 DEF Acks
<1> QED
  BY <1>4, <1>5, Lists, AppendLast DEF Chain

\* run_sync carries a message from one pipe to the other.
LEMMA PumpedMoves ==
  ASSUME TypeOK, ReadSource \/ Forward
  PROVE  Path' = Path /\ Acks' = Acks /\ Chain' = Chain
<1>0. pipe \in [{"src", "dst", "ack"} -> Seq(Message)]
  BY DEF TypeOK
<1>1. CASE ReadSource
  <2>1. pipe' = [pipe EXCEPT !["src"] = Tail(pipe["src"])]
    BY <1>1 DEF ReadSource, Take
  <2>2. /\ pipe'["dst"] = pipe["dst"] /\ pipe'["ack"] = pipe["ack"]
        /\ pipe'["src"] = Tail(pipe["src"])
    BY <1>0, <2>1
  <2>3. writing = <<>> /\ writing' = <<Head(pipe["src"])>> /\ pipe["src"] # <<>>
    BY <1>1, Lists, EmptySeq DEF ReadSource, TypeOK
  <2>4. Path = pipe["dst"] \o <<>> \o pipe["src"]
    BY <2>3 DEF Path
  <2>5. Path' = pipe["dst"] \o <<Head(pipe["src"])>> \o Tail(pipe["src"])
    BY <2>2, <2>3 DEF Path
  <2>6. Path' = Path
    BY <2>3, <2>4, <2>5, Lists, MoveSecond
  <2>7. Acks' = Acks
    BY <1>1, <2>2 DEF ReadSource, Acks
  <2> QED
    BY <2>6, <2>7 DEF Chain
<1>2. CASE Forward
  <2>1. pipe' = [pipe EXCEPT !["dst"] = Append(pipe["dst"], Head(writing))]
    BY <1>2 DEF Forward, Put
  <2>2. /\ pipe'["src"] = pipe["src"] /\ pipe'["ack"] = pipe["ack"]
        /\ pipe'["dst"] = Append(pipe["dst"], Head(writing))
    BY <1>0, <2>1
  <2>3. Len(writing) = 1 /\ writing' = <<>>
    BY <1>2 DEF Forward, TypeOK
  <2>4. Path' = Append(pipe["dst"], Head(writing)) \o <<>> \o pipe["src"]
    BY <2>2, <2>3 DEF Path
  <2>5. Append(pipe["dst"], Head(writing)) \o <<>> \o pipe["src"]
          = pipe["dst"] \o writing \o pipe["src"]
    <3>1. /\ pipe["dst"] \in Seq(Message) /\ writing \in Seq(Message)
          /\ pipe["src"] \in Seq(Message)
      BY Lists
    <3> QED
      BY <2>3, <3>1, MoveOne, Zenon
  <2>6. Path' = Path
    BY <2>4, <2>5, Zenon DEF Path
  <2>7. Acks' = Acks
    BY <1>2, <2>2 DEF Forward, Acks
  <2> QED
    BY <2>6, <2>7 DEF Chain
<1> QED
  BY <1>1, <1>2

\* The destination reads the oldest message on the path, and moves a state among
\* the acks.
LEMMA ReadMoves ==
  ASSUME TypeOK, DestinationReads
  PROVE  /\ Path # <<>> /\ Head(Path) = Head(pipe["dst"]) /\ Head(Path) \in Message
         /\ Path' = Tail(Path)
         /\ Head(Path).kind = "record" => Acks' = Acks
         /\ Head(Path).kind # "record" =>
              Head(Path) \in State /\ Acks' = Append(Acks, Head(Path))
<1> DEFINE m == Head(pipe["dst"])
<1>0. pipe \in [{"src", "dst", "ack"} -> Seq(Message)] /\ dst \in DestinationProcess
  BY DEF TypeOK
<1>1. /\ pipe' = [pipe EXCEPT !["dst"] = Tail(pipe["dst"])] /\ pipe["dst"] # <<>>
      /\ dst.acks = <<>> /\ writing' = writing /\ queue' = queue
  BY DEF DestinationReads, Take
<1>2. /\ pipe'["src"] = pipe["src"] /\ pipe'["ack"] = pipe["ack"]
      /\ pipe'["dst"] = Tail(pipe["dst"])
  BY <1>0, <1>1
<1>3. Path' = Tail(pipe["dst"]) \o writing \o pipe["src"]
  BY <1>1, <1>2 DEF Path
<1>8. /\ pipe["dst"] \o writing \o pipe["src"] # <<>>
      /\ Head(pipe["dst"] \o writing \o pipe["src"]) = m
      /\ Tail(pipe["dst"] \o writing \o pipe["src"])
           = Tail(pipe["dst"]) \o writing \o pipe["src"]
  <2>1. /\ pipe["dst"] \in Seq(Message) /\ writing \in Seq(Message)
        /\ pipe["src"] \in Seq(Message)
    BY Lists
  <2>2. pipe["dst"] # <<>> /\ m = Head(pipe["dst"])
    BY <1>1
  <2> DEFINE a == pipe["dst"]
             c == pipe["src"]
  <2>3. a \in Seq(Message) /\ writing \in Seq(Message) /\ c \in Seq(Message) /\ a # <<>>
    BY <2>1, <2>2
  <2> HIDE DEF a, c
  <2>4. /\ a \o writing \o c # <<>> /\ Head(a \o writing \o c) = Head(a)
        /\ Tail(a \o writing \o c) = Tail(a) \o writing \o c
    BY <2>3, TailThree, ZenonT(30)
  <2> QED
    BY <2>2, <2>4 DEF a, c
<1>4. Path # <<>> /\ Head(Path) = m /\ Path' = Tail(Path)
  BY <1>3, <1>8, Zenon DEF Path
<1>5. m \in Message
  BY <1>1, Lists, HeadTailProperties
<1>6. ASSUME m.kind = "record" PROVE Acks' = Acks
  <2>1. dst'.acks = dst.acks
    BY <1>0, <1>6 DEF DestinationReads, DestinationProcess
  <2> QED
    BY <1>1, <1>2, <2>1 DEF Acks
<1>7. ASSUME m.kind # "record" PROVE m \in State /\ Acks' = Append(Acks, m)
  <2>1. dst'.acks = <<m>>
    BY <1>0, <1>7 DEF DestinationReads, DestinationProcess
  <2>2. m \in State
    BY <1>5, <1>7 DEF Message, Record
  <2>3. /\ Acks = queue \o pipe["ack"] /\ Acks' = (queue \o pipe["ack"]) \o <<m>>
        /\ queue \o pipe["ack"] \in Seq(Message)
    BY <1>1, <1>2, <2>1, Lists, NothingLeft, Concats, SMTT(30) DEF Acks
  <2> QED
    BY <2>2, <2>3, AppendIsConcat
<1> QED
  BY <1>4, <1>5, <1>6, <1>7

\* The destination sends an ack, or dst_task receives one.
LEMMA AckMoves ==
  ASSUME TypeOK, DestinationAcks \/ Receive
  PROVE  Path' = Path /\ Acks' = Acks /\ Chain' = Chain
<1>0. pipe \in [{"src", "dst", "ack"} -> Seq(Message)] /\ dst \in DestinationProcess
  BY DEF TypeOK
<1>1. CASE DestinationAcks
  <2>1. /\ pipe' = [pipe EXCEPT !["ack"] = Append(pipe["ack"], Head(dst.acks))]
        /\ writing' = writing /\ queue' = queue
        /\ dst' = [dst EXCEPT !.acks = <<>>]
    BY <1>1 DEF DestinationAcks, Put
  <2>2. /\ pipe'["src"] = pipe["src"] /\ pipe'["dst"] = pipe["dst"]
        /\ pipe'["ack"] = Append(pipe["ack"], Head(dst.acks))
        /\ dst'.acks = <<>>
    BY <1>0, <2>1 DEF DestinationProcess
  <2>3. Len(dst.acks) = 1
    BY <1>1, Lists, AtMostOne DEF DestinationAcks, TypeOK
  <2>5. Acks' = queue \o Append(pipe["ack"], Head(dst.acks)) \o <<>>
    BY <2>1, <2>2 DEF Acks
  <2>4. queue \o Append(pipe["ack"], Head(dst.acks)) \o <<>>
          = queue \o pipe["ack"] \o dst.acks
    <3>1. /\ queue \in Seq(Message) /\ pipe["ack"] \in Seq(Message)
          /\ dst.acks \in Seq(Message)
      BY Lists
    <3> QED
      BY <2>3, <3>1, MoveLast, Zenon
  <2>6. Acks' = Acks
    BY <2>4, <2>5, Zenon DEF Acks
  <2> QED
    BY <2>1, <2>2, <2>6 DEF Path, Chain
<1>2. CASE Receive
  <2>1. /\ pipe' = [pipe EXCEPT !["ack"] = Tail(pipe["ack"])] /\ pipe["ack"] # <<>>
        /\ writing' = writing /\ queue' = Append(queue, Head(pipe["ack"])) /\ dst' = dst
    BY <1>2 DEF Receive, Take
  <2>2. /\ pipe'["src"] = pipe["src"] /\ pipe'["dst"] = pipe["dst"]
        /\ pipe'["ack"] = Tail(pipe["ack"])
    BY <1>0, <2>1
  <2>3. queue' \o pipe'["ack"] = queue \o pipe["ack"]
    BY <2>1, <2>2, Lists, HeadMoves, ZenonT(30)
  <2> QED
    BY <2>1, <2>2, <2>3 DEF Path, Acks, Chain
<1> QED
  BY <1>1, <1>2

\* handle_dest takes the oldest ack.
LEMMA HandledMoves ==
  ASSUME TypeOK, HandleAck, phase' # "done"
  PROVE  /\ queue # <<>> /\ Head(queue) \in State
         /\ map' = Merged(Head(queue)) /\ saved' = map'
         /\ Acks # <<>> /\ Head(Acks) = Head(queue) /\ Acks' = Tail(Acks)
         /\ Path' = Path
         /\ Chain # <<>> /\ Head(Chain) = Head(queue) /\ Chain' = Tail(Chain)
<1>1. /\ queue # <<>> /\ queue' = Tail(queue)
      /\ map' = Merged(Head(queue)) /\ saved' = map'
      /\ UNCHANGED <<writing, src, dst, pipe>>
  BY DEF HandleAck, Return
<1>2. Head(queue) \in State
  BY <1>1, HeadTailProperties DEF TypeOK
<1>3. Path' = Path
  BY <1>1 DEF Path
<1>4. Acks' = Tail(queue) \o pipe["ack"] \o dst.acks
  BY <1>1 DEF Acks
<1>7. /\ queue \o pipe["ack"] \o dst.acks # <<>>
      /\ Head(queue \o pipe["ack"] \o dst.acks) = Head(queue)
      /\ Tail(queue \o pipe["ack"] \o dst.acks) = Tail(queue) \o pipe["ack"] \o dst.acks
  <2>1. /\ queue \in Seq(Message) /\ pipe["ack"] \in Seq(Message)
        /\ dst.acks \in Seq(Message)
    BY Lists
  <2> DEFINE b == pipe["ack"]
             c == dst.acks
  <2>3. queue \in Seq(Message) /\ b \in Seq(Message) /\ c \in Seq(Message) /\ queue # <<>>
    BY <1>1, <2>1
  <2> HIDE DEF b, c
  <2>4. /\ queue \o b \o c # <<>> /\ Head(queue \o b \o c) = Head(queue)
        /\ Tail(queue \o b \o c) = Tail(queue) \o b \o c
    BY <2>3, TailThree, ZenonT(30)
  <2> QED
    BY <2>4 DEF b, c
<1>5. Acks # <<>> /\ Head(Acks) = Head(queue) /\ Acks' = Tail(Acks)
  BY <1>4, <1>7, Zenon DEF Acks
<1>6. Chain # <<>> /\ Head(Chain) = Head(queue) /\ Chain' = Tail(Chain)
  BY <1>3, <1>5, Lists, TailFirst DEF Chain
<1> QED
  BY <1>1, <1>2, <1>3, <1>5, <1>6

\* Steps that leave what is on its way, what is flushed and what is persisted.
Quiet ==
  /\ Running' => Running
  /\ UNCHANGED <<saved, map, durable>>
  /\ src'.sent = src.sent /\ src'.stated = src.stated /\ dst'.held = dst.held
  /\ Path' = Path /\ Acks' = Acks /\ Chain' = Chain

\* run_sync returns.
Over == ~Running' /\ UNCHANGED <<saved, map, durable>>

\* The destination flushes at the end of its input.
Flushes ==
  /\ Running' => Running
  /\ durable' = durable \cup dst.held /\ dst'.held = {}
  /\ UNCHANGED <<saved, map, src>>
  /\ Path' = Path /\ Acks' = Acks /\ Chain' = Chain

LEMMA StepKinds ==
  ASSUME TypeOK, Next
  PROVE  \/ StartRun \/ Quiet \/ Over \/ Flushes \/ DestinationReads
         \/ HandleAck /\ phase' # "done"
         \/ \E s \in Streams : SourceRecord(s) \/ SourceState(s)
<1>0. src \in SourceProcess /\ dst \in DestinationProcess
  BY DEF TypeOK
<1>1. CASE SourceEnds
  <2>1. /\ UNCHANGED <<phase, saved, map, durable, pipe, writing, queue, dst>>
        /\ src'.sent = src.sent /\ src'.stated = src.stated
    BY <1>0, <1>1 DEF SourceEnds, SourceProcess
  <2> QED
    BY <2>1 DEF Quiet, Path, Acks, Chain, Running
<1>2. CASE DestinationEnds
  <2>1. /\ UNCHANGED <<phase, saved, map, pipe, writing, queue, src>>
        /\ dst'.acks = dst.acks
    BY <1>0, <1>2 DEF DestinationEnds, DestinationProcess
  <2>2. \/ durable' = durable /\ dst'.held = dst.held
        \/ durable' = durable \cup dst.held /\ dst'.held = {}
    BY <1>0, <1>2 DEF DestinationEnds, DestinationProcess
  <2>3. Path' = Path /\ Acks' = Acks /\ Chain' = Chain /\ Running' = Running
    BY <2>1 DEF Path, Acks, Chain, Running
  <2> QED
    BY <2>1, <2>2, <2>3 DEF Quiet, Flushes
<1>3. CASE DestinationAcks \/ Receive
  <2>1. /\ UNCHANGED <<phase, saved, map, durable, src>>
        /\ dst'.held = dst.held
    BY <1>0, <1>3 DEF DestinationAcks, Receive, DestinationProcess
  <2> QED
    BY <1>3, <2>1, AckMoves DEF Quiet, Running
<1>4. CASE ReadSource \/ Forward
  <2>1. /\ UNCHANGED <<saved, map, durable, src, dst>>
        /\ Running
    BY <1>4 DEF ReadSource, Forward, Running
  <2> QED
    BY <1>4, <2>1, PumpedMoves DEF Quiet
<1>5. CASE \/ EnterLoop \/ AcksHandled \/ SourceEof \/ Cancel
           \/ SourceExits /\ src.status = "exited"
  <2>1. /\ UNCHANGED <<saved, map, durable, src, dst, pipe, writing, queue>>
        /\ Running
    BY <1>5 DEF EnterLoop, AcksHandled, SourceEof, Cancel, SourceExits, Running
  <2> QED
    BY <2>1 DEF Quiet, Path, Acks, Chain
<1>6. CASE \/ BrokenPipe \/ Drained \/ Cancelled \/ IdleTimeout \/ Crash
           \/ SourceExits /\ src.status # "exited"
           \/ HandleAck /\ phase' = "done"
  <2>1. phase' = "done" /\ UNCHANGED <<saved, map, durable>>
    BY <1>6 DEF BrokenPipe, Drained, Cancelled, IdleTimeout, Crash, SourceExits,
                HandleAck, Return
  <2> QED
    BY <2>1 DEF Over, Running
<1>7. \/ StartRun \/ SourceEnds \/ DestinationEnds \/ DestinationAcks \/ Receive
      \/ ReadSource \/ Forward \/ EnterLoop \/ AcksHandled \/ SourceEof
      \/ Cancel \/ SourceExits \/ BrokenPipe \/ Drained \/ Cancelled
      \/ IdleTimeout \/ Crash \/ HandleAck \/ DestinationReads
      \/ \E s \in Streams : SourceRecord(s) \/ SourceState(s)
  BY DEF Next, Pump, Source, Destination
<1> QED
  BY <1>1, <1>2, <1>3, <1>4, <1>5, <1>6, <1>7

-----------------------------------------------------------------------------
(* The checkpoints are never ahead. *)

LEMMA UptoGrows ==
  \A s, n, S, T : S \subseteq T /\ Upto(s, n, S) => Upto(s, n, T)
BY DEF Upto

LEMMA BackedGrows ==
  \A c, S, T : S \subseteq T /\ Backed(c, S) => Backed(c, T)
BY UptoGrows DEF Backed, Upto

LEMMA NeverAheadUpto == CheckpointNeverAhead <=> \A s \in Streams : Upto(s, saved[s], durable)
BY DEF CheckpointNeverAhead, Upto, Rec

LEMMA Items ==
  /\ \A c \in Seq(Message), m \in Message :
       {Append(c, m)[k] : k \in DOMAIN Append(c, m)} = {c[k] : k \in DOMAIN c} \cup {m}
  /\ \A c \in Seq(Message) : c # <<>> =>
       {c[k] : k \in DOMAIN c} = {Tail(c)[k] : k \in DOMAIN Tail(c)} \cup {Head(c)}
<1>1. ASSUME NEW c \in Seq(Message), NEW m \in Message
      PROVE  {Append(c, m)[k] : k \in DOMAIN Append(c, m)} = {c[k] : k \in DOMAIN c} \cup {m}
  <2> DEFINE d == Append(c, m)
  <2>1. /\ DOMAIN d = 1..(Len(c) + 1) /\ DOMAIN c = 1..Len(c) /\ Len(c) \in Nat
        /\ \A i \in 1..Len(c) : d[i] = c[i]
        /\ d[Len(c) + 1] = m
    OBVIOUS
  <2>2. \A i \in DOMAIN d : i \in DOMAIN c \/ i = Len(c) + 1
    BY <2>1
  <2>3. \A i \in DOMAIN c : i \in DOMAIN d
    BY <2>1
  <2>4. Len(c) + 1 \in DOMAIN d
    BY <2>1
  <2> HIDE DEF d
  <2>5. {d[k] : k \in DOMAIN d} = {c[k] : k \in DOMAIN c} \cup {m}
    BY <2>1, <2>2, <2>3, <2>4
  <2> QED
    BY <2>5 DEF d
<1>2. ASSUME NEW c \in Seq(Message), c # <<>>
      PROVE  {c[k] : k \in DOMAIN c} = {Tail(c)[k] : k \in DOMAIN Tail(c)} \cup {Head(c)}
  <2> DEFINE d == Tail(c)
  <2>1. /\ DOMAIN d = 1..(Len(c) - 1) /\ DOMAIN c = 1..Len(c) /\ Len(c) \in Nat \ {0}
        /\ \A i \in DOMAIN d : d[i] = c[i + 1]
        /\ Head(c) = c[1]
    BY <1>2
  <2> HIDE DEF d
  <2>2. \A i \in DOMAIN d : i + 1 \in DOMAIN c
    BY <2>1
  <2>3. ASSUME NEW i \in DOMAIN c, i # 1
        PROVE  i - 1 \in DOMAIN d /\ d[i - 1] = c[i]
    <3>1. i - 1 \in DOMAIN d
      BY <2>1, <2>3
    <3>2. d[i - 1] = c[(i - 1) + 1] /\ (i - 1) + 1 = i
      BY <2>1, <3>1
    <3> QED
      BY <3>1, <3>2
  <2>4. 1 \in DOMAIN c
    BY <2>1
  <2>5. {c[k] : k \in DOMAIN c} = {d[k] : k \in DOMAIN d} \cup {Head(c)}
    BY <2>1, <2>2, <2>3, <2>4
  <2> QED
    BY <2>5 DEF d
<1> QED
  BY <1>1, <1>2

LEMMA FlushStep ==
  ASSUME TypeOK, FlushInv, map = saved, Next
  PROVE  FlushInv'
<1>0. /\ src \in SourceProcess /\ dst \in DestinationProcess
      /\ saved \in Cursor
      /\ Path \in Seq(Message) /\ Acks \in Seq(Message)
  BY Lists DEF TypeOK
<1>1. CASE Quiet
  BY <1>1 DEF Quiet, FlushInv, CheckpointNeverAhead
<1>2. CASE Over
  BY <1>2 DEF Over, FlushInv, CheckpointNeverAhead
<1>3. CASE StartRun
  <2>1. /\ Path' = <<>> /\ Acks' = <<>>
        /\ src'.sent = saved /\ UNCHANGED <<saved, durable>>
    BY <1>3, NoneLeft DEF StartRun, Path, Acks, Empty
  <2>2. \A s \in Streams : Upto(s, saved[s], durable)
    BY NeverAheadUpto DEF FlushInv
  <2>3. CheckpointNeverAhead'
    BY <2>1 DEF FlushInv, CheckpointNeverAhead
  <2>4. DOMAIN Path' = {} /\ DOMAIN Acks' = {}
    BY <2>1
  <2>5. /\ \A i \in DOMAIN Acks' : Upto(Acks'[i].stream, Acks'[i].n, durable')
        /\ Backed(Path', durable' \cup dst'.held)
    BY <2>4 DEF Backed
  <2>6. \A s \in Streams :
          Upto(s, src'.sent[s], (durable' \cup dst'.held) \cup {Path'[k] : k \in DOMAIN Path'})
    BY <2>1, <2>2, UptoGrows
  <2> QED
    BY <2>3, <2>5, <2>6 DEF FlushInv
<1>4. CASE DestinationReads
  <2> DEFINE m == Head(Path)
             S == durable \cup dst.held
             T == durable' \cup dst'.held
  <2>1. /\ phase' = phase /\ UNCHANGED <<saved, src>>
        /\ \/ m.kind = "record" /\ durable' = durable /\ dst'.held = dst.held \cup {m}
           \/ m.kind # "record" /\ durable' = durable \cup dst.held /\ dst'.held = {}
    BY <1>0, <1>4, ReadMoves DEF DestinationReads, DestinationProcess
  <2>2. /\ S \subseteq T /\ (m.kind = "record" => m \in T)
        /\ (m.kind # "record" => T = S /\ durable' = S)
        /\ durable \subseteq durable'
    BY <2>1
  <2>3. CheckpointNeverAhead'
    BY <2>1, <2>2 DEF FlushInv, CheckpointNeverAhead
  <2>4. /\ Path # <<>> /\ Path' = Tail(Path) /\ m \in Message
        /\ (m.kind = "record" => Acks' = Acks)
        /\ (m.kind # "record" => m \in State /\ Acks' = Append(Acks, m))
    BY <1>4, ReadMoves
  <2> HIDE DEF S, T, m
  <2>5. ASSUME Running
        PROVE  /\ \A i \in DOMAIN Acks' : Upto(Acks'[i].stream, Acks'[i].n, durable')
               /\ Backed(Path', T)
               /\ \A s \in Streams :
                    Upto(s, src.sent[s], T \cup {Path'[k] : k \in DOMAIN Path'})
    <3>1. /\ \A i \in DOMAIN Acks : Upto(Acks[i].stream, Acks[i].n, durable)
          /\ Backed(Path, S)
          /\ \A s \in Streams : Upto(s, src.sent[s], S \cup {Path[k] : k \in DOMAIN Path})
      BY <2>5 DEF FlushInv, S
    <3>2. \A i \in DOMAIN Acks : Upto(Acks[i].stream, Acks[i].n, durable')
      BY <2>2, <3>1, UptoGrows
    <3>3. Backed(Path', T)
      BY <1>0, <2>2, <2>4, <3>1, BackedTail DEF m
    <3>4. ASSUME m.kind # "record"
          PROVE  Upto(m.stream, m.n, durable')
      <4>1. 1 \in DOMAIN Path /\ Path[1] = m /\ m.kind = "state" /\ 1..(1 - 1) = {}
        BY <1>0, <2>4, <3>4 DEF m, State
      <4>2. {Path[k] : k \in 1..(1 - 1)} = {}
        BY <4>1
      <4>3. Upto(Path[1].stream, Path[1].n, S \cup {Path[k] : k \in 1..(1 - 1)})
        BY <3>1, <4>1 DEF Backed
      <4> QED
        BY <2>2, <3>4, <4>1, <4>2, <4>3
    <3>5. \A i \in DOMAIN Acks' : Upto(Acks'[i].stream, Acks'[i].n, durable')
      <4>1. CASE m.kind = "record"
        BY <2>4, <3>2, <4>1
      <4>2. CASE m.kind # "record"
        <5>1. \A i \in DOMAIN Acks' :
                \/ i \in DOMAIN Acks /\ Acks'[i] = Acks[i]
                \/ Acks'[i] = m
          BY <1>0, <2>4, <4>2, SMTT(30)
        <5> QED
          BY <3>2, <3>4, <4>2, <5>1
      <4> QED
        BY <4>1, <4>2
    <3>6. ASSUME NEW s \in Streams, NEW k \in 1..src.sent[s]
          PROVE  Rec(s, k) \in T \cup {Path'[l] : l \in DOMAIN Path'}
      <4>1. Rec(s, k) \in S \cup {Path[l] : l \in DOMAIN Path}
        BY <3>1 DEF Upto
      <4>2. {Path[l] : l \in DOMAIN Path} = {Path'[l] : l \in DOMAIN Path'} \cup {m}
        <5>1. {Path[l] : l \in DOMAIN Path}
                = {Tail(Path)[l] : l \in DOMAIN Tail(Path)} \cup {Head(Path)}
          BY <1>0, <2>4, Items
        <5> QED
          BY <2>4, <5>1 DEF m
      <4>3. Rec(s, k) = m => m.kind = "record"
        BY DEF Rec
      <4> QED
        BY <2>2, <4>1, <4>2, <4>3
    <3> QED
      BY <3>3, <3>5, <3>6 DEF Upto
  <2>6. Running' = Running
    BY <2>1 DEF Running
  <2> QED
    BY <2>1, <2>3, <2>5, <2>6 DEF FlushInv, T
<1>5. CASE Flushes
  <2> DEFINE S == durable \cup dst.held
  <2>1. /\ durable' \cup dst'.held = S /\ durable \subseteq durable'
        /\ Path' = Path /\ Acks' = Acks /\ src' = src /\ saved' = saved
        /\ Running' => Running
    BY <1>5 DEF Flushes
  <2>2. CheckpointNeverAhead'
    BY <2>1 DEF FlushInv, CheckpointNeverAhead
  <2>3. ASSUME Running
        PROVE  \A i \in DOMAIN Acks : Upto(Acks[i].stream, Acks[i].n, durable')
    BY <2>1, <2>3, UptoGrows DEF FlushInv
  <2> QED
    BY <2>1, <2>2, <2>3 DEF FlushInv
<1>6. ASSUME NEW s \in Streams, SourceRecord(s)
      PROVE  FlushInv'
  <2> DEFINE m == Rec(s, src.sent[s] + 1)
             S == durable \cup dst.held
  <2>0. src.sent \in Cursor /\ src.sent[s] \in Nat /\ src.sent[s] + 1 \in 1..Total
    BY <1>0, <1>6, SyncAssumption DEF SourceRecord, SourceProcess, Cursor
  <2>1. /\ Put("src", m) /\ UNCHANGED <<writing, queue, dst, durable, saved, phase>>
        /\ src'.sent = [src.sent EXCEPT ![s] = src.sent[s] + 1]
    BY <1>0, <1>6 DEF SourceRecord, Rec, SourceProcess
  <2>2. m \in Message /\ m.kind = "record"
    BY <2>0 DEF Message, Record, Rec
  <2>3. Path' = Append(Path, m) /\ Acks' = Acks
    BY <2>1, <2>2, SentMoves
  <2> HIDE DEF m, S
  <2>4. {Path'[k] : k \in DOMAIN Path'} = {Path[k] : k \in DOMAIN Path} \cup {m}
    BY <1>0, <2>2, <2>3, Items
  <2>5. ASSUME Running
        PROVE  /\ Backed(Path', S)
               /\ \A r \in Streams :
                    Upto(r, src'.sent[r], S \cup {Path'[k] : k \in DOMAIN Path'})
    <3>1. /\ Backed(Path, S)
          /\ \A r \in Streams : Upto(r, src.sent[r], S \cup {Path[k] : k \in DOMAIN Path})
      BY <2>5 DEF FlushInv, S
    <3>2. Backed(Path', S)
      BY <1>0, <2>2, <2>3, <3>1, BackedAppend
    <3>3. ASSUME NEW r \in Streams, NEW k \in 1..src'.sent[r]
          PROVE  Rec(r, k) \in S \cup ({Path[l] : l \in DOMAIN Path} \cup {m})
      <4>1. CASE r = s /\ k = src.sent[s] + 1
        BY <4>1 DEF m
      <4>2. CASE ~(r = s /\ k = src.sent[s] + 1)
        <5>1. src'.sent[r] = IF r = s THEN src.sent[s] + 1 ELSE src.sent[r]
          BY <2>0, <2>1 DEF Cursor
        <5>2. k \in 1..src.sent[r]
          BY <2>0, <3>3, <4>2, <5>1
        <5> QED
          BY <3>1, <5>2 DEF Upto
      <4> QED
        BY <4>1, <4>2
    <3> QED
      BY <2>4, <3>2, <3>3 DEF Upto
  <2>6. Running' = Running
    BY <2>1 DEF Running
  <2> QED
    BY <2>1, <2>3, <2>5, <2>6 DEF FlushInv, S, CheckpointNeverAhead
<1>7. ASSUME NEW s \in Streams, SourceState(s)
      PROVE  FlushInv'
  <2> DEFINE m == [kind |-> "state", stream |-> s, n |-> src.sent[s]]
             S == durable \cup dst.held
  <2>0. src.sent \in Cursor /\ src.sent[s] \in 1..Total
    BY <1>0, <1>7, SyncAssumption DEF SourceState, SourceProcess, Cursor
  <2>1. /\ Put("src", m) /\ UNCHANGED <<writing, queue, dst, durable, saved, phase>>
        /\ src'.sent = src.sent
    BY <1>0, <1>7 DEF SourceState, SourceProcess
  <2>2. m \in Message /\ m.stream = s /\ m.n = src.sent[s]
    BY <2>0 DEF Message, State
  <2>3. Path' = Append(Path, m) /\ Acks' = Acks
    BY <2>1, <2>2, SentMoves
  <2> HIDE DEF m, S
  <2>4. {Path'[k] : k \in DOMAIN Path'} = {Path[k] : k \in DOMAIN Path} \cup {m}
    BY <1>0, <2>2, <2>3, Items
  <2>5. ASSUME Running
        PROVE  /\ Backed(Path', S)
               /\ \A r \in Streams :
                    Upto(r, src.sent[r], S \cup {Path'[k] : k \in DOMAIN Path'})
    <3>1. /\ Backed(Path, S)
          /\ \A r \in Streams : Upto(r, src.sent[r], S \cup {Path[k] : k \in DOMAIN Path})
      BY <2>5 DEF FlushInv, S
    <3>2. Upto(m.stream, m.n, S \cup {Path[k] : k \in DOMAIN Path})
      BY <2>2, <3>1
    <3>3. Backed(Path', S)
      BY <1>0, <2>2, <2>3, <3>1, <3>2, BackedAppend
    <3> QED
      BY <2>4, <3>1, <3>3 DEF Upto
  <2>6. Running' = Running
    BY <2>1 DEF Running
  <2> QED
    BY <2>1, <2>3, <2>5, <2>6 DEF FlushInv, S, CheckpointNeverAhead
<1>8. CASE HandleAck /\ phase' # "done"
  <2> DEFINE m == Head(queue)
  <2>1. /\ m \in State /\ saved' = [saved EXCEPT ![m.stream] = m.n]
        /\ Acks # <<>> /\ Head(Acks) = m /\ Acks' = Tail(Acks) /\ Path' = Path
    BY <1>8, HandledMoves DEF Merged
  <2>2. UNCHANGED <<durable, dst, src, phase>> /\ Running
    BY <1>8 DEF HandleAck, Return, Running
  <2> HIDE DEF m
  <2>3. /\ 1 \in DOMAIN Acks /\ Acks[1] = m
        /\ \A i \in DOMAIN Acks' : i + 1 \in DOMAIN Acks /\ Acks'[i] = Acks[i + 1]
    BY <1>0, <2>1
  <2>4. /\ \A i \in DOMAIN Acks : Upto(Acks[i].stream, Acks[i].n, durable)
        /\ \A s \in Streams : Upto(s, saved[s], durable)
    BY <2>2, NeverAheadUpto DEF FlushInv
  <2>5. \A s \in Streams : saved'[s] = IF s = m.stream THEN m.n ELSE saved[s]
    BY <1>0, <2>1 DEF Cursor
  <2>6. \A s \in Streams : Upto(s, saved'[s], durable)
    BY <2>3, <2>4, <2>5
  <2>7. CheckpointNeverAhead'
    BY <2>2, <2>6 DEF CheckpointNeverAhead, Upto, Rec
  <2> QED
    BY <2>1, <2>2, <2>3, <2>4, <2>7 DEF FlushInv
<1> QED
  BY <1>1, <1>2, <1>3, <1>4, <1>5, <1>6, <1>7, <1>8, StepKinds

-----------------------------------------------------------------------------
(* The checkpoints never regress. *)

LEMMA OrderStep ==
  ASSUME TypeOK, OrderInv, Next
  PROVE  /\ OrderInv'
         /\ \A s \in Streams : saved'[s] >= saved[s]
<1>0. /\ src \in SourceProcess /\ dst \in DestinationProcess
      /\ saved \in Cursor /\ src.sent \in Cursor /\ src.stated \in Cursor
      /\ Path \in Seq(Message) /\ Acks \in Seq(Message) /\ Chain \in Seq(Message)
  BY Lists DEF TypeOK, SourceProcess
<1>a. \A s \in Streams : saved[s] \in Nat /\ src.sent[s] \in Nat /\ src.stated[s] \in Nat
  BY <1>0, Numbers
<1>1. CASE Quiet \/ Over \/ Flushes
  <2>1. /\ saved' = saved /\ map' = map
        /\ Running' => /\ Running /\ Chain' = Chain
                       /\ src'.sent = src.sent /\ src'.stated = src.stated
    BY <1>1 DEF Quiet, Over, Flushes
  <2> QED
    BY <1>a, <2>1 DEF OrderInv
<1>2. CASE StartRun
  <2>1. /\ Path' = <<>> /\ Acks' = <<>>
        /\ src'.sent = saved /\ src'.stated = saved /\ saved' = saved /\ map' = saved
    BY <1>2, NoneLeft DEF StartRun, Path, Acks, Empty
  <2>2. Chain' = <<>>
    BY <2>1, NothingLeft, EmptySeqs DEF Chain
  <2>3. Ordered(<<>>, saved, saved)
    BY DEF Ordered
  <2> QED
    BY <1>a, <2>1, <2>2, <2>3 DEF OrderInv
<1>3. CASE DestinationReads
  <2> DEFINE m == Head(Path)
  <2>1. UNCHANGED <<phase, saved, map, src>>
    BY <1>3 DEF DestinationReads
  <2>2. /\ Path # <<>> /\ Path' = Tail(Path) /\ m \in Message
        /\ (m.kind = "record" => Acks' = Acks)
        /\ (m.kind # "record" => Acks' = Append(Acks, m))
    BY <1>3, ReadMoves
  <2>3. ASSUME Running
        PROVE  Ordered(Chain', saved, src.stated)
    <3>1. Ordered(Chain, saved, src.stated)
      BY <2>3 DEF OrderInv
    <3>2. CASE m.kind # "record"
      <4>1. Chain' = Chain
        BY <1>0, <2>2, <3>2, HeadMoves DEF Chain
      <4> QED
        BY <3>1, <4>1
    <3>3. CASE m.kind = "record"
      <4>1. Chain' = Acks \o Tail(Path)
        BY <2>2, <3>3 DEF Chain
      <4>2. /\ Tail(Path) \in Seq(Message) /\ Len(Tail(Path)) = Len(Path) - 1
            /\ \A i \in 1..(Len(Path) - 1) : Tail(Path)[i] = Path[i + 1]
            /\ Len(Path) \in Nat \ {0} /\ Len(Acks) \in Nat
        BY <1>0, <2>2
      <4> DEFINE k == Len(Acks) + 1
      <4>3. /\ Chain' \in Seq(Message) /\ Len(Chain') = Len(Chain) - 1
            /\ k \in 1..Len(Chain) /\ Len(Chain) = Len(Acks) + Len(Path)
        BY <1>0, <4>1, <4>2, ConcatProperties DEF Chain
      <4>4. \A i \in 1..Len(Chain') : Chain'[i] = IF i < k THEN Chain[i] ELSE Chain[i + 1]
        <5>1. \A i \in 1..Len(Chain) :
                Chain[i] = IF i <= Len(Acks) THEN Acks[i] ELSE Path[i - Len(Acks)]
          BY <1>0, <4>3, ConcatProperties DEF Chain
        <5>2. \A i \in 1..Len(Chain') :
                Chain'[i] = IF i <= Len(Acks) THEN Acks[i] ELSE Tail(Path)[i - Len(Acks)]
          BY <1>0, <4>1, <4>2, <4>3, ConcatProperties
        <5>3. ASSUME NEW i \in 1..Len(Chain'), i < k
              PROVE  Chain'[i] = Chain[i]
          BY <4>2, <4>3, <5>1, <5>2, <5>3
        <5>4. ASSUME NEW i \in 1..Len(Chain'), ~(i < k)
              PROVE  Chain'[i] = Chain[i + 1]
          <6>1. i - Len(Acks) \in 1..(Len(Path) - 1)
            BY <4>2, <4>3, <5>4
          <6>2. Chain'[i] = Path[(i - Len(Acks)) + 1]
            BY <4>2, <4>3, <5>2, <5>4, <6>1
          <6>3. i + 1 \in 1..Len(Chain) /\ ~(i + 1 <= Len(Acks))
                /\ (i + 1) - Len(Acks) = (i - Len(Acks)) + 1
            BY <4>2, <4>3, <5>4
          <6> QED
            BY <5>1, <6>2, <6>3
        <5> QED
          BY <5>3, <5>4
      <4> HIDE DEF k
      <4>5. \A i \in 1..Len(Chain') :
              Chain'[i].kind = "state" => saved[Chain'[i].stream] <= Chain'[i].n
        <5>1. \A i \in 1..Len(Chain') : \E j \in DOMAIN Chain : Chain'[i] = Chain[j]
          <6>1. ASSUME NEW i \in 1..Len(Chain')
                PROVE  i \in DOMAIN Chain /\ i + 1 \in DOMAIN Chain
            BY <1>0, <4>3
          <6> QED
            BY <4>4, <6>1
        <5>2. \A j \in DOMAIN Chain :
                Chain[j].kind = "state" => saved[Chain[j].stream] <= Chain[j].n
          BY <3>1 DEF Ordered
        <5> QED
          BY <5>1, <5>2
      <4> QED
        BY <1>0, <3>1, <4>3, <4>4, <4>5, OrderedDrop
    <3> QED
      BY <3>2, <3>3
  <2>4. Running' = Running
    BY <2>1 DEF Running
  <2> QED
    BY <1>a, <2>1, <2>3, <2>4 DEF OrderInv
<1>4. ASSUME NEW s \in Streams, SourceRecord(s)
      PROVE  OrderInv' /\ saved' = saved
  <2> DEFINE m == Rec(s, src.sent[s] + 1)
  <2>0. src.sent[s] + 1 \in 1..Total
    BY <1>0, <1>a, <1>4, SyncAssumption DEF SourceRecord
  <2>1. /\ Put("src", m) /\ UNCHANGED <<writing, queue, dst, saved, map, phase>>
        /\ src'.sent = [src.sent EXCEPT ![s] = src.sent[s] + 1] /\ src'.stated = src.stated
    BY <1>0, <1>4 DEF SourceRecord, Rec, SourceProcess
  <2>2. m \in Message /\ m.kind = "record"
    BY <2>0 DEF Message, Record, Rec
  <2>3. Chain' = Append(Chain, m)
    BY <2>1, <2>2, SentMoves
  <2> HIDE DEF m
  <2>4. ASSUME Running
        PROVE  Ordered(Chain', saved, src.stated)
    <3>1. \A r \in Streams : src.stated[r] <= src.stated[r]
      BY <1>a
    <3>2. Ordered(Chain, saved, src.stated)
      BY <2>4 DEF OrderInv
    <3>3. m.kind # "state"
      BY <2>2
    <3> QED
      BY <1>0, <2>2, <2>3, <3>1, <3>2, <3>3, OrderedAppend
  <2>5. ASSUME Running, NEW r \in Streams
        PROVE  saved[r] <= src.stated[r] /\ src.stated[r] <= src'.sent[r]
    <3>1. src'.sent[r] = IF r = s THEN src.sent[s] + 1 ELSE src.sent[r]
      BY <1>0, <2>1 DEF Cursor
    <3> QED
      BY <1>a, <2>5, <3>1 DEF OrderInv
  <2>6. Running' = Running
    BY <2>1 DEF Running
  <2> QED
    BY <2>1, <2>4, <2>5, <2>6 DEF OrderInv
<1>5. ASSUME NEW s \in Streams, SourceState(s)
      PROVE  OrderInv' /\ saved' = saved
  <2> DEFINE m == [kind |-> "state", stream |-> s, n |-> src.sent[s]]
             top == [src.stated EXCEPT ![s] = src.sent[s]]
  <2>0. src.sent[s] \in 1..Total /\ src.stated[s] < src.sent[s]
    BY <1>0, <1>a, <1>5, SyncAssumption DEF SourceState, Cursor
  <2>1. /\ Put("src", m) /\ UNCHANGED <<writing, queue, dst, saved, map, phase>>
        /\ src'.sent = src.sent /\ src'.stated = top
    BY <1>0, <1>5 DEF SourceState, SourceProcess
  <2>2. m \in Message /\ m.stream = s /\ m.n = src.sent[s]
    BY <2>0 DEF Message, State
  <2>3. Chain' = Append(Chain, m)
    BY <2>1, <2>2, SentMoves
  <2>4. /\ top \in Cursor
        /\ \A r \in Streams : top[r] = IF r = s THEN src.sent[s] ELSE src.stated[r]
    BY <1>0 DEF Cursor
  <2> HIDE DEF m, top
  <2>5. ASSUME NEW r \in Streams
        PROVE  src.stated[r] <= top[r]
    <3>1. CASE r = s
      BY <1>a, <2>0, <2>4, <3>1
    <3>2. CASE r # s
      BY <1>a, <2>4, <3>2
    <3> QED
      BY <3>1, <3>2
  <2>6. ASSUME Running
        PROVE  Ordered(Chain', saved, top)
    <3>1. saved[s] <= src.sent[s]
      BY <1>a, <2>6 DEF OrderInv
    <3>2. /\ saved[m.stream] <= m.n /\ m.n = top[m.stream] /\ src.stated[m.stream] <= m.n
      BY <1>a, <2>0, <2>2, <2>4, <3>1
    <3>3. Ordered(Chain, saved, src.stated)
      BY <2>6 DEF OrderInv
    <3> QED
      BY <1>0, <2>2, <2>3, <2>4, <2>5, <3>2, <3>3, OrderedAppend
  <2>7. ASSUME Running, NEW r \in Streams
        PROVE  saved[r] <= top[r] /\ top[r] <= src.sent[r]
    BY <1>a, <2>0, <2>4, <2>7 DEF OrderInv
  <2>8. Running' = Running
    BY <2>1 DEF Running
  <2> QED
    BY <2>1, <2>6, <2>7, <2>8 DEF OrderInv
<1>6. CASE HandleAck /\ phase' # "done"
  <2> DEFINE m == Head(queue)
  <2>1. /\ m \in State /\ map' = saved' /\ saved' = [saved EXCEPT ![m.stream] = m.n]
        /\ Chain # <<>> /\ Head(Chain) = m /\ Chain' = Tail(Chain)
    BY <1>6, HandledMoves DEF Merged, OrderInv
  <2>2. UNCHANGED <<src, phase>> /\ Running
    BY <1>6 DEF HandleAck, Return, Running
  <2> HIDE DEF m
  <2>3. /\ 1 \in DOMAIN Chain /\ Chain[1] = m /\ Len(Chain) \in Nat \ {0}
        /\ DOMAIN Chain = 1..Len(Chain)
        /\ Chain' \in Seq(Message) /\ Len(Chain') = Len(Chain) - 1
        /\ \A i \in 1..Len(Chain') : Chain'[i] = Chain[i + 1]
    BY <1>0, <2>1
  <2>4. m.kind = "state" /\ m.stream \in Streams /\ m.n \in Nat
    BY <2>1, SyncAssumption DEF State
  <2>5. /\ saved[m.stream] <= m.n /\ m.n <= src.stated[m.stream]
        /\ \A j \in DOMAIN Chain :
             j > 1 /\ Chain[j].kind = "state" /\ Chain[j].stream = m.stream => m.n <= Chain[j].n
    BY <2>2, <2>3, <2>4 DEF OrderInv, Ordered
  <2>6. \A s \in Streams : saved'[s] = IF s = m.stream THEN m.n ELSE saved[s]
    BY <1>0, <2>1 DEF Cursor
  <2>7. \A s \in Streams : saved'[s] >= saved[s] /\ saved'[s] <= src.stated[s]
    BY <1>a, <2>2, <2>4, <2>5, <2>6 DEF OrderInv
  <2>8. ASSUME NEW i \in 1..Len(Chain'), Chain'[i].kind = "state"
        PROVE  saved'[Chain'[i].stream] <= Chain'[i].n
    <3>1. i + 1 \in DOMAIN Chain /\ i + 1 > 1 /\ Chain'[i] = Chain[i + 1]
      BY <2>3
    <3>2. Chain[i + 1] \in Message /\ Chain[i + 1].stream \in Streams
      BY <1>0, <3>1, Numbers
    <3>3. saved[Chain[i + 1].stream] <= Chain[i + 1].n
      BY <2>2, <2>8, <3>1 DEF OrderInv, Ordered
    <3> QED
      BY <2>5, <2>6, <2>8, <3>1, <3>2, <3>3
  <2>9. Ordered(Chain', saved', src.stated)
    <3>1. \A i \in 1..Len(Chain') : Chain'[i] = IF i < 1 THEN Chain[i] ELSE Chain[i + 1]
      BY <2>3
    <3>2. Ordered(Chain, saved, src.stated)
      BY <2>2 DEF OrderInv
    <3>3. 1 \in 1..Len(Chain)
      BY <2>3
    <3> QED
      BY <1>0, <2>3, <2>8, <3>1, <3>2, <3>3, OrderedDrop
  <2> QED
    BY <2>1, <2>2, <2>7, <2>9 DEF OrderInv
<1> QED
  BY <1>a, <1>1, <1>2, <1>3, <1>4, <1>5, <1>6, StepKinds

-----------------------------------------------------------------------------
(* A run that succeeds is complete. *)

\* What a list says of the newest cursors, when it grows and when it shrinks.
LEMMA LatestKept ==
  ASSUME NEW c \in Seq(Message), NEW d \in Seq(Message), NEW lo, NEW hi, Latest(c, lo, hi),
         \A i \in DOMAIN c : c[i].kind = "state" => \E j \in DOMAIN d : d[j] = c[i]
  PROVE  Latest(d, lo, hi)
<1> SUFFICES ASSUME NEW s \in Streams, lo[s] # hi[s]
             PROVE  \E j \in DOMAIN d : d[j] = [kind |-> "state", stream |-> s, n |-> hi[s]]
  BY DEF Latest
<1>1. PICK i \in DOMAIN c : c[i] = [kind |-> "state", stream |-> s, n |-> hi[s]]
  BY DEF Latest
<1> QED
  BY <1>1

LEMMA LatestStep ==
  ASSUME TypeOK, OrderInv, Running => Latest(Chain, saved, src.stated), Next, Running'
  PROVE  Latest(Chain', saved', src'.stated)
<1>0. /\ src \in SourceProcess /\ dst \in DestinationProcess
      /\ saved \in Cursor /\ src.sent \in Cursor /\ src.stated \in Cursor
      /\ Path \in Seq(Message) /\ Acks \in Seq(Message) /\ Chain \in Seq(Message)
  BY Lists DEF TypeOK, SourceProcess
<1>a. \A s \in Streams : saved[s] \in Nat /\ src.sent[s] \in Nat /\ src.stated[s] \in Nat
  BY <1>0, Numbers
<1>1. CASE Quiet \/ Over \/ Flushes
  <2>1. /\ saved' = saved /\ Running /\ Chain' = Chain /\ src'.stated = src.stated
    BY <1>1 DEF Quiet, Over, Flushes
  <2> QED
    BY <2>1
<1>2. CASE StartRun
  BY <1>2 DEF StartRun, Latest
<1>3. CASE DestinationReads
  <2> DEFINE m == Head(Path)
  <2>1. UNCHANGED <<phase, saved, src>>
    BY <1>3 DEF DestinationReads
  <2>2. /\ Path # <<>> /\ Path' = Tail(Path) /\ m \in Message
        /\ (m.kind = "record" => Acks' = Acks)
        /\ (m.kind # "record" => Acks' = Append(Acks, m))
    BY <1>3, ReadMoves
  <2>3. Latest(Chain, saved, src.stated)
    BY <2>1 DEF Running
  <2>4. CASE m.kind # "record"
    <3>1. Chain' = Chain
      BY <1>0, <2>2, <2>4, HeadMoves DEF Chain
    <3> QED
      BY <2>1, <2>3, <3>1
  <2>5. CASE m.kind = "record"
    <3>1. Chain' = Acks \o Tail(Path)
      BY <2>2, <2>5 DEF Chain
    <3>2. /\ Tail(Path) \in Seq(Message) /\ Len(Tail(Path)) = Len(Path) - 1
          /\ \A i \in 1..(Len(Path) - 1) : Tail(Path)[i] = Path[i + 1]
          /\ Len(Path) \in Nat \ {0} /\ Len(Acks) \in Nat /\ Path[1] = m
      BY <1>0, <2>2
    <3>3. /\ Chain' \in Seq(Message) /\ Len(Chain') = Len(Acks) + (Len(Path) - 1)
          /\ Len(Chain) = Len(Acks) + Len(Path)
          /\ DOMAIN Chain = 1..Len(Chain) /\ DOMAIN Chain' = 1..Len(Chain')
      BY <1>0, <3>1, <3>2, ConcatProperties DEF Chain
    <3>4. \A i \in 1..Len(Chain) :
            Chain[i] = IF i <= Len(Acks) THEN Acks[i] ELSE Path[i - Len(Acks)]
      BY <1>0, <3>3, ConcatProperties DEF Chain
    <3>5. \A i \in 1..Len(Chain') :
            Chain'[i] = IF i <= Len(Acks) THEN Acks[i] ELSE Tail(Path)[i - Len(Acks)]
      BY <1>0, <3>1, <3>2, <3>3, ConcatProperties
    <3>6. ASSUME NEW i \in DOMAIN Chain, Chain[i].kind = "state"
          PROVE  \E j \in DOMAIN Chain' : Chain'[j] = Chain[i]
      <4>1. CASE i <= Len(Acks)
        <5>1. i \in DOMAIN Chain'
          BY <3>2, <3>3, <4>1
        <5> QED
          BY <3>3, <3>4, <3>5, <4>1, <5>1
      <4>2. CASE i = Len(Acks) + 1
        BY <2>5, <3>2, <3>3, <3>4, <3>6, <4>2
      <4>3. CASE i > Len(Acks) + 1
        <5>1. i - 1 \in DOMAIN Chain' /\ ~(i - 1 <= Len(Acks))
              /\ (i - 1) - Len(Acks) \in 1..(Len(Path) - 1)
              /\ ((i - 1) - Len(Acks)) + 1 = i - Len(Acks)
          BY <3>2, <3>3, <4>3
        <5>2. Chain'[i - 1] = Path[i - Len(Acks)]
          BY <3>2, <3>3, <3>5, <5>1
        <5>3. Chain[i] = Path[i - Len(Acks)]
          BY <3>2, <3>3, <3>4, <4>3
        <5> QED
          BY <5>1, <5>2, <5>3
      <4> QED
        BY <3>2, <3>3, <4>1, <4>2, <4>3
    <3> QED
      BY <1>0, <2>1, <2>3, <3>3, <3>6, LatestKept
  <2> QED
    BY <2>4, <2>5
<1>4. ASSUME NEW s \in Streams, SourceRecord(s)
      PROVE  Latest(Chain', saved', src'.stated)
  <2> DEFINE m == Rec(s, src.sent[s] + 1)
  <2>0. src.sent[s] + 1 \in 1..Total
    BY <1>0, <1>a, <1>4, SyncAssumption DEF SourceRecord
  <2>1. /\ Put("src", m) /\ UNCHANGED <<writing, queue, dst, saved, map, phase>>
        /\ src'.stated = src.stated
    BY <1>0, <1>4 DEF SourceRecord, Rec, SourceProcess
  <2>2. m \in Message
    BY <2>0 DEF Message, Record, Rec
  <2>3. Chain' = Append(Chain, m)
    BY <2>1, <2>2, SentMoves
  <2> HIDE DEF m
  <2>4. Latest(Chain, saved, src.stated)
    BY <2>1 DEF Running
  <2>5. /\ Chain' \in Seq(Message)
        /\ \A i \in DOMAIN Chain : i \in DOMAIN Chain' /\ Chain'[i] = Chain[i]
    BY <1>0, <2>2, <2>3
  <2> QED
    BY <1>0, <2>1, <2>4, <2>5, LatestKept
<1>5. ASSUME NEW s \in Streams, SourceState(s)
      PROVE  Latest(Chain', saved', src'.stated)
  <2> DEFINE m == [kind |-> "state", stream |-> s, n |-> src.sent[s]]
  <2>0. src.sent[s] \in 1..Total
    BY <1>0, <1>a, <1>5, SyncAssumption DEF SourceState, Cursor
  <2>1. /\ Put("src", m) /\ UNCHANGED <<writing, queue, dst, saved, map, phase>>
        /\ src'.stated = [src.stated EXCEPT ![s] = src.sent[s]]
    BY <1>0, <1>5 DEF SourceState, SourceProcess
  <2>2. m \in Message
    BY <2>0 DEF Message, State
  <2>3. Chain' = Append(Chain, m)
    BY <2>1, <2>2, SentMoves
  <2>4. Latest(Chain, saved, src.stated)
    BY <2>1 DEF Running
  <2>6. \A r \in Streams : src'.stated[r] = IF r = s THEN src.sent[s] ELSE src.stated[r]
    BY <1>0, <2>1 DEF Cursor
  <2> HIDE DEF m
  <2>5. /\ Chain' \in Seq(Message)
        /\ \A i \in DOMAIN Chain : i \in DOMAIN Chain' /\ Chain'[i] = Chain[i]
        /\ Len(Chain) + 1 \in DOMAIN Chain' /\ Chain'[Len(Chain) + 1] = m
    BY <1>0, <2>2, <2>3
  <2>7. Latest(Chain', saved, src.stated)
    BY <1>0, <2>4, <2>5, LatestKept
  <2>8. ASSUME NEW r \in Streams
        PROVE  \/ saved[r] = src'.stated[r]
               \/ \E i \in DOMAIN Chain' :
                    Chain'[i] = [kind |-> "state", stream |-> r, n |-> src'.stated[r]]
    <3>1. CASE r = s
      BY <2>5, <2>6, <3>1 DEF m
    <3>2. CASE r # s
      BY <2>6, <2>7, <3>2 DEF Latest
    <3> QED
      BY <3>1, <3>2
  <2> QED
    BY <2>1, <2>8 DEF Latest
<1>6. CASE HandleAck /\ phase' # "done"
  <2> DEFINE m == Head(queue)
  <2>1. /\ m \in State /\ map' = saved' /\ saved' = [saved EXCEPT ![m.stream] = m.n]
        /\ Chain # <<>> /\ Head(Chain) = m /\ Chain' = Tail(Chain)
    BY <1>6, HandledMoves DEF Merged, OrderInv
  <2>2. UNCHANGED <<src, phase>> /\ Running
    BY <1>6 DEF HandleAck, Return, Running
  <2> HIDE DEF m
  <2>3. /\ 1 \in DOMAIN Chain /\ Chain[1] = m
        /\ \A i \in DOMAIN Chain : i # 1 => i - 1 \in DOMAIN Chain' /\ Chain'[i - 1] = Chain[i]
    <3>1. /\ Len(Chain) \in Nat \ {0} /\ DOMAIN Chain = 1..Len(Chain) /\ Chain[1] = m
          /\ DOMAIN Chain' = 1..(Len(Chain) - 1)
          /\ \A i \in 1..(Len(Chain) - 1) : Chain'[i] = Chain[i + 1]
      BY <1>0, <2>1
    <3>2. ASSUME NEW i \in DOMAIN Chain, i # 1
          PROVE  i - 1 \in DOMAIN Chain' /\ Chain'[i - 1] = Chain[i]
      <4>1. i - 1 \in 1..(Len(Chain) - 1) /\ (i - 1) + 1 = i
        BY <3>1, <3>2
      <4> QED
        BY <3>1, <4>1
    <3> QED
      BY <3>1, <3>2
  <2>4. m.kind = "state" /\ m.stream \in Streams /\ m.n \in Nat
    BY <2>1, SyncAssumption DEF State
  <2>5. saved[m.stream] <= m.n /\ m.n <= src.stated[m.stream]
    BY <2>2, <2>3, <2>4 DEF OrderInv, Ordered
  <2>6. \A s \in Streams : saved'[s] = IF s = m.stream THEN m.n ELSE saved[s]
    BY <1>0, <2>1 DEF Cursor
  <2>7. ASSUME NEW s \in Streams, saved'[s] # src.stated[s]
        PROVE  \E i \in DOMAIN Chain' :
                 Chain'[i] = [kind |-> "state", stream |-> s, n |-> src.stated[s]]
    <3>1. saved[s] # src.stated[s]
      BY <1>a, <2>4, <2>5, <2>6, <2>7
    <3>2. PICK i \in DOMAIN Chain :
            Chain[i] = [kind |-> "state", stream |-> s, n |-> src.stated[s]]
      BY <2>2, <3>1 DEF Latest
    <3>3. i # 1
      BY <2>3, <2>6, <2>7, <3>2
    <3> QED
      BY <2>3, <3>2, <3>3
  <2> QED
    BY <2>2, <2>7 DEF Latest
<1> QED
  BY <1>1, <1>2, <1>3, <1>4, <1>5, <1>6, StepKinds

\* The rest of EndInv, and how a run comes to report success.
Settled ==
  /\ Ended(src) => \A s \in Streams : src.stated[s] = Total
  /\ phase \in {"wait", "drain"} => pipe["src"] = <<>> /\ Closed(src)
  /\ phase = "drain" => src.status = "exited"
  /\ Running /\ Ended(dst) => ~StdinOpen /\ pipe["dst"] = <<>> /\ dst.acks = <<>>
  /\ result = "succeeded" => phase = "done" /\ \A s \in Streams : saved[s] = Total

LEMMA NothingOnItsWay ==
  ASSUME TypeOK, EndInv, phase = "drain", AcksEnd, dst.status = "exited"
  PROVE  \A s \in Streams : saved[s] = Total
<1>1. /\ pipe["src"] = <<>> /\ pipe["dst"] = <<>> /\ dst.acks = <<>> /\ queue = <<>>
      /\ pipe["ack"] = <<>> /\ src.status = "exited" /\ Running
  BY DEF EndInv, Ended, Running, AcksEnd
<1>2. writing = <<>>
  BY Lists, EmptySeq DEF TypeOK
<1>3. Path = <<>> /\ Acks = <<>>
  BY <1>1, <1>2, NoneLeft DEF Path, Acks
<1>4. Chain = <<>>
  BY <1>3, NothingLeft, EmptySeqs DEF Chain
<1>7. Latest(Chain, saved, src.stated)
  BY <1>1 DEF EndInv
<1>5. DOMAIN Chain = {}
  BY <1>4
<1>6. \A s \in Streams : saved[s] = src.stated[s]
  BY <1>5, <1>7 DEF Latest
<1> QED
  BY <1>1, <1>6 DEF EndInv, Ended

LEMMA SettledStep ==
  ASSUME TypeOK, EndInv, Next
  PROVE  Settled'
<1>0. /\ src \in SourceProcess /\ dst \in DestinationProcess
      /\ pipe \in [{"src", "dst", "ack"} -> Seq(Message)]
  BY DEF TypeOK
<1>s. Settled
  BY DEF EndInv, Settled
<1>1. CASE StartRun
  <2>1. /\ phase' = "top" /\ result' = "none" /\ src'.status = "live" /\ dst'.status = "live"
    BY <1>1 DEF StartRun
  <2> QED
    BY <2>1 DEF Settled, Ended
<1>2. ASSUME NEW res \in Result, Return(res), saved' = saved,
             res = "succeeded" => phase = "drain" /\ AcksEnd /\ dst.status = "exited"
      PROVE  Settled'
  <2>1. /\ phase' = "done" /\ result' = res
        /\ src' = [src EXCEPT !.status = IF Exited(src) THEN @ ELSE "failed"]
    BY <1>2 DEF Return
  <2>2. /\ src'.stated = src.stated
        /\ src'.status = src.status \/ src'.status = "failed"
    BY <1>0, <2>1 DEF SourceProcess
  <2>3. Ended(src)' => \A s \in Streams : src'.stated[s] = Total
    BY <1>s, <2>2 DEF Settled, Ended
  <2>4. res = "succeeded" => \A s \in Streams : saved'[s] = Total
    BY <1>2, NothingOnItsWay
  <2> QED
    BY <2>1, <2>3, <2>4 DEF Settled, Running
<1>3. CASE SourceEnds
  <2>1. /\ UNCHANGED <<phase, result, saved, pipe, queue, dst>>
        /\ src.status = "live" /\ src'.stated = src.stated
        /\ src'.status \in {"exited", "lingers"} => \A s \in Streams : src.stated[s] = Total
    BY <1>0, <1>3 DEF SourceEnds, SourceProcess
  <2>2. phase \notin {"wait", "drain"}
    BY <1>s, <2>1 DEF Settled, Closed
  <2> QED
    BY <1>s, <2>1, <2>2 DEF Settled, Ended, Running, StdinOpen, Closed
<1>4. ASSUME NEW s \in Streams, SourceRecord(s) \/ SourceState(s)
      PROVE  Settled'
  <2>1. /\ UNCHANGED <<phase, result, saved, queue, dst>>
        /\ src.status = "live" /\ src'.status = "live"
        /\ pipe'["dst"] = pipe["dst"] /\ pipe'["ack"] = pipe["ack"]
    BY <1>0, <1>4 DEF SourceRecord, SourceState, SourceProcess, Put
  <2>2. phase \notin {"wait", "drain"}
    BY <1>s, <2>1 DEF Settled, Closed
  <2> QED
    BY <1>s, <2>1, <2>2 DEF Settled, Ended, Running, StdinOpen, Closed
<1>5. CASE DestinationReads \/ DestinationAcks
  <2>1. /\ UNCHANGED <<phase, result, saved, queue, src>>
        /\ dst.status = "live" /\ dst'.status = "live"
        /\ pipe'["src"] = pipe["src"]
    BY <1>0, <1>5 DEF DestinationReads, DestinationAcks, DestinationProcess, Put, Take
  <2> QED
    BY <1>s, <2>1 DEF Settled, Ended, Closed
<1>6. CASE DestinationEnds
  <2>1. /\ UNCHANGED <<phase, result, saved, queue, src, pipe>>
        /\ dst.status = "live" /\ dst'.acks = dst.acks
        /\ dst'.status \in {"exited", "lingers"} =>
             ~StdinOpen /\ pipe["dst"] = <<>> /\ dst.acks = <<>>
    BY <1>0, <1>6 DEF DestinationEnds, DestinationProcess
  <2> QED
    BY <1>s, <2>1 DEF Settled, Ended, Closed, StdinOpen
<1>7. CASE Receive
  <2>1. /\ UNCHANGED <<phase, result, saved, src, dst>>
        /\ pipe["ack"] # <<>> /\ pipe'["src"] = pipe["src"] /\ pipe'["dst"] = pipe["dst"]
    BY <1>0, <1>7 DEF Receive, Take
  <2> QED
    BY <1>s, <2>1 DEF Settled, Ended, Running, StdinOpen, Closed
<1>8. CASE HandleAck /\ phase' # "done"
  <2>1. /\ phase' = phase /\ phase \in {"acks", "drain"}
        /\ UNCHANGED <<result, src, dst, pipe>>
    BY <1>8 DEF HandleAck, Return
  <2> QED
    BY <1>s, <2>1 DEF Settled, Ended, Running, StdinOpen, Closed
<1>9. CASE EnterLoop \/ AcksHandled \/ Cancel
  <2>1. /\ UNCHANGED <<result, saved, src, dst, pipe, queue>>
        /\ \/ phase \in {"top", "acks"} /\ phase' \in {"acks", "read"}
           \/ phase' = phase
    BY <1>9 DEF EnterLoop, AcksHandled, Cancel
  <2> QED
    BY <1>s, <2>1 DEF Settled, Ended, Running, StdinOpen, Closed
<1>10. CASE ReadSource \/ Forward
  <2>1. /\ UNCHANGED <<result, saved, src, dst>>
        /\ phase \in {"read", "write"} /\ phase' \in {"write", "top"}
    BY <1>10 DEF ReadSource, Forward
  <2> QED
    BY <1>s, <2>1 DEF Settled, Ended, Running, StdinOpen
<1>11. CASE SourceEof
  <2>1. /\ UNCHANGED <<result, saved, src, dst, pipe, queue>>
        /\ phase = "read" /\ phase' = "wait" /\ pipe["src"] = <<>> /\ Closed(src)
    BY <1>11 DEF SourceEof
  <2> QED
    BY <1>s, <2>1 DEF Settled, Ended, Running, StdinOpen, Closed
<1>12. CASE SourceExits /\ src.status = "exited"
  <2>1. /\ UNCHANGED <<result, saved, src, dst, pipe, queue>>
        /\ phase = "wait" /\ phase' = "drain"
    BY <1>12 DEF SourceExits
  <2> QED
    BY <1>s, <1>12, <2>1 DEF Settled, Ended, Running, StdinOpen, Closed
<1>14. CASE Drained
  <2>1. \E res \in Result : /\ Return(res) /\ saved' = saved /\ phase = "drain" /\ AcksEnd
                            /\ (res = "succeeded" => dst.status = "exited")
    BY <1>14 DEF Drained, Result
  <2> QED
    BY <1>2, <2>1
<1>15. CASE \/ BrokenPipe \/ Cancelled \/ IdleTimeout \/ Crash
            \/ SourceExits /\ src.status # "exited"
            \/ HandleAck /\ phase' = "done"
  <2>1. \E res \in Result \ {"succeeded"} : Return(res) /\ saved' = saved
    BY <1>15 DEF BrokenPipe, Cancelled, IdleTimeout, Crash, SourceExits, HandleAck, Result
  <2> QED
    BY <1>2, <2>1
<1>16. \/ StartRun \/ SourceEnds \/ DestinationEnds \/ DestinationAcks \/ Receive
       \/ ReadSource \/ Forward \/ EnterLoop \/ AcksHandled \/ SourceEof
       \/ Cancel \/ SourceExits \/ BrokenPipe \/ Drained \/ Cancelled
       \/ IdleTimeout \/ Crash \/ HandleAck \/ DestinationReads
       \/ \E s \in Streams : SourceRecord(s) \/ SourceState(s)
  BY DEF Next, Pump, Source, Destination
<1> QED
  BY <1>1, <1>3, <1>4, <1>5, <1>6, <1>7, <1>8, <1>9, <1>10, <1>11, <1>12, <1>14,
     <1>15, <1>16

-----------------------------------------------------------------------------
(* The theorems. *)

SyncInv == TypeOK /\ FlushInv /\ OrderInv /\ EndInv

LEMMA InitSyncInv == Init => SyncInv
<1> SUFFICES ASSUME Init PROVE SyncInv
  OBVIOUS
<1>1. TypeOK
  BY InitTypeOK
<1>2. ~Running /\ map = saved /\ result = "none" /\ phase = "idle" /\ saved = Start
      /\ src.status = "none"
  BY DEF Init, Running
<1>3. \A s \in Streams : saved[s] = 0
  BY <1>2 DEF Start
<1>4. CheckpointNeverAhead
  BY <1>3 DEF CheckpointNeverAhead
<1> QED
  BY <1>1, <1>2, <1>4 DEF SyncInv, FlushInv, OrderInv, EndInv, Ended

LEMMA StepSyncInv ==
  ASSUME SyncInv, [Next]_vars
  PROVE  /\ SyncInv'
         /\ \A s \in Streams : saved'[s] >= saved[s]
<1>1. TypeOK'
  BY StepTypeOK DEF SyncInv
<1>2. CASE Next
  <2>1. FlushInv'
    BY <1>2, FlushStep DEF SyncInv, OrderInv
  <2>2. OrderInv' /\ \A s \in Streams : saved'[s] >= saved[s]
    BY <1>2, OrderStep DEF SyncInv
  <2>3. Settled'
    BY <1>2, SettledStep DEF SyncInv
  <2>4. Running' => Latest(Chain', saved', src'.stated)
    BY <1>2, LatestStep DEF SyncInv, EndInv
  <2>5. EndInv'
    BY <2>3, <2>4 DEF EndInv, Settled
  <2> QED
    BY <1>1, <2>1, <2>2, <2>5 DEF SyncInv
<1>3. CASE UNCHANGED vars
  <2>1. /\ FlushInv' /\ OrderInv' /\ saved' = saved
    BY <1>3 DEF SyncInv, vars, FlushInv, OrderInv, CheckpointNeverAhead, Running, Path, Acks, Chain
  <2>2. EndInv'
    BY <1>3 DEF SyncInv, vars, EndInv, Running, Path, Acks, Chain, Ended, Closed, StdinOpen
  <2>3. \A s \in Streams : saved[s] \in Nat
    BY Numbers DEF SyncInv, TypeOK
  <2> QED
    BY <1>1, <2>1, <2>2, <2>3 DEF SyncInv
<1> QED
  BY <1>2, <1>3

LEMMA Invariant == Spec => []SyncInv
BY InitSyncInv, StepSyncInv, PTL DEF Spec

\* Whatever ends the runs, the persisted state of a stream never stands for a
\* record that no destination has flushed: an ack handled by handle_dest was sent
\* after the flush, and resuming from it leaves no record out.
THEOREM NeverAhead == Spec => []CheckpointNeverAhead
<1>1. SyncInv => CheckpointNeverAhead
  BY DEF SyncInv, FlushInv
<1> QED
  BY <1>1, Invariant, PTL

\* No ack takes a stream's persisted cursor back: a run's states reach
\* handle_dest in the order they were sent, and a run starts from the cursors
\* the runs before it left.
THEOREM NeverRegress == Spec => CheckpointsNeverRegress
<1>1. SyncInv /\ [Next]_vars => [\A s \in Streams : saved'[s] >= saved[s]]_vars
  BY StepSyncInv
<1> QED
  BY <1>1, Invariant, PTL DEF Spec, CheckpointsNeverRegress

\* A run that reports success has persisted every stream's last state and the
\* destinations have flushed all of its records.
THEOREM Complete == Spec => []SuccessIsComplete
<1>1. SyncInv => SuccessIsComplete
  BY DEF SyncInv, FlushInv, EndInv, SuccessIsComplete, CheckpointNeverAhead
<1> QED
  BY <1>1, Invariant, PTL

-----------------------------------------------------------------------------
(* The runs implement Replication. *)

\* A step persists an acknowledged state, or makes records durable, or reports
\* how a run ended, or does nothing that Replication sees.
LEMMA PromiseKinds ==
  ASSUME TypeOK, EndInv, Next
  PROVE  \/ /\ HandleAck /\ phase' # "done" /\ UNCHANGED <<durable, result>>
            /\ Running
         \/ /\ durable' \in SUBSET Record /\ durable \subseteq durable'
            /\ saved' = saved /\ ((result' = "succeeded") <=> (result = "succeeded"))
         \/ UNCHANGED <<durable, saved>> /\ Running /\ result' = "succeeded"
<1>0. /\ durable \in SUBSET Record /\ dst.held \in SUBSET Record
      /\ Running => result # "succeeded"
  BY DEF TypeOK, DestinationProcess, EndInv, Running
<1>1. CASE StartRun
  BY <1>0, <1>1 DEF StartRun
<1>2. CASE \/ SourceEnds \/ DestinationAcks \/ Receive \/ ReadSource \/ Forward
           \/ EnterLoop \/ AcksHandled \/ SourceEof \/ Cancel
           \/ \E s \in Streams : SourceRecord(s) \/ SourceState(s)
  <2>1. UNCHANGED <<durable, saved, result>>
    BY <1>2 DEF SourceEnds, DestinationAcks, Receive, ReadSource, Forward, EnterLoop,
                AcksHandled, SourceEof, Cancel, SourceRecord, SourceState
  <2> QED
    BY <1>0, <2>1
<1>3. CASE DestinationReads \/ DestinationEnds
  <2>1. /\ UNCHANGED <<saved, result>>
        /\ durable' = durable \/ durable' = durable \cup dst.held
    BY <1>3 DEF DestinationReads, DestinationEnds
  <2> QED
    BY <1>0, <2>1
<1>4. CASE \/ BrokenPipe \/ Cancelled \/ IdleTimeout \/ Crash \/ Drained
           \/ SourceExits /\ src.status # "exited"
           \/ HandleAck /\ phase' = "done"
  <2>1. UNCHANGED <<durable, saved>> /\ Running
    BY <1>4 DEF BrokenPipe, Cancelled, IdleTimeout, Crash, Drained, SourceExits,
                HandleAck, Return, Running
  <2> QED
    BY <1>0, <2>1
<1>5. CASE SourceExits /\ src.status = "exited"
  BY <1>0, <1>5 DEF SourceExits
<1>6. CASE HandleAck /\ phase' # "done"
  BY <1>6 DEF HandleAck, Return, Running
<1> QED
  BY <1>1, <1>2, <1>3, <1>4, <1>5, <1>6 DEF Next, Pump, Source, Destination

\* The state that handle_dest takes next: flushed up to its number, and not
\* behind what is persisted.
LEMMA NextCommit ==
  ASSUME SyncInv, HandleAck, phase' # "done", Running
  PROVE  \E s \in Streams, n \in 1..Total :
           /\ saved' = [saved EXCEPT ![s] = n]
           /\ Upto(s, n, durable)
           /\ saved[s] <= n
<1> DEFINE m == Head(queue)
<1>1. /\ m \in State /\ map' = Merged(m) /\ saved' = map' /\ map = saved
      /\ Acks # <<>> /\ Head(Acks) = m
      /\ Chain # <<>> /\ Head(Chain) = m
  BY HandledMoves DEF SyncInv, OrderInv
<1>2. /\ Acks \in Seq(Message) /\ Chain \in Seq(Message)
      /\ m.stream \in Streams /\ m.n \in 1..Total /\ m.kind = "state"
  BY <1>1, Lists DEF SyncInv, State
<1> HIDE DEF m
<1>3. /\ 1 \in DOMAIN Acks /\ Acks[1] = m
      /\ 1 \in DOMAIN Chain /\ Chain[1] = m
  BY <1>1, <1>2
<1>4. Upto(m.stream, m.n, durable)
  BY <1>3 DEF SyncInv, FlushInv
<1>5. saved[m.stream] <= m.n
  <2>1. Ordered(Chain, saved, src.stated)
    BY DEF SyncInv, OrderInv
  <2> QED
    BY <1>2, <1>3, <2>1 DEF Ordered
<1>6. saved' = [saved EXCEPT ![m.stream] = m.n]
  BY <1>1 DEF Merged
<1> QED
  BY <1>2, <1>4, <1>5, <1>6

\* What is delivered, as Replication sees it.
Seen(S) == {<<r.stream, r.n>> : r \in S}

LEMMA SeenUpto ==
  ASSUME NEW s, NEW n, NEW S, Upto(s, n, S)
  PROVE  Promise!Prefix(s, n) \subseteq Seen(S)
<1>1. ASSUME NEW k \in 1..n PROVE <<s, k>> \in Seen(S)
  <2>1. Rec(s, k) \in S /\ Rec(s, k).stream = s /\ Rec(s, k).n = k
    BY DEF Upto, Rec
  <2> QED
    BY <2>1 DEF Seen
<1> QED
  BY <1>1 DEF Promise!Prefix

LEMMA SeenRecords ==
  ASSUME NEW S \in SUBSET Record
  PROVE  Seen(S) \in SUBSET (Streams \X (1..Total))
BY DEF Seen, Record

LEMMA PromiseStep ==
  ASSUME SyncInv, [Next]_vars
  PROVE  Promise!Next \/ UNCHANGED Promise!vars
<1> USE DEF Seen
<1>1. CASE UNCHANGED vars
  BY <1>1 DEF vars, Promise!vars
<1>2. CASE /\ HandleAck /\ phase' # "done" /\ UNCHANGED <<durable, result>>
           /\ Running
  <2>1. PICK s \in Streams, n \in 1..Total :
          /\ saved' = [saved EXCEPT ![s] = n]
          /\ Upto(s, n, durable)
          /\ saved[s] <= n
    BY <1>2, NextCommit
  <2>2. saved[s] \in Nat /\ saved \in Cursor /\ n \in Nat
    BY Numbers DEF SyncInv, TypeOK
  <2>3. CASE saved[s] = n
    <3>1. saved' = saved
      BY <2>1, <2>2, <2>3 DEF Cursor
    <3> QED
      BY <1>2, <3>1 DEF Promise!vars
  <2>4. CASE n > saved[s]
    <3>1. Promise!Prefix(s, n) \subseteq Seen(durable)
      BY <2>1, SeenUpto
    <3>2. result # "succeeded"
      BY <1>2 DEF SyncInv, EndInv, Running
    <3>3. Promise!Commit(s, n)
      BY <1>2, <2>1, <2>4, <3>1, <3>2 DEF Promise!Commit
    <3> QED
      BY <3>3 DEF Promise!Next
  <2> QED
    BY <2>1, <2>2, <2>3, <2>4
<1>3. CASE /\ durable' \in SUBSET Record /\ durable \subseteq durable'
           /\ saved' = saved /\ ((result' = "succeeded") <=> (result = "succeeded"))
  <2>1. Seen(durable') = Seen(durable) \cup Seen(durable')
    BY <1>3
  <2>2. PICK R : R = Seen(durable')
    OBVIOUS
  <2>3. R \in SUBSET (Streams \X (1..Total))
    BY <1>3, <2>2, SeenRecords
  <2>4. Promise!Deliver(R)
    BY <1>3, <2>1, <2>2 DEF Promise!Deliver
  <2> QED
    BY <2>3, <2>4 DEF Promise!Next
<1>4. CASE UNCHANGED <<durable, saved>> /\ Running /\ result' = "succeeded"
  <2>1. \A s \in Streams : saved'[s] = Total
    BY <1>4, StepSyncInv DEF SyncInv, EndInv
  <2>2. result # "succeeded"
    BY <1>4 DEF SyncInv, EndInv, Running
  <2>3. Promise!Complete
    BY <1>4, <2>1, <2>2 DEF Promise!Complete
  <2> QED
    BY <2>3 DEF Promise!Next
<1> QED
  BY <1>1, <1>2, <1>3, <1>4, PromiseKinds DEF SyncInv

(***************************************************************************)
(* Whatever the processes, the user and the database do, the runs of a        *)
(* connection keep the promise of Replication: handle_dest moves a checkpoint *)
(* forward, over flushed records and before any success, run_sync reports      *)
(* success once and only at the end of every stream, and every other step of  *)
(* the runs is a flush or invisible.                                         *)
(***************************************************************************)
THEOREM SyncImplementsReplication == Spec => ImplementsReplication
<1>1. Init => Promise!Init
  BY DEF Init, Start, Promise!Init
<1>2. SyncInv /\ [Next]_vars => [Promise!Next]_Promise!vars
  BY PromiseStep
<1> QED
  BY <1>1, <1>2, Invariant, PTL DEF Spec, ImplementsReplication, Promise!Spec

=============================================================================
