--------------------------- MODULE SchedulerProofs ---------------------------
(***************************************************************************)
(* Theorems about schedules and the jobs they become, for any connections,   *)
(* workers, schedules and faults.                                            *)
(***************************************************************************)
EXTENDS Scheduler, Integers, TLAPS

-----------------------------------------------------------------------------
(* The arithmetic of cron expressions. *)

LEMMA Multiples ==
  ASSUME NEW e \in Nat, e > 0, NEW k \in Nat
  PROVE  (k * e) % e = 0
<1> DEFINE n == k * e
           d == n \div e
           r == n % e
<1>1. n \in Nat /\ n = k * e
  OBVIOUS
<1> SUFFICES r = 0
  OBVIOUS
<1>2. n = d * e + r /\ r \in 0..(e - 1) /\ d \in Nat
  <2> HIDE DEF n
  <2> QED
    BY <1>1
<1> HIDE DEF n, d, r
<1>3. ASSUME NEW m \in Int, m >= 1 PROVE m * e >= e
  BY <1>3
<1>4. CASE k > d
  <2>1. (k - d) * e = r
    BY <1>1, <1>2
  <2>2. (k - d) * e >= e
    BY <1>2, <1>3, <1>4
  <2> QED
    BY <1>2, <2>1, <2>2
<1>5. CASE k < d
  <2>1. (d - k) * e = 0 - r
    BY <1>1, <1>2
  <2>2. (d - k) * e >= e
    BY <1>2, <1>3, <1>5
  <2> QED
    BY <1>2, <2>1, <2>2
<1> QED
  BY <1>1, <1>2, <1>4, <1>5

\* The next fire is after t and is one.
LEMMA Fires ==
  ASSUME NEW e \in Nat, e > 0, NEW t \in Nat
  PROVE  NextFire(e, t) \in Nat /\ NextFire(e, t) > t /\ NextFire(e, t) % e = 0
<1>1. t \div e + 1 \in Nat
  OBVIOUS
<1>2. NextFire(e, t) > t /\ NextFire(e, t) \in Nat
  BY DEF NextFire
<1>3. ((t \div e + 1) * e) % e = 0
  BY <1>1, Multiples
<1> QED
  BY <1>2, <1>3 DEF NextFire

-----------------------------------------------------------------------------
(* Types. *)

\* A row of the list has a schedule its connection may have had.
Offered == \A w \in Workers : \A r \in listed[w] : r.schedule \in Choices[r.conn]

LEMMA DueIsATime ==
  ASSUME TypeOK, NEW c \in Conns, NEW s \in Choices[c], s.kind # "bad", NEW l \in LastJob
  PROVE  NextDue(s, l) \in Nat
<1>1. s \in Schedule /\ (s.kind = "cron" => s.every > 0)
  BY SchedulerAssumption
<1>2. s.every \in Nat /\ s.kind \in {"interval", "cron"} /\ l.at \in Nat /\ now \in Nat
  BY <1>1 DEF Schedule, LastJob, Time, TypeOK
<1>3. CASE s.kind = "interval"
  BY <1>2, <1>3 DEF NextDue
<1>4. CASE s.kind = "cron"
  BY <1>1, <1>2, <1>4, Fires DEF NextDue
<1> QED
  BY <1>2, <1>3, <1>4

LEMMA InitTypes == Init => TypeOK /\ Offered
<1> SUFFICES ASSUME Init PROVE TypeOK /\ Offered
  OBVIOUS
<1>1. /\ now \in Time /\ faults \in 0..MaxFaults
      /\ last \in [Conns -> LastJob]
  BY SchedulerAssumption DEF Init, Time, LastJob
<1>2. schedule \in [Conns -> Schedule] /\ \A c \in Conns : schedule[c] \in Choices[c]
  BY SchedulerAssumption DEF Init
<1>3. /\ status \in [Conns -> {"active", "inactive", "deleted"}] /\ busy \in [Conns -> BOOLEAN]
      /\ pc \in [Workers -> {"idle", "pass", "due"}]
      /\ listed \in [Workers -> SUBSET [conn : Conns, schedule : Schedule, last : LastJob]]
      /\ item \in [Workers -> [conn : Conns, due : Nat] \cup {NoItem}]
      /\ \A w \in Workers : pc[w] = "due" <=> item[w] # NoItem
      /\ raced \in [Workers -> SUBSET Conns]
  BY DEF Init
<1>4. Offered
  BY DEF Init, Offered
<1> QED
  BY <1>1, <1>2, <1>3, <1>4 DEF TypeOK

\* What the workers do among themselves.
WorkersOK ==
  /\ pc \in [Workers -> {"idle", "pass", "due"}]
  /\ listed \in [Workers -> SUBSET [conn : Conns, schedule : Schedule, last : LastJob]]
  /\ item \in [Workers -> [conn : Conns, due : Nat] \cup {NoItem}]
  /\ \A w \in Workers : pc[w] = "due" <=> item[w] # NoItem
  /\ raced \in [Workers -> SUBSET Conns]

RowsOK ==
  /\ status \in [Conns -> {"active", "inactive", "deleted"}]
  /\ schedule \in [Conns -> Schedule] /\ \A c \in Conns : schedule[c] \in Choices[c]
  /\ busy \in [Conns -> BOOLEAN]
  /\ last \in [Conns -> LastJob]

LEMMA CreateJobOK ==
  ASSUME TypeOK, NEW c \in Conns, CreateJob(c)
  PROVE  RowsOK' /\ raced' \in [Workers -> SUBSET Conns]
<1>1. [ran |-> TRUE, at |-> now] \in LastJob
  BY DEF TypeOK, LastJob
<1> QED
  BY <1>1 DEF CreateJob, TypeOK, RowsOK

LEMMA AbandonOK ==
  ASSUME TypeOK, Offered, NEW w \in Workers, Abandon(w)
  PROVE  WorkersOK' /\ Offered'
BY DEF Abandon, TypeOK, WorkersOK, Offered

LEMMA TypesStep == TypeOK /\ Offered /\ [Next]_vars => TypeOK' /\ Offered'
<1> SUFFICES ASSUME TypeOK, Offered, [Next]_vars PROVE TypeOK' /\ Offered'
  OBVIOUS
<1>0. WorkersOK /\ RowsOK /\ now \in Time /\ faults \in 0..MaxFaults
  BY DEF TypeOK, WorkersOK, RowsOK
<1>1. ASSUME RowsOK', now' \in Time, UNCHANGED <<pc, listed, item, faults>>,
             raced' \in [Workers -> SUBSET Conns]
      PROVE  TypeOK' /\ Offered'
  BY <1>0, <1>1 DEF TypeOK, RowsOK, WorkersOK, Offered
<1>2. ASSUME WorkersOK', Offered', RowsOK', faults' \in 0..MaxFaults, UNCHANGED now
      PROVE  TypeOK' /\ Offered'
  BY <1>0, <1>2 DEF TypeOK, RowsOK, WorkersOK
<1>3. CASE Tick
  BY <1>0, <1>1, <1>3, SchedulerAssumption DEF Tick, Time, RowsOK, WorkersOK
<1>4. ASSUME NEW c \in Conns, Api(c) \/ JobEnds(c)
      PROVE  TypeOK' /\ Offered'
  <2>1. UNCHANGED <<now, pc, listed, item, faults>>
    BY <1>4 DEF Api, Update, Delete, Trigger, JobEnds
  <2>2. RowsOK' /\ raced' \in [Workers -> SUBSET Conns]
    <3>1. ASSUME NEW st \in {"active", "inactive"}, NEW s \in Choices[c], Update(c, st, s)
          PROVE  RowsOK' /\ raced' \in [Workers -> SUBSET Conns]
      <4>1. schedule' = [schedule EXCEPT ![c] = s] /\ s \in Schedule
        BY <3>1, SchedulerAssumption DEF Update
      <4>2. /\ schedule' \in [Conns -> Schedule]
            /\ \A d \in Conns : schedule'[d] \in Choices[d]
        BY <1>0, <4>1 DEF RowsOK
      <4> QED
        BY <1>0, <3>1, <4>2 DEF Update, RowsOK, WorkersOK
    <3>2. CASE Delete(c)
      <4>1. [ran |-> FALSE, at |-> 0] \in LastJob
        BY SchedulerAssumption DEF LastJob, Time
      <4> QED
        BY <1>0, <3>2, <4>1 DEF Delete, RowsOK, WorkersOK
    <3>3. CASE Trigger(c)
      BY <3>3, CreateJobOK DEF Trigger
    <3>4. CASE JobEnds(c)
      BY <1>0, <3>4 DEF JobEnds, RowsOK, WorkersOK
    <3> QED
      BY <1>4, <3>1, <3>2, <3>3, <3>4 DEF Api
  <2> QED
    BY <1>0, <1>1, <2>1, <2>2
<1>5. ASSUME NEW w \in Workers, ListSchedulable(w)
      PROVE  TypeOK' /\ Offered'
  <2> DEFINE row(c) == [conn |-> c, schedule |-> schedule[c], last |-> last[c]]
             L == {row(c) : c \in {d \in Conns : Schedulable(d)}}
  <2>1. \A c \in Conns : /\ row(c) \in [conn : Conns, schedule : Schedule, last : LastJob]
                         /\ row(c).schedule \in Choices[row(c).conn]
    BY <1>0, SchedulerAssumption DEF RowsOK
  <2>2. /\ L \subseteq [conn : Conns, schedule : Schedule, last : LastJob]
        /\ \A r \in L : r.schedule \in Choices[r.conn]
    BY <2>1
  <2>3. /\ listed' = [listed EXCEPT ![w] = L]
        /\ pc[w] = "idle" /\ pc' = [pc EXCEPT ![w] = "pass"]
        /\ UNCHANGED <<now, rows, item, raced, faults>>
    BY <1>5 DEF ListSchedulable
  <2> HIDE DEF L
  <2>4. WorkersOK'
    BY <1>0, <2>2, <2>3 DEF WorkersOK
  <2>5. Offered'
    BY <1>0, <2>2, <2>3 DEF WorkersOK, Offered
  <2> QED
    BY <1>0, <1>2, <2>3, <2>4, <2>5 DEF rows, RowsOK
<1>6. ASSUME NEW w \in Workers, Evaluate(w)
      PROVE  TypeOK' /\ Offered'
  <2>1. PICK r \in listed[w] :
          /\ listed' = [listed EXCEPT ![w] = @ \ {r}]
          /\ IF r.schedule.kind = "bad" THEN UNCHANGED <<pc, item>>
             ELSE /\ pc' = [pc EXCEPT ![w] = "due"]
                  /\ item' = [item EXCEPT ![w] =
                       [conn |-> r.conn, due |-> NextDue(r.schedule, r.last)]]
    BY <1>6 DEF Evaluate
  <2>2. /\ r \in [conn : Conns, schedule : Schedule, last : LastJob]
        /\ r.schedule \in Choices[r.conn]
    BY <1>0 DEF WorkersOK, Offered
  <2>3. UNCHANGED <<now, rows, raced, faults>>
    BY <1>6 DEF Evaluate
  <2>4. Offered' /\ listed' \in [Workers -> SUBSET [conn : Conns, schedule : Schedule,
                                                   last : LastJob]]
    BY <1>0, <2>1 DEF WorkersOK, Offered
  <2>5. CASE r.schedule.kind = "bad"
    <3>1. WorkersOK'
      BY <1>0, <2>1, <2>3, <2>4, <2>5 DEF WorkersOK
    <3> QED
      BY <1>0, <1>2, <2>3, <2>4, <3>1 DEF rows, RowsOK
  <2>6. CASE r.schedule.kind # "bad"
    <3> DEFINE i == [conn |-> r.conn, due |-> NextDue(r.schedule, r.last)]
    <3>1. i \in [conn : Conns, due : Nat] /\ i # NoItem
      <4>1. NextDue(r.schedule, r.last) \in Nat /\ r.conn \in Conns
        BY <2>2, <2>6, DueIsATime
      <4> QED
        BY <4>1, SchedulerAssumption DEF NoItem
    <3>2. pc' = [pc EXCEPT ![w] = "due"] /\ item' = [item EXCEPT ![w] = i]
      BY <2>1, <2>6
    <3> HIDE DEF i
    <3>3. WorkersOK'
      BY <1>0, <2>3, <2>4, <3>1, <3>2 DEF WorkersOK
    <3> QED
      BY <1>0, <1>2, <2>3, <2>4, <3>3 DEF rows, RowsOK
  <2> QED
    BY <2>5, <2>6
<1>7. ASSUME NEW w \in Workers, Enqueue(w)
      PROVE  TypeOK' /\ Offered'
  <2>1. item[w].conn \in Conns
    BY <1>0, <1>7 DEF Enqueue, WorkersOK
  <2>2. /\ UNCHANGED <<now, faults>>
        /\ \/ UNCHANGED <<rows, raced>>
           \/ UNCHANGED rows /\ Abandon(w)
           \/ CreateJob(item[w].conn)
        /\ \/ /\ pc' = [pc EXCEPT ![w] = "pass"] /\ item' = [item EXCEPT ![w] = NoItem]
              /\ UNCHANGED listed
           \/ Abandon(w)
    BY <1>7 DEF Enqueue
  <2>3. RowsOK' /\ raced' \in [Workers -> SUBSET Conns]
    BY <1>0, <2>1, <2>2, CreateJobOK DEF rows, RowsOK, WorkersOK, Abandon
  <2>4. WorkersOK' /\ Offered'
    <3>1. CASE Abandon(w)
      BY <3>1, AbandonOK
    <3>2. CASE /\ pc' = [pc EXCEPT ![w] = "pass"] /\ item' = [item EXCEPT ![w] = NoItem]
               /\ UNCHANGED listed
      BY <1>0, <2>3, <3>2 DEF WorkersOK, Offered
    <3> QED
      BY <2>2, <3>1, <3>2
  <2> QED
    BY <1>0, <1>2, <2>2, <2>3, <2>4
<1>8. ASSUME NEW w \in Workers, PassEnds(w)
      PROVE  TypeOK' /\ Offered'
  <2>1. WorkersOK' /\ Offered' /\ RowsOK' /\ UNCHANGED <<now, faults>>
    BY <1>0, <1>8 DEF PassEnds, WorkersOK, Offered, rows, RowsOK
  <2> QED
    BY <1>0, <1>2, <2>1
<1>9. ASSUME NEW w \in Workers, PassFails(w)
      PROVE  TypeOK' /\ Offered'
  <2>1. /\ Abandon(w) /\ UNCHANGED <<now, rows>>
        /\ faults' \in 0..MaxFaults
    BY <1>0, <1>9, SchedulerAssumption DEF PassFails
  <2> QED
    BY <1>0, <1>2, <2>1, AbandonOK DEF rows, RowsOK
<1>10. CASE UNCHANGED vars
  BY <1>10 DEF vars, TypeOK, Offered
<1> QED
  BY <1>3, <1>4, <1>5, <1>6, <1>7, <1>8, <1>9, <1>10 DEF Next, Pass

\* Every state of the rows, of the workers and of their passes is well typed.
THEOREM TypeCorrect == Spec => []TypeOK
BY InitTypes, TypesStep, PTL DEF Spec

-----------------------------------------------------------------------------
(* No job before its time, however many workers make passes: what a pass has    *)
(* read of a connection's last job holds until somebody creates another.        *)

\* due is the time that some schedule of c gives after its last job.
DueAfter(c, l, due) ==
  \E s \in Choices[c] :
     \/ s.kind = "interval" /\ due = l.at + s.every
     \/ s.kind = "cron" /\ due = NextFire(s.every, l.at)

\* What a worker has read of the last jobs is still so, unless a job was created
\* since, or the connection, and its jobs with it, is gone.
ListedLast(w) ==
  \A r \in listed[w] :
     last[r.conn].ran /\ r.conn \notin raced[w] => r.last = last[r.conn]

ItemLast(w) ==
  LET c == item[w].conn
  IN pc[w] = "due" /\ last[c].ran /\ c \notin raced[w] => DueAfter(c, last[c], item[w].due)

PassInv ==
  /\ TypeOK
  /\ Offered
  /\ \A w \in Workers :
       /\ pc[w] = "idle" => listed[w] = {}
       /\ ListedLast(w)
       /\ ItemLast(w)

LEMMA InitPass == Init => PassInv
<1> SUFFICES ASSUME Init PROVE PassInv
  OBVIOUS
<1>1. \A w \in Workers : listed[w] = {} /\ pc[w] = "idle"
  BY DEF Init
<1> QED
  BY <1>1, InitTypes DEF PassInv, ListedLast, ItemLast

\* The part of PassInv about worker w.
PassOf(w) == (pc[w] = "idle" => listed[w] = {}) /\ ListedLast(w) /\ ItemLast(w)

\* What w has read stays so while it reads nothing new and every connection's last
\* job is left alone, forgotten, or noted as newer.
LEMMA PassKept ==
  ASSUME PassInv, NEW w \in Workers,
         listed'[w] \subseteq listed[w], pc'[w] = "idle" => listed'[w] = {},
         pc'[w] = "due" => pc[w] = "due" /\ item'[w] = item[w],
         \A c \in Conns : c \notin raced'[w] /\ last'[c].ran /\ pc[w] # "idle"
           => last'[c] = last[c] /\ c \notin raced[w]
  PROVE  PassOf(w)'
<1>t. /\ listed[w] \in SUBSET [conn : Conns, schedule : Schedule, last : LastJob]
      /\ item[w] \in [conn : Conns, due : Nat] \cup {NoItem}
      /\ pc[w] = "due" <=> item[w] # NoItem
  BY DEF PassInv, TypeOK
<1>0. /\ pc[w] = "idle" => listed[w] = {}
      /\ ListedLast(w) /\ ItemLast(w)
  BY DEF PassInv
<1>1. ListedLast(w)'
  <2> SUFFICES ASSUME NEW r \in listed'[w], last'[r.conn].ran, r.conn \notin raced'[w]
               PROVE  r.last = last'[r.conn]
    BY DEF ListedLast
  <2>1. r \in listed[w] /\ r.conn \in Conns /\ pc[w] # "idle"
    BY <1>t, <1>0
  <2> QED
    BY <1>0, <2>1 DEF ListedLast
<1>2. ItemLast(w)'
  <2> DEFINE c == item[w].conn
  <2> SUFFICES ASSUME pc'[w] = "due", last'[c].ran, c \notin raced'[w]
               PROVE  DueAfter(c, last'[c], item[w].due)
    BY DEF ItemLast
  <2>1. pc[w] = "due" /\ c \in Conns
    BY <1>t
  <2>2. last'[c] = last[c] /\ c \notin raced[w]
    BY <2>1
  <2> QED
    BY <1>0, <2>1, <2>2 DEF ItemLast
<1> QED
  BY <1>1, <1>2 DEF PassOf

\* The time next_due gives after a last job is one of its schedules'.
LEMMA NextDueAfter ==
  ASSUME TypeOK, NEW c \in Conns, NEW s \in Choices[c], s.kind # "bad",
         NEW l \in LastJob, l.ran
  PROVE  DueAfter(c, l, NextDue(s, l))
<1>1. s.kind \in {"interval", "cron"}
  BY SchedulerAssumption DEF Schedule
<1> QED
  BY <1>1 DEF DueAfter, NextDue

\* A new job is noted by every worker in the middle of a pass.
LEMMA RacedNoted ==
  ASSUME TypeOK, NEW d \in Conns, CreateJob(d), NEW w \in Workers, pc[w] # "idle"
  PROVE  \A c \in Conns : c \notin raced'[w] /\ last'[c].ran
           => last'[c] = last[c] /\ c \notin raced[w]
BY DEF CreateJob, TypeOK

LEMMA PassStep == PassInv /\ [Next]_vars => PassInv'
<1> SUFFICES ASSUME PassInv, [Next]_vars PROVE PassInv'
  OBVIOUS
<1>0. TypeOK /\ Offered /\ \A w \in Workers : PassOf(w)
  BY DEF PassInv, PassOf
<1>t. /\ last \in [Conns -> LastJob]
      /\ pc \in [Workers -> {"idle", "pass", "due"}]
      /\ listed \in [Workers -> SUBSET [conn : Conns, schedule : Schedule, last : LastJob]]
      /\ item \in [Workers -> [conn : Conns, due : Nat] \cup {NoItem}]
      /\ \A w \in Workers : pc[w] = "due" <=> item[w] # NoItem
      /\ raced \in [Workers -> SUBSET Conns]
  BY <1>0 DEF TypeOK
<1> SUFFICES ASSUME NEW v \in Workers PROVE PassOf(v)'
  BY <1>0, TypesStep DEF PassInv, PassOf
<1>i. pc[v] = "idle" => listed[v] = {}
  BY <1>0 DEF PassOf
<1>1. CASE Tick \/ UNCHANGED vars
  <2>1. UNCHANGED <<pc, listed, item, raced, last>>
    BY <1>1 DEF Tick, vars
  <2> QED
    BY <1>i, <2>1, PassKept
<1>2. ASSUME NEW d \in Conns, Api(d) \/ JobEnds(d)
      PROVE  PassOf(v)'
  <2>1. UNCHANGED <<pc, listed, item>>
    BY <1>2 DEF Api, Update, Delete, Trigger, JobEnds
  <2>2. \A c \in Conns : c \notin raced'[v] /\ last'[c].ran /\ pc[v] # "idle"
          => last'[c] = last[c] /\ c \notin raced[v]
    <3>1. CASE JobEnds(d) \/ \E st \in {"active", "inactive"}, s \in Choices[d] : Update(d, st, s)
      BY <3>1 DEF JobEnds, Update
    <3>2. CASE Delete(d)
      BY <1>t, <3>2 DEF Delete
    <3>3. CASE Trigger(d)
      BY <1>0, <3>3, RacedNoted DEF Trigger
    <3> QED
      BY <1>2, <3>1, <3>2, <3>3 DEF Api
  <2> QED
    BY <1>i, <2>1, <2>2, PassKept
<1>3. ASSUME NEW w \in Workers, ListSchedulable(w)
      PROVE  PassOf(v)'
  <2> DEFINE row(c) == [conn |-> c, schedule |-> schedule[c], last |-> last[c]]
             L == {row(c) : c \in {d \in Conns : Schedulable(d)}}
  <2>1. \A r \in L : r.last = last[r.conn]
    OBVIOUS
  <2>2. /\ listed' = [listed EXCEPT ![w] = L]
        /\ pc[w] = "idle" /\ pc' = [pc EXCEPT ![w] = "pass"]
        /\ UNCHANGED <<last, item, raced>>
    BY <1>3 DEF ListSchedulable, rows
  <2> HIDE DEF L
  <2>3. CASE v = w
    <3>1. listed'[v] = L /\ pc'[v] = "pass"
      BY <1>t, <2>2, <2>3
    <3> QED
      BY <2>1, <2>2, <3>1 DEF PassOf, ListedLast, ItemLast
  <2>4. CASE v # w
    <3>1. listed'[v] = listed[v] /\ pc'[v] = pc[v]
      BY <1>t, <2>2, <2>4
    <3> QED
      BY <1>i, <2>2, <3>1, PassKept
  <2> QED
    BY <2>3, <2>4
<1>4. ASSUME NEW w \in Workers, Evaluate(w)
      PROVE  PassOf(v)'
  <2>1. PICK r \in listed[w] :
          /\ listed' = [listed EXCEPT ![w] = @ \ {r}]
          /\ IF r.schedule.kind = "bad" THEN UNCHANGED <<pc, item>>
             ELSE /\ pc' = [pc EXCEPT ![w] = "due"]
                  /\ item' = [item EXCEPT ![w] =
                       [conn |-> r.conn, due |-> NextDue(r.schedule, r.last)]]
    BY <1>4 DEF Evaluate
  <2>2. /\ r \in [conn : Conns, schedule : Schedule, last : LastJob]
        /\ r.schedule \in Choices[r.conn]
    BY <1>0, <1>t DEF Offered
  <2>3. pc[w] = "pass" /\ UNCHANGED <<last, raced>>
    BY <1>4 DEF Evaluate, rows
  <2>4. listed'[v] \subseteq listed[v]
    BY <1>t, <2>1
  <2>5. CASE v # w \/ r.schedule.kind = "bad"
    <3>1. pc'[v] = pc[v] /\ item'[v] = item[v]
      BY <1>t, <2>1, <2>5
    <3> QED
      BY <1>i, <2>3, <2>4, <3>1, PassKept
  <2>6. CASE v = w /\ r.schedule.kind # "bad"
    <3> DEFINE due == NextDue(r.schedule, r.last)
    <3>1. pc'[v] = "due" /\ item'[v] = [conn |-> r.conn, due |-> due]
      BY <1>t, <2>1, <2>6
    <3>2. r.last.ran => DueAfter(r.conn, r.last, due)
      BY <1>0, <2>2, <2>6, NextDueAfter
    <3> HIDE DEF due
    <3>3. ListedLast(v)
      BY <1>0 DEF PassOf
    <3>4. ListedLast(v)'
      BY <2>3, <2>4, <3>3 DEF ListedLast
    <3>5. ItemLast(v)'
      <4>1. last[r.conn].ran /\ r.conn \notin raced[v] => r.last = last[r.conn]
        BY <2>6, <3>3 DEF ListedLast
      <4> QED
        BY <2>3, <3>1, <3>2, <4>1 DEF ItemLast, DueAfter
    <3> QED
      BY <3>1, <3>4, <3>5 DEF PassOf
  <2> QED
    BY <2>5, <2>6
<1>5. ASSUME NEW w \in Workers, Enqueue(w) \/ PassEnds(w) \/ PassFails(w)
      PROVE  PassOf(v)'
  <2>1. /\ pc[w] \in {"pass", "due"}
        /\ \/ pc' = [pc EXCEPT ![w] = "pass"] /\ UNCHANGED listed
           \/ pc' = [pc EXCEPT ![w] = "idle"] /\ listed' = [listed EXCEPT ![w] = {}]
        /\ UNCHANGED item \/ item' = [item EXCEPT ![w] = NoItem]
    BY <1>5, <1>t DEF Enqueue, PassEnds, PassFails, Abandon
  <2>2. \/ UNCHANGED <<last, raced>>
        \/ /\ UNCHANGED last
           /\ raced' = [raced EXCEPT ![w] = {}] /\ pc' = [pc EXCEPT ![w] = "idle"]
        \/ item[w].conn \in Conns /\ CreateJob(item[w].conn)
    BY <1>5, <1>t DEF Enqueue, PassEnds, PassFails, Abandon, rows
  <2>3. v = w => pc'[v] # "due" /\ (pc'[v] = "idle" => listed'[v] = {})
    BY <1>t, <2>1
  <2>4. v # w => pc'[v] = pc[v] /\ listed'[v] = listed[v] /\ item'[v] = item[v]
    BY <1>t, <2>1
  <2>5. CASE v # w \/ pc'[v] # "idle"
    <3>1. listed'[v] \subseteq listed[v] /\ (pc'[v] = "idle" => listed'[v] = {})
      BY <1>i, <1>t, <2>1, <2>3, <2>4
    <3>2. \A c \in Conns : c \notin raced'[v] /\ last'[c].ran /\ pc[v] # "idle"
            => last'[c] = last[c] /\ c \notin raced[v]
      BY <1>0, <1>t, <2>2, <2>5, RacedNoted
    <3> QED
      BY <2>3, <2>4, <3>1, <3>2, PassKept
  <2>6. CASE v = w /\ pc'[v] = "idle"
    BY <2>3, <2>6 DEF PassOf, ListedLast, ItemLast
  <2> QED
    BY <2>5, <2>6
<1> QED
  BY <1>1, <1>2, <1>3, <1>4, <1>5 DEF Next, Pass

\* A due time that has come is one at which a run is due.
LEMMA DueHasCome ==
  ASSUME TypeOK, NEW c \in Conns, last[c].ran, NEW due, DueAfter(c, last[c], due), due <= now
  PROVE  \E s \in Choices[c] : RunDue(c, s)
<1>1. PICK s \in Choices[c] : \/ s.kind = "interval" /\ due = last[c].at + s.every
                              \/ s.kind = "cron" /\ due = NextFire(s.every, last[c].at)
  BY DEF DueAfter
<1>2. s.every \in Nat /\ (s.kind = "cron" => s.every > 0) /\ last[c].at \in Nat /\ now \in Nat
  BY SchedulerAssumption DEF TypeOK, Schedule, LastJob, Time
<1>3. CASE s.kind = "interval" /\ due = last[c].at + s.every
  BY <1>3 DEF RunDue
<1>4. CASE s.kind = "cron" /\ due = NextFire(s.every, last[c].at)
  <2>1. due \in Nat /\ due > last[c].at /\ due % s.every = 0
    BY <1>2, <1>4, Fires
  <2>2. due \in (last[c].at + 1)..now /\ due % s.every = 0
    BY <1>2, <2>1
  <2> QED
    BY <1>4, <2>2 DEF RunDue
<1> QED
  BY <1>1, <1>3, <1>4

\* However many workers make passes at once, none creates a job for a connection
\* before one of the schedules it may have had has come due since its last, unless
\* another job was created since its list was read: rows edited, paused, deleted
\* and finished under the pass change nothing about that.
THEOREM NoDouble == Spec => NoDoubleEnqueue
<1>1. PassInv /\ [Next]_vars =>
        \A w \in Workers : \A c \in Conns :
          Enqueued(w, c) /\ last[c].ran /\ c \notin raced[w]
            => \E s \in Choices[c] : RunDue(c, s)
  <2> SUFFICES ASSUME PassInv, [Next]_vars,
                      NEW w \in Workers, NEW c \in Conns,
                      Enqueued(w, c), last[c].ran, c \notin raced[w]
               PROVE  \E s \in Choices[c] : RunDue(c, s)
    OBVIOUS
  <2>1. TypeOK /\ ItemLast(w) /\ pc \in [Workers -> {"idle", "pass", "due"}]
    BY DEF PassInv, TypeOK
  <2>2. pc[w] = "due" /\ pc'[w] = "pass" /\ item[w].conn = c /\ ~busy[c] /\ busy'[c]
    BY DEF Enqueued
  <2>3. PICK v \in Workers : Pass(v) \/ PassFails(v)
    <3>1. ~(Tick \/ UNCHANGED vars)
      BY <2>2 DEF Tick, vars
    <3>2. ~\E d \in Conns : Api(d) \/ JobEnds(d)
      BY <2>2 DEF Api, Update, Delete, Trigger, JobEnds
    <3> QED
      BY <3>1, <3>2 DEF Next
  <2>4. v = w
    BY <2>1, <2>2, <2>3
    DEF Pass, ListSchedulable, Evaluate, Enqueue, PassEnds, PassFails, Abandon
  <2>5. Enqueue(w)
    BY <2>1, <2>2, <2>3, <2>4
    DEF Pass, ListSchedulable, Evaluate, PassEnds, PassFails, Abandon
  <2>6. item[w].due <= now
    BY <2>2, <2>5 DEF Enqueue, rows
  <2>7. DueAfter(c, last[c], item[w].due)
    BY <2>1, <2>2 DEF ItemLast
  <2> QED
    BY <2>1, <2>6, <2>7, DueHasCome
<1> QED
  BY <1>1, InitPass, PassStep, PTL DEF Spec, NoDoubleEnqueue

=============================================================================
