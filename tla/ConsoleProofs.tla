--------------------------- MODULE ConsoleProofs ---------------------------
(***************************************************************************)
(* Theorems about Console: what is shown is typed, belongs to what is open, *)
(* and the cursors stay on their rows.                                      *)
(***************************************************************************)
EXTENDS Console, FiniteSetTheorems, TLAPS

-----------------------------------------------------------------------------
(* The invariant. *)

\* The screen decides what the keyboard goes to, and there is something open on
\* it.
Screens ==
  /\ screen = "home" => pane \in HomePanes
  /\ screen = "workspace" => pane \in SpacePanes /\ workspace \in Spaces
  /\ screen = "connection" =>
       pane = "connJobs" /\ workspace \in Spaces /\ view["connection"] # <<>>

\* The rows read for pane p when x was asked for are x's.
Belongs(p, x, rows) ==
  /\ rows \in Seq(RowsOf(p))
  /\ p = "connections" => \A i \in DOMAIN rows : rows[i].of = x
  /\ p = "wsJobs" => \A i \in DOMAIN rows : SpaceOf[rows[i].of] = x
  /\ p = "connection" => Len(rows) = 1 /\ rows[1].id = x
  /\ p = "connJobs" => \A i \in DOMAIN rows : rows[i].of = x

\* An answer, or what of it was read, is about what was asked for.
Answers(kind, of, rows) ==
  \A p \in DOMAIN rows : p \in Parts(kind) /\ Belongs(p, of, rows[p])

AnswersBelong ==
  /\ \A i \in DOMAIN upds : Answers(upds[i].kind, upds[i].of, upds[i].rows)
  /\ fetch # Idle => Answers(fetch.cmd.op, fetch.cmd.of, fetch.read)

ConsoleInv == TypeOK /\ Screens /\ AnswersBelong /\ ShownBelongs


-----------------------------------------------------------------------------
(* The lists of rows. *)

Increasing(s) == \A i, j \in DOMAIN s : i < j => s[i].id < s[j].id

Keyed(S) ==
  /\ \A r \in S : r.id \in Nat
  /\ \A r, q \in S : r.id = q.id => r = q

\* Some row of a set has the smallest id.
LEMMA OldestRow ==
  ASSUME NEW S, S # {}, \A r \in S : r.id \in Nat
  PROVE  \E m \in S : \A r \in S : m.id <= r.id
<1> DEFINE T == {r.id : r \in S}
           Below == {ij \in Nat \X Nat : ij[1] < ij[2]}
<1>1. T \subseteq Nat /\ T # {}
  OBVIOUS
<1>2. IsWellFoundedOn(Below, Nat)
  BY NatLessThanWellFounded DEF OpToRel
<1>3. \A i, j \in Nat : i < j => <<i, j>> \in Below
  OBVIOUS
<1>4. \E t \in T : \A u \in T : <<u, t>> \notin Below
  <2> HIDE DEF T, Below
  <2> QED
    BY <1>1, <1>2, WFMin
<1>5. PICK t \in T : \A u \in T : <<u, t>> \notin Below
  BY <1>4
<1>6. PICK m \in S : m.id = t
  OBVIOUS
<1>7. ASSUME NEW r \in S
      PROVE  m.id <= r.id
  <2>1. <<r.id, m.id>> \notin Below
    BY <1>5, <1>6
  <2> QED
    BY <1>3, <2>1
<1> QED
  BY <1>7

\* A finite set of rows with ids of their own has a list in the order of the ids:
\* the oldest row before the list of the others.
LEMMA Sortable ==
  ASSUME NEW S, IsFiniteSet(S), Keyed(S)
  PROVE  \E s \in [1..Cardinality(S) -> S] : Increasing(s)
<1> DEFINE Sorted(T) == \E s \in [1..Cardinality(T) -> T] : Increasing(s)
           Bad == {T \in SUBSET S : ~Sorted(T)}
<1>1. SUFFICES ASSUME Bad # {}
               PROVE  FALSE
  OBVIOUS
<1>2. Bad \subseteq FiniteSubsetsOf(S)
  BY FS_Subset DEF FiniteSubsetsOf
<1>3. \E T \in Bad : \A U \in Bad : <<U, T>> \notin StrictSubsetOrdering(S)
  <2> HIDE DEF Bad
  <2> QED
    BY <1>1, <1>2, WFMin, FS_StrictSubsetOrderingWellFounded
<1>4. PICK T \in Bad : \A U \in Bad : <<U, T>> \notin StrictSubsetOrdering(S)
  BY <1>3
<1>5. T \subseteq S /\ IsFiniteSet(T) /\ ~Sorted(T)
  BY FS_Subset
<1>6. T # {}
  <2> SUFFICES ASSUME T = {}
               PROVE  FALSE
    OBVIOUS
  <2>1. Cardinality(T) = 0
    BY FS_EmptySet
  <2>2. [i \in 1..0 |-> i] \in [1..Cardinality(T) -> T] /\ Increasing([i \in 1..0 |-> i])
    BY <2>1 DEF Increasing
  <2> QED
    BY <1>5, <2>2
<1>7. PICK m \in T : \A r \in T : m.id <= r.id
  BY <1>5, <1>6, OldestRow DEF Keyed
<1> DEFINE U == T \ {m}
           n == Cardinality(T)
<1>8. IsFiniteSet(U) /\ Cardinality(U) = n - 1 /\ n \in Nat
  BY <1>5, FS_RemoveElement, FS_CardinalityType
<1>9. U \notin Bad /\ U \in SUBSET S
  BY <1>4, <1>5 DEF StrictSubsetOrdering
<1>10. PICK s \in [1..(n - 1) -> U] : Increasing(s)
  BY <1>8, <1>9
<1> DEFINE t == [i \in 1..n |-> IF i = 1 THEN m ELSE s[i - 1]]
<1> HIDE DEF n
<1>11. t \in [1..n -> T]
  BY <1>8, <1>10
<1>12. ASSUME NEW i \in 1..n, NEW j \in 1..n, i < j
       PROVE  t[i].id < t[j].id
  <2>1. j # 1 /\ j - 1 \in 1..(n - 1) /\ t[j] = s[j - 1] /\ s[j - 1] \in U
    BY <1>8, <1>10, <1>12
  <2>2. CASE i = 1
    <3>1. t[i] = m /\ t[j] \in T /\ t[j] # m
      BY <2>1, <2>2
    <3>2. m.id # t[j].id /\ m.id \in Nat /\ t[j].id \in Nat
      BY <1>5, <3>1 DEF Keyed
    <3> QED
      BY <1>7, <3>1, <3>2
  <2>3. CASE i # 1
    <3>1. i - 1 \in 1..(n - 1) /\ t[i] = s[i - 1] /\ i - 1 < j - 1
      BY <1>8, <1>12, <2>3
    <3> QED
      BY <1>10, <2>1, <3>1 DEF Increasing
  <2> QED
    BY <2>2, <2>3
<1>13. Increasing(t)
  BY <1>11, <1>12 DEF Increasing
<1> QED
  BY <1>5, <1>11, <1>13 DEF n

\* Oldest and Newest list rows of the set, all of them.
LEMMA Lists ==
  ASSUME NEW S, NEW F, IsFiniteSet(F), F \subseteq Nat,
         \A r \in S : r.id \in F, \A r, q \in S : r.id = q.id => r = q
  PROVE  /\ Oldest(S) \in Seq(S) /\ Newest(S) \in Seq(S)
         /\ IsFiniteSet(S) /\ Len(Oldest(S)) = Cardinality(S)
<1>1. IsFiniteSet(S)
  <2>1. [r \in S |-> r.id] \in Injection(S, F)
    BY DEF Injection, IsInjective
  <2> QED
    BY <2>1, FS_Injection
<1>2. Cardinality(S) \in Nat
  BY <1>1, FS_CardinalityType
<1>3. Keyed(S)
  BY DEF Keyed
<1>4. Oldest(S) \in [1..Cardinality(S) -> S]
  BY <1>1, <1>3, Sortable DEF Oldest, Increasing
<1>5. Oldest(S) \in Seq(S) /\ Len(Oldest(S)) = Cardinality(S)
  BY <1>2, <1>4
<1>6. Newest(S) \in Seq(S)
  BY <1>5, <1>2 DEF Newest, Reverse
<1> QED
  BY <1>1, <1>5, <1>6

LEMMA Element ==
  ASSUME NEW T, NEW s \in Seq(T), NEW i \in 1..Len(s)
  PROVE  s[i] \in T
OBVIOUS

-----------------------------------------------------------------------------
(* What the API answers. *)

LEMMA SpaceRowsTyped ==
  ASSUME TypeOK
  PROVE  SpaceRows \in Seq(SpaceRow)
<1> DEFINE S == {[id |-> w, of |-> 0, st |-> "there"] : w \in spaces}
<1>1. S \subseteq SpaceRow /\ \A r \in S : r.id \in Spaces
  BY DEF TypeOK, SpaceRow
<1>2. \A r, q \in S : r.id = q.id => r = q
  OBVIOUS
<1>3. Oldest(S) \in Seq(S)
  <2> HIDE DEF S
  <2> QED
    BY <1>1, <1>2, Lists, ConsoleAssumption
<1>4. Oldest(S) \in Seq(SpaceRow)
  <2> HIDE DEF S
  <2> QED
    BY <1>1, <1>3
<1> QED
  BY <1>4 DEF SpaceRows

LEMMA ConnRowsTyped ==
  ASSUME TypeOK, NEW C \in SUBSET Conns
  PROVE  /\ ConnRows(C) \in Seq({r \in ConnRow : r.id \in C})
         /\ \A c \in Conns : C = {c} /\ There(c) => Len(ConnRows(C)) = 1
<1> DEFINE D == {d \in C : status[d] # "gone"}
           S == {[id |-> c, of |-> SpaceOf[c], st |-> status[c]] : c \in D}
<1>1. S \subseteq {r \in ConnRow : r.id \in C}
  <2> SUFFICES ASSUME NEW c \in D
               PROVE  [id |-> c, of |-> SpaceOf[c], st |-> status[c]] \in ConnRow
    OBVIOUS
  <2>1. c \in Conns /\ SpaceOf[c] \in Spaces /\ status[c] \in Statuses
    BY ConsoleAssumption DEF TypeOK
  <2> QED
    BY <2>1 DEF ConnRow
<1>2. \A r, q \in S : r.id = q.id => r = q
  OBVIOUS
<1>3. \A r \in S : r.id \in Conns
  OBVIOUS
<1>4. /\ Oldest(S) \in Seq(S) /\ IsFiniteSet(S)
      /\ Len(Oldest(S)) = Cardinality(S)
  <2> HIDE DEF S
  <2> QED
    BY <1>2, <1>3, Lists, ConsoleAssumption
<1>5. Oldest(S) \in Seq({r \in ConnRow : r.id \in C})
  <2> HIDE DEF S
  <2> QED
    BY <1>1, <1>4
<1>6. ASSUME NEW c \in Conns, C = {c}, There(c)
      PROVE  Len(Oldest(S)) = 1
  <2>1. S = {[id |-> c, of |-> SpaceOf[c], st |-> status[c]]}
    BY <1>6 DEF There
  <2> QED
    BY <1>4, <2>1, FS_Singleton
<1> QED
  BY <1>5, <1>6 DEF ConnRows

LEMMA JobRowsTyped ==
  ASSUME TypeOK, NEW C \in SUBSET Conns
  PROVE  JobRows(C) \in Seq({r \in JobRow : r.of \in C})
<1> DEFINE J == {k \in 1..Len(jobs) : jobs[k].of \in C}
           S == {[id |-> j, of |-> jobs[j].of, st |-> jobs[j].st] : j \in J}
<1>0. 1..Len(jobs) \subseteq 1..MaxJobs /\ MaxJobs \in Nat
  BY ConsoleAssumption DEF TypeOK
<1>1. S \subseteq {r \in JobRow : r.of \in C}
  <2> SUFFICES ASSUME NEW j \in J
               PROVE  [id |-> j, of |-> jobs[j].of, st |-> jobs[j].st] \in JobRow
    OBVIOUS
  <2>1. j \in 1..Len(jobs) /\ jobs \in Seq([of : Conns, st : JobStatuses])
    BY DEF TypeOK
  <2>2. jobs[j] \in [of : Conns, st : JobStatuses]
    BY <2>1, Element
  <2>3. j \in 1..MaxJobs
    BY <1>0, <2>1
  <2> QED
    BY <2>2, <2>3 DEF JobRow
<1>2. \A r, q \in S : r.id = q.id => r = q
  OBVIOUS
<1>3. \A r \in S : r.id \in 1..MaxJobs
  BY <1>0
<1>4. IsFiniteSet(1..MaxJobs) /\ 1..MaxJobs \subseteq Nat
  BY <1>0, FS_Interval
<1>5. Newest(S) \in Seq(S)
  <2> HIDE DEF S
  <2> QED
    BY <1>2, <1>3, <1>4, Lists
<1>6. Newest(S) \in Seq({r \in JobRow : r.of \in C})
  <2> HIDE DEF S
  <2> QED
    BY <1>1, <1>5
<1> QED
  BY <1>6 DEF JobRows

\* An answer is about what was asked for.
LEMMA TruthBelongs ==
  ASSUME TypeOK, NEW c \in Command, c.op \in Loads, ~Refused(c), NEW p \in Parts(c.op)
  PROVE  Belongs(p, c.of, Truth(p, c.of, c.of))
<1> DEFINE x == c.of
           rows == Truth(p, x, x)
<1>1. CASE c.op = "home"
  <2>1. p \in {"workspaces", "activity"}
    BY <1>1 DEF Parts, HomePanes
  <2>2. CASE p = "workspaces"
    BY <2>2, SpaceRowsTyped DEF Truth, Belongs, RowsOf
  <2>3. CASE p = "activity"
    <3>1. JobRows(Existing) \in Seq({r \in JobRow : r.of \in Existing})
      BY JobRowsTyped DEF Existing
    <3>2. JobRows(Existing) \in Seq(JobRow)
      BY <3>1
    <3> QED
      BY <2>3, <3>2 DEF Truth, Belongs, RowsOf
  <2> QED
    BY <2>1, <2>2, <2>3
<1>2. CASE c.op = "workspace"
  <2>1. p \in {"connections", "wsJobs"}
    BY <1>2 DEF Parts, SpacePanes
  <2>2. CASE p = "connections"
    <3>1. ConnRows(Members(x)) \in Seq({r \in ConnRow : r.id \in Members(x)})
      BY ConnRowsTyped DEF Members
    <3>2. \A r \in {q \in ConnRow : q.id \in Members(x)} : r.of = x
      BY DEF ConnRow, Members
    <3>3. /\ ConnRows(Members(x)) \in Seq(ConnRow)
          /\ \A i \in DOMAIN ConnRows(Members(x)) : ConnRows(Members(x))[i].of = x
      BY <3>1, <3>2
    <3> QED
      BY <2>2, <3>3 DEF Truth, Belongs, RowsOf
  <2>3. CASE p = "wsJobs"
    <3> DEFINE C == Existing \cap Members(x)
    <3>1. JobRows(C) \in Seq({r \in JobRow : r.of \in C})
      BY JobRowsTyped DEF Members
    <3>2. \A r \in {q \in JobRow : q.of \in C} : SpaceOf[r.of] = x
      BY DEF Members
    <3>3. /\ JobRows(C) \in Seq(JobRow)
          /\ \A i \in DOMAIN JobRows(C) : SpaceOf[JobRows(C)[i].of] = x
      <4> HIDE DEF C
      <4> QED
        BY <3>1, <3>2
    <3> QED
      BY <2>3, <3>3 DEF Truth, Belongs, RowsOf
  <2> QED
    BY <2>1, <2>2, <2>3
<1>3. CASE c.op = "connection"
  <2>1. p \in {"connection", "connJobs"} /\ x \in Conns /\ There(x)
    BY <1>3 DEF Parts, ConnPanes, HomePanes, SpacePanes, Refused, Command
  <2>2. CASE p = "connection"
    <3>1. /\ ConnRows({x}) \in Seq({r \in ConnRow : r.id \in {x}})
          /\ Len(ConnRows({x})) = 1
      BY <2>1, ConnRowsTyped
    <3>2. ConnRows({x}) \in Seq(ConnRow) /\ ConnRows({x})[1].id = x
      BY <3>1
    <3> QED
      BY <2>2, <3>1, <3>2 DEF Truth, Belongs, RowsOf
  <2>3. CASE p = "connJobs"
    <3> DEFINE C == Existing \cap {x}
    <3>1. JobRows(C) \in Seq({r \in JobRow : r.of \in C})
      BY <2>1, JobRowsTyped
    <3>2. /\ JobRows(C) \in Seq(JobRow)
          /\ \A i \in DOMAIN JobRows(C) : JobRows(C)[i].of = x
      <4>1. \A r \in {q \in JobRow : q.of \in C} : r \in JobRow /\ r.of = x
        OBVIOUS
      <4> HIDE DEF C
      <4> QED
        BY <3>1, <4>1
    <3> QED
      BY <2>3, <3>2 DEF Truth, Belongs, RowsOf
  <2> QED
    BY <2>1, <2>2, <2>3
<1> QED
  BY <1>1, <1>2, <1>3 DEF Loads

LEMMA RowsAreRows == \A p : Seq(RowsOf(p)) \subseteq Seq(Row)
BY DEF RowsOf, Row

-----------------------------------------------------------------------------
(* Types: what is stored, what is shown and what is on its way. *)

StoreOK ==
  /\ spaces \subseteq Spaces
  /\ status \in [Conns -> Statuses \cup {"gone"}]
  /\ jobs \in Seq([of : Conns, st : JobStatuses]) /\ Len(jobs) <= MaxJobs
  /\ up \in BOOLEAN /\ late \subseteq Command
  /\ changes \in 0..MaxChanges

ViewOK ==
  /\ view \in [Panes -> Seq(Row)] /\ \A p \in Panes : view[p] \in Seq(RowsOf(p))
  /\ sel \in [Panes -> Nat]
  /\ Len(view["connection"]) <= 1 /\ sel["connection"] = 0

ShownOK ==
  /\ screen \in {"home", "workspace", "connection"}
  /\ pane \in Panes
  /\ overlay \in {"none", "page", "input", "typed"}
  /\ workspace \in Spaces \cup {0}
  /\ ViewOK
  /\ online \in BOOLEAN /\ running \in BOOLEAN
  /\ keys \in 0..MaxKeys

ChannelsOK ==
  /\ cmds \in Seq(Command) /\ upds \in Seq(Update)
  /\ fetch = Idle \/ fetch \in [cmd : Command, read : [DOMAIN fetch.read -> Seq(Row)]]
  /\ InFlight <= MaxInFlight

LEMMA TypeParts == TypeOK <=> StoreOK /\ ShownOK /\ ChannelsOK
BY DEF TypeOK, StoreOK, ShownOK, ViewOK, ChannelsOK

ShownInv == ShownOK /\ Screens /\ ShownBelongs

LEMMA InvParts == ConsoleInv <=> StoreOK /\ ShownInv /\ ChannelsOK /\ AnswersBelong
BY TypeParts DEF ConsoleInv, ShownInv

LEMMA InvPartsNext ==
  StoreOK' /\ ShownInv' /\ ChannelsOK' /\ AnswersBelong' => ConsoleInv'
BY DEF ConsoleInv, ShownInv, TypeOK, StoreOK, ShownOK, ViewOK, ChannelsOK

LEMMA PaneNames ==
  /\ HomePanes = {"workspaces", "activity"} /\ SpacePanes = {"connections", "wsJobs"}
  /\ ConnPanes = {"connection", "connJobs"}
  /\ Panes = {"workspaces", "activity", "connections", "wsJobs", "connection", "connJobs"}
BY DEF HomePanes, SpacePanes, ConnPanes, Panes

LEMMA PaneRows ==
  /\ RowsOf("workspaces") = SpaceRow
  /\ RowsOf("connections") = ConnRow /\ RowsOf("connection") = ConnRow
  /\ RowsOf("activity") = JobRow /\ RowsOf("wsJobs") = JobRow /\ RowsOf("connJobs") = JobRow
BY DEF RowsOf

LEMMA CurrentRow ==
  ASSUME ViewOK, NEW p \in Panes, Highlighted(p)
  PROVE  /\ sel[p] + 1 \in DOMAIN view[p]
         /\ Current(p) = view[p][sel[p] + 1] /\ Current(p) \in RowsOf(p)
<1>1. view[p] \in Seq(RowsOf(p)) /\ sel[p] \in Nat /\ sel[p] < Len(view[p])
  BY DEF ViewOK, Highlighted
<1>2. sel[p] + 1 \in 1..Len(view[p])
  BY <1>1
<1> QED
  BY <1>1, <1>2, Element DEF Current

LEMMA OpenedRow ==
  ASSUME ViewOK, view["connection"] # <<>>
  PROVE  /\ 1 \in DOMAIN view["connection"] /\ view["connection"][1] \in ConnRow
         /\ Opened \in Conns
<1>1. view["connection"] \in Seq(ConnRow)
  BY PaneNames, PaneRows DEF ViewOK
<1>2. 1 \in 1..Len(view["connection"])
  BY <1>1
<1>3. view["connection"][1] \in ConnRow
  BY <1>1, <1>2, Element
<1> QED
  BY <1>1, <1>2, <1>3 DEF Opened, ConnRow

-----------------------------------------------------------------------------
(* Commands. *)

LEMMA Commands ==
  /\ Cmd("home", 0, "-") \in Command /\ Cmd("create", 0, "-") \in Command
  /\ \A w \in Spaces : Cmd("workspace", w, "-") \in Command
  /\ \A c \in Conns : Cmd("connection", c, "-") \in Command /\ Cmd("sync", c, "-") \in Command
  /\ \A j \in 1..MaxJobs : Cmd("cancel", j, "-") \in Command /\ Cmd("detail", j, "-") \in Command
  /\ \A c \in Conns, st \in Statuses : Cmd("status", c, st) \in Command
BY DEF Cmd, Command

LEMMA ReloadCommand ==
  ASSUME ShownOK, Screens, NEW s \in {"home", "workspace", "connection"},
         s = "workspace" => screen # "home", s = "connection" => screen = "connection"
  PROVE  Reload(s) \in Command
<1>1. ViewOK
  BY DEF ShownOK
<1>2. CASE s = "home"
  BY <1>2, Commands DEF Reload
<1>3. CASE s = "workspace"
  BY <1>3, Commands DEF Reload, Screens, ShownOK
<1>4. CASE s = "connection"
  BY <1>1, <1>4, Commands, OpenedRow DEF Reload, Screens
<1> QED
  BY <1>2, <1>3, <1>4

\* A channel with one more command in it.
LEMMA SendKeeps ==
  ASSUME ChannelsOK, AnswersBelong, NEW c \in Command, Send(c), UNCHANGED <<fetch, upds>>
  PROVE  ChannelsOK' /\ AnswersBelong'
<1>1. cmds' \in Seq(Command) /\ Len(cmds') = Len(cmds) + 1
  BY DEF Send, ChannelsOK
<1>2. InFlight' = InFlight + 1 /\ InFlight \in Nat /\ MaxInFlight \in Nat
  BY <1>1, ConsoleAssumption DEF InFlight, ChannelsOK
<1> QED
  BY <1>1, <1>2 DEF ChannelsOK, AnswersBelong, Send

LEMMA ChannelsKept ==
  ASSUME ChannelsOK, AnswersBelong, UNCHANGED <<cmds, fetch, upds>>
  PROVE  ChannelsOK' /\ AnswersBelong'
BY DEF ChannelsOK, AnswersBelong, InFlight

-----------------------------------------------------------------------------
(* Keys. *)

\* The connection a key is about is a row of one.
LEMMA SubjectRow ==
  ASSUME ShownOK, Screens, NEW c \in Subject
  PROVE  c \in ConnRow /\ c.id \in Conns
<1>1. c \in ConnRow
  <2>1. CASE screen = "connection"
    BY <2>1, OpenedRow DEF Subject, Screens, ShownOK
  <2>2. CASE screen # "connection"
    <3>1. pane = "connections" /\ Highlighted(pane) /\ c = Current(pane)
      BY <2>2 DEF Subject
    <3> QED
      BY <3>1, CurrentRow, PaneNames, PaneRows DEF ShownOK
  <2> QED
    BY <2>1, <2>2
<1> QED
  BY <1>1 DEF ConnRow

\* What a key sends.
LEMMA KeyCommand ==
  ASSUME ShownOK, Screens, Keys, ~Quit
  PROVE  /\ UNCHANGED <<fetch, upds>>
         /\ UNCHANGED cmds \/ \E c \in Command : Send(c)
<1>0. ViewOK
  BY DEF ShownOK
<1>1. CASE Move
  BY <1>1 DEF Move, Key
<1>2. CASE Switch
  BY <1>2 DEF Switch, Key
<1>3. CASE OpenWorkspace
  <2>1. Current("workspaces") \in SpaceRow
    BY <1>0, <1>3, CurrentRow, PaneNames, PaneRows DEF OpenWorkspace
  <2>2. Cmd("workspace", Current(pane).id, "-") \in Command
    BY <1>3, <2>1, Commands DEF SpaceRow, OpenWorkspace
  <2> QED
    BY <1>3, <2>2 DEF OpenWorkspace, Key
<1>4. CASE OpenConnection
  <2>1. Current("connections") \in ConnRow
    BY <1>0, <1>4, CurrentRow, PaneNames, PaneRows DEF OpenConnection
  <2>2. Cmd("connection", Current(pane).id, "-") \in Command
    BY <1>4, <2>1, Commands DEF ConnRow, OpenConnection
  <2> QED
    BY <1>4, <2>2 DEF OpenConnection, Key
<1>5. CASE Back
  <2>1. Send(Reload(screen')) /\ UNCHANGED <<fetch, upds>>
    BY <1>5 DEF Back, Key
  <2>2. \/ screen' = "home"
        \/ screen' = "workspace" /\ screen = "connection"
    BY <1>5 DEF Back
  <2>3. Reload(screen') \in Command
    BY <2>2, ReloadCommand
  <2> QED
    BY <2>1, <2>3
<1>6. CASE AskDetail
  <2>1. Current(pane) \in JobRow
    BY <1>0, <1>6, CurrentRow, PaneNames, PaneRows DEF AskDetail
  <2>2. Cmd("detail", Current(pane).id, "-") \in Command
    BY <2>1, Commands DEF JobRow
  <2> QED
    BY <1>6, <2>2 DEF AskDetail, Ask, Key
<1>7. CASE AskSync
  <2>1. PICK c \in Subject : Ask(Cmd("sync", c.id, "-"))
    BY <1>7 DEF AskSync
  <2>2. Cmd("sync", c.id, "-") \in Command
    BY SubjectRow, Commands
  <2> QED
    BY <2>1, <2>2 DEF Ask, Key
<1>8. CASE AskStatus
  <2>1. PICK c \in Subject : Ask(Cmd("status", c.id, Toggled(c.st)))
    BY <1>8 DEF AskStatus
  <2>2. Cmd("status", c.id, Toggled(c.st)) \in Command
    BY SubjectRow, Commands DEF Toggled, Statuses
  <2> QED
    BY <2>1, <2>2 DEF Ask, Key
<1>9. CASE AskCancel
  <2>1. Current("connJobs") \in JobRow
    BY <1>0, <1>9, CurrentRow, PaneNames, PaneRows DEF AskCancel
  <2>2. Cmd("cancel", Current("connJobs").id, "-") \in Command
    BY <2>1, Commands DEF JobRow
  <2> QED
    BY <1>9, <2>2 DEF AskCancel, Ask, Key
<1>10. CASE OpenOverlay
  BY <1>10 DEF OpenOverlay, Key
<1>11. CASE CloseOverlay
  BY <1>11 DEF CloseOverlay, Key
<1>12. CASE Type
  BY <1>12 DEF Type, Key
<1>13. CASE Submit
  BY <1>13, Commands DEF Submit, Key
<1> QED
  BY <1>1, <1>2, <1>3, <1>4, <1>5, <1>6, <1>7, <1>8, <1>9, <1>10, <1>11, <1>12, <1>13
  DEF Keys

LEMMA ShortLists ==
  ASSUME NEW T
  PROVE  <<>> \in Seq(T) /\ \A r \in T : <<r>> \in Seq(T)
OBVIOUS

\* A step that leaves lists alone, empties them or puts one row there.
LEMMA ViewChanged ==
  ASSUME ViewOK, view' \in [Panes -> Seq(Row)], sel' \in [Panes -> Nat],
         \A p \in Panes : \/ view'[p] = view[p] \/ view'[p] = <<>>
                          \/ \E r \in RowsOf(p) : view'[p] = <<r>>,
         sel'["connection"] = 0
  PROVE  ViewOK'
<1>1. ASSUME NEW p \in Panes
      PROVE  view'[p] \in Seq(RowsOf(p))
  <2>1. view[p] \in Seq(RowsOf(p))
    BY DEF ViewOK
  <2>2. <<>> \in Seq(RowsOf(p)) /\ \A r \in RowsOf(p) : <<r>> \in Seq(RowsOf(p))
    BY ShortLists
  <2> QED
    BY <2>1, <2>2
<1>2. Len(view'["connection"]) <= 1
  <2>1. "connection" \in Panes /\ Len(view["connection"]) <= 1
    BY PaneNames DEF ViewOK
  <2>2. \A r : Len(<<r>>) <= 1
    OBVIOUS
  <2>3. Len(<<>>) <= 1
    OBVIOUS
  <2> QED
    BY <2>1, <2>2, <2>3
<1> QED
  BY <1>1, <1>2 DEF ViewOK

LEMMA KeysShown ==
  ASSUME ShownInv, Keys
  PROVE  ShownInv'
<1>0. /\ ShownOK /\ Screens /\ ShownBelongs /\ ViewOK
      /\ view \in [Panes -> Seq(Row)] /\ sel \in [Panes -> Nat] /\ sel["connection"] = 0
  BY DEF ShownInv, ShownOK, ViewOK
<1>00. keys' \in 0..MaxKeys /\ UNCHANGED online
  <2>1. keys < MaxKeys /\ keys' = keys + 1 /\ UNCHANGED online
    BY DEF Keys, Key, Move, Switch, OpenWorkspace, OpenConnection, Back, Ask, AskDetail, AskSync,
           AskStatus, AskCancel, OpenOverlay, CloseOverlay, Type, Submit, Quit
  <2> QED
    BY <1>0, <2>1, ConsoleAssumption DEF ShownOK
<1>1. CASE Move
  <2>1. PICK to : sel' = [sel EXCEPT ![pane] = to]
    BY <1>1 DEF Move
  <2>2. pane \in Panes /\ pane # "connection"
    BY <1>0, PaneNames DEF ShownOK, Screens
  <2>3. sel'[pane] \in Nat
    <3>1. view[pane] \in Seq(Row) /\ sel[pane] \in Nat /\ Len(view[pane]) \in Nat
      BY <1>0, <2>2
    <3>2. view[pane] # <<>> => Len(view[pane]) - 1 \in Nat
      BY <3>1
    <3> QED
      BY <1>0, <1>1, <2>2, <3>1, <3>2 DEF Move
  <2>4. sel' \in [Panes -> Nat] /\ sel'["connection"] = 0
    BY <1>0, <2>1, <2>2, <2>3
  <2>5. UNCHANGED <<screen, pane, overlay, workspace, view, running>>
    BY <1>1 DEF Move
  <2>6. ViewOK'
    BY <1>0, <2>4, <2>5 DEF ViewOK
  <2> QED
    BY <1>0, <1>00, <2>5, <2>6 DEF ShownInv, ShownOK, Screens, ShownBelongs, Opened
<1>2. CASE Switch
  <2>1. /\ UNCHANGED <<screen, overlay, workspace, view, sel, running>>
        /\ pane' \in Panes
        /\ \/ pane \in HomePanes /\ pane' \in HomePanes
           \/ pane \in SpacePanes /\ pane' \in SpacePanes
    BY <1>2 DEF Switch, Panes
  <2>2. ViewOK'
    BY <1>0, <2>1 DEF ViewOK
  <2>3. Screens'
    BY <1>0, <2>1, PaneNames DEF Screens, ShownOK
  <2> QED
    BY <1>0, <1>00, <2>1, <2>2, <2>3 DEF ShownInv, ShownOK, ShownBelongs, Opened
<1>3. CASE OpenWorkspace
  <2>0. Current("workspaces") \in SpaceRow
    BY <1>0, <1>3, CurrentRow, PaneNames, PaneRows DEF OpenWorkspace
  <2>1. Current(pane).id \in Spaces
    BY <1>3, <2>0 DEF OpenWorkspace, SpaceRow
  <2>2. /\ workspace' \in Spaces /\ screen' = "workspace" /\ pane' = "connections"
        /\ view' = [p \in Panes |-> IF p \in SpacePanes THEN <<>> ELSE view[p]]
        /\ UNCHANGED <<overlay, sel, running>>
    BY <1>3, <2>1 DEF OpenWorkspace
  <2>3. ViewOK'
    BY <1>0, <2>2, ViewChanged
  <2>4. Screens'
    BY <2>2, PaneNames DEF Screens
  <2>5. ShownBelongs'
    BY <2>2, PaneNames DEF ShownBelongs
  <2> QED
    BY <1>0, <1>00, <2>2, <2>3, <2>4, <2>5, PaneNames DEF ShownInv, ShownOK
<1>4. CASE OpenConnection
  <2>1. /\ pane = "connections" /\ Current(pane) \in ConnRow
        /\ Current(pane) = view[pane][sel[pane] + 1] /\ sel[pane] + 1 \in DOMAIN view[pane]
    BY <1>0, <1>4, CurrentRow, PaneNames, PaneRows DEF OpenConnection
  <2>2. /\ screen' = "connection" /\ pane' = "connJobs"
        /\ view' = [view EXCEPT !["connection"] = <<Current(pane)>>, !["connJobs"] = <<>>]
        /\ sel' = [sel EXCEPT !["connJobs"] = 0]
        /\ UNCHANGED <<overlay, workspace, running>>
    BY <1>4 DEF OpenConnection
  <2>3. screen = "workspace" /\ workspace \in Spaces
    BY <1>0, <2>1, PaneNames DEF Screens, ShownOK
  <2>4. /\ view' \in [Panes -> Seq(Row)]
        /\ view'["connection"] = <<Current(pane)>> /\ view'["connJobs"] = <<>>
        /\ \A p \in Panes \ {"connection", "connJobs"} : view'[p] = view[p]
    <3>1. <<Current(pane)>> \in Seq(Row) /\ <<>> \in Seq(Row)
      BY <2>1, ShortLists DEF Row
    <3>2. DOMAIN view = Panes /\ {"connection", "connJobs"} \subseteq Panes
      BY <1>0, PaneNames
    <3>3. /\ view'["connection"] = <<Current(pane)>> /\ view'["connJobs"] = <<>>
          /\ \A p \in Panes \ {"connection", "connJobs"} : view'[p] = view[p]
          /\ DOMAIN view' = Panes
      BY <2>2, <3>2
    <3>4. view' = [p \in Panes |-> view'[p]]
      BY <2>2, <3>2
    <3>5. \A p \in Panes : view'[p] \in Seq(Row)
      BY <1>0, <3>1, <3>3
    <3> QED
      BY <3>3, <3>4, <3>5
  <2>5. sel' \in [Panes -> Nat] /\ sel'["connection"] = 0
    BY <1>0, <2>2, PaneNames
  <2>6. ViewOK'
    <3>1. RowsOf("connection") = ConnRow /\ "connection" \in Panes
      BY PaneNames, PaneRows
    <3>2. \A p \in Panes : \/ view'[p] = view[p] \/ view'[p] = <<>>
                           \/ \E r \in RowsOf(p) : view'[p] = <<r>>
      BY <2>1, <2>4, <3>1
    <3> QED
      BY <1>0, <2>4, <2>5, <3>2, ViewChanged
  <2>7. Screens'
    <3>1. \A r : <<r>> # <<>>
      OBVIOUS
    <3>2. view'["connection"] # <<>>
      BY <2>4, <3>1
    <3> QED
      BY <2>2, <2>3, <3>2 DEF Screens
  <2>8. Opened' = Current(pane).id
    BY <2>4 DEF Opened
  <2>9. SpaceOf[Opened'] = workspace
    <3>1. Current(pane).of = workspace
      BY <1>0, <2>1, <2>3 DEF ShownBelongs
    <3>2. Current(pane).of = SpaceOf[Current(pane).id]
      BY <2>1 DEF ConnRow
    <3> QED
      BY <2>8, <3>1, <3>2
  <2>10. ShownBelongs'
    <3>1. view'["connections"] = view["connections"] /\ view'["wsJobs"] = view["wsJobs"]
      BY <2>4, PaneNames
    <3>2. DOMAIN view'["connJobs"] = {}
      BY <2>4
    <3> QED
      BY <1>0, <2>2, <2>3, <2>9, <3>1, <3>2 DEF ShownBelongs
  <2> QED
    BY <1>0, <1>00, <2>2, <2>6, <2>7, <2>10, PaneNames DEF ShownInv, ShownOK
<1>5. CASE Back
  <2>1. UNCHANGED <<overlay, sel, running>>
    BY <1>5 DEF Back
  <2>2. CASE screen = "workspace"
    <3>1. /\ screen' = "home" /\ pane' = "workspaces" /\ workspace' = 0
          /\ UNCHANGED view
      BY <1>5, <2>2 DEF Back
    <3>2. ViewOK'
      BY <1>0, <2>1, <3>1 DEF ViewOK
    <3> QED
      BY <1>0, <1>00, <2>1, <3>1, <3>2, PaneNames
      DEF ShownInv, ShownOK, Screens, ShownBelongs
  <2>3. CASE screen = "connection"
    <3>1. /\ screen' = "workspace" /\ pane' = "connections"
          /\ view' = [view EXCEPT !["connection"] = <<>>] /\ UNCHANGED workspace
      BY <1>5, <2>3 DEF Back
    <3>2. /\ view' \in [Panes -> Seq(Row)]
          /\ \A p \in Panes : view'[p] = view[p] \/ view'[p] = <<>>
          /\ view'["connections"] = view["connections"] /\ view'["wsJobs"] = view["wsJobs"]
      BY <1>0, <3>1, PaneNames
    <3>3. ViewOK'
      BY <1>0, <2>1, <3>2, ViewChanged
    <3>4. Screens'
      BY <1>0, <2>3, <3>1, PaneNames DEF Screens
    <3>5. ShownBelongs'
      BY <1>0, <2>3, <3>1, <3>2 DEF ShownBelongs
    <3> QED
      BY <1>0, <1>00, <2>1, <3>1, <3>3, <3>4, <3>5, PaneNames DEF ShownInv, ShownOK
  <2> QED
    BY <1>5, <2>2, <2>3 DEF Back
<1>6. CASE UNCHANGED <<screen, pane, workspace, view, sel>>
  <2>1. overlay' \in {"none", "page", "input", "typed"} /\ running' \in BOOLEAN
    BY <1>0 DEF ShownOK, Keys, Move, Switch, OpenWorkspace, OpenConnection, Back, Ask, AskDetail,
           AskSync, AskStatus, AskCancel, OpenOverlay, CloseOverlay, Type, Submit, Quit
  <2>2. ViewOK'
    BY <1>0, <1>6 DEF ViewOK
  <2> QED
    BY <1>0, <1>00, <1>6, <2>1, <2>2 DEF ShownInv, ShownOK, Screens, ShownBelongs, Opened
<1> QED
  BY <1>1, <1>2, <1>3, <1>4, <1>5, <1>6
  DEF Keys, Ask, AskDetail, AskSync, AskStatus, AskCancel, OpenOverlay, CloseOverlay, Type,
      Submit, Quit

-----------------------------------------------------------------------------
(* The world and the effects of requests. *)

LEMMA NewJobTyped ==
  ASSUME StoreOK, NEW c \in Conns, Len(jobs) < MaxJobs, NewJob(c)
  PROVE  jobs' \in Seq([of : Conns, st : JobStatuses]) /\ Len(jobs') <= MaxJobs
<1>1. [of |-> c, st |-> "live"] \in [of : Conns, st : JobStatuses]
  BY DEF JobStatuses
<1>2. MaxJobs \in Nat
  BY ConsoleAssumption
<1> QED
  BY <1>1, <1>2 DEF StoreOK, NewJob

LEMMA EndsTyped ==
  ASSUME StoreOK, NEW j, Ends(j)
  PROVE  jobs' \in Seq([of : Conns, st : JobStatuses]) /\ Len(jobs') <= MaxJobs
<1> DEFINE T == [of : Conns, st : JobStatuses]
<1>1. jobs \in Seq(T) /\ jobs' = [jobs EXCEPT ![j] = [jobs[j] EXCEPT !.st = "done"]]
  BY DEF StoreOK, Ends
<1>2. CASE j \in DOMAIN jobs
  <2>0. j \in 1..Len(jobs)
    BY <1>1, <1>2
  <2>1. jobs[j] \in T
    BY <1>1, <2>0, Element
  <2>2. [jobs[j] EXCEPT !.st = "done"] \in T
    BY <2>1 DEF JobStatuses
  <2> HIDE DEF T
  <2>3. jobs' \in Seq(T) /\ Len(jobs') = Len(jobs)
    BY <1>1, <1>2, <2>2
  <2> QED
    BY <2>3 DEF StoreOK, T
<1>3. CASE j \notin DOMAIN jobs
  <2>1. jobs' = jobs
    BY <1>1, <1>3
  <2> QED
    BY <2>1 DEF StoreOK
<1> QED
  BY <1>2, <1>3

LEMMA EffectTyped ==
  ASSUME StoreOK, NEW c \in Command, Accepts(c), Effect(c)
  PROVE  /\ spaces' \subseteq Spaces /\ status' \in [Conns -> Statuses \cup {"gone"}]
         /\ jobs' \in Seq([of : Conns, st : JobStatuses]) /\ Len(jobs') <= MaxJobs
<1>1. spaces' \subseteq Spaces
  BY DEF Effect, Fresh, StoreOK
<1>2. status' \in [Conns -> Statuses \cup {"gone"}]
  <2>1. c.op = "status" => c.st \in Statuses
    BY DEF Command
  <2> QED
    BY <2>1 DEF Effect, StoreOK
<1>3. CASE c.op = "sync" /\ NewJob(c.of)
  <2>1. c.of \in Conns /\ Len(jobs) < MaxJobs
    BY <1>3 DEF Command, Accepts
  <2> QED
    BY <1>1, <1>2, <1>3, <2>1, NewJobTyped
<1>4. CASE c.op = "cancel" /\ Ends(c.of)
  BY <1>1, <1>2, <1>4, EndsTyped
<1>5. CASE UNCHANGED jobs
  BY <1>1, <1>2, <1>5 DEF StoreOK
<1> QED
  BY <1>3, <1>4, <1>5 DEF Effect

LEMMA WorldStep ==
  ASSUME ConsoleInv, World
  PROVE  ConsoleInv'
<1>0. StoreOK /\ ShownInv /\ ChannelsOK /\ AnswersBelong
  BY InvParts
<1>1. UNCHANGED <<shown, cmds, fetch, upds>>
  BY DEF World, OtherStarts, OtherEnds, OtherPatches, OtherDeletes, Outage, Recovery, Lands,
         Others
<1>2. ChannelsOK' /\ AnswersBelong'
  BY <1>0, <1>1, ChannelsKept
<1>3. ShownInv'
  BY <1>0, <1>1 DEF shown, ShownInv, ShownOK, ViewOK, Screens, ShownBelongs, Opened
<1>4. StoreOK'
  <2>0. changes' \in 0..MaxChanges /\ up' \in BOOLEAN /\ late' \subseteq Command
    <3>1. \/ UNCHANGED changes
          \/ changes < MaxChanges /\ changes' = changes + 1
      BY DEF World, OtherStarts, OtherEnds, OtherPatches, OtherDeletes, Outage, Recovery,
             Lands, Others
    <3>2. up' \in {up, TRUE, FALSE} /\ late' \subseteq late
      BY DEF World, OtherStarts, OtherEnds, OtherPatches, OtherDeletes, Outage, Recovery,
             Lands, Others
    <3>3. changes \in 0..MaxChanges /\ MaxChanges \in Nat
      BY <1>0, ConsoleAssumption DEF StoreOK
    <3>4. changes' \in 0..MaxChanges
      BY <3>1, <3>3
    <3>5. up \in BOOLEAN /\ late \subseteq Command
      BY <1>0 DEF StoreOK
    <3>6. up' \in BOOLEAN
      BY <3>2, <3>5, Zenon
    <3> QED
      BY <3>2, <3>4, <3>5, <3>6
  <2>1. CASE OtherStarts
    <3>1. /\ UNCHANGED <<spaces, status>>
          /\ \E c \in Conns : Len(jobs) < MaxJobs /\ NewJob(c)
      BY <2>1 DEF OtherStarts
    <3> QED
      BY <1>0, <2>0, <3>1, NewJobTyped DEF StoreOK
  <2>2. CASE OtherEnds
    <3>1. UNCHANGED <<spaces, status>> /\ \E j \in 1..Len(jobs) : Ends(j)
      BY <2>2 DEF OtherEnds
    <3> QED
      BY <1>0, <2>0, <3>1, EndsTyped DEF StoreOK
  <2>3. CASE OtherPatches
    BY <1>0, <2>0, <2>3 DEF StoreOK, OtherPatches, Existing
  <2>4. CASE OtherDeletes
    <3>1. /\ spaces' \subseteq spaces /\ UNCHANGED jobs
          /\ status' \in [Conns -> Statuses \cup {"gone"}]
      BY <1>0, <2>4 DEF OtherDeletes, StoreOK, Existing
    <3> QED
      BY <1>0, <2>0, <3>1 DEF StoreOK
  <2>5. CASE Outage \/ Recovery
    BY <1>0, <2>0, <2>5 DEF StoreOK, Outage, Recovery, Unaffected
  <2>6. CASE Lands
    <3>1. PICK c \in late : Accepts(c) /\ Effect(c)
      BY <2>6 DEF Lands
    <3>2. c \in Command
      BY <1>0, <3>1 DEF StoreOK
    <3> QED
      BY <1>0, <2>0, <3>1, <3>2, EffectTyped DEF StoreOK
  <2> QED
    BY <2>1, <2>2, <2>3, <2>4, <2>5, <2>6 DEF World
<1> QED
  BY <1>2, <1>3, <1>4, InvPartsNext

-----------------------------------------------------------------------------
(* The fetch task. *)

\* A command at hand that is one of these is a real one.
LEMMA AtHand ==
  ASSUME ChannelsOK, fetch.cmd.op \in Loads \cup Mutations \cup {"detail"} \/ fetch # Idle
  PROVE  /\ fetch # Idle /\ fetch.cmd \in Command
         /\ fetch \in [cmd : Command, read : [DOMAIN fetch.read -> Seq(Row)]]
BY DEF ChannelsOK, Idle, Cmd, Loads, Mutations

LEMMA Appended ==
  ASSUME NEW T, NEW s \in Seq(T), NEW e \in T
  PROVE  /\ Append(s, e) \in Seq(T) /\ Len(Append(s, e)) = Len(s) + 1
         /\ \A i \in DOMAIN Append(s, e) :
              \/ Append(s, e)[i] = e
              \/ i \in DOMAIN s /\ Append(s, e)[i] = s[i]
OBVIOUS

\* An answer about what was asked for, and the task is idle again.
LEMMA AnswerKeeps ==
  ASSUME ChannelsOK, AnswersBelong, fetch # Idle, NEW u \in Update,
         Answers(u.kind, u.of, u.rows), Answer(u), UNCHANGED cmds
  PROVE  ChannelsOK' /\ AnswersBelong'
<1>1. /\ upds' \in Seq(Update) /\ Len(upds') = Len(upds) + 1 /\ fetch' = Idle
      /\ \A i \in DOMAIN upds' :
           \/ upds'[i] = u
           \/ i \in DOMAIN upds /\ upds'[i] = upds[i]
  <2>1. upds \in Seq(Update) /\ upds' = Append(upds, u) /\ fetch' = Idle
    BY DEF Answer, ChannelsOK
  <2>2. /\ Append(upds, u) \in Seq(Update) /\ Len(Append(upds, u)) = Len(upds) + 1
        /\ \A i \in DOMAIN Append(upds, u) :
             \/ Append(upds, u)[i] = u
             \/ i \in DOMAIN upds /\ Append(upds, u)[i] = upds[i]
    BY <2>1, Appended
  <2> QED
    BY <2>1, <2>2
<1>2. InFlight' = InFlight
  BY <1>1 DEF InFlight, ChannelsOK
<1>3. ChannelsOK'
  BY <1>1, <1>2 DEF ChannelsOK
<1>4. Idle' = Idle
  BY DEF Idle, Cmd, NoRows
<1>5. AnswersBelong'
  BY <1>1, <1>4 DEF AnswersBelong
<1> QED
  BY <1>3, <1>5

LEMMA NothingRead ==
  /\ NoRows \in Tables /\ DOMAIN NoRows = {}
  /\ \A kind, of : Answers(kind, of, NoRows)
BY DEF NoRows, Tables, Answers

\* Updates that bring no rows.
LEMMA BareUpdate ==
  ASSUME NEW c \in Command, NEW kind \in {"detail", "notice", "error", "failed"}
  PROVE  /\ Upd(kind, c.of, NoRows) \in Update
         /\ Answers(kind, c.of, NoRows)
<1>1. c.of \in Spaces \cup Conns \cup 1..MaxJobs \cup {0}
  BY DEF Command
<1> QED
  BY <1>1, NothingRead DEF Upd, Update

LEMMA TakeStep ==
  ASSUME ChannelsOK, AnswersBelong, Take
  PROVE  ChannelsOK' /\ AnswersBelong'
<1>1. /\ fetch = Idle /\ cmds # <<>> /\ cmds \in Seq(Command)
      /\ fetch' = [cmd |-> Head(cmds), read |-> NoRows]
      /\ cmds' = Tail(cmds) /\ UNCHANGED upds
  BY DEF Take, ChannelsOK
<1>2. Head(cmds) \in Command /\ cmds' \in Seq(Command) /\ Len(cmds') = Len(cmds) - 1
  BY <1>1
<1>3. /\ fetch' \in [cmd : Command, read : [DOMAIN fetch'.read -> Seq(Row)]]
      /\ fetch'.cmd = Head(cmds) /\ fetch'.read = NoRows
  <2>1. NoRows \in [{} -> Seq(Row)]
    BY DEF NoRows
  <2> QED
    BY <1>1, <1>2, <2>1, NothingRead
<1>4. InFlight' = InFlight \/ InFlight' = InFlight - 1
  <2>1. Len(cmds) \in Nat /\ Len(cmds') \in Nat /\ Len(upds) \in Nat
    BY <1>1, <1>2 DEF ChannelsOK
  <2> QED
    BY <1>1, <1>2, <2>1 DEF InFlight
<1>5. ChannelsOK'
  <2>1. InFlight \in Nat /\ MaxInFlight \in Nat
    BY <1>1, ConsoleAssumption DEF InFlight, ChannelsOK
  <2> QED
    BY <1>1, <1>2, <1>3, <1>4, <2>1 DEF ChannelsOK
<1>6. AnswersBelong'
  BY <1>1, <1>3, NothingRead DEF AnswersBelong
<1> QED
  BY <1>5, <1>6

LEMMA ReadStep ==
  ASSUME TypeOK, ChannelsOK, AnswersBelong, Read
  PROVE  ChannelsOK' /\ AnswersBelong'
<1> DEFINE c == fetch.cmd
<1>1. /\ c.op \in Loads /\ ~Refused(c) /\ UNCHANGED cmds
      /\ fetch # Idle /\ c \in Command
      /\ fetch \in [cmd : Command, read : [DOMAIN fetch.read -> Seq(Row)]]
  BY AtHand DEF Read
<1>2. PICK p \in Parts(c.op) \ DOMAIN fetch.read :
        LET rows == [q \in DOMAIN fetch.read \cup {p} |->
                       IF q = p THEN Truth(p, c.of, c.of) ELSE fetch.read[q]]
        IN IF DOMAIN rows = Parts(c.op) THEN Answer(Upd(c.op, c.of, rows))
           ELSE fetch' = [fetch EXCEPT !.read = rows] /\ UNCHANGED upds
  BY DEF Read
<1> DEFINE rows == [q \in DOMAIN fetch.read \cup {p} |->
                      IF q = p THEN Truth(p, c.of, c.of) ELSE fetch.read[q]]
<1>3. Belongs(p, c.of, Truth(p, c.of, c.of))
  BY <1>1, <1>2, TruthBelongs
<1>4. Answers(c.op, c.of, fetch.read)
  BY <1>1 DEF AnswersBelong
<1>5. Answers(c.op, c.of, rows)
  BY <1>2, <1>3, <1>4 DEF Answers
<1>6. \A q \in DOMAIN rows : rows[q] \in Seq(Row)
  BY <1>5, RowsAreRows DEF Answers, Belongs
<1>7. rows \in [DOMAIN rows -> Seq(Row)]
  BY <1>6
<1>8. CASE DOMAIN rows = Parts(c.op)
  <2>1. rows \in Tables
    BY <1>7, <1>8 DEF Parts, Tables
  <2>2. c.of \in Spaces \cup Conns \cup 1..MaxJobs \cup {0}
    BY <1>1 DEF Command
  <2> HIDE DEF rows
  <2>3. Upd(c.op, c.of, rows) \in Update
    BY <1>1, <2>1, <2>2 DEF Upd, Update
  <2>4. Answer(Upd(c.op, c.of, rows))
    BY <1>2, <1>8 DEF rows
  <2>5. Answers(Upd(c.op, c.of, rows).kind, Upd(c.op, c.of, rows).of, Upd(c.op, c.of, rows).rows)
    BY <1>5 DEF Upd
  <2> QED
    BY <1>1, <2>3, <2>4, <2>5, AnswerKeeps
<1>9. CASE DOMAIN rows # Parts(c.op)
  <2>1. fetch' = [fetch EXCEPT !.read = rows] /\ UNCHANGED upds
    BY <1>2, <1>9
  <2> HIDE DEF rows
  <2>2. /\ fetch'.cmd = c /\ fetch'.read = rows
        /\ fetch' = [cmd |-> c, read |-> rows]
    BY <1>1, <2>1
  <2>3. fetch' \in [cmd : Command, read : [DOMAIN fetch'.read -> Seq(Row)]]
    BY <1>1, <1>7, <2>2
  <2>4. InFlight' <= InFlight
    BY <1>1, <2>1 DEF InFlight, ChannelsOK
  <2>5. ChannelsOK'
    <3>1. InFlight \in Nat /\ InFlight' \in Nat /\ MaxInFlight \in Nat
      BY <1>1, <2>1, ConsoleAssumption DEF InFlight, ChannelsOK
    <3> QED
      BY <1>1, <2>1, <2>3, <2>4, <3>1 DEF ChannelsOK
  <2>6. AnswersBelong'
    BY <1>5, <2>1, <2>2 DEF AnswersBelong
  <2> QED
    BY <2>5, <2>6
<1> QED
  BY <1>8, <1>9

LEMMA FetchStep ==
  ASSUME ConsoleInv, Fetch
  PROVE  ConsoleInv'
<1>0. TypeOK /\ StoreOK /\ ShownInv /\ ChannelsOK /\ AnswersBelong
  BY InvParts DEF ConsoleInv
<1>1. UNCHANGED shown
  BY DEF Fetch, Take, Read, Described, Failed, Carried, TimedOut, Quiet
<1>2. ShownInv'
  BY <1>0, <1>1 DEF shown, ShownInv, ShownOK, ViewOK, Screens, ShownBelongs, Opened
<1>3. ASSUME UNCHANGED store
      PROVE  StoreOK'
  BY <1>0, <1>3 DEF store, StoreOK
<1>4. CASE Take
  BY <1>0, <1>2, <1>3, <1>4, TakeStep, InvPartsNext DEF Take, Quiet
<1>5. CASE Read
  BY <1>0, <1>2, <1>3, <1>5, ReadStep, InvPartsNext DEF Read, Quiet
<1>6. ASSUME NEW kind \in {"detail", "notice", "error", "failed"}, fetch # Idle,
             Answer(Upd(kind, fetch.cmd.of, NoRows)), UNCHANGED cmds
      PROVE  ChannelsOK' /\ AnswersBelong'
  <2>1. fetch.cmd \in Command
    BY <1>0, <1>6, AtHand
  <2> DEFINE u == Upd(kind, fetch.cmd.of, NoRows)
  <2>2. u \in Update /\ Answers(u.kind, u.of, u.rows)
    BY <2>1, BareUpdate DEF Upd
  <2> HIDE DEF u
  <2> QED
    BY <1>0, <1>6, <2>2, AnswerKeeps DEF u
<1>7. CASE Described
  <2>1. fetch # Idle
    BY <1>0, <1>7, AtHand DEF Described
  <2> QED
    BY <1>2, <1>3, <1>6, <1>7, <2>1, InvPartsNext DEF Described, Quiet
<1>8. CASE Failed
  <2>1. /\ fetch # Idle /\ UNCHANGED <<store, cmds>>
        /\ \/ Answer(Upd("failed", fetch.cmd.of, NoRows))
           \/ Answer(Upd("error", fetch.cmd.of, NoRows))
    BY <1>8 DEF Failed, Quiet
  <2> QED
    BY <1>2, <1>3, <1>6, <2>1, InvPartsNext
<1>9. CASE Carried
  <2>1. fetch # Idle /\ fetch.cmd \in Command
    BY <1>0, <1>9, AtHand DEF Carried
  <2>2. /\ UNCHANGED <<up, late, changes, cmds>>
        /\ \/ /\ Accepts(fetch.cmd) /\ Effect(fetch.cmd)
              /\ Answer(Upd("notice", fetch.cmd.of, NoRows))
           \/ /\ UNCHANGED <<spaces, status, jobs>>
              /\ Answer(Upd("error", fetch.cmd.of, NoRows))
    BY <1>9 DEF Carried, Unaffected
  <2>3. ChannelsOK' /\ AnswersBelong'
    BY <1>6, <2>1, <2>2
  <2>4. StoreOK'
    BY <1>0, <2>1, <2>2, EffectTyped DEF StoreOK
  <2> QED
    BY <1>2, <2>3, <2>4, InvPartsNext
<1>10. CASE TimedOut
  <2>1. fetch # Idle /\ fetch.cmd \in Command
    BY <1>0, <1>10, AtHand DEF TimedOut
  <2>2. ChannelsOK' /\ AnswersBelong'
    BY <1>6, <1>10, <2>1 DEF TimedOut
  <2>3. StoreOK'
    BY <1>0, <1>10, <2>1, ConsoleAssumption DEF StoreOK, TimedOut
  <2> QED
    BY <1>2, <2>2, <2>3, InvPartsNext
<1> QED
  BY <1>4, <1>5, <1>7, <1>8, <1>9, <1>10 DEF Fetch

-----------------------------------------------------------------------------
(* Updates. *)

\* remap_selection gives an index from 0, the one of the row it had if the row is
\* still listed, and 0 in a list of one.
LEMMA RemapIs ==
  ASSUME NEW T, NEW old \in Seq(T), NEW new \in Seq(T), NEW i \in Nat
  PROVE  /\ Remap(old, i, new) \in Nat
         /\ Len(new) = 1 => Remap(old, i, new) = 0
         /\ i < Len(old) /\ old[i + 1].id \in Ids(new) =>
              /\ Remap(old, i, new) < Len(new)
              /\ new[Remap(old, i, new) + 1].id = old[i + 1].id
<1>0. Len(new) \in Nat /\ Len(old) \in Nat /\ DOMAIN new = 1..Len(new)
  OBVIOUS
<1>1. CASE i < Len(old) /\ old[i + 1].id \in Ids(new)
  <2> DEFINE id == old[i + 1].id
             k == CHOOSE j \in DOMAIN new : new[j].id = id
  <2>1. \E j \in DOMAIN new : new[j].id = id
    BY <1>1 DEF Ids
  <2>2. k \in DOMAIN new /\ new[k].id = id
    BY <2>1
  <2>3. Remap(old, i, new) = k - 1
    BY <1>1 DEF Remap, Index
  <2> HIDE DEF k
  <2>4. k \in Nat /\ k >= 1 /\ k <= Len(new) /\ (k - 1) + 1 = k
    BY <1>0, <2>2
  <2> QED
    BY <1>0, <2>2, <2>3, <2>4
<1>2. CASE ~(i < Len(old) /\ old[i + 1].id \in Ids(new))
  <2>1. Remap(old, i, new) = Clamped(i, new)
    BY <1>2 DEF Remap
  <2>2. Clamped(i, new) \in Nat /\ (Len(new) = 1 => Clamped(i, new) = 0)
    <3>1. new # <<>> => Len(new) >= 1
      BY <1>0
    <3> QED
      BY <1>0, <3>1 DEF Clamped
  <2> QED
    BY <1>2, <2>1, <2>2
<1> QED
  BY <1>1, <1>2

\* The first update is taken from the channel; another command may be added then.
LEMMA Applied ==
  ASSUME ChannelsOK, AnswersBelong, NEW kind, Applying(kind), UNCHANGED fetch,
         cmds' = cmds \/ \E c \in Command : cmds' = Append(cmds, c)
  PROVE  /\ ChannelsOK' /\ AnswersBelong'
         /\ Head(upds) \in Update
         /\ Answers(Head(upds).kind, Head(upds).of, Head(upds).rows)
<1>1. upds \in Seq(Update) /\ upds # <<>> /\ upds' = Tail(upds)
  BY DEF Applying, ChannelsOK
<1>2. /\ upds' \in Seq(Update) /\ Len(upds') = Len(upds) - 1 /\ Len(upds) \in Nat
      /\ \A i \in DOMAIN upds' : i + 1 \in DOMAIN upds /\ upds'[i] = upds[i + 1]
      /\ 1 \in DOMAIN upds /\ Head(upds) = upds[1]
  BY <1>1
<1>3. cmds' \in Seq(Command) /\ Len(cmds') <= Len(cmds) + 1 /\ Len(cmds) \in Nat /\ Len(cmds') \in Nat
  <2>1. cmds \in Seq(Command)
    BY DEF ChannelsOK
  <2>2. CASE cmds' = cmds
    BY <2>1, <2>2
  <2>3. CASE \E c \in Command : cmds' = Append(cmds, c)
    BY <2>1, <2>3
  <2> QED
    BY <2>2, <2>3
<1>4. InFlight' <= InFlight /\ InFlight \in Nat /\ InFlight' \in Nat
  <2>1. Len(upds') \in Nat
    BY <1>2
  <2> QED
    BY <1>2, <1>3, <2>1 DEF InFlight
<1>5. ChannelsOK'
  <2>1. MaxInFlight \in Nat
    BY ConsoleAssumption
  <2> QED
    BY <1>2, <1>3, <1>4, <2>1 DEF ChannelsOK
<1>6. AnswersBelong' /\ Answers(Head(upds).kind, Head(upds).of, Head(upds).rows)
  BY <1>2 DEF AnswersBelong
<1>7. Head(upds) \in Update
  BY <1>1, <1>2, Element
<1> QED
  BY <1>5, <1>6, <1>7

\* What a load brings to the lists.
LEMMA LoadRows ==
  ASSUME ShownInv, ChannelsOK, AnswersBelong, ApplyLoad
  PROVE  LET u == Head(upds)
         IN /\ view' \in [Panes -> Seq(Row)] /\ sel' \in [Panes -> Nat]
            /\ sel'["connection"] = 0
            /\ \A p \in Panes :
                 \/ view'[p] = view[p] /\ sel'[p] = sel[p]
                 \/ /\ p \in Parts(u.kind) /\ Wanted(u) /\ Belongs(p, u.of, view'[p])
                    /\ sel'[p] = Remap(view[p], sel[p], view'[p])
<1> DEFINE u == Head(upds)
           P == IF Wanted(u) THEN DOMAIN u.rows ELSE {}
<1>1. Answers(u.kind, u.of, u.rows)
  <2>1. Applying(Loads) /\ UNCHANGED <<fetch, cmds>>
    BY DEF ApplyLoad
  <2> QED
    BY <2>1, Applied
<1>2. /\ view \in [Panes -> Seq(Row)] /\ sel \in [Panes -> Nat] /\ sel["connection"] = 0
      /\ \A p \in Panes : view[p] \in Seq(Row)
  BY DEF ShownInv, ShownOK, ViewOK
<1>3. /\ sel' = [p \in Panes |-> IF p \in P THEN Remap(view[p], sel[p], u.rows[p]) ELSE sel[p]]
      /\ view' = [p \in Panes |-> IF p \in P THEN u.rows[p] ELSE view[p]]
  BY DEF ApplyLoad
<1>4. ASSUME NEW p \in P
      PROVE  /\ p \in Parts(u.kind) /\ Wanted(u) /\ Belongs(p, u.of, u.rows[p])
             /\ u.rows[p] \in Seq(Row)
  BY <1>1, RowsAreRows DEF Answers, Belongs
<1>5. \A p \in Panes : view'[p] \in Seq(Row)
  BY <1>2, <1>3, <1>4
<1>6. \A p \in Panes : sel'[p] \in Nat
  <2> SUFFICES ASSUME NEW p \in Panes
               PROVE  sel'[p] \in Nat
    OBVIOUS
  <2>1. CASE p \in P
    <3>1. Remap(view[p], sel[p], u.rows[p]) \in Nat
      BY <1>2, <1>4, <2>1, RemapIs
    <3> QED
      BY <1>3, <2>1, <3>1
  <2>2. CASE p \notin P
    BY <1>2, <1>3, <2>2
  <2> QED
    BY <2>1, <2>2
<1>7. sel'["connection"] = 0
  <2>0. "connection" \in Panes
    BY PaneNames
  <2>1. CASE "connection" \in P
    <3>1. Len(u.rows["connection"]) = 1 /\ u.rows["connection"] \in Seq(Row)
      BY <1>4, <2>1 DEF Belongs
    <3>2. Remap(view["connection"], sel["connection"], u.rows["connection"]) = 0
      BY <1>2, <2>0, <3>1, RemapIs
    <3> QED
      BY <1>3, <2>0, <2>1, <3>2
  <2>2. CASE "connection" \notin P
    BY <1>2, <1>3, <2>0, <2>2
  <2> QED
    BY <2>1, <2>2
<1>8. /\ view' \in [Panes -> Seq(Row)] /\ sel' \in [Panes -> Nat]
  BY <1>3, <1>5, <1>6
<1>9. ASSUME NEW p \in Panes
      PROVE  \/ view'[p] = view[p] /\ sel'[p] = sel[p]
             \/ /\ p \in Parts(u.kind) /\ Wanted(u) /\ Belongs(p, u.of, view'[p])
                /\ sel'[p] = Remap(view[p], sel[p], view'[p])
  <2>1. CASE p \in P
    BY <1>3, <1>4, <2>1
  <2>2. CASE p \notin P
    BY <1>3, <2>2
  <2> QED
    BY <2>1, <2>2
<1> QED
  BY <1>7, <1>8, <1>9

LEMMA LoadShown ==
  ASSUME ShownInv, ChannelsOK, AnswersBelong, ApplyLoad
  PROVE  ShownInv'
<1> DEFINE u == Head(upds)
           New(p) == p \in Parts(u.kind) /\ Wanted(u) /\ Belongs(p, u.of, view'[p])
<1>0. ShownOK /\ ViewOK /\ Screens /\ ShownBelongs
  BY DEF ShownInv, ShownOK
<1>1. /\ view' \in [Panes -> Seq(Row)] /\ sel' \in [Panes -> Nat] /\ sel'["connection"] = 0
      /\ \A p \in Panes : view'[p] = view[p] \/ New(p)
  BY LoadRows
<1>2. /\ UNCHANGED <<screen, pane, overlay, workspace, running, keys>> /\ online' = TRUE
      /\ u.kind \in Loads
  BY DEF ApplyLoad, Applying
<1>3. ViewOK'
  <2>1. \A p \in Panes : view'[p] \in Seq(RowsOf(p))
    BY <1>0, <1>1 DEF ViewOK, Belongs
  <2>2. Len(view'["connection"]) <= 1
    <3>1. view'["connection"] = view["connection"] \/ Len(view'["connection"]) = 1
      BY <1>1, PaneNames DEF Belongs
    <3>2. Len(view["connection"]) <= 1
      BY <1>0 DEF ViewOK
    <3>3. CASE view'["connection"] = view["connection"]
      BY <3>2, <3>3
    <3>4. CASE Len(view'["connection"]) = 1
      BY <3>4
    <3> QED
      BY <3>1, <3>3, <3>4
  <2> QED
    BY <1>1, <2>1, <2>2 DEF ViewOK
<1>4. /\ New("connections") \/ New("wsJobs") => u.of = workspace \/ screen = "home"
      /\ New("connection") \/ New("connJobs") => u.of = Opened
  <2>1. /\ New("connections") \/ New("wsJobs") => u.kind = "workspace"
        /\ New("connection") \/ New("connJobs") => u.kind = "connection"
    BY <1>2, PaneNames DEF Parts, Loads
  <2> QED
    BY <2>1 DEF Wanted
<1>5. /\ view'["connection"] = view["connection"] \/ view'["connection"] # <<>>
      /\ Opened' = Opened
  <2>1. CASE view'["connection"] = view["connection"]
    BY <2>1 DEF Opened
  <2>2. CASE New("connection")
    <3>1. Len(view'["connection"]) = 1 /\ view'["connection"][1].id = Opened
      BY <1>4, <2>2 DEF Belongs
    <3> QED
      BY <3>1 DEF Opened
  <2> QED
    BY <1>1, <2>1, <2>2, PaneNames
<1>6. Screens'
  BY <1>0, <1>2, <1>5 DEF Screens
<1>7. ShownBelongs'
  <2>1. screen # "home" =>
          /\ \A i \in DOMAIN view'["connections"] : view'["connections"][i].of = workspace
          /\ \A i \in DOMAIN view'["wsJobs"] : SpaceOf[view'["wsJobs"][i].of] = workspace
    <3>1. view'["connections"] = view["connections"] \/ New("connections")
      BY <1>1, PaneNames
    <3>2. view'["wsJobs"] = view["wsJobs"] \/ New("wsJobs")
      BY <1>1, PaneNames
    <3> QED
      BY <1>0, <1>4, <3>1, <3>2 DEF ShownBelongs, Belongs
  <2>2. screen = "connection" =>
          \A i \in DOMAIN view'["connJobs"] : view'["connJobs"][i].of = Opened
    <3>1. view'["connJobs"] = view["connJobs"] \/ New("connJobs")
      BY <1>1, PaneNames
    <3> QED
      BY <1>0, <1>4, <3>1 DEF ShownBelongs, Belongs
  <2>3. screen = "connection" => SpaceOf[Opened] = workspace
    BY <1>0 DEF ShownBelongs
  <2> QED
    BY <1>2, <1>5, <2>1, <2>2, <2>3 DEF ShownBelongs
<1> QED
  BY <1>0, <1>2, <1>3, <1>6, <1>7 DEF ShownInv, ShownOK

LEMMA ApplyStep ==
  ASSUME ConsoleInv, Apply
  PROVE  ConsoleInv'
<1>0. StoreOK /\ ShownInv /\ ChannelsOK /\ AnswersBelong /\ ShownOK /\ Screens
  BY InvParts DEF ShownInv
<1>1. UNCHANGED store
  BY DEF Apply, ApplyLoad, ApplyDetail, ApplyNotice, ApplyError, ApplyFailed
<1>2. StoreOK'
  BY <1>0, <1>1 DEF store, StoreOK
<1>3. ChannelsOK' /\ AnswersBelong'
  <2>1. /\ \E kind : Applying(kind)
        /\ UNCHANGED fetch
        /\ cmds' = cmds \/ cmds' = Append(cmds, Reload(screen))
    BY DEF Apply, ApplyLoad, ApplyDetail, ApplyNotice, ApplyError, ApplyFailed, shown
  <2>2. Reload(screen) \in Command
    BY <1>0, ReloadCommand DEF ShownOK
  <2> QED
    BY <1>0, <2>1, <2>2, Applied
<1>4. ShownInv'
  <2>1. CASE ApplyLoad
    BY <1>0, <2>1, LoadShown
  <2>2. CASE UNCHANGED <<screen, pane, workspace, view, sel, running, keys>>
    <3>1. overlay' \in {overlay, "page"} /\ online' \in {online, TRUE, FALSE}
      BY DEF Apply, ApplyLoad, ApplyDetail, ApplyNotice, ApplyError, ApplyFailed, shown
    <3>2. online' \in BOOLEAN
      <4>1. online \in BOOLEAN
        BY <1>0 DEF ShownOK
      <4> QED
        BY <3>1, <4>1, Zenon
    <3>3. overlay' \in {"none", "page", "input", "typed"}
      BY <1>0, <3>1 DEF ShownOK
    <3>4. ViewOK'
      BY <1>0, <2>2 DEF ViewOK, ShownOK
    <3> QED
      BY <1>0, <2>2, <3>2, <3>3, <3>4 DEF ShownInv, ShownOK, Screens, ShownBelongs, Opened
  <2> QED
    BY <2>1, <2>2 DEF Apply, ApplyDetail, ApplyNotice, ApplyError, ApplyFailed, shown
<1> QED
  BY <1>2, <1>3, <1>4, InvPartsNext

-----------------------------------------------------------------------------
(* Every step. *)

LEMMA KeysStep ==
  ASSUME ConsoleInv, Keys
  PROVE  ConsoleInv'
<1>0. StoreOK /\ ShownInv /\ ChannelsOK /\ AnswersBelong /\ ShownOK /\ Screens
  BY InvParts DEF ShownInv
<1>1. ShownInv'
  BY <1>0, KeysShown
<1>2. CASE Quit
  <2>1. StoreOK'
    <3>1. {c \in {fetch.cmd} : c.op \in Mutations} \subseteq Command
      BY <1>0, AtHand
    <3> QED
      BY <1>0, <1>2, <3>1 DEF StoreOK, Quit
  <2>2. cmds' = <<>> /\ upds' = <<>> /\ fetch' = Idle
    BY <1>2 DEF Quit
  <2>3. InFlight' = 0
    BY <2>2 DEF InFlight
  <2>4. ChannelsOK'
    BY <2>2, <2>3, ConsoleAssumption DEF ChannelsOK
  <2>5. AnswersBelong'
    BY <2>2 DEF AnswersBelong, Idle, Cmd, NoRows
  <2> QED
    BY <1>1, <2>1, <2>4, <2>5, InvPartsNext
<1>3. CASE ~Quit
  <2>1. /\ UNCHANGED <<fetch, upds>>
        /\ UNCHANGED cmds \/ \E c \in Command : Send(c)
    BY <1>0, <1>3, KeyCommand
  <2>2. ChannelsOK' /\ AnswersBelong'
    BY <1>0, <2>1, SendKeeps, ChannelsKept
  <2>3. UNCHANGED store
    BY <1>3 DEF Keys, Key, Move, Switch, OpenWorkspace, OpenConnection, Back, Ask, AskDetail,
           AskSync, AskStatus, AskCancel, OpenOverlay, CloseOverlay, Type, Submit
  <2>4. StoreOK'
    BY <1>0, <2>3 DEF store, StoreOK
  <2> QED
    BY <1>1, <2>2, <2>4, InvPartsNext
<1> QED
  BY <1>2, <1>3

LEMMA TickStep ==
  ASSUME ConsoleInv, Tick
  PROVE  ConsoleInv'
<1>0. StoreOK /\ ShownInv /\ ChannelsOK /\ AnswersBelong /\ ShownOK /\ Screens
  BY InvParts DEF ShownInv
<1>1. Send(Reload(screen)) /\ UNCHANGED <<store, shown, fetch, upds>>
  BY DEF Tick
<1>2. Reload(screen) \in Command
  BY <1>0, ReloadCommand DEF ShownOK
<1>3. ChannelsOK' /\ AnswersBelong'
  BY <1>0, <1>1, <1>2, SendKeeps
<1>4. StoreOK'
  BY <1>0, <1>1 DEF store, StoreOK
<1>5. ShownInv'
  BY <1>0, <1>1 DEF shown, ShownInv, ShownOK, ViewOK, Screens, ShownBelongs, Opened
<1> QED
  BY <1>3, <1>4, <1>5, InvPartsNext

LEMMA InvInit == Init => ConsoleInv
<1> SUFFICES ASSUME Init
             PROVE  ConsoleInv
  OBVIOUS
<1>1. StoreOK
  BY ConsoleAssumption DEF Init, StoreOK, Statuses
<1>2. ViewOK
  BY PaneNames DEF Init, ViewOK
<1>3. ShownInv
  BY <1>2, PaneNames, ConsoleAssumption DEF Init, ShownInv, ShownOK, Screens, ShownBelongs
<1>4. cmds = <<Cmd("home", 0, "-")>> /\ fetch = Idle /\ upds = <<>>
  BY DEF Init
<1>5. ChannelsOK
  <2>1. InFlight = 1
    BY <1>4 DEF InFlight
  <2>2. 1 <= MaxInFlight
    BY ConsoleAssumption
  <2> QED
    BY <1>4, <2>1, <2>2, Commands DEF ChannelsOK
<1>6. AnswersBelong
  BY <1>4 DEF AnswersBelong
<1> QED
  BY <1>1, <1>3, <1>5, <1>6, InvParts

LEMMA InvStep == ConsoleInv /\ [Next]_vars => ConsoleInv'
<1> SUFFICES ASSUME ConsoleInv, [Next]_vars
             PROVE  ConsoleInv'
  OBVIOUS
<1>1. CASE UNCHANGED vars
  BY <1>1 DEF vars, ConsoleInv, TypeOK, InFlight, Screens, AnswersBelong, ShownBelongs, Opened
<1> QED
  BY <1>1, KeysStep, TickStep, WorldStep, FetchStep, ApplyStep DEF Next

-----------------------------------------------------------------------------

\* The invariant behind the three theorems: the screen has what it needs, and
\* updates on their way are about what was asked for.
THEOREM ConsoleInvariant == Spec => []ConsoleInv
BY InvInit, InvStep, PTL DEF Spec

\* Every screen, list, cursor, command and update of the console is well typed.
THEOREM TypeCorrect == Spec => []TypeOK
<1>1. ConsoleInv => TypeOK
  BY DEF ConsoleInv
<1> QED
  BY <1>1, ConsoleInvariant, PTL

\* app.rs, App::apply: an update is shown only if it is about what is open, so
\* that keys act on rows of what is open however late the update was.
THEOREM OnlyOwnRows == Spec => []ShownBelongs
<1>1. ConsoleInv => ShownBelongs
  BY DEF ConsoleInv
<1> QED
  BY <1>1, ConsoleInvariant, PTL

\* app.rs, remap_selection: between keys a cursor follows its row through every
\* list that still has it.
THEOREM CursorsStay == Spec => CursorStaysOnRow
<1> DEFINE Stays ==
      keys' = keys =>
        \A p \in Panes : Highlighted(p) /\ Current(p).id \in Ids(view'[p])
          => sel'[p] < Len(view'[p]) /\ Current(p)'.id = Current(p).id
<1>1. ConsoleInv /\ [Next]_vars => [Stays]_vars
  <2> SUFFICES ASSUME ConsoleInv, [Next]_vars, keys' = keys, NEW p \in Panes,
                      Highlighted(p), Current(p).id \in Ids(view'[p])
               PROVE  sel'[p] < Len(view'[p]) /\ Current(p)'.id = Current(p).id
    OBVIOUS
  <2>0. /\ ShownInv /\ ChannelsOK /\ AnswersBelong /\ ViewOK
        /\ view[p] \in Seq(Row) /\ sel[p] \in Nat /\ sel[p] < Len(view[p])
    BY InvParts DEF ShownInv, ShownOK, ViewOK, Highlighted
  <2>1. CASE UNCHANGED <<view, sel>>
    BY <2>0, <2>1 DEF Current
  <2>2. CASE ApplyLoad
    <3>1. /\ view'[p] \in Seq(Row)
          /\ \/ view'[p] = view[p] /\ sel'[p] = sel[p]
             \/ sel'[p] = Remap(view[p], sel[p], view'[p])
      BY <2>0, <2>2, LoadRows
    <3>2. CASE view'[p] = view[p] /\ sel'[p] = sel[p]
      BY <2>0, <3>2 DEF Current
    <3>3. CASE sel'[p] = Remap(view[p], sel[p], view'[p])
      <4>1. /\ sel[p] < Len(view[p])
            /\ view[p][sel[p] + 1].id \in Ids(view'[p])
        BY <2>0 DEF Current
      <4>2. /\ Remap(view[p], sel[p], view'[p]) < Len(view'[p])
            /\ view'[p][Remap(view[p], sel[p], view'[p]) + 1].id = view[p][sel[p] + 1].id
        BY <2>0, <3>1, <4>1, RemapIs
      <4>3. sel'[p] < Len(view'[p])
        BY <3>3, <4>2
      <4>4. view'[p][sel'[p] + 1].id = view[p][sel[p] + 1].id
        BY <3>3, <4>2
      <4> QED
        BY <4>3, <4>4 DEF Current
    <3> QED
      BY <3>1, <3>2, <3>3
  <2>3. CASE Keys
    <3>1. keys' = keys + 1 /\ keys \in Nat
      <4>1. keys' = keys + 1
        BY <2>3 DEF Keys, Key, Move, Switch, OpenWorkspace, OpenConnection, Back, Ask, AskDetail,
               AskSync, AskStatus, AskCancel, OpenOverlay, CloseOverlay, Type, Submit, Quit
      <4> QED
        BY <2>0, <4>1 DEF ShownInv, ShownOK
    <3> QED
      BY <3>1
  <2>4. World \/ Tick \/ Fetch => UNCHANGED <<view, sel>>
    BY DEF World, OtherStarts, OtherEnds, OtherPatches, OtherDeletes, Outage, Recovery, Lands,
           Others, Tick, Fetch, Take, Read, Described, Failed, Carried, TimedOut, Quiet, shown
  <2>5. ApplyDetail \/ ApplyNotice \/ ApplyError \/ ApplyFailed => UNCHANGED <<view, sel>>
    BY DEF ApplyDetail, ApplyNotice, ApplyError, ApplyFailed, shown
  <2> QED
    BY <2>1, <2>2, <2>3, <2>4, <2>5 DEF Next, Apply, vars
<1> QED
  BY <1>1, ConsoleInvariant, PTL DEF Spec, CursorStaysOnRow

=============================================================================
