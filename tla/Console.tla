------------------------------- MODULE Console -------------------------------
(***************************************************************************)
(* gauss-tui, the terminal console.  Its event loop keeps what is shown: the *)
(* screen, its lists and the highlighted row of each.  Keys send commands to *)
(* a fetch task, which calls the REST API for one command at a time and sends *)
(* one update back for each.  Both channels are unbounded FIFOs, so an update *)
(* may answer for a screen the user has left, while other operators, the      *)
(* scheduler and the workers change what the API would say now.               *)
(*                                                                          *)
(* A row is an id, what it belongs to and its status.  The counters of the    *)
(* screens, the source and destination tabs (which act on nothing), the text  *)
(* of notices, scrolling and the spinner are left out.                        *)
(***************************************************************************)
EXTENDS Integers, Sequences, FiniteSets, SequencesExt

CONSTANTS
  Spaces,       \* ids workspaces may have, numbered in order of creation
  Conns,        \* ids of connections, numbered in order of creation
  SpaceOf,      \* SpaceOf[c]: the workspace of connection c
  FirstSpaces,  \* the workspaces there are at the start
  FirstJobs,    \* the jobs there are at the start, oldest first
  MaxJobs,      \* bound: jobs ever
  MaxInFlight,  \* bound: commands and updates on their way
  MaxWaiting,   \* bound: the timer adds no command to that many
  MaxKeys,      \* bound: keys that do something
  MaxChanges,   \* bound: what others do, and requests that time out
  Outages       \* whether the API may become unreachable

JobStatuses == {"live", "done"}  \* pending or running; terminal

ASSUME ConsoleAssumption ==
  /\ Spaces \subseteq Nat \ {0} /\ FirstSpaces \subseteq Spaces
  /\ Conns \subseteq Nat \ {0} /\ SpaceOf \in [Conns -> FirstSpaces]
  /\ IsFiniteSet(Spaces) /\ IsFiniteSet(Conns)
  /\ FirstJobs \in Seq([of : Conns, st : JobStatuses]) /\ Len(FirstJobs) <= MaxJobs
  /\ {MaxJobs, MaxInFlight, MaxWaiting, MaxKeys, MaxChanges} \subseteq Nat
  /\ MaxInFlight > 0
  /\ Outages \in BOOLEAN

VARIABLES
  spaces,    \* the workspaces there are
  status,    \* status of each connection; "gone" when it is deleted
  jobs,      \* jobs[j]: the connection of job j and its status
  up,        \* whether the API answers
  late,      \* requests given up that may still be carried out
  screen, pane, overlay,  \* what the keyboard goes to
  workspace, \* the workspace opened, or 0
  view,      \* view[p]: the rows shown in pane p
  sel,       \* sel[p]: the index highlighted in pane p, from 0
  online,    \* whether the last load that was answered succeeded
  running,   \* FALSE once the user has quit
  cmds,      \* the channel to the fetch task
  fetch,     \* the command it handles and the parts it has read
  upds,      \* the channel back
  keys, changes

store == <<spaces, status, jobs, up, late, changes>>
shown == <<screen, pane, overlay, workspace, view, sel, online, running, keys>>
vars == <<spaces, status, jobs, up, late, changes, screen, pane, overlay, workspace,
          view, sel, online, running, keys, cmds, fetch, upds>>

-----------------------------------------------------------------------------
(* What the API answers. *)

\* "inactive" stands for deprecated too: both are toggled to active.
Statuses == {"active", "inactive"}

\* "connection" is the row of the connection opened; it has no cursor.
HomePanes == {"workspaces", "activity"}
SpacePanes == {"connections", "wsJobs"}
ConnPanes == {"connection", "connJobs"}
Panes == HomePanes \cup SpacePanes \cup ConnPanes

SpaceRow == [id : Spaces, of : {0}, st : {"there"}]
ConnRow == {r \in [id : Conns, of : Spaces, st : Statuses] : r.of = SpaceOf[r.id]}
JobRow == [id : 1..MaxJobs, of : Conns, st : JobStatuses]
Row == SpaceRow \cup ConnRow \cup JobRow

RowsOf(p) ==
  CASE p = "workspaces" -> SpaceRow
    [] p \in {"connections", "connection"} -> ConnRow
    [] OTHER -> JobRow

Oldest(S) ==
  CHOOSE s \in [1..Cardinality(S) -> S] :
    \A i, j \in DOMAIN s : i < j => s[i].id < s[j].id
Newest(S) == Reverse(Oldest(S))

SpaceRows == Oldest({[id |-> w, of |-> 0, st |-> "there"] : w \in spaces})
ConnRows(C) ==
  Oldest({[id |-> c, of |-> SpaceOf[c], st |-> status[c]] :
            c \in {d \in C : status[d] # "gone"}})
JobRows(C) ==
  Newest({[id |-> j, of |-> jobs[j].of, st |-> jobs[j].st] :
            j \in {k \in 1..Len(jobs) : jobs[k].of \in C}})

Members(w) == {c \in Conns : SpaceOf[c] = w}
There(c) == status[c] # "gone"
Existing == {c \in Conns : There(c)}

\* The rows of pane p when workspace w and connection c are asked for. Jobs go
\* with their connection.
Truth(p, w, c) ==
  CASE p = "workspaces"  -> SpaceRows
    [] p = "activity"    -> JobRows(Existing)
    [] p = "connections" -> ConnRows(Members(w))
    [] p = "wsJobs"      -> JobRows(Existing \cap Members(w))
    [] p = "connection"  -> ConnRows({c})
    [] p = "connJobs"    -> JobRows(Existing \cap {c})

-----------------------------------------------------------------------------
(* Commands and updates. *)

Cmd(op, of, st) == [op |-> op, of |-> of, st |-> st]
Loads == {"home", "workspace", "connection"}
Mutations == {"sync", "cancel", "status", "create"}
Command ==
  [op : {"home", "create"}, of : {0}, st : {"-"}]
    \cup [op : {"workspace"}, of : Spaces, st : {"-"}]
    \cup [op : {"connection", "sync"}, of : Conns, st : {"-"}]
    \cup [op : {"cancel", "detail"}, of : 1..MaxJobs, st : {"-"}]
    \cup [op : {"status"}, of : Conns, st : Statuses]

Parts(op) ==
  CASE op = "home" -> HomePanes [] op = "workspace" -> SpacePanes [] OTHER -> ConnPanes

NoRows == [p \in {} |-> <<>>]
Idle == [cmd |-> Cmd("idle", 0, "-"), read |-> NoRows]
Upd(kind, of, rows) == [kind |-> kind, of |-> of, rows |-> rows]

\* What an update brings: the rows of a screen's panes, or nothing.
Tables ==
  [{} -> Seq(Row)] \cup [HomePanes -> Seq(Row)] \cup [SpacePanes -> Seq(Row)]
    \cup [ConnPanes -> Seq(Row)]
Update == [kind : Loads \cup {"detail", "notice", "error", "failed"},
           of : Spaces \cup Conns \cup 1..MaxJobs \cup {0}, rows : Tables]

InFlight == Len(cmds) + Len(upds) + (IF fetch = Idle THEN 0 ELSE 1)

TypeOK ==
  /\ spaces \subseteq Spaces
  /\ status \in [Conns -> Statuses \cup {"gone"}]
  /\ jobs \in Seq([of : Conns, st : JobStatuses]) /\ Len(jobs) <= MaxJobs
  /\ up \in BOOLEAN /\ late \subseteq Command
  /\ screen \in {"home", "workspace", "connection"}
  /\ pane \in Panes
  /\ overlay \in {"none", "page", "input", "typed"}
  /\ workspace \in Spaces \cup {0}
  /\ view \in [Panes -> Seq(Row)] /\ \A p \in Panes : view[p] \in Seq(RowsOf(p))
  /\ sel \in [Panes -> Nat]
  /\ Len(view["connection"]) <= 1 /\ sel["connection"] = 0
  /\ online \in BOOLEAN /\ running \in BOOLEAN
  /\ cmds \in Seq(Command) /\ upds \in Seq(Update)
  /\ fetch = Idle \/ fetch \in [cmd : Command, read : [DOMAIN fetch.read -> Seq(Row)]]
  /\ InFlight <= MaxInFlight
  /\ keys \in 0..MaxKeys /\ changes \in 0..MaxChanges

Init ==
  /\ spaces = FirstSpaces
  /\ status = [c \in Conns |-> "active"]
  /\ jobs = FirstJobs
  /\ up = TRUE /\ late = {}
  /\ screen = "home" /\ pane = "workspaces" /\ overlay = "none"
  /\ workspace = 0
  /\ view = [p \in Panes |-> <<>>] /\ sel = [p \in Panes |-> 0]
  /\ online = TRUE /\ running = TRUE
  /\ cmds = <<Cmd("home", 0, "-")>> /\ fetch = Idle /\ upds = <<>>
  /\ keys = 0 /\ changes = 0

-----------------------------------------------------------------------------
(* The event loop: commands. *)

\* The room for one more is a bound of the model: the channel has none.
Send(c) == InFlight < MaxInFlight /\ cmds' = Append(cmds, c)

Opened == view["connection"][1].id

\* Mutant: the screen of a connection reloads its workspace.
ReloadSpace(s) ==
  IF s = "home" THEN Cmd("home", 0, "-") ELSE Cmd("workspace", workspace, "-")

\* refresh: the command that reloads screen s.
Reload(s) ==
  CASE s = "home" -> Cmd("home", 0, "-")
    [] s = "workspace" -> Cmd("workspace", workspace, "-")
    [] s = "connection" -> Cmd("connection", Opened, "-")

\* The timer of the event loop, and the r key.
Tick ==
  /\ running /\ InFlight < MaxWaiting
  /\ Send(Reload(screen))
  /\ UNCHANGED <<store, shown, fetch, upds>>

Key ==
  /\ running /\ keys < MaxKeys
  /\ keys' = keys + 1
  /\ UNCHANGED <<store, fetch, upds, online>>

NoOverlay == overlay = "none"
Highlighted(p) == sel[p] < Len(view[p])
Current(p) == view[p][sel[p] + 1]

-----------------------------------------------------------------------------
(* Keys, when no overlay takes them. *)

\* on_key_home, on_key_workspace, on_key_connection: the arrows.
Move ==
  /\ Key /\ NoOverlay
  /\ \E d \in {-1, 1} :
       LET top == IF view[pane] = <<>> THEN 0 ELSE Len(view[pane]) - 1
           to == IF d = 1 THEN (IF sel[pane] < top THEN sel[pane] + 1 ELSE top)
                 ELSE IF sel[pane] = 0 THEN 0 ELSE sel[pane] - 1
       IN /\ to # sel[pane]
          /\ sel' = [sel EXCEPT ![pane] = to]
  /\ UNCHANGED <<screen, pane, overlay, workspace, view, running, cmds>>

\* Tab: the other pane of the fleet screen, the next tab of a workspace.
Switch ==
  /\ Key /\ NoOverlay
  /\ \E P \in {HomePanes, SpacePanes} : pane \in P /\ pane' \in P \ {pane}
  /\ UNCHANGED <<screen, overlay, workspace, view, sel, running, cmds>>

\* Enter on a workspace; the cursors of its tabs stay where they were.
OpenWorkspace ==
  /\ Key /\ NoOverlay /\ pane = "workspaces" /\ Highlighted(pane)
  /\ workspace' = Current(pane).id
  /\ screen' = "workspace" /\ pane' = "connections"
  /\ view' = [p \in Panes |-> IF p \in SpacePanes THEN <<>> ELSE view[p]]
  /\ Send(Cmd("workspace", Current(pane).id, "-"))
  /\ UNCHANGED <<overlay, sel, running>>

\* open_connection.
OpenConnection ==
  /\ Key /\ NoOverlay /\ pane = "connections" /\ Highlighted(pane)
  /\ screen' = "connection" /\ pane' = "connJobs"
  /\ view' = [view EXCEPT !["connection"] = <<Current(pane)>>, !["connJobs"] = <<>>]
  /\ sel' = [sel EXCEPT !["connJobs"] = 0]
  /\ Send(Cmd("connection", Current(pane).id, "-"))
  /\ UNCHANGED <<overlay, workspace, running>>

\* go_back.
Back ==
  /\ Key /\ NoOverlay
  /\ \/ /\ screen = "workspace"
        /\ screen' = "home" /\ pane' = "workspaces" /\ workspace' = 0
        /\ UNCHANGED view
     \/ /\ screen = "connection"
        /\ screen' = "workspace" /\ pane' = "connections"
        /\ view' = [view EXCEPT !["connection"] = <<>>]
        /\ UNCHANGED workspace
  /\ Send(Reload(screen'))
  /\ UNCHANGED <<overlay, sel, running>>

\* A key that asks the API for something and leaves the screen as it is.
Ask(c) ==
  /\ Key /\ NoOverlay
  /\ Send(c)
  /\ UNCHANGED <<screen, pane, overlay, workspace, view, sel, running>>

AskDetail ==
  /\ pane \in {"activity", "wsJobs", "connJobs"} /\ Highlighted(pane)
  /\ Ask(Cmd("detail", Current(pane).id, "-"))

\* The connection s and p are about.
Subject ==
  IF screen = "connection" THEN {view["connection"][1]}
  ELSE {Current(p) : p \in {q \in {pane} : q = "connections" /\ Highlighted(q)}}

AskSync == \E c \in Subject : Ask(Cmd("sync", c.id, "-"))

\* toggled_status of the status shown.
Toggled(st) == IF st = "active" THEN "inactive" ELSE "active"

AskStatus == \E c \in Subject : Ask(Cmd("status", c.id, Toggled(c.st)))

\* A job shown as over is not cancelled.
AskCancel ==
  /\ screen = "connection" /\ Highlighted("connJobs")
  /\ Current("connJobs").st = "live"
  /\ Ask(Cmd("cancel", Current("connJobs").id, "-"))

\* Help and the committed state of the connection are pages to read; n asks for
\* the name of a new workspace.
OpenOverlay ==
  /\ Key /\ NoOverlay
  /\ overlay' \in {"page"} \cup (IF screen = "home" THEN {"input"} ELSE {})
  /\ UNCHANGED <<screen, pane, workspace, view, sel, running, cmds>>

\* q; the fetch task ends with the process, whatever it is doing, and the
\* commands that wait with it.
Quit ==
  /\ running /\ keys < MaxKeys /\ NoOverlay
  /\ keys' = keys + 1
  /\ running' = FALSE
  /\ cmds' = <<>> /\ fetch' = Idle /\ upds' = <<>>
  /\ late' = late \cup {c \in {fetch.cmd} : c.op \in Mutations}
  /\ UNCHANGED <<spaces, status, jobs, up, changes,
                 screen, pane, overlay, workspace, view, sel, online>>

(* Keys in an overlay. *)

CloseOverlay ==
  /\ Key /\ ~NoOverlay
  /\ overlay' = "none"
  /\ UNCHANGED <<screen, pane, workspace, view, sel, running, cmds>>

Type ==
  /\ Key /\ overlay \in {"input", "typed"}
  /\ overlay' \in {"input", "typed"} \ {overlay}
  /\ UNCHANGED <<screen, pane, workspace, view, sel, running, cmds>>

Submit ==
  /\ Key /\ overlay = "typed"
  /\ overlay' = "none"
  /\ Send(Cmd("create", 0, "-"))
  /\ UNCHANGED <<screen, pane, workspace, view, sel, running>>

Keys ==
  \/ Move \/ Switch \/ OpenWorkspace \/ OpenConnection \/ Back
  \/ AskDetail \/ AskSync \/ AskStatus \/ AskCancel
  \/ OpenOverlay \/ CloseOverlay \/ Type \/ Submit \/ Quit

-----------------------------------------------------------------------------
(* The API, as the console sees it. *)

Live(c) == \E j \in 1..Len(jobs) : jobs[j].of = c /\ jobs[j].st = "live"
Fresh(S) == {w \in S : \A v \in S : w <= v}

\* Whether the server carries a request out, and what it does then.
Accepts(c) ==
  CASE c.op = "sync"   -> status[c.of] = "active" /\ ~Live(c.of) /\ Len(jobs) < MaxJobs
    [] c.op = "cancel" -> There(jobs[c.of].of) /\ jobs[c.of].st = "live"
    [] c.op = "status" -> There(c.of)
    [] c.op = "create" -> Spaces \ (spaces \cup FirstSpaces) # {}

NewJob(c) == jobs' = Append(jobs, [of |-> c, st |-> "live"])
Ends(j) == jobs' = [jobs EXCEPT ![j].st = "done"]

\* A running job that is to be cancelled ends later.
Effect(c) ==
  /\ \/ c.op = "sync" /\ NewJob(c.of)
     \/ c.op = "cancel" /\ (Ends(c.of) \/ UNCHANGED jobs)
     \/ c.op \in {"status", "create"} /\ UNCHANGED jobs
  /\ status' = IF c.op = "status" THEN [status EXCEPT ![c.of] = c.st] ELSE status
  /\ spaces' = IF c.op = "create"
               THEN spaces \cup Fresh(Spaces \ (spaces \cup FirstSpaces)) ELSE spaces

Unaffected == UNCHANGED <<spaces, status, jobs>>

Others ==
  /\ changes < MaxChanges
  /\ changes' = changes + 1
  /\ UNCHANGED <<late, shown, cmds, fetch, upds>>

\* The scheduler or somebody else starts a job; a worker ends one.
OtherStarts ==
  /\ Others
  /\ \E c \in Conns : /\ status[c] = "active" /\ ~Live(c) /\ Len(jobs) < MaxJobs
                      /\ NewJob(c)
  /\ UNCHANGED <<spaces, status, up>>

OtherEnds ==
  /\ Others
  /\ \E j \in 1..Len(jobs) : jobs[j].st = "live" /\ Ends(j)
  /\ UNCHANGED <<spaces, status, up>>

OtherPatches ==
  /\ Others
  /\ \E c \in Existing, st \in Statuses :
       status[c] # st /\ status' = [status EXCEPT ![c] = st]
  /\ UNCHANGED <<spaces, jobs, up>>

OtherDeletes ==
  /\ Others
  /\ \/ \E c \in Existing : status' = [status EXCEPT ![c] = "gone"] /\ UNCHANGED spaces
     \/ \E w \in spaces \cap FirstSpaces :
          /\ spaces' = spaces \ {w}
          /\ status' = [c \in Conns |-> IF SpaceOf[c] = w THEN "gone" ELSE status[c]]
  /\ UNCHANGED <<jobs, up>>

Outage ==
  /\ Outages /\ up /\ up' = FALSE
  /\ Others
  /\ Unaffected

Recovery ==
  /\ ~up /\ up' = TRUE
  /\ Unaffected
  /\ UNCHANGED <<late, changes, shown, cmds, fetch, upds>>

\* A request whose client has given up is carried out all the same.
Lands ==
  /\ \E c \in late : Accepts(c) /\ Effect(c) /\ late' = late \ {c}
  /\ UNCHANGED <<up, changes, shown, cmds, fetch, upds>>

-----------------------------------------------------------------------------
(* The fetch task: run, handle. *)

Answer(u) == upds' = Append(upds, u) /\ fetch' = Idle

Quiet == UNCHANGED <<shown, store>>

Take ==
  /\ fetch = Idle /\ cmds # <<>>
  /\ fetch' = [cmd |-> Head(cmds), read |-> NoRows]
  /\ cmds' = Tail(cmds)
  /\ Quiet /\ UNCHANGED upds

\* Whether a read of the command's would fail.
Refused(c) ==
  \/ ~up
  \/ c.op = "connection" /\ ~There(c.of)
  \/ c.op = "detail" /\ ~There(jobs[c.of].of)

\* One of the requests of try_join!: each reads the store at its own moment, and
\* the last one completes the update.
Read ==
  LET c == fetch.cmd
  IN /\ c.op \in Loads /\ ~Refused(c)
     /\ \E p \in Parts(c.op) \ DOMAIN fetch.read :
          LET rows == [q \in DOMAIN fetch.read \cup {p} |->
                         IF q = p THEN Truth(p, c.of, c.of) ELSE fetch.read[q]]
          IN IF DOMAIN rows = Parts(c.op) THEN Answer(Upd(c.op, c.of, rows))
             ELSE fetch' = [fetch EXCEPT !.read = rows] /\ UNCHANGED upds
     /\ Quiet /\ UNCHANGED cmds

Described ==
  /\ fetch.cmd.op = "detail" /\ ~Refused(fetch.cmd)
  /\ Answer(Upd("detail", fetch.cmd.of, NoRows))
  /\ Quiet /\ UNCHANGED cmds

\* A load that fails is a RefreshFailed, anything else an Error.
Failed ==
  LET c == fetch.cmd
  IN /\ fetch # Idle /\ Refused(c)
     /\ Answer(Upd(IF c.op \in Loads THEN "failed" ELSE "error", c.of, NoRows))
     /\ Quiet /\ UNCHANGED cmds

Carried ==
  LET c == fetch.cmd
  IN /\ c.op \in Mutations /\ up
     /\ IF Accepts(c) THEN Effect(c) /\ Answer(Upd("notice", c.of, NoRows))
        ELSE Unaffected /\ Answer(Upd("error", c.of, NoRows))
     /\ UNCHANGED <<up, late, changes, shown, cmds>>

\* The answer does not come within the client's timeout.
TimedOut ==
  /\ Outages /\ fetch.cmd.op \in Mutations
  /\ changes < MaxChanges /\ changes' = changes + 1
  /\ late' = late \cup {fetch.cmd}
  /\ Answer(Upd("error", fetch.cmd.of, NoRows))
  /\ UNCHANGED <<spaces, status, jobs, up, shown, cmds>>

Fetch ==
  /\ running
  /\ (Take \/ Read \/ Described \/ Failed \/ Carried \/ TimedOut)

-----------------------------------------------------------------------------
(* The event loop: apply. *)

Ids(rows) == {rows[i].id : i \in DOMAIN rows}
Index(rows, id) == (CHOOSE i \in DOMAIN rows : rows[i].id = id) - 1

\* Mutant: the last index of an empty list.
ClampedLow(i, rows) == IF i < Len(rows) THEN i ELSE Len(rows) - 1

Clamped(i, rows) == IF i < Len(rows) THEN i ELSE IF rows = <<>> THEN 0 ELSE Len(rows) - 1

\* Mutant: the cursor stays at its index.
RemapByIndex(old, i, new) == Clamped(i, new)

\* remap_selection.
Remap(old, i, new) ==
  IF i < Len(old) /\ old[i + 1].id \in Ids(new) THEN Index(new, old[i + 1].id)
  ELSE Clamped(i, new)

\* Mutant: any workspace or connection will do.
WantedAny(u) ==
  \/ u.kind = "home"
  \/ u.kind = "workspace" /\ workspace # 0
  \/ u.kind = "connection" /\ view["connection"] # <<>>

\* The update is about what is open now.
Wanted(u) ==
  \/ u.kind = "home"
  \/ u.kind = "workspace" /\ u.of = workspace
  \/ u.kind = "connection" /\ view["connection"] # <<>> /\ u.of = Opened

Applying(kind) == running /\ upds # <<>> /\ Head(upds).kind \in kind /\ upds' = Tail(upds)

ApplyLoad ==
  LET u == Head(upds)
      P == IF Wanted(u) THEN DOMAIN u.rows ELSE {}
  IN /\ Applying(Loads)
     /\ online' = TRUE
     /\ sel' = [p \in Panes |-> IF p \in P THEN Remap(view[p], sel[p], u.rows[p]) ELSE sel[p]]
     /\ view' = [p \in Panes |-> IF p \in P THEN u.rows[p] ELSE view[p]]
     /\ UNCHANGED <<store, screen, pane, overlay, workspace, running, keys, cmds, fetch>>

\* The job's details, one more page, replace whatever overlay is open.
ApplyDetail ==
  /\ Applying({"detail"})
  /\ overlay' = "page"
  /\ UNCHANGED <<store, screen, pane, workspace, view, sel, online, running, keys, cmds, fetch>>

\* A mutation is followed by a refresh of the screen shown now.
ApplyNotice ==
  /\ Applying({"notice"})
  /\ cmds' = Append(cmds, Reload(screen))
  /\ UNCHANGED <<store, shown, fetch>>

ApplyError ==
  /\ Applying({"error"})
  /\ UNCHANGED <<store, shown, cmds, fetch>>

ApplyFailed ==
  /\ Applying({"failed"})
  /\ online' = FALSE
  /\ UNCHANGED <<store, screen, pane, overlay, workspace, view, sel, running, keys, cmds, fetch>>

Apply == ApplyLoad \/ ApplyDetail \/ ApplyNotice \/ ApplyError \/ ApplyFailed

-----------------------------------------------------------------------------

World ==
  \/ OtherStarts \/ OtherEnds \/ OtherPatches \/ OtherDeletes
  \/ Outage \/ Recovery \/ Lands

Next == Keys \/ World \/ Tick \/ Fetch \/ Apply

Spec == Init /\ [][Next]_vars

\* The event loop and the fetch task keep running; a request ends by its answer
\* or by the client's timeout, which is what Failed stands for when the API is
\* down. Nothing makes the user press keys or the world change.
FairSpec == Spec /\ WF_vars(Tick) /\ WF_vars(Fetch) /\ WF_vars(Apply)

-----------------------------------------------------------------------------

\* Whatever arrives late, the lists on a screen are those of the workspace and
\* of the connection that are open, so that s, p and c go to one of theirs.
ShownBelongs ==
  /\ screen # "home" =>
       /\ \A i \in DOMAIN view["connections"] : view["connections"][i].of = workspace
       /\ \A i \in DOMAIN view["wsJobs"] : SpaceOf[view["wsJobs"][i].of] = workspace
  /\ screen = "connection" =>
       /\ SpaceOf[Opened] = workspace
       /\ \A i \in DOMAIN view["connJobs"] : view["connJobs"][i].of = Opened

\* From one key to the next the row under the cursor stays the same one for as
\* long as it is listed, whatever rows come and go around it: the row the user
\* looked at is the one the next key acts on.
CursorStaysOnRow ==
  [][keys' = keys =>
       \A p \in Panes : Highlighted(p) /\ Current(p).id \in Ids(view'[p])
         => sel'[p] < Len(view'[p]) /\ Current(p)'.id = Current(p).id]_vars

\* What the API says of the open screen is on it, or the console says offline.
UpToDate ==
  \/ ~running
  \/ /\ online /\ up
     /\ \A p \in IF screen = "home" THEN HomePanes
                 ELSE IF screen = "workspace" THEN SpacePanes ELSE ConnPanes :
          view[p] = Truth(p, workspace, IF screen = "connection" THEN Opened ELSE 0)
  \/ ~online /\ (~up \/ (screen = "connection" /\ ~There(Opened)))

\* When the user and the world have come to rest (their bounds reached, or no
\* more keys pressed), the console ends up showing what is stored, for good: no
\* answer still on its way undoes a newer one.
Converges == <>[]UpToDate
=============================================================================
