------------------------------- MODULE Paging -------------------------------
(***************************************************************************)
(* A stream of gauss-declarative: sync_stream reads an HTTP API page by page, *)
(* skips what its cursor says it has read, and checkpoints the largest cursor *)
(* value it met.  The API answers each page from the records it has at that   *)
(* moment: records are inserted, changed and deleted between two pages of a   *)
(* run and between two runs.                                                  *)
(*                                                                          *)
(* A record is the number of the write that made it, so that a changed record *)
(* is a new one in the place of the old; at[v] is the value of its cursor     *)
(* field, 0 when it has none.  A cursor value is a time of the API's clock,   *)
(* which several writes may share.                                            *)
(***************************************************************************)
EXTENDS Naturals, Sequences

CONSTANTS
  Paginators,  \* the kinds of pagination considered
  PageSize,    \* page_size of the manifest
  ServerLimit, \* the largest page the API returns
  MaxWrites,   \* bound: inserts and changes
  MaxClock,    \* bound: the API's clock
  MaxFails     \* bound: runs that fail

ASSUME PagingAssumption ==
  /\ Paginators \subseteq {"single", "offset", "page", "sized", "cursor"}
  /\ PageSize \in Nat \ {0} /\ ServerLimit \in Nat \ {0}
  /\ MaxWrites \in Nat /\ MaxClock \in Nat \ {0} /\ MaxFails \in Nat

VARIABLES
  table,      \* the API's records, in the order in which it lists them
  at,         \* at[v]: the cursor field of the record made by write v, or 0
  clock,      \* the API's clock
  order,      \* how the API lists: by key, oldest or newest change first
  paginator,  \* the manifest's paginator; "sized" is Page with a page_size
  run,        \* the local variables of sync_stream
  state,      \* the stream's checkpoint: a cursor value, or 0
  settled,    \* records a completed run has emitted
  slipped,    \* records a completed run could not see (see Slips)
  fails       \* failed runs so far

upstream == <<table, at, clock>>
vars == <<table, at, clock, order, paginator, run, state, settled, slipped, fails>>

Records == 1..MaxWrites

\* offset: where the next page starts; seen: state_cursor; max: max_cursor.
NoRun == [active |-> FALSE, offset |-> 0, seen |-> 0, max |-> 0,
          emitted |-> {}, slipped |-> {}]

Run == [active : BOOLEAN, offset : 0..MaxWrites + ServerLimit, seen : 0..MaxClock,
        max : 0..MaxClock, emitted : SUBSET Records, slipped : SUBSET Records]

Listed == {table[k] : k \in DOMAIN table}

TypeOK ==
  /\ table \in Seq(Records)
  /\ at \in Seq(0..MaxClock) /\ Len(at) <= MaxWrites
  /\ Listed \subseteq DOMAIN at
  /\ clock \in 1..MaxClock
  /\ order \in {"key", "oldest", "newest"}
  /\ paginator \in Paginators
  /\ run \in Run
  /\ state \in 0..MaxClock
  /\ settled \subseteq Records /\ slipped \subseteq Records
  /\ fails \in 0..MaxFails

Init ==
  /\ table = <<>> /\ at = <<>> /\ clock = 1
  /\ order \in {"key", "oldest", "newest"}
  /\ paginator \in Paginators
  /\ run = NoRun
  /\ state = 0 /\ settled = {} /\ slipped = {} /\ fails = 0

Smaller(a, b) == IF a < b THEN a ELSE b
Larger(a, b) == IF a > b THEN a ELSE b

-----------------------------------------------------------------------------
(* The API. *)

IndexIn(t, v) == CHOOSE k \in DOMAIN t : t[k] = v

\* The records a change of the list to t moves, or puts, behind the reader.
Slips(t) ==
  {t[k] : k \in {j \in DOMAIN t :
     j <= run.offset /\ (t[j] \in Listed => IndexIn(table, t[j]) > run.offset)}}

Lists(t) ==
  /\ table' = t
  /\ run' = [run EXCEPT !.slipped = IF run.active THEN @ \cup Slips(t) ELSE @]

Without(t, k) == SubSeq(t, 1, k - 1) \o SubSeq(t, k + 1, Len(t))

\* One more write, of a record with or without a cursor field. Its time may be
\* one a checkpoint has already reached, and then no run will look at it.
Writes(v) ==
  /\ v <= MaxWrites
  /\ \E c \in {0, clock} :
       /\ at' = Append(at, c)
       /\ slipped' = IF c # 0 /\ c <= state THEN slipped \cup {v} ELSE slipped
  /\ UNCHANGED <<clock, order, paginator, state, settled, fails>>

Insert ==
  LET v == Len(at) + 1
  IN /\ Writes(v)
     /\ Lists(IF order = "newest" THEN <<v>> \o table ELSE Append(table, v))

Change ==
  LET v == Len(at) + 1
  IN /\ Writes(v)
     /\ \E k \in DOMAIN table :
          Lists(CASE order = "key" -> [table EXCEPT ![k] = v]
                  [] order = "oldest" -> Append(Without(table, k), v)
                  [] order = "newest" -> <<v>> \o Without(table, k))

Remove ==
  /\ \E k \in DOMAIN table : Lists(Without(table, k))
  /\ UNCHANGED <<at, clock, order, paginator, state, settled, slipped, fails>>

Tick ==
  /\ clock < MaxClock /\ clock' = clock + 1
  /\ UNCHANGED <<table, at, order, paginator, run, state, settled, slipped, fails>>

\* A page of the answer: the list from the offset on. Without a paginator the
\* API returns all it has; with a token the size of a page is its choice.
Page(size) == SubSeq(table, run.offset + 1, Smaller(run.offset + size, Len(table)))

Answers ==
  CASE paginator = "single" -> {table}
    [] paginator \in {"offset", "sized"} -> {Page(Smaller(PageSize, ServerLimit))}
    [] paginator = "page" -> {Page(ServerLimit)}
    [] paginator = "cursor" -> {Page(n) : n \in 1..ServerLimit}

-----------------------------------------------------------------------------
(* sync_stream. *)

\* A run starts from the checkpoint, a full refresh without it.
Start(incremental) ==
  /\ ~run.active
  /\ run' = LET seen == IF incremental THEN state ELSE 0
            IN [NoRun EXCEPT !.active = TRUE, !.seen = seen, !.max = seen]
  /\ UNCHANGED <<table, at, clock, order, paginator, state, settled, slipped, fails>>

\* Mutant: records at the checkpoint are read again.
FreshOrEqual(v, seen) == at[v] = 0 \/ at[v] >= seen

\* What is not skipped as already synced.
Fresh(v, seen) == at[v] = 0 \/ at[v] > seen

\* Mutants of Advance: a short page does not end the read; a full one does.
AdvanceAlways(page) == [offset |-> run.offset + Len(page), more |-> TRUE]
AdvanceOnExcess(page) == [offset |-> run.offset + Len(page), more |-> Len(page) > PageSize]

\* PageCursor::advance: where the next page starts and whether there is one. The
\* API numbers its pages by the size it returns, and gives a token while there
\* are records after the page.
Advance(page) ==
  CASE paginator = "single" -> [offset |-> 0, more |-> FALSE]
    [] paginator = "offset" ->
         [offset |-> run.offset + PageSize, more |-> Len(page) = PageSize]
    [] paginator = "sized" ->
         [offset |-> run.offset + Smaller(PageSize, ServerLimit), more |-> Len(page) = PageSize]
    [] paginator = "page" -> [offset |-> run.offset + ServerLimit, more |-> page # <<>>]
    [] paginator = "cursor" ->
         LET next == run.offset + Len(page)
         IN [offset |-> next, more |-> next < Len(table)]

HighWater(max, S) ==
  IF \E v \in S : at[v] > max THEN at[CHOOSE v \in S : \A w \in S : at[w] <= at[v]] ELSE max

\* One round of the page loop; the last one emits the checkpoint.
Fetch ==
  /\ run.active
  /\ \E page \in Answers :
       LET new == {page[k] : k \in {j \in DOMAIN page : Fresh(page[j], run.seen)}}
           max == HighWater(run.max, new)
           next == Advance(page)
       IN IF next.more
          THEN /\ run' = [run EXCEPT !.offset = next.offset, !.max = max,
                                     !.emitted = @ \cup new]
               /\ UNCHANGED <<state, settled, slipped>>
          ELSE /\ run' = NoRun
               /\ state' = IF max = 0 THEN state ELSE max
               /\ settled' = settled \cup run.emitted \cup new
               /\ slipped' = slipped \cup run.slipped
  /\ UNCHANGED <<table, at, clock, order, paginator, fails>>

\* A page fails, or the process dies: no checkpoint.
Fail ==
  /\ run.active /\ fails < MaxFails
  /\ fails' = fails + 1
  /\ run' = NoRun
  /\ UNCHANGED <<table, at, clock, order, paginator, state, settled, slipped>>

-----------------------------------------------------------------------------

Upstream == Insert \/ Change \/ Remove \/ Tick

Next == Upstream \/ Fetch \/ Fail \/ \E incremental \in BOOLEAN : Start(incremental)

Spec == Init /\ [][Next]_vars

\* A connector at work asks for its next page.
FairSpec == Spec /\ WF_vars(Fetch)

-----------------------------------------------------------------------------

\* No record is lost behind the checkpoint: one the API lists with a cursor
\* value the checkpoint has reached was emitted by a completed run, unless it
\* moved behind the reader during a run or was written with a value the
\* checkpoint had reached before.
NoSilentLoss ==
  \A v \in Listed : at[v] \in 1..state => v \in settled \cup slipped

\* An incremental run emits nothing a completed run has emitted, but records
\* without a cursor field and records a later run did not see: a full refresh
\* that does not see the last record sets the checkpoint back.
NothingResent ==
  run.seen # 0 => \A v \in run.emitted \ slipped : at[v] # 0 => v \notin settled

\* Once the API's records change no more, every page loop ends, whatever
\* offset the changes before left it at. An API that grows by a full page
\* between every two fetches never lets it end (advance, 236-245): that writes
\* stop is a hypothesis, which MaxWrites makes true of every bounded instance.
WritesStop == <>[][table' = table /\ at' = at]_vars
RunsEnd == WritesStop => (run.active ~> ~run.active)
=============================================================================
