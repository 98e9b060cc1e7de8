----------------------------- MODULE PagingProofs -----------------------------
(***************************************************************************)
(* Theorems about the pages a declarative stream reads and its checkpoints,  *)
(* for any page sizes, records and changes of them during and between runs.  *)
(***************************************************************************)
EXTENDS Paging, Integers, WellFoundedInduction, SequenceTheorems, TLAPS

\* An API that returns fewer records than were asked for ends the read of a
\* paginator that takes a short page for the last one.
FullPages == Paginators \cap {"offset", "sized"} # {} => PageSize <= ServerLimit

-----------------------------------------------------------------------------
(* The invariant. *)

Recorded ==
  /\ Len(table) <= Len(at)
  /\ settled \cup run.emitted \subseteq DOMAIN at
  /\ run.active \/ run = NoRun

\* A run starts from the checkpoint or from nothing, and has met no cursor value
\* past its high-water mark.
Marked ==
  /\ run.seen \in {0, state} /\ run.seen <= run.max
  /\ \A v \in run.emitted : at[v] <= run.max

\* The run has emitted record v, cannot have seen it, or skipped it.
Covered(v) == v \in run.emitted \cup run.slipped \/ at[v] \in 1..run.seen

PagesCovered == \A k \in DOMAIN table : k <= run.offset => Covered(table[k])

\* The checkpoint is not behind what a completed run has emitted and the API
\* still lists.
SettledBehind ==
  \A v \in Listed : v \in settled \ slipped /\ at[v] # 0 => at[v] <= state

Typed == TypeOK /\ Recorded /\ Marked

PageInv ==
  /\ Typed /\ PagesCovered
  /\ SettledBehind /\ NoSilentLoss /\ NothingResent

-----------------------------------------------------------------------------
(* The largest cursor value of a page. *)

Below == {p \in Nat \X Nat : p[1] < p[2]}

LEMMA BelowWellFounded == IsWellFoundedOn(Below, Nat)
BY NatLessThanWellFounded DEF OpToRel, Below

LEMMA Largest ==
  ASSUME NEW S, S \subseteq Nat, S # {}, NEW b \in Nat, \A x \in S : x <= b
  PROVE  \E m \in S : \A x \in S : x <= m
<1> DEFINE T == {b - x : x \in S}
<1>1. T \subseteq Nat /\ T # {}
  <2>1. \A x \in S : x \in Nat /\ x <= b
    OBVIOUS
  <2>2. \A x \in S : b - x \in Nat
    BY <2>1
  <2>3. PICK x \in S : TRUE
    OBVIOUS
  <2>4. b - x \in T
    OBVIOUS
  <2> QED
    BY <2>2, <2>4
<1>2. \A i, j \in Nat : i < j => <<i, j>> \in Below
  BY DEF Below
<1> HIDE DEF T
<1>4. \E t \in T : \A u \in T : <<u, t>> \notin Below
  BY <1>1, BelowWellFounded, WFMin
<1>5. PICK t \in T : \A u \in T : <<u, t>> \notin Below
  BY <1>4
<1>6. PICK m \in S : t = b - m
  BY DEF T
<1>7. ASSUME NEW x \in S PROVE x <= m
  <2>1. b - x \in T
    BY DEF T
  <2>2. ~(b - x < t)
    BY <1>1, <1>2, <1>5, <2>1
  <2> QED
    BY <1>6, <2>2
<1> QED
  BY <1>7

LEMMA HighWaterIsHigh ==
  ASSUME at \in Seq(0..MaxClock), NEW max \in 0..MaxClock, NEW S, S \subseteq DOMAIN at
  PROVE  /\ HighWater(max, S) \in 0..MaxClock
         /\ HighWater(max, S) >= max
         /\ \A v \in S : at[v] <= HighWater(max, S)
<1>1. MaxClock \in Nat /\ \A v \in S : at[v] \in 0..MaxClock
  BY PagingAssumption
<1>2. CASE \E v \in S : at[v] > max
  <2> DEFINE A == {at[v] : v \in S}
             Top(v) == \A w \in S : at[w] <= at[v]
  <2>1. A \subseteq Nat /\ A # {} /\ \A x \in A : x <= MaxClock
    BY <1>1, <1>2
  <2>2. \E m \in A : \A x \in A : x <= m
    <3> HIDE DEF A
    <3> QED
      BY <1>1, <2>1, Largest
  <2>3. \E v \in S : Top(v)
    BY <2>2
  <2> DEFINE u == CHOOSE v \in S : Top(v)
  <2>4. u \in S /\ Top(u)
    BY <2>3
  <2>5. HighWater(max, S) = at[u]
    BY <1>2 DEF HighWater
  <2> HIDE DEF u
  <2> QED
    BY <1>1, <1>2, <2>4, <2>5
<1>3. CASE ~\E v \in S : at[v] > max
  BY <1>1, <1>3 DEF HighWater
<1> QED
  BY <1>2, <1>3

-----------------------------------------------------------------------------
(* Sequences of records. *)

Entries(s) == {s[j] : j \in DOMAIN s}

LEMMA SeqOfEntries ==
  ASSUME NEW T, NEW s \in Seq(T)
  PROVE  s \in Seq(Entries(s)) /\ Entries(s) \subseteq T
<1>1. DOMAIN s = 1..Len(s) /\ Len(s) \in Nat /\ s \in [1..Len(s) -> T]
  BY LenProperties
<1>2. s \in [1..Len(s) -> Entries(s)]
  BY <1>1 DEF Entries
<1>3. s \in UNION {[1..n -> Entries(s)] : n \in Nat}
  BY <1>1, <1>2
<1>4. s \in Seq(Entries(s))
  BY <1>3, SeqDef, Zenon
<1> QED
  BY <1>1, <1>4 DEF Entries

LEMMA EntriesOfSeq ==
  ASSUME NEW T, NEW s \in Seq(T)
  PROVE  Entries(s) \subseteq T /\ DOMAIN s = 1..Len(s) /\ Len(s) \in Nat
BY SeqOfEntries, LenProperties

\* Without leaves out one place.
LEMMA WithoutIsShorter ==
  ASSUME NEW T, NEW s \in Seq(T), NEW k \in DOMAIN s
  PROVE  Without(s, k) \in Seq(T) /\ Len(Without(s, k)) = Len(s) - 1
<1>1. DOMAIN s = 1..Len(s) /\ Len(s) \in Nat /\ \A i \in 1..Len(s) : s[i] \in T
  BY LenProperties
<1>2. k \in Int /\ k \in 1..Len(s)
  BY <1>1
<1>3. /\ SubSeq(s, 1, k - 1) \in Seq(T)
      /\ Len(SubSeq(s, 1, k - 1)) = k - 1
  BY <1>1, <1>2, SubSeqProperties
<1>4. /\ SubSeq(s, k + 1, Len(s)) \in Seq(T)
      /\ Len(SubSeq(s, k + 1, Len(s))) = Len(s) - k
  BY <1>1, <1>2, SubSeqProperties
<1> DEFINE a == SubSeq(s, 1, k - 1)
           b == SubSeq(s, k + 1, Len(s))
<1>5. a \o b \in Seq(T) /\ Len(a \o b) = Len(a) + Len(b)
  <2> HIDE DEF a, b
  <2>1. a \in Seq(T) /\ b \in Seq(T)
    BY <1>3, <1>4 DEF a, b
  <2> QED
    BY <2>1, ConcatProperties
<1>6. Without(s, k) = a \o b
  BY DEF Without
<1>7. Len(a) = k - 1 /\ Len(b) = Len(s) - k
  BY <1>3, <1>4
<1> HIDE DEF a, b
<1>8. Len(a \o b) = Len(s) - 1
  BY <1>1, <1>2, <1>5, <1>7
<1> QED
  BY <1>5, <1>6, <1>8

-----------------------------------------------------------------------------
(* The API changes its list under the reader. *)

\* What a change of the list leaves of the run.
RunKept ==
  /\ run' \in Run
  /\ run'.active = run.active /\ run'.offset = run.offset
  /\ run'.seen = run.seen /\ run'.max = run.max /\ run'.emitted = run.emitted
  /\ run.slipped \subseteq run'.slipped /\ (run.active \/ run' = run)

\* It marks the records that it puts behind the reader as slipped, and the
\* others there are still covered.
RunCovered ==
  \A k \in DOMAIN table' :
    k <= run.offset =>
      \/ table'[k] \in run'.slipped
      \/ table'[k] \in Listed /\ Covered(table'[k])

LEMMA ListsKeepsRun ==
  ASSUME TypeOK, Recorded, NEW t \in Seq(Records), Lists(t)
  PROVE  RunKept /\ (PagesCovered => RunCovered)
<1>1. /\ table' = t
      /\ run' = [run EXCEPT !.slipped = IF run.active THEN @ \cup Slips(t) ELSE @]
  BY DEF Lists
<1>2. run \in Run /\ Slips(t) \subseteq Records
  BY EntriesOfSeq DEF TypeOK, Slips, Entries
<1>3. /\ run' \in Run
      /\ run'.active = run.active /\ run'.offset = run.offset
      /\ run'.seen = run.seen /\ run'.max = run.max /\ run'.emitted = run.emitted
      /\ run.slipped \subseteq run'.slipped /\ (run.active => Slips(t) \subseteq run'.slipped)
      /\ run.active \/ run' = run
  BY <1>1, <1>2 DEF Run
<1>4. ASSUME PagesCovered, NEW k \in DOMAIN t, k <= run.offset, t[k] \notin run'.slipped
      PROVE  t[k] \in Listed /\ Covered(t[k])
  <2>1. run.active
    <3>1. k \in Nat /\ k > 0
      BY <1>4, EntriesOfSeq
    <3> QED
      BY <1>4, <3>1 DEF Recorded, NoRun
  <2>2. t[k] \notin Slips(t)
    BY <1>3, <1>4, <2>1
  <2>3. t[k] \in Listed /\ ~(IndexIn(table, t[k]) > run.offset)
    BY <1>4, <2>2 DEF Slips
  <2> DEFINE i == IndexIn(table, t[k])
  <2>4. i \in DOMAIN table /\ table[i] = t[k]
    BY <2>3 DEF IndexIn, Listed
  <2>5. i \in Nat /\ run.offset \in Nat
    BY <1>2, <2>4, EntriesOfSeq, PagingAssumption DEF TypeOK, Run
  <2>6. i <= run.offset
    BY <2>3, <2>5
  <2> QED
    BY <1>4, <2>3, <2>4, <2>6 DEF PagesCovered
<1> QED
  BY <1>1, <1>3, <1>4 DEF RunKept, RunCovered

LEMMA RemoveStep == Typed /\ Remove => Typed' /\ (PageInv => PageInv')
<1> SUFFICES ASSUME Typed, Remove PROVE Typed' /\ (PageInv => PageInv')
  OBVIOUS
<1>0. TypeOK /\ Recorded /\ Marked
  BY DEF Typed
<1>1. PICK k \in DOMAIN table : Lists(Without(table, k))
  BY DEF Remove
<1> DEFINE t == Without(table, k)
<1>2. UNCHANGED <<at, clock, order, paginator, state, settled, slipped, fails>> /\ table' = t
  BY <1>1 DEF Remove, Lists
<1>3. /\ table \in Seq(Listed) /\ Listed \subseteq Records /\ Len(table) \in Nat
  BY <1>0, SeqOfEntries, EntriesOfSeq DEF TypeOK, Listed, Entries
<1>4. t \in Seq(Listed) /\ Len(t) = Len(table) - 1
  BY <1>3, WithoutIsShorter
<1> HIDE DEF t
<1>5. Listed' \subseteq Listed /\ t \in Seq(Records)
  BY <1>2, <1>3, <1>4, EntriesOfSeq, SeqMonotonic DEF Listed, Entries
<1>6. RunKept /\ (PagesCovered => RunCovered)
  BY <1>0, <1>1, <1>5, ListsKeepsRun DEF t
<1>7. TypeOK'
  BY <1>0, <1>2, <1>5, <1>6 DEF TypeOK, RunKept
<1>8. Recorded' /\ Marked'
  <2>1. Len(t) <= Len(at)
    <3>1. Len(at) \in Nat
      BY <1>0, EntriesOfSeq DEF TypeOK
    <3> QED
      BY <1>0, <1>3, <1>4, <3>1 DEF Recorded
  <2> QED
    BY <1>0, <1>2, <1>6, <2>1 DEF Recorded, Marked, RunKept
<1>9. ASSUME PagesCovered PROVE PagesCovered'
  BY <1>2, <1>6, <1>9 DEF PagesCovered, Covered, RunKept, RunCovered
<1>10. ASSUME SettledBehind, NoSilentLoss, NothingResent
       PROVE  SettledBehind' /\ NoSilentLoss' /\ NothingResent'
  BY <1>2, <1>5, <1>6, <1>10 DEF SettledBehind, NoSilentLoss, NothingResent, RunKept
<1> QED
  BY <1>7, <1>8, <1>9, <1>10 DEF PageInv, Typed

\* A write in a list that gains no other record.
LEMMA WriteStep ==
  ASSUME Typed, NEW v, v = Len(at) + 1, Writes(v),
         NEW t \in Seq(Listed \cup {v}), Len(t) <= Len(table) + 1, Lists(t)
  PROVE  Typed' /\ (PageInv => PageInv')
<1>0. TypeOK /\ Recorded /\ Marked
  BY DEF Typed
<1>1. /\ at \in Seq(0..MaxClock) /\ Len(at) \in Nat /\ DOMAIN at = 1..Len(at)
      /\ Len(table) \in Nat /\ Listed \subseteq DOMAIN at /\ MaxWrites \in Nat
      /\ v \in Records /\ Listed \subseteq Records /\ v \notin DOMAIN at
      /\ state \in 0..MaxClock /\ MaxClock \in Nat
  BY <1>0, EntriesOfSeq, PagingAssumption DEF TypeOK, Writes, Records
<1>2. PICK c \in {0, clock} :
         /\ at' = Append(at, c)
         /\ slipped' = IF c # 0 /\ c <= state THEN slipped \cup {v} ELSE slipped
  BY DEF Writes
<1>3. UNCHANGED <<clock, order, paginator, state, settled, fails>> /\ table' = t
  BY DEF Writes, Lists
<1>4. c \in 0..MaxClock
  BY <1>0, <1>1 DEF TypeOK
<1>5. /\ at' \in Seq(0..MaxClock) /\ Len(at') = Len(at) + 1
      /\ DOMAIN at' = DOMAIN at \cup {v}
      /\ at'[v] = c /\ \A w \in DOMAIN at : at'[w] = at[w]
  <2>1. /\ at' \in Seq(0..MaxClock) /\ Len(at') = Len(at) + 1
        /\ at'[Len(at) + 1] = c /\ \A w \in 1..Len(at) : at'[w] = at[w]
    BY <1>1, <1>2, <1>4, AppendProperties
  <2>2. DOMAIN at' = 1..Len(at')
    BY <2>1, EntriesOfSeq
  <2> QED
    BY <1>1, <2>1, <2>2, SMTT(30)
<1>6. Listed' \subseteq Listed \cup {v} /\ t \in Seq(Records) /\ Len(t) \in Nat
  <2>1. Entries(t) \subseteq Listed \cup {v} /\ Len(t) \in Nat
    BY EntriesOfSeq
  <2>2. Listed \cup {v} \subseteq Records
    BY <1>1
  <2>3. t \in Seq(Records)
    BY <2>2, SeqMonotonic
  <2> QED
    BY <1>3, <2>1, <2>3 DEF Listed, Entries
<1>7. RunKept /\ (PagesCovered => RunCovered)
  BY <1>0, <1>6, ListsKeepsRun
<1>8. TypeOK'
  <2>1. Len(at') <= MaxWrites
    BY <1>1, <1>5 DEF Writes
  <2>2. slipped' \subseteq Records /\ Listed' \subseteq DOMAIN at'
    BY <1>0, <1>1, <1>2, <1>5, <1>6 DEF TypeOK
  <2> QED
    BY <1>0, <1>3, <1>5, <1>6, <1>7, <2>1, <2>2 DEF TypeOK, RunKept
<1>9. Recorded'
  <2>1. Len(t) <= Len(at')
    BY <1>0, <1>1, <1>5, <1>6 DEF Recorded
  <2> QED
    BY <1>0, <1>3, <1>5, <1>7, <2>1 DEF Recorded, RunKept
<1>10. Marked'
  BY <1>0, <1>3, <1>5, <1>7 DEF Marked, Recorded, RunKept
<1>11. ASSUME PagesCovered PROVE PagesCovered'
  <2>1. ASSUME NEW k \in DOMAIN table', k <= run'.offset PROVE Covered(table[k])'
    <3>1. PICK r : r = table'[k]
      OBVIOUS
    <3>2. r \in run'.slipped \/ (r \in Listed /\ Covered(r))
      BY <1>7, <1>11, <2>1, <3>1 DEF RunKept, RunCovered
    <3>3. /\ run'.seen = run.seen /\ run'.emitted = run.emitted
          /\ run.slipped \subseteq run'.slipped
      BY <1>7 DEF RunKept
    <3>4. r \in Listed => at'[r] = at[r]
      BY <1>1, <1>5
    <3>5. Covered(r)'
      BY <3>2, <3>3, <3>4 DEF Covered
    <3> QED
      BY <3>1, <3>5 DEF Covered
  <2> QED
    BY <2>1 DEF PagesCovered
<1>12. ASSUME SettledBehind PROVE SettledBehind'
  BY <1>0, <1>1, <1>2, <1>3, <1>5, <1>6, <1>12 DEF SettledBehind, Recorded
<1>13. ASSUME NoSilentLoss PROVE NoSilentLoss'
  <2>1. ASSUME NEW w \in Listed', at'[w] \in 1..state PROVE w \in settled \cup slipped'
    <3>1. CASE w = v
      BY <1>1, <1>2, <1>5, <2>1, <3>1
    <3>2. CASE w # v
      <4>1. w \in Listed /\ at'[w] = at[w]
        BY <1>1, <1>5, <1>6, <3>2
      <4> QED
        BY <1>2, <1>13, <2>1, <4>1 DEF NoSilentLoss
    <3> QED
      BY <3>1, <3>2
  <2> QED
    BY <1>3, <2>1 DEF NoSilentLoss
<1>14. ASSUME NothingResent PROVE NothingResent'
  BY <1>0, <1>2, <1>3, <1>5, <1>7, <1>14 DEF NothingResent, Recorded, RunKept
<1> QED
  BY <1>8, <1>9, <1>10, <1>11, <1>12, <1>13, <1>14 DEF PageInv, Typed

LEMMA InsertStep == Typed /\ Insert => Typed' /\ (PageInv => PageInv')
<1> SUFFICES ASSUME Typed, Insert PROVE Typed' /\ (PageInv => PageInv')
  OBVIOUS
<1> DEFINE v == Len(at) + 1
           S == Listed \cup {v}
           t == IF order = "newest" THEN <<v>> \o table ELSE Append(table, v)
<1>1. Writes(v) /\ Lists(t)
  BY DEF Insert
<1>2. table \in Seq(Listed)
  BY SeqOfEntries DEF Typed, TypeOK, Listed, Entries
<1> HIDE DEF v
<1>3. table \in Seq(S) /\ Len(table) \in Nat
  BY <1>2, SeqMonotonic, EntriesOfSeq
<1>4. <<v>> \in Seq(S) /\ Len(<<v>>) = 1
  OBVIOUS
<1>5. Append(table, v) \in Seq(S) /\ Len(Append(table, v)) = Len(table) + 1
  BY <1>3, AppendProperties
<1>6. <<v>> \o table \in Seq(S) /\ Len(<<v>> \o table) = 1 + Len(table)
  <2> DEFINE one == <<v>>
  <2>1. one \in Seq(S) /\ Len(one) = 1
    BY <1>4
  <2> HIDE DEF one, S
  <2>2. one \o table \in Seq(S) /\ Len(one \o table) = Len(one) + Len(table)
    BY <1>3, <2>1, ConcatProperties
  <2> QED
    BY <2>1, <2>2 DEF one
<1>7. t \in Seq(S) /\ Len(t) <= Len(table) + 1
  <2>1. CASE order = "newest"
    <3>1. t = <<v>> \o table
      BY <2>1
    <3> HIDE DEF t, S
    <3> QED
      BY <1>3, <1>6, <3>1
  <2>2. CASE order # "newest"
    <3>1. t = Append(table, v)
      BY <2>2
    <3> HIDE DEF t, S
    <3> QED
      BY <1>3, <1>5, <3>1
  <2> QED
    BY <2>1, <2>2
<1> HIDE DEF t
<1> QED
  BY <1>1, <1>7, WriteStep DEF v

LEMMA ChangeStep == Typed /\ Change => Typed' /\ (PageInv => PageInv')
<1> SUFFICES ASSUME Typed, Change PROVE Typed' /\ (PageInv => PageInv')
  OBVIOUS
<1> DEFINE v == Len(at) + 1
           S == Listed \cup {v}
           t(k) == CASE order = "key" -> [table EXCEPT ![k] = v]
                     [] order = "oldest" -> Append(Without(table, k), v)
                     [] order = "newest" -> <<v>> \o Without(table, k)
<1>1. Writes(v) /\ \E k \in DOMAIN table : Lists(t(k))
  BY DEF Change
<1>2. table \in Seq(Listed) /\ order \in {"key", "oldest", "newest"}
  BY SeqOfEntries DEF Typed, TypeOK, Listed, Entries
<1>3. PICK k \in DOMAIN table : Lists(t(k))
  BY <1>1
<1> HIDE DEF v
<1>4. table \in Seq(S) /\ Len(table) \in Nat /\ k \in 1..Len(table)
  BY <1>2, <1>3, SeqMonotonic, EntriesOfSeq
<1> DEFINE rest == Without(table, k)
<1>5. rest \in Seq(S) /\ Len(rest) = Len(table) - 1
  BY <1>4, WithoutIsShorter
<1> DEFINE one == <<v>>
<1>6. one \in Seq(S) /\ Len(one) = 1 /\ v \in S
  OBVIOUS
<1> HIDE DEF S, rest, one
<1>7. [table EXCEPT ![k] = v] \in Seq(S) /\ Len([table EXCEPT ![k] = v]) = Len(table)
  BY <1>4, <1>6, ExceptSeq
<1>8. Append(rest, v) \in Seq(S) /\ Len(Append(rest, v)) = Len(table)
  BY <1>4, <1>5, <1>6, AppendProperties
<1>9. one \o rest \in Seq(S) /\ Len(one \o rest) = Len(table)
  <2>1. one \o rest \in Seq(S) /\ Len(one \o rest) = Len(one) + Len(rest)
    BY <1>5, <1>6, ConcatProperties
  <2> QED
    BY <1>4, <1>5, <1>6, <2>1
<1>10. t(k) \in Seq(S) /\ Len(t(k)) <= Len(table) + 1
  BY <1>2, <1>4, <1>7, <1>8, <1>9 DEF rest, one
<1> HIDE DEF t
<1> QED
  BY <1>1, <1>3, <1>10, WriteStep DEF v, S

-----------------------------------------------------------------------------
(* The pages of a run. *)

LEMMA SmallerIs ==
  ASSUME NEW a \in Nat, NEW b \in Nat
  PROVE  /\ Smaller(a, b) \in Nat /\ Smaller(a, b) <= a /\ Smaller(a, b) <= b
         /\ Smaller(a, b) = IF a <= b THEN a ELSE b
BY DEF Smaller

\* The entries of a sequence s from the one after o to e.
LEMMA Slice ==
  ASSUME NEW T, NEW s \in Seq(T), NEW o \in Nat, NEW e \in Nat, e <= Len(s)
  PROVE  /\ SubSeq(s, o + 1, e) \in Seq(T)
         /\ Len(SubSeq(s, o + 1, e)) = IF o < e THEN e - o ELSE 0
         /\ \A k \in 1..Len(s) : k > o /\ k <= e => s[k] \in Entries(SubSeq(s, o + 1, e))
<1>1. Len(s) \in Nat /\ \A i \in 1..Len(s) : s[i] \in T
  BY LenProperties
<1>2. PICK m \in Int : m = o + 1
  OBVIOUS
<1>3. \A i \in m..e : s[i] \in T
  BY <1>1, <1>2
<1>4. PICK page : page = SubSeq(s, m, e)
  OBVIOUS
<1>5. /\ page \in Seq(T)
      /\ Len(page) = IF m <= e THEN e - m + 1 ELSE 0
      /\ \A i \in 1..e - m + 1 : page[i] = s[m + i - 1]
  BY <1>3, <1>4, SubSeqProperties
<1>6. Len(page) = IF o < e THEN e - o ELSE 0
  BY <1>2, <1>5
<1>7. ASSUME NEW k \in 1..Len(s), k > o, k <= e PROVE s[k] \in Entries(page)
  <2>1. PICK i \in 1..e - m + 1 : m + i - 1 = k /\ i = k - o
    <3>1. k - o \in 1..e - m + 1 /\ m + (k - o) - 1 = k
      BY <1>1, <1>2, <1>7
    <3> QED
      BY <3>1
  <2>2. page[i] = s[k]
    BY <1>5, <2>1
  <2>3. i \in 1..Len(page)
    BY <1>1, <1>2, <1>5, <1>7, <2>1
  <2>4. i \in DOMAIN page
    BY <1>5, <2>3, EntriesOfSeq
  <2> QED
    BY <2>2, <2>4 DEF Entries
<1> QED
  BY <1>2, <1>4, <1>5, <1>6, <1>7

\* What a page has: the list from the offset on, as far as its size goes.
HasUpTo(page, n) ==
  /\ page \in Seq(Listed)
  /\ Len(page) = IF run.offset + n <= Len(table) THEN n
                 ELSE IF run.offset < Len(table) THEN Len(table) - run.offset ELSE 0
  /\ \A k \in 1..Len(table) :
       k > run.offset /\ k <= run.offset + n => table[k] \in Entries(page)

LEMMA PageHas ==
  ASSUME TypeOK, NEW n \in Nat
  PROVE  HasUpTo(Page(n), n)
<1>1. run.offset \in Nat /\ table \in Seq(Listed) /\ Len(table) \in Nat
  BY SeqOfEntries, EntriesOfSeq, PagingAssumption DEF TypeOK, Run, Listed, Entries
<1>2. PICK o \in Nat : o = run.offset
  BY <1>1
<1>3. PICK l \in Nat : l = Len(table)
  BY <1>1
<1>4. PICK e \in Nat : e = Smaller(o + n, l) /\ e <= l /\ e = IF o + n <= l THEN o + n ELSE l
  BY SmallerIs
<1>5. PICK page : page = Page(n)
  OBVIOUS
<1>6. page = SubSeq(table, o + 1, e)
  BY <1>2, <1>3, <1>4, <1>5 DEF Page
<1>7. /\ page \in Seq(Listed)
      /\ Len(page) = IF o < e THEN e - o ELSE 0
      /\ \A k \in 1..l : k > o /\ k <= e => table[k] \in Entries(page)
  BY <1>1, <1>3, <1>4, <1>6, Slice
<1>8. Len(page) = IF o + n <= l THEN n ELSE IF o < l THEN l - o ELSE 0
  BY <1>4, <1>7
<1>9. \A k \in 1..l : k > o /\ k <= o + n => table[k] \in Entries(page)
  <2>1. \A k \in 1..l : k <= o + n => k <= e
    BY <1>4
  <2> QED
    BY <1>7, <2>1
<1> QED
  BY <1>2, <1>3, <1>5, <1>7, <1>8, <1>9 DEF HasUpTo

\* A page has what the list holds up to where the next one starts, and the last
\* page, when pages are full, all of the rest.
PageReaches(page) ==
  /\ page \in Seq(Listed)
  /\ Advance(page).more \in BOOLEAN
  /\ Advance(page).more => Advance(page).offset \in 0..MaxWrites + ServerLimit
  /\ \A k \in DOMAIN table :
       /\ k > run.offset
       /\ IF Advance(page).more THEN k <= Advance(page).offset ELSE FullPages
       => table[k] \in Entries(page)

LEMMA Reaches ==
  ASSUME NEW page, NEW n \in Nat, HasUpTo(page, n),
         Len(table) \in Nat, run.offset \in Nat, DOMAIN table = 1..Len(table),
         Advance(page).more \in BOOLEAN, NEW next, Advance(page).offset = next,
         Advance(page).more => next \in 0..MaxWrites + ServerLimit /\ next <= run.offset + n,
         ~Advance(page).more /\ FullPages => Len(table) <= run.offset + n
  PROVE  PageReaches(page)
<1>1. ASSUME NEW k \in 1..Len(table), k > run.offset,
             IF Advance(page).more THEN k <= next ELSE FullPages
      PROVE  table[k] \in Entries(page)
  <2>1. k <= run.offset + n
    <3>1. PICK l \in Nat, o \in Nat : l = Len(table) /\ o = run.offset
      OBVIOUS
    <3>2. CASE Advance(page).more
      <4>1. next \in Int /\ next <= o + n /\ k <= next
        BY <1>1, <3>1, <3>2
      <4> QED
        BY <3>1, <4>1
    <3>3. CASE ~Advance(page).more
      <4>1. l <= o + n
        BY <1>1, <3>1, <3>3
      <4> QED
        BY <3>1, <4>1
    <3> QED
      BY <3>2, <3>3
  <2> QED
    BY <1>1, <2>1 DEF HasUpTo
<1> QED
  BY <1>1 DEF PageReaches, HasUpTo

LEMMA AnswerReaches ==
  ASSUME TypeOK, Recorded, NEW page \in Answers
  PROVE  PageReaches(page)
<1>1. /\ Len(table) \in Nat /\ DOMAIN table = 1..Len(table) /\ Len(table) <= MaxWrites
      /\ run.offset \in Nat /\ MaxWrites \in Nat
      /\ PageSize \in Nat /\ PageSize > 0 /\ ServerLimit \in Nat /\ ServerLimit > 0
      /\ table \in Seq(Listed)
      /\ paginator \in {"single", "offset", "page", "sized", "cursor"}
  <2>1. /\ Len(table) \in Nat /\ DOMAIN table = 1..Len(table)
        /\ Len(at) \in Nat /\ Len(at) <= MaxWrites
    BY EntriesOfSeq DEF TypeOK
  <2>2. Len(table) <= MaxWrites /\ MaxWrites \in Nat
    BY <2>1, PagingAssumption DEF Recorded
  <2>3. run.offset \in Nat /\ paginator \in {"single", "offset", "page", "sized", "cursor"}
    <3>1. run \in Run /\ paginator \in Paginators
      BY DEF TypeOK
    <3> QED
      BY <2>2, <3>1, PagingAssumption DEF Run
  <2>4. PageSize \in Nat /\ PageSize > 0 /\ ServerLimit \in Nat /\ ServerLimit > 0
    BY PagingAssumption
  <2>5. table \in Seq(Listed)
    BY SeqOfEntries DEF TypeOK, Listed, Entries
  <2> QED
    BY <2>1, <2>2, <2>3, <2>4, <2>5
<1>t. PICK t \in Nat, o \in Nat : t = Len(table) /\ o = run.offset
  BY <1>1
<1>2. CASE paginator = "single"
  <2>1. page = table
    BY <1>2 DEF Answers
  <2>2. Advance(page).more = FALSE
    BY <1>2 DEF Advance
  <2> QED
    BY <1>1, <2>1, <2>2 DEF PageReaches, Entries
<1>3. CASE paginator \in {"offset", "sized"}
  <2>0. PICK n \in Nat : n = Smaller(PageSize, ServerLimit) /\ n <= PageSize /\ n <= ServerLimit
    <3>1. /\ Smaller(PageSize, ServerLimit) \in Nat
          /\ Smaller(PageSize, ServerLimit) <= PageSize
          /\ Smaller(PageSize, ServerLimit) <= ServerLimit
      BY <1>1, SmallerIs
    <3> QED
      BY <3>1
  <2>1. FullPages => n = PageSize
    <3>1. FullPages => PageSize <= ServerLimit
      BY <1>3 DEF FullPages, TypeOK
    <3> QED
      BY <1>1, <2>0, <3>1, SmallerIs
  <2>2. page = Page(n)
    BY <1>3, <2>0 DEF Answers
  <2>3. PICK next : /\ next = IF paginator = "offset" THEN run.offset + PageSize ELSE run.offset + n
                    /\ Advance(page) = [offset |-> next, more |-> Len(page) = PageSize]
    BY <1>3, <2>0 DEF Advance
  <2>4. HasUpTo(page, n)
    BY <2>2, PageHas
  <2>5. Len(page) = IF o + n <= t THEN n ELSE IF o < t THEN t - o ELSE 0
    BY <1>t, <2>4 DEF HasUpTo
  <2>6. /\ Advance(page).more \in BOOLEAN /\ Advance(page).offset = next
        /\ Advance(page).more <=> Len(page) = PageSize
    <3>1. PICK r, b : r = Advance(page) /\ b = Len(page)
      OBVIOUS
    <3>2. r = [offset |-> next, more |-> b = PageSize]
      BY <2>3, <3>1
    <3>3. r.more \in BOOLEAN /\ r.offset = next /\ (r.more <=> b = PageSize)
      BY <3>2
    <3> QED
      BY <3>1, <3>3
  <2>7. Len(page) = PageSize => n = PageSize /\ o + n <= t
    BY <1>1, <1>t, <2>0, <2>5
  <2>8. Advance(page).more => next \in 0..MaxWrites + ServerLimit /\ next <= o + n
    <3>1. ASSUME Advance(page).more
          PROVE  next = o + n /\ next \in 0..MaxWrites + ServerLimit /\ next <= o + n
      <4>1. next = o + n /\ o + n <= t
        BY <1>t, <2>3, <2>6, <2>7, <3>1
      <4> QED
        BY <1>1, <1>t, <2>0, <4>1, SMTT(30)
    <3> QED
      BY <3>1
  <2>9. ~Advance(page).more /\ FullPages => t <= o + n
    <3>1. n = PageSize /\ Len(page) # PageSize => ~(o + n <= t)
      BY <2>0, <2>5
    <3>2. ~(o + n <= t) => t <= o + n
      BY <1>t, <2>0
    <3> QED
      BY <2>1, <2>6, <3>1, <3>2
  <2> QED
    BY <1>1, <1>t, <2>0, <2>4, <2>6, <2>8, <2>9, Reaches
<1>4. CASE paginator = "page"
  <2>1. page = Page(ServerLimit)
    BY <1>4 DEF Answers
  <2>2. Advance(page) = [offset |-> run.offset + ServerLimit, more |-> page # <<>>]
    BY <1>4 DEF Advance
  <2>3. HasUpTo(page, ServerLimit)
    BY <1>1, <2>1, PageHas
  <2>4. page # <<>> <=> o < t
    <3>1. Len(page) = 0 <=> page = <<>>
      BY <2>3, EmptySeq, EntriesOfSeq DEF HasUpTo
    <3> QED
      BY <1>1, <1>t, <2>3, <3>1 DEF HasUpTo
  <2>5. /\ Advance(page).more \in BOOLEAN /\ Advance(page).offset = run.offset + ServerLimit
        /\ Advance(page).more <=> page # <<>>
    <3>1. PICK r, a, b : r = Advance(page) /\ a = run.offset + ServerLimit /\ b = <<>>
      OBVIOUS
    <3>2. r = [offset |-> a, more |-> page # b]
      BY <2>2, <3>1
    <3>3. r.more \in BOOLEAN /\ r.offset = a /\ (r.more <=> page # b)
      BY <3>2
    <3> QED
      BY <3>1, <3>3
  <2>6. Advance(page).more => o + ServerLimit \in 0..MaxWrites + ServerLimit
    BY <1>1, <1>t, <2>4, <2>5
  <2>7. ~Advance(page).more => t <= o + ServerLimit
    BY <1>1, <2>4, <2>5
  <2>8. o + ServerLimit <= o + ServerLimit
    BY <1>1
  <2> QED
    BY <1>1, <1>t, <2>3, <2>5, <2>6, <2>7, <2>8, Reaches
<1>5. CASE paginator = "cursor"
  <2>1. PICK n \in 1..ServerLimit : page = Page(n)
    BY <1>5 DEF Answers
  <2>2. Advance(page) = [offset |-> run.offset + Len(page),
                         more |-> run.offset + Len(page) < Len(table)]
    BY <1>5 DEF Advance
  <2>3. n \in Nat /\ n > 0
    BY <1>1, <2>1
  <2>4. HasUpTo(page, n)
    BY <2>1, <2>3, PageHas
  <2>5. Len(page) = IF o + n <= t THEN n ELSE IF o < t THEN t - o ELSE 0
    BY <1>t, <2>4 DEF HasUpTo
  <2>6. PICK l \in Nat : l = Len(page) /\ l <= n
    <3>1. Len(page) \in Nat /\ Len(page) <= n
      BY <2>3, <2>5
    <3> QED
      BY <3>1
  <2>7. /\ Advance(page).more \in BOOLEAN /\ Advance(page).offset = o + l
        /\ Advance(page).more <=> o + l < t
    <3>1. PICK next \in Nat : next = o + l
      OBVIOUS
    <3>2. run.offset + Len(page) = next /\ Len(table) = t
      BY <1>t, <2>6, <3>1
    <3>3. Advance(page) = [offset |-> next, more |-> next < t]
      BY <2>2, <3>2, Zenon
    <3>4. PICK r : r = Advance(page)
      OBVIOUS
    <3>5. r = [offset |-> next, more |-> next < t]
      BY <3>3, <3>4
    <3>6. r.offset = next
      BY <3>5
    <3>7. r.more <=> next < t
      BY <1>t, <3>1, <3>5
    <3>8. r.more \in BOOLEAN
      BY <3>5
    <3> QED
      BY <3>1, <3>4, <3>6, <3>7, <3>8
  <2>8. Advance(page).more => o + l \in 0..MaxWrites + ServerLimit /\ o + l <= o + n
    BY <1>1, <1>t, <2>3, <2>6, <2>7
  <2>9. ~Advance(page).more => t <= o + n
    BY <2>3, <2>6, <2>7
  <2> QED
    BY <1>1, <1>t, <2>3, <2>4, <2>7, <2>8, <2>9, Reaches
<1> QED
  BY <1>1, <1>2, <1>3, <1>4, <1>5

-----------------------------------------------------------------------------
(* The run. *)

LEMMA FetchStep == Typed /\ Fetch => Typed' /\ (PageInv /\ FullPages => PageInv')
<1> SUFFICES ASSUME Typed, Fetch PROVE Typed' /\ (PageInv /\ FullPages => PageInv')
  OBVIOUS
<1>0. TypeOK /\ Recorded /\ Marked
  BY DEF Typed
<1>1. PICK page, new, max, next :
        /\ page \in Answers
        /\ new = {page[k] : k \in {j \in DOMAIN page : Fresh(page[j], run.seen)}}
        /\ max = HighWater(run.max, new)
        /\ next = Advance(page)
        /\ \/ /\ next.more
              /\ run' = [run EXCEPT !.offset = next.offset, !.max = max,
                                    !.emitted = @ \cup new]
              /\ UNCHANGED <<state, settled, slipped>>
           \/ /\ ~next.more
              /\ run' = NoRun
              /\ state' = IF max = 0 THEN state ELSE max
              /\ settled' = settled \cup run.emitted \cup new
              /\ slipped' = slipped \cup run.slipped
  BY DEF Fetch
<1>2. UNCHANGED <<table, at, clock, order, paginator, fails>> /\ run.active
  BY DEF Fetch
<1>3. PageReaches(page)
  BY <1>0, <1>1, AnswerReaches
<1>4. new \subseteq Listed /\ \A v \in new : at[v] = 0 \/ at[v] > run.seen
  <2>1. Entries(page) \subseteq Listed
    BY <1>3, EntriesOfSeq DEF PageReaches
  <2> QED
    BY <1>1, <2>1 DEF Entries, Fresh
<1>5. /\ run \in Run /\ at \in Seq(0..MaxClock) /\ MaxClock \in Nat
      /\ Listed \subseteq DOMAIN at /\ Listed \subseteq Records
      /\ state \in 0..MaxClock
      /\ \A v \in DOMAIN at : at[v] \in 0..MaxClock
  BY <1>0, EntriesOfSeq, PagingAssumption DEF TypeOK, Listed, Entries
<1>6. /\ run.max \in 0..MaxClock /\ run.seen \in 0..MaxClock
      /\ run.emitted \subseteq Records /\ run.slipped \subseteq Records
      /\ run.emitted \subseteq DOMAIN at
  BY <1>0, <1>5 DEF Run, Recorded
<1>7. max \in 0..MaxClock /\ max >= run.max /\ \A v \in new : at[v] <= max
  BY <1>1, <1>4, <1>5, <1>6, HighWaterIsHigh
<1>8. \A v \in run.emitted \cup new : at[v] <= max
  BY <1>0, <1>4, <1>5, <1>6, <1>7 DEF Marked
<1>9. max >= run.seen
  BY <1>0, <1>6, <1>7 DEF Marked
\* What the page brings the coverage of the list to.
<1>10. ASSUME PagesCovered, NEW k \in DOMAIN table,
              IF next.more THEN k <= next.offset ELSE FullPages
       PROVE  \/ table[k] \in run.emitted \cup new \cup run.slipped
              \/ at[table[k]] \in 1..run.seen
  <2>1. k \in Nat /\ run.offset \in Nat /\ table[k] \in Listed
    BY <1>0, <1>5, EntriesOfSeq, PagingAssumption DEF TypeOK, Run, Listed
  <2>2. CASE k <= run.offset
    BY <1>10, <2>2 DEF PagesCovered, Covered
  <2>3. CASE k > run.offset
    <3>1. table[k] \in Entries(page)
      BY <1>1, <1>3, <1>10, <2>3 DEF PageReaches
    <3>2. PICK j \in DOMAIN page : page[j] = table[k]
      BY <3>1 DEF Entries
    <3>3. CASE Fresh(page[j], run.seen)
      BY <1>1, <3>2, <3>3
    <3>4. CASE ~Fresh(page[j], run.seen)
      BY <1>5, <1>6, <2>1, <3>2, <3>4 DEF Fresh
    <3> QED
      BY <3>3, <3>4
  <2> QED
    BY <2>1, <2>2, <2>3
<1>11. CASE next.more
  <2>1. /\ run' = [run EXCEPT !.offset = next.offset, !.max = max, !.emitted = @ \cup new]
        /\ UNCHANGED <<state, settled, slipped>>
    BY <1>1, <1>11
  <2>2. next.offset \in 0..MaxWrites + ServerLimit
    BY <1>1, <1>3, <1>11 DEF PageReaches
  <2>3. /\ run' \in Run /\ run'.active /\ run'.offset = next.offset /\ run'.seen = run.seen
        /\ run'.max = max /\ run'.emitted = run.emitted \cup new
        /\ run'.slipped = run.slipped
    <3>1. new \subseteq Records
      BY <1>4, <1>5
    <3> QED
      BY <1>2, <1>5, <1>7, <2>1, <2>2, <3>1 DEF Run
  <2>4. TypeOK'
    BY <1>0, <1>2, <2>1, <2>3 DEF TypeOK, Listed
  <2>5. Recorded'
    BY <1>0, <1>2, <1>4, <1>5, <2>1, <2>3 DEF Recorded
  <2>6. Marked'
    BY <1>0, <1>2, <1>8, <1>9, <2>1, <2>3 DEF Marked
  <2>7. ASSUME PagesCovered PROVE PagesCovered'
    BY <1>2, <1>10, <1>11, <2>3, <2>7 DEF PagesCovered, Covered
  <2>8. ASSUME SettledBehind, NoSilentLoss PROVE SettledBehind' /\ NoSilentLoss'
    BY <1>2, <2>1, <2>8 DEF SettledBehind, NoSilentLoss, Listed
  <2>9. ASSUME SettledBehind, NothingResent PROVE NothingResent'
    <3>1. ASSUME run.seen # 0, NEW v \in new, v \notin slipped, at[v] # 0, v \in settled
          PROVE  FALSE
      <4>1. run.seen = state
        BY <1>0, <3>1 DEF Marked
      <4>2. at[v] > state
        BY <1>4, <3>1, <4>1
      <4>3. at[v] <= state
        BY <1>4, <2>9, <3>1 DEF SettledBehind
      <4> QED
        BY <1>4, <1>5, <4>2, <4>3
    <3> QED
      BY <1>2, <2>1, <2>3, <2>9, <3>1 DEF NothingResent
  <2> QED
    BY <2>4, <2>5, <2>6, <2>7, <2>8, <2>9 DEF PageInv, Typed
<1>12. CASE ~next.more
  <2>1. /\ run' = NoRun
        /\ state' = IF max = 0 THEN state ELSE max
        /\ settled' = settled \cup run.emitted \cup new
        /\ slipped' = slipped \cup run.slipped
    BY <1>1, <1>12
  <2>2. /\ run' \in Run /\ ~run'.active /\ run'.offset = 0 /\ run'.seen = 0 /\ run'.max = 0
        /\ run'.emitted = {}
    BY <1>5, <2>1, PagingAssumption DEF NoRun, Run
  <2>3. ASSUME PagesCovered, FullPages, NEW v \in Listed
        PROVE  v \in run.emitted \cup new \cup run.slipped \/ at[v] \in 1..run.seen
    BY <1>10, <1>12, <2>3 DEF Listed
  <2>4. TypeOK'
    BY <1>0, <1>2, <1>4, <1>5, <1>6, <1>7, <2>1, <2>2 DEF TypeOK, Listed
  <2>5. Recorded'
    BY <1>0, <1>2, <1>4, <1>5, <1>6, <2>1, <2>2 DEF Recorded
  <2>6. Marked'
    BY <2>2 DEF Marked
  <2>7. PagesCovered'
    <3>1. \A k \in DOMAIN table : ~(k <= 0)
      BY <1>0, EntriesOfSeq DEF TypeOK
    <3> QED
      BY <1>2, <2>2, <3>1 DEF PagesCovered
  <2>8. ASSUME PagesCovered, FullPages, SettledBehind PROVE SettledBehind'
    <3>1. ASSUME NEW v \in Listed, v \in settled' \ slipped', at[v] # 0
          PROVE  at[v] <= state'
      <4>1. at[v] \in 1..MaxClock
        BY <1>5, <3>1
      <4>2. CASE v \in run.emitted \cup new
        <5>1. at[v] <= max
          BY <1>8, <4>2
        <5> QED
          BY <1>7, <2>1, <4>1, <5>1
      <4>3. CASE v \notin run.emitted \cup new
        <5>1. v \in settled \ slipped /\ at[v] <= state
          BY <2>1, <2>8, <3>1, <4>3 DEF SettledBehind
        <5>2. at[v] \in 1..run.seen
          BY <2>1, <2>3, <2>8, <3>1, <4>3
        <5>3. max # 0 /\ at[v] <= max
          BY <1>6, <1>7, <1>9, <4>1, <5>2
        <5> QED
          BY <2>1, <5>3
      <4> QED
        BY <4>2, <4>3
    <3> QED
      BY <1>2, <3>1 DEF SettledBehind, Listed
  <2>9. ASSUME PagesCovered, FullPages, NoSilentLoss PROVE NoSilentLoss'
    <3>1. ASSUME NEW v \in Listed, at[v] \in 1..state'
          PROVE  v \in settled' \cup slipped'
      <4>1. CASE v \in run.emitted \cup new \cup run.slipped
        BY <2>1, <4>1
      <4>2. CASE at[v] \in 1..run.seen
        <5>1. at[v] \in 1..state
          BY <1>0, <1>5, <1>6, <4>2 DEF Marked
        <5> QED
          BY <2>1, <2>9, <5>1 DEF NoSilentLoss
      <4> QED
        BY <2>3, <2>9, <4>1, <4>2
    <3> QED
      BY <1>2, <3>1 DEF NoSilentLoss, Listed
  <2>10. NothingResent'
    BY <2>2 DEF NothingResent
  <2> QED
    BY <2>4, <2>5, <2>6, <2>7, <2>8, <2>9, <2>10 DEF PageInv, Typed
<1> QED
  BY <1>11, <1>12

LEMMA InitPages == Init => PageInv
<1> SUFFICES ASSUME Init PROVE PageInv
  OBVIOUS
<1>1. /\ table = <<>> /\ at = <<>> /\ clock = 1
      /\ order \in {"key", "oldest", "newest"} /\ paginator \in Paginators
      /\ run = NoRun /\ state = 0 /\ settled = {} /\ slipped = {} /\ fails = 0
  BY DEF Init
<1>2. /\ <<>> \in Seq(Records) /\ <<>> \in Seq(0..MaxClock) /\ Len(<<>>) = 0
      /\ DOMAIN <<>> = {}
  OBVIOUS
<1>3. Listed = {}
  BY <1>1, <1>2 DEF Listed
<1>4. NoRun \in Run
  BY PagingAssumption DEF NoRun, Run
<1>5. TypeOK
  BY <1>1, <1>2, <1>3, <1>4, PagingAssumption DEF TypeOK
<1>6. Recorded /\ Marked /\ PagesCovered
  BY <1>1, <1>2 DEF Recorded, Marked, PagesCovered, NoRun
<1>7. SettledBehind /\ NoSilentLoss /\ NothingResent
  BY <1>1, <1>3 DEF SettledBehind, NoSilentLoss, NothingResent, NoRun
<1> QED
  BY <1>5, <1>6, <1>7 DEF PageInv, Typed

\* The invariant, whatever the API does while the stream is read.
LEMMA PagesStep ==
  Typed /\ [Next]_vars => Typed' /\ (PageInv /\ FullPages => PageInv')
<1> SUFFICES ASSUME Typed, [Next]_vars
             PROVE  Typed' /\ (PageInv /\ FullPages => PageInv')
  OBVIOUS
<1>0. TypeOK /\ Recorded /\ Marked
  BY DEF Typed
<1>1. CASE Tick
  <2>1. clock' \in 1..MaxClock
    BY <1>0, <1>1, PagingAssumption DEF TypeOK, Tick
  <2>2. UNCHANGED <<table, at, order, paginator, run, state, settled, slipped, fails>>
    BY <1>1 DEF Tick
  <2>3. TypeOK'
    BY <1>0, <2>1, <2>2 DEF TypeOK, Listed
  <2> QED
    BY <1>0, <2>2, <2>3 DEF Typed, PageInv, Recorded, Marked, PagesCovered, Covered, SettledBehind,
                            NoSilentLoss, NothingResent, Listed
<1>2. ASSUME run' \in Run, run'.offset = 0, run'.emitted = {}, run'.seen \in {0, state},
             run'.seen <= run'.max, run'.active \/ run' = NoRun, fails' \in 0..MaxFails,
             UNCHANGED <<table, at, clock, order, paginator, state, settled, slipped>>
      PROVE  Typed' /\ (PageInv => PageInv')
  <2>1. TypeOK' /\ Recorded' /\ Marked'
    BY <1>0, <1>2 DEF TypeOK, Recorded, Marked, Listed
  <2>2. PagesCovered'
    <3>1. \A k \in DOMAIN table : ~(k <= 0)
      BY <1>0, EntriesOfSeq DEF TypeOK
    <3> QED
      BY <1>2, <3>1 DEF PagesCovered
  <2>3. ASSUME SettledBehind, NoSilentLoss
        PROVE  SettledBehind' /\ NoSilentLoss' /\ NothingResent'
    BY <1>2, <2>3 DEF SettledBehind, NoSilentLoss, NothingResent, Listed
  <2> QED
    BY <2>1, <2>2, <2>3 DEF PageInv, Typed
<1>3. CASE Fail
  <2>1. NoRun \in Run /\ NoRun.offset = 0 /\ NoRun.emitted = {} /\ NoRun.seen = 0
        /\ NoRun.max = 0
    BY PagingAssumption DEF NoRun, Run
  <2>2. fails' \in 0..MaxFails
    BY <1>0, <1>3, PagingAssumption DEF TypeOK, Fail
  <2> QED
    BY <1>2, <1>3, <2>1, <2>2 DEF Fail
<1>4. ASSUME NEW incremental \in BOOLEAN, Start(incremental)
      PROVE  Typed' /\ (PageInv => PageInv')
  <2>1. PICK seen : /\ seen = IF incremental THEN state ELSE 0
                    /\ run' = [NoRun EXCEPT !.active = TRUE, !.seen = seen, !.max = seen]
    BY <1>4 DEF Start
  <2>2. seen \in {0, state} /\ seen \in 0..MaxClock
    BY <1>0, <2>1, PagingAssumption DEF TypeOK
  <2>3. /\ run' \in Run /\ run'.offset = 0 /\ run'.emitted = {} /\ run'.seen = seen
        /\ run'.max = seen /\ run'.active
    <3>1. run' = [active |-> TRUE, offset |-> 0, seen |-> seen, max |-> seen,
                  emitted |-> {}, slipped |-> {}]
      BY <2>1 DEF NoRun
    <3>2. 0 \in 0..MaxWrites + ServerLimit
      BY PagingAssumption
    <3> QED
      BY <2>2, <3>1, <3>2 DEF Run
  <2>4. seen <= seen
    BY <2>2
  <2> QED
    BY <1>0, <1>2, <1>4, <2>2, <2>3, <2>4 DEF Start, TypeOK
<1>5. CASE UNCHANGED vars
  BY <1>0, <1>5 DEF vars, Typed, PageInv, TypeOK, Recorded, Marked, PagesCovered, Covered,
                    SettledBehind, NoSilentLoss, NothingResent, Listed
<1> QED
  BY <1>1, <1>3, <1>4, <1>5, FetchStep, InsertStep, ChangeStep, RemoveStep DEF Next, Upstream

LEMMA TypesInvariant == Spec => []Typed
<1>1. Init => Typed
  BY InitPages DEF PageInv
<1> QED
  BY <1>1, PagesStep, PTL DEF Spec

LEMMA Invariant == FullPages /\ Spec => []PageInv
<1>1. FullPages => FullPages'
  BY DEF FullPages
<1> QED
  BY <1>1, InitPages, PagesStep, TypesInvariant, PTL DEF Spec

-----------------------------------------------------------------------------

\* The list, the run, the checkpoint and the records counted as read stay well
\* typed.
THEOREM TypeCorrect == Spec => []TypeOK
BY TypesInvariant, PTL DEF Typed

\* No listed record with a cursor value is left behind the checkpoint unread,
\* unless it moved behind the reader or came with an old value: whatever is
\* inserted, changed and removed between two pages, in each order of the list
\* and for each paginator, when pages are as long as was asked.
THEOREM NoLoss == FullPages /\ Spec => []NoSilentLoss
BY Invariant, PTL DEF PageInv

\* No incremental run sends again a record with a cursor field that a completed
\* run has sent and no later run has missed.
THEOREM NoResend == FullPages /\ Spec => []NothingResent
BY Invariant, PTL DEF PageInv

=============================================================================
