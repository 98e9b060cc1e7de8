---------------------------- MODULE Replication -----------------------------
(***************************************************************************)
(* What replication promises about one connection, however its runs end:     *)
(* destinations make records durable, a stream's checkpoint only moves       *)
(* forward and only over records that are durable, and the connection is in  *)
(* sync, once and for good, when every stream's checkpoint is at its end.     *)
(* Nothing is said of processes, pipes, acknowledgements or runs; Sync        *)
(* implements this (ImplementsReplication).                                  *)
(***************************************************************************)
EXTENDS Naturals

CONSTANTS Streams, Total

VARIABLES
  delivered,  \* the records that are durable, as pairs of stream and number
  committed,  \* committed[s]: the checkpoint of stream s
  complete    \* a run has reported success

vars == <<delivered, committed, complete>>

Prefix(s, n) == {s} \X (1..n)

Init ==
  /\ delivered = {}
  /\ committed = [s \in Streams |-> 0]
  /\ complete = FALSE

\* A destination flushes what it holds.
Deliver(R) ==
  /\ delivered' = delivered \cup R
  /\ UNCHANGED <<committed, complete>>

\* A checkpoint is persisted: the next run resumes after record n.
Commit(s, n) ==
  /\ ~complete
  /\ n > committed[s]
  /\ Prefix(s, n) \subseteq delivered
  /\ committed' = [committed EXCEPT ![s] = n]
  /\ UNCHANGED <<delivered, complete>>

Complete ==
  /\ ~complete
  /\ \A s \in Streams : committed[s] = Total
  /\ complete' = TRUE
  /\ UNCHANGED <<delivered, committed>>

Next ==
  \/ \E R \in SUBSET (Streams \X (1..Total)) : Deliver(R)
  \/ \E s \in Streams, n \in 1..Total : Commit(s, n)
  \/ Complete

Spec == Init /\ [][Next]_vars
=============================================================================
