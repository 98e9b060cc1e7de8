---------------------------- MODULE MCCheckpoints ----------------------------
(* Small instances of Checkpoints for TLC. *)
EXTENDS Checkpoints

CONSTANTS c1, j1, j2, w1, w2, s1, s2

OneConn == {c1}
TwoJobs == {j1, j2}
SameConn == [j \in TwoJobs |-> c1]
TwoWorkers == {w1, w2}
TwoStreams == {s1, s2}
=============================================================================
