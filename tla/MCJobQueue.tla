----------------------------- MODULE MCJobQueue -----------------------------
(* Small instances of JobQueue for TLC. *)
EXTENDS JobQueue, TLC

CONSTANTS c1, c2, j1, j2, w1, w2

OneConn == {c1}
TwoConns == {c1, c2}
OneJob == {j1}
TwoJobs == {j1, j2}
OneWorker == {w1}
TwoWorkers == {w1, w2}

\* One job, to follow its attempts through more faults.
Single == [j \in OneJob |-> c1]
\* A job of each connection, so that endless syncs can hold every worker.
JobEach == [j \in TwoJobs |-> IF j = j1 THEN c1 ELSE c2]
\* Both jobs compete for the one slot of c1.
SameConn == [j \in TwoJobs |-> c1]

\* Sound where both jobs belong to the same connection.
Symmetry == Permutations(TwoWorkers) \cup Permutations(TwoJobs)
=============================================================================
