------------------------------ MODULE MCConsole ------------------------------
(* Small instances of Console for TLC. *)
EXTENDS Console

ThreeSpaces == {1, 2, 3}
FirstTwo == {1, 2}
ThreeConns == {1, 2, 3}
\* Connections 1 and 2 are in workspace 1, connection 3 in workspace 2.
Placed == [c \in ThreeConns |-> IF c = 3 THEN 2 ELSE 1]
\* A job that is over and one that runs.
TwoJobs == <<[of |-> 1, st |-> "done"], [of |-> 1, st |-> "live"]>>
=============================================================================
