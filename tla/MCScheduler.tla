----------------------------- MODULE MCScheduler -----------------------------
(* Small instances of Scheduler for TLC. *)
EXTENDS Scheduler, TLC

CONSTANTS c1, c2, w1, w2

Every(n) == [kind |-> "interval", every |-> n]
Cron(n) == [kind |-> "cron", every |-> n]
Bad == [kind |-> "bad", every |-> 0]

TwoConns == {c1, c2}
OneWorker == {w1}
TwoWorkers == {w1, w2}

\* c1 has an interval, c2 a cron expression; neither changes.
Fixed == [c \in TwoConns |-> IF c = c1 THEN {Every(2)} ELSE {Cron(2)}]
\* c1's schedule is edited, also to one that cannot be evaluated; c2 may change
\* between an interval and a cron expression.
Edited == [c \in TwoConns |->
            IF c = c1 THEN {Every(0), Bad} ELSE {Every(2), Cron(2)}]
=============================================================================
