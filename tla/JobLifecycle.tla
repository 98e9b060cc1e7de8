---------------------------- MODULE JobLifecycle ----------------------------
(***************************************************************************)
(* What the queue promises about one job, whoever executes it: it waits, it  *)
(* runs, it may be put back in the queue, it ends once, and a connection has *)
(* at most one job that waits or runs.  Nothing is said of workers, attempts *)
(* or clocks; JobQueue implements this (ImplementsLifecycle).                *)
(***************************************************************************)
CONSTANTS Jobs, Conns, ConnOf

VARIABLES
  status,  \* status[j]: what the API shows of job j
  asked    \* asked[j]: cancellation of j was requested

vars == <<status, asked>>

Active == {"pending", "running"}
Ended  == {"succeeded", "failed", "cancelled"}

Init ==
  /\ status = [j \in Jobs |-> "none"]
  /\ asked = [j \in Jobs |-> FALSE]

Submit(j) ==
  /\ status[j] = "none"
  /\ \A k \in Jobs : ConnOf[k] = ConnOf[j] => status[k] \notin Active
  /\ status' = [status EXCEPT ![j] = "pending"]
  /\ UNCHANGED asked

Start(j) ==
  /\ status[j] = "pending"
  /\ status' = [status EXCEPT ![j] = "running"]
  /\ UNCHANGED asked

\* A retry, or the recovery of the jobs S of dead workers.
Requeue(S) ==
  /\ \A j \in S : status[j] = "running"
  /\ status' = [j \in Jobs |-> IF j \in S THEN "pending" ELSE status[j]]
  /\ UNCHANGED asked

\* Only a job whose cancellation was asked ends cancelled.
End(j, verdict) ==
  /\ status[j] = "running"
  /\ verdict = "cancelled" => asked[j]
  /\ status' = [status EXCEPT ![j] = verdict]
  /\ UNCHANGED asked

Ask(j) ==
  /\ status[j] \in Active
  /\ asked' = [asked EXCEPT ![j] = TRUE]
  /\ status' = [status EXCEPT ![j] = IF @ = "pending" THEN "cancelled" ELSE @]

\* The connection goes, and its jobs with it.
Remove(c) ==
  LET gone == {j \in Jobs : ConnOf[j] = c /\ status[j] # "none"}
  IN /\ status' = [j \in Jobs |-> IF j \in gone THEN "deleted" ELSE status[j]]
     /\ asked' = [j \in Jobs |-> IF j \in gone THEN FALSE ELSE asked[j]]

Next ==
  \/ \E j \in Jobs : Submit(j) \/ Start(j) \/ Ask(j)
  \/ \E S \in SUBSET Jobs : Requeue(S)
  \/ \E j \in Jobs, verdict \in Ended : End(j, verdict)
  \/ \E c \in Conns : Remove(c)

Spec == Init /\ [][Next]_vars
=============================================================================
