------------------------------ MODULE JobService ------------------------------
(***************************************************************************)
(* What a client of the persistent job queue may rely on, without queues,   *)
(* tasks, events or files: an accepted job is kept until it has finished    *)
(* once, as completed, failed or cancelled.                                 *)
(***************************************************************************)
EXTENDS Naturals, FiniteSets

CONSTANTS Jobs, MaxConcurrent

VARIABLE state

Outcomes == {"completed", "failed", "cancelled"}

Running == {j \in Jobs : state[j] = "running"}

Init == state = [j \in Jobs |-> "new"]

Accept(j) ==
  /\ state[j] = "new"
  /\ state' = [state EXCEPT ![j] = "queued"]

Begin(j) ==
  /\ state[j] = "queued"
  /\ Cardinality(Running) < MaxConcurrent
  /\ state' = [state EXCEPT ![j] = "running"]

End(j, result) ==
  /\ \/ state[j] = "running"
     \/ state[j] = "queued" /\ result = "cancelled"
  /\ state' = [state EXCEPT ![j] = result]

\* A crash puts the jobs that were running back into the queue: a job may be
\* executed more than once, but it has one outcome.
Interrupted ==
  /\ Running # {}
  /\ state' = [j \in Jobs |-> IF j \in Running THEN "queued" ELSE state[j]]

Next ==
  \/ \E j \in Jobs : Accept(j) \/ Begin(j) \/ \E r \in Outcomes : End(j, r)
  \/ Interrupted

Spec == Init /\ [][Next]_state
===============================================================================
