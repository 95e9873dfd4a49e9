--------------------------- MODULE TaskOwnership ---------------------------
(***************************************************************************)
(* What the task lease promises, without saying how: of the API processes  *)
(* that share one Postgres, at most one at a time is the runner of a task. *)
(*                                                                         *)
(* A runner is a process that executes the task's flow and has not been    *)
(* told that its lease is gone.  TaskLease implements this specification.  *)
(***************************************************************************)
CONSTANTS Process, Task

VARIABLE runners     \* for each task, the processes that run it in good faith

Init == runners = [t \in Task |-> {}]

\* A process becomes the runner of a task nobody runs.
Take(p, t) ==
  /\ runners[t] = {}
  /\ runners' = [runners EXCEPT ![t] = {p}]

\* The runner finishes the task, or learns that it has lost the lease.
Drop(p, t) ==
  /\ p \in runners[t]
  /\ runners' = [runners EXCEPT ![t] = @ \ {p}]

\* A process dies and stops running all of its tasks.
Die(p) == runners' = [t \in Task |-> runners[t] \ {p}]

Next ==
  \/ \E p \in Process, t \in Task : Take(p, t) \/ Drop(p, t)
  \/ \E p \in Process : Die(p)

Spec == Init /\ [][Next]_runners
=============================================================================
