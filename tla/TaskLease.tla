----------------------------- MODULE TaskLease -----------------------------
(***************************************************************************)
(* The scheduling of task flows over several API processes that share one  *)
(* Postgres: the lease row of a task (StateRepo), the claim, heartbeat and *)
(* release around a flow (task_flow_service), the lease check before every *)
(* node (task_lease_runtime, dag_graph), the terminal status write and the *)
(* recovery of unfinished tasks when a process starts.                     *)
(*                                                                         *)
(* Time is discrete.  The lease row keeps `left', the database time that   *)
(* remains until lease_expires_at, so no clock grows without bound.  Each  *)
(* process reads its own clock, which is Skew[p] ahead of the database's.  *)
(* schedule_task_flow has no await and runs on the process's event loop:   *)
(* it is one action per outcome, and while a process still has tasks to    *)
(* schedule nothing else runs on its loop (LoopFree).                      *)
(***************************************************************************)
EXTENDS Integers, FiniteSets

CONSTANTS
  Process,         \* TASK_SCHEDULER_INSTANCE_ID of the processes
  Pinned,          \* those whose identity is configured and survives a restart
  Task,
  None,            \* no lease row
  TTL,             \* TASK_LEASE_TTL_SECONDS
  HeartbeatEvery,  \* TASK_LEASE_HEARTBEAT_SECONDS
  Lag,             \* how late a heartbeat may be, event loop and database
  Skew,            \* clock of a process minus clock of the database
  MaxSkew,
  Workers,         \* TASK_FLOW_MAX_WORKERS
  Nodes,           \* nodes a flow runs (the length of one run of the DAG)
  Resubmit,        \* whether callers schedule a task that already exists
  MaxCrashes,      \* bound on crashes
  MaxFaults        \* bound on failed database calls

ASSUME LeaseParameters ==
  /\ Pinned \subseteq Process
  /\ None \notin Process
  /\ TTL \in Nat /\ HeartbeatEvery \in Nat /\ Lag \in Nat
  /\ MaxSkew \in Nat
  /\ Skew \in [Process -> -MaxSkew .. MaxSkew]
  /\ Workers \in Nat /\ Nodes \in Nat
  /\ Resubmit \in BOOLEAN
  /\ MaxCrashes \in Nat /\ MaxFaults \in Nat

\* The timing a deployment needs and nothing in the code enforces: a heartbeat,
\* late as it may be, comes before the lease has expired by the owner's clock
\* and by the database's.
HeartbeatInTime ==
  /\ HeartbeatEvery + Lag < TTL
  /\ \A p \in Process : HeartbeatEvery + Lag <= TTL + Skew[p]

VARIABLES
  life,      \* "new", "up" or "down"
  backlog,   \* tasks the process is about to pass to schedule_task_flow
  status,    \* global_status of the task, as persisted
  owner,     \* owner_id of the lease row, or None
  left,      \* lease_expires_at - NOW()
  flow,      \* where the process's flow of the task is
  step,      \* nodes the flow has completed
  hb,        \* age of the expiry its heartbeat wrote last, or Off: no heartbeat
  lost,      \* _lost_task_leases of the process
  crashes, faults

local == <<flow, step, hb, lost>>
lease == <<owner, left>>
vars == <<life, backlog, status, lease, local, crashes, faults>>

Verdict == {"success", "failed", "waiting"}
Terminal == {"success", "failed"}

Settled == Terminal \cup {"waiting"}

\* "none": not in _active_task_flow_tasks.  "queued": waits for a worker of
\* _task_flow_executor.  "ready": between two nodes.  "node": past the lease
\* check, inside a node.  A verdict: execute_task_flow has returned it and
\* update_global_status is next.  "error": in the exception handler, which
\* writes FAILED.  "done": the done-callback is next.
FlowState == {"none", "queued", "ready", "node", "error", "done"} \cup Verdict

Off == -1
Floor == -MaxSkew - 1      \* `left' stops falling once nobody can tell

TypeOK ==
  /\ life \in [Process -> {"new", "up", "down"}]
  /\ backlog \in [Process -> SUBSET Task]
  /\ status \in [Task -> {"absent", "unfinished"} \cup Verdict]
  /\ owner \in [Task -> Process \cup {None}]
  /\ left \in [Task -> Floor .. TTL + MaxSkew]
  /\ flow \in [Process -> [Task -> FlowState]]
  /\ step \in [Process -> [Task -> 0 .. Nodes]]
  /\ hb \in [Process -> [Task -> Off .. HeartbeatEvery + Lag]]
  /\ lost \in [Process -> [Task -> BOOLEAN]]
  /\ crashes \in 0 .. MaxCrashes
  /\ faults \in 0 .. MaxFaults

Init ==
  /\ life = [p \in Process |-> "new"]
  /\ backlog = [p \in Process |-> {}]
  /\ status = [t \in Task |-> "absent"]
  /\ owner = [t \in Task |-> None]
  /\ left = [t \in Task |-> Floor]
  /\ flow = [p \in Process |-> [t \in Task |-> "none"]]
  /\ step = [p \in Process |-> [t \in Task |-> 0]]
  /\ hb = [p \in Process |-> [t \in Task |-> Off]]
  /\ lost = [p \in Process |-> [t \in Task |-> FALSE]]
  /\ crashes = 0
  /\ faults = 0

-----------------------------------------------------------------------------
(* The lease row *)

\* Mutant of Claimable: lease_expires_at <= NOW().
ClaimableAtExpiry(p, t) == owner[t] = None \/ left[t] <= 0 \/ owner[t] = p

\* Mutant of Claimable: without "OR owner_id = EXCLUDED.owner_id".
ClaimableByOthers(p, t) == owner[t] = None \/ left[t] < 0

\* The upsert of claim_task_lease takes effect: no row, a row that has
\* expired by the database's clock, or a row of the same owner.
Claimable(p, t) == owner[t] = None \/ left[t] < 0 \/ owner[t] = p

\* Mutant of Grant: the heartbeat's interval is taken for the lease's length.
GrantShort(p, t) ==
  /\ owner' = [owner EXCEPT ![t] = p]
  /\ left' = [left EXCEPT ![t] = HeartbeatEvery + Skew[p]]

\* claim_task_lease and renew_task_lease write the expiry by p's own clock.
Grant(p, t) ==
  /\ owner' = [owner EXCEPT ![t] = p]
  /\ left' = [left EXCEPT ![t] = TTL + Skew[p]]

\* Mutant of Release: DELETE without "AND owner_id = :owner_id".
ReleaseAnyRow(p, t) ==
  /\ owner' = [owner EXCEPT ![t] = None]
  /\ left' = [left EXCEPT ![t] = Floor]

\* release_task_lease deletes the row if p owns it.
Release(p, t) ==
  IF owner[t] = p
    THEN /\ owner' = [owner EXCEPT ![t] = None]
         /\ left' = [left EXCEPT ![t] = Floor]
    ELSE UNCHANGED lease

\* task_lease_status says "owned": p's row, unexpired by p's own clock.
Owned(p, t) == owner[t] = p /\ left[t] > Skew[p]

\* A database call that fails.
Fault ==
  /\ faults < MaxFaults
  /\ faults' = faults + 1

-----------------------------------------------------------------------------
(* Processes and requests *)

\* The lifespan of the application: recover_unfinished_tasks reads the list of
\* unfinished tasks once, then schedules them one by one.
Start(p) ==
  /\ life[p] = "new" \/ (life[p] = "down" /\ p \in Pinned)
  /\ life' = [life EXCEPT ![p] = "up"]
  /\ backlog' = [backlog EXCEPT ![p] = {t \in Task : status[t] = "unfinished"}]
  /\ UNCHANGED <<status, lease, local, crashes, faults>>

Crash(p) ==
  /\ life[p] = "up"
  /\ crashes < MaxCrashes
  /\ crashes' = crashes + 1
  /\ life' = [life EXCEPT ![p] = "down"]
  /\ backlog' = [backlog EXCEPT ![p] = {}]
  /\ flow' = [flow EXCEPT ![p] = [t \in Task |-> "none"]]
  /\ step' = [step EXCEPT ![p] = [t \in Task |-> 0]]
  /\ hb' = [hb EXCEPT ![p] = [t \in Task |-> Off]]
  /\ lost' = [lost EXCEPT ![p] = [t \in Task |-> FALSE]]
  /\ UNCHANGED <<status, lease, faults>>

\* create_app_analysis persists the new task as PENDING; scheduling follows.
\* Requests are served once the start-up recovery is over.
Submit(p, t) ==
  /\ life[p] = "up" /\ backlog[p] = {}
  /\ status[t] = "absent"
  /\ status' = [status EXCEPT ![t] = "unfinished"]
  /\ backlog' = [backlog EXCEPT ![p] = {t}]
  /\ UNCHANGED <<life, lease, local, crashes, faults>>

\* A caller schedules a task that exists already; its status is not looked at.
SubmitAgain(p, t) ==
  /\ Resubmit
  /\ life[p] = "up" /\ backlog[p] = {}
  /\ status[t] # "absent"
  /\ backlog' = [backlog EXCEPT ![p] = {t}]
  /\ UNCHANGED <<life, status, lease, local, crashes, faults>>

-----------------------------------------------------------------------------
(* schedule_task_flow *)

\* What every outcome starts with: the loss mark of the task is cleared.
BeginSchedule(p, t) ==
  /\ t \in backlog[p]
  /\ backlog' = [backlog EXCEPT ![p] = @ \ {t}]
  /\ lost' = [lost EXCEPT ![p][t] = FALSE]

\* The claim finds another owner: reason "lease_conflict", and no retry.
ScheduleConflict(p, t) ==
  /\ BeginSchedule(p, t)
  /\ ~Claimable(p, t)
  /\ UNCHANGED <<life, status, lease, flow, step, hb, crashes, faults>>

\* The claim's upsert fails: also "lease_conflict".
ScheduleClaimFails(p, t) ==
  /\ BeginSchedule(p, t)
  /\ Fault
  /\ UNCHANGED <<life, status, lease, flow, step, hb, crashes>>

\* The lease table cannot be ensured: the exception leaves the request or the
\* recovery, and what was still to be scheduled is not.
ScheduleRaises(p, t) ==
  /\ t \in backlog[p]
  /\ Fault
  /\ backlog' = [backlog EXCEPT ![p] = {}]
  /\ lost' = [lost EXCEPT ![p][t] = FALSE]
  /\ UNCHANGED <<life, status, lease, flow, step, hb, crashes>>

\* The task is active in this process: reason "duplicate_local_task", after
\* the claim and a release under the same owner id.
ScheduleDuplicate(p, t) ==
  /\ BeginSchedule(p, t)
  /\ Claimable(p, t)
  /\ flow[p][t] # "none"
  /\ owner' = [owner EXCEPT ![t] = None]
  /\ left' = [left EXCEPT ![t] = Floor]
  /\ UNCHANGED <<life, status, flow, step, hb, crashes, faults>>

\* The same, but the release fails and the renewed row stays.
ScheduleDuplicateKeepsRow(p, t) ==
  /\ BeginSchedule(p, t)
  /\ Claimable(p, t)
  /\ flow[p][t] # "none"
  /\ Fault
  /\ Grant(p, t)
  /\ UNCHANGED <<life, status, flow, step, hb, crashes>>

\* The flow and its heartbeat are created.
ScheduleStart(p, t) ==
  /\ BeginSchedule(p, t)
  /\ Claimable(p, t)
  /\ flow[p][t] = "none"
  /\ Grant(p, t)
  /\ flow' = [flow EXCEPT ![p][t] = "queued"]
  /\ step' = [step EXCEPT ![p][t] = 0]
  /\ hb' = [hb EXCEPT ![p][t] = 0]
  /\ UNCHANGED <<life, status, crashes, faults>>

-----------------------------------------------------------------------------
(* The flow: _run_task_flow and, in a worker thread, execute_task_flow *)

\* The flow's steps leave the process, its heartbeat and the lease alone.
GoTo(p, t, s) ==
  /\ flow' = [flow EXCEPT ![p][t] = s]
  /\ UNCHANGED <<life, backlog, lease, hb, lost, crashes>>

\* The event loop of the process is not inside a scheduling loop.
LoopFree(p) == backlog[p] = {}

InPool(p) == {t \in Task : flow[p][t] \in {"ready", "node"}}

EnterPool(p, t) ==
  /\ LoopFree(p)
  /\ flow[p][t] = "queued"
  /\ Cardinality(InPool(p)) < Workers
  /\ GoTo(p, t, "ready")
  /\ UNCHANGED <<status, step, faults>>

\* Loading or saving the execution data fails before the try block: the flow
\* ends and no status is written.
PreludeFails(p, t) ==
  /\ LoopFree(p)
  /\ flow[p][t] = "queued"
  /\ Fault
  /\ GoTo(p, t, "done")
  /\ UNCHANGED <<status, step>>

\* ensure_task_lease_owned passes and the node is entered.
StartNode(p, t) ==
  /\ flow[p][t] = "ready" /\ step[p][t] < Nodes
  /\ ~lost[p][t] /\ Owned(p, t)
  /\ GoTo(p, t, "node")
  /\ UNCHANGED <<status, step, faults>>

\* ensure_task_lease_owned raises, before a node or (executor, dynamic) in
\* it: the flow's verdict is FAILED, "lease lost".
LeaseCheckFails(p, t) ==
  /\ flow[p][t] \in {"ready", "node"} /\ step[p][t] < Nodes
  /\ lost[p][t] \/ ~Owned(p, t)
  /\ GoTo(p, t, "failed")
  /\ UNCHANGED <<status, step, faults>>

\* The lease cannot be read: "unknown" counts as lost.
LeaseCheckUnknown(p, t) ==
  /\ flow[p][t] \in {"ready", "node"} /\ step[p][t] < Nodes
  /\ Fault
  /\ GoTo(p, t, "failed")
  /\ UNCHANGED <<status, step>>

\* A node reports its phase; a blocked node reports WAITING_FOR_HUMAN and the
\* auditor FAILED.  update_global_status looks at no earlier status.
NodeStatus(p, t) ==
  /\ flow[p][t] = "node"
  /\ \E s \in {"unfinished", "waiting", "failed"} :
       status' = [status EXCEPT ![t] = s]
  /\ GoTo(p, t, "node")
  /\ UNCHANGED <<step, faults>>

EndNode(p, t) ==
  /\ flow[p][t] = "node"
  /\ step' = [step EXCEPT ![p][t] = @ + 1]
  /\ GoTo(p, t, "ready")
  /\ UNCHANGED <<status, faults>>

\* The node blocks, and the round ends with a waiting verdict, or it raises.
NodeStops(p, t) ==
  /\ flow[p][t] = "node"
  /\ \E s \in {"waiting", "error"} : GoTo(p, t, s)
  /\ UNCHANGED <<status, step, faults>>

Conclude(p, t) ==
  /\ flow[p][t] = "ready" /\ step[p][t] = Nodes
  /\ \E v \in Verdict : GoTo(p, t, v)
  /\ UNCHANGED <<status, step, faults>>

\* The verdict becomes the task's status.  The lease is not looked at.
WriteVerdict(p, t) ==
  /\ LoopFree(p)
  /\ flow[p][t] \in Verdict \cup {"error"}
  /\ status' = [status EXCEPT ![t] =
       IF flow[p][t] = "error" THEN "failed" ELSE flow[p][t]]
  /\ GoTo(p, t, "done")
  /\ UNCHANGED <<step, faults>>

\* The write fails.  Inside the try block the handler writes FAILED in its
\* place; inside the handler the flow ends without a status.
WriteVerdictFails(p, t) ==
  /\ LoopFree(p)
  /\ flow[p][t] \in Verdict \cup {"error"}
  /\ Fault
  /\ GoTo(p, t, IF flow[p][t] = "error" THEN "done" ELSE "error")
  /\ UNCHANGED <<status, step>>

\* What the done-callback does in the process.
ForgetFlow(p, t) ==
  /\ LoopFree(p)
  /\ flow[p][t] = "done"
  /\ flow' = [flow EXCEPT ![p][t] = "none"]
  /\ step' = [step EXCEPT ![p][t] = 0]
  /\ hb' = [hb EXCEPT ![p][t] = Off]
  /\ lost' = [lost EXCEPT ![p][t] = FALSE]
  /\ UNCHANGED <<life, backlog, status, crashes>>

\* Mutant of Cleanup: the flow is dropped only together with its lease row.
CleanupIfHeld(p, t) ==
  /\ owner[t] = p
  /\ ForgetFlow(p, t)
  /\ Release(p, t)
  /\ UNCHANGED faults

Cleanup(p, t) ==
  /\ ForgetFlow(p, t)
  /\ Release(p, t)
  /\ UNCHANGED faults

\* The failed release is logged and the row stays until it expires.
CleanupKeepsRow(p, t) ==
  /\ ForgetFlow(p, t)
  /\ Fault
  /\ UNCHANGED lease

-----------------------------------------------------------------------------
(* The heartbeat and time *)

HeartbeatDue(p, t) ==
  /\ LoopFree(p)
  /\ hb[p][t] >= HeartbeatEvery
  /\ UNCHANGED <<life, backlog, status, flow, step, crashes>>

\* Mutant of Renew: the renewal inserts a missing row and takes an expired one.
RenewOrClaim(p, t) ==
  /\ HeartbeatDue(p, t)
  /\ Claimable(p, t)
  /\ Grant(p, t)
  /\ hb' = [hb EXCEPT ![p][t] = 0]
  /\ UNCHANGED <<lost, faults>>

\* renew_task_lease updates the row of this owner, expired or not.
Renew(p, t) ==
  /\ HeartbeatDue(p, t)
  /\ owner[t] = p
  /\ Grant(p, t)
  /\ hb' = [hb EXCEPT ![p][t] = 0]
  /\ UNCHANGED <<lost, faults>>

\* The row is gone or another's: the loss is marked, the heartbeat ends.
RenewLost(p, t) ==
  /\ HeartbeatDue(p, t)
  /\ owner[t] # p
  /\ hb' = [hb EXCEPT ![p][t] = Off]
  /\ lost' = [lost EXCEPT ![p][t] = TRUE]
  /\ UNCHANGED <<lease, faults>>

\* Mutant of RenewFails: the heartbeat goes on to its next interval.
RenewFailsAndGoesOn(p, t) ==
  /\ HeartbeatDue(p, t)
  /\ Fault
  /\ hb' = [hb EXCEPT ![p][t] = 0]
  /\ lost' = [lost EXCEPT ![p][t] = TRUE]
  /\ UNCHANGED lease

\* The update fails: counted as lost.  If already the lease table cannot be
\* ensured, the exception ends the heartbeat and nothing is marked.
RenewFails(p, t) ==
  /\ HeartbeatDue(p, t)
  /\ Fault
  /\ hb' = [hb EXCEPT ![p][t] = Off]
  /\ \E marked \in BOOLEAN : lost' = [lost EXCEPT ![p][t] = marked]
  /\ UNCHANGED lease

\* Time passes; no heartbeat is later than Lag.
Tick ==
  /\ \A p \in Process, t \in Task : hb[p][t] < HeartbeatEvery + Lag
  /\ left' = [t \in Task |-> IF left[t] > Floor THEN left[t] - 1 ELSE Floor]
  /\ hb' = [p \in Process |-> [t \in Task |->
       IF hb[p][t] = Off THEN Off ELSE hb[p][t] + 1]]
  /\ UNCHANGED <<life, backlog, status, owner, flow, step, lost, crashes, faults>>

-----------------------------------------------------------------------------
Schedule(p, t) ==
  \/ ScheduleConflict(p, t) \/ ScheduleClaimFails(p, t) \/ ScheduleRaises(p, t)
  \/ ScheduleDuplicate(p, t) \/ ScheduleDuplicateKeepsRow(p, t)
  \/ ScheduleStart(p, t)

RunStep(p, t) ==
  \/ EnterPool(p, t) \/ PreludeFails(p, t)
  \/ StartNode(p, t) \/ LeaseCheckFails(p, t) \/ LeaseCheckUnknown(p, t)
  \/ NodeStatus(p, t) \/ EndNode(p, t) \/ NodeStops(p, t) \/ Conclude(p, t)
  \/ WriteVerdict(p, t) \/ WriteVerdictFails(p, t)

Finish(p, t) == Cleanup(p, t) \/ CleanupKeepsRow(p, t)

Heartbeat(p, t) == Renew(p, t) \/ RenewLost(p, t) \/ RenewFails(p, t)

Next ==
  \/ \E p \in Process : Start(p) \/ Crash(p)
  \/ \E p \in Process, t \in Task :
       \/ Submit(p, t) \/ SubmitAgain(p, t)
       \/ Schedule(p, t) \/ RunStep(p, t) \/ Finish(p, t) \/ Heartbeat(p, t)
  \/ Tick

Spec == Init /\ [][Next]_vars

\* Time passes, processes start (a pinned one again after a crash), loops and
\* workers make progress, and every node ends.  Requests, crashes and faults
\* need not happen.
Fairness ==
  /\ WF_vars(Tick)
  /\ \A p \in Process : WF_vars(Start(p))
  /\ \A p \in Process, t \in Task :
       /\ WF_vars(Schedule(p, t))
       /\ WF_vars(EnterPool(p, t))
       /\ WF_vars(StartNode(p, t) \/ LeaseCheckFails(p, t))
       /\ WF_vars(EndNode(p, t) \/ NodeStops(p, t))
       /\ WF_vars(Conclude(p, t) \/ WriteVerdict(p, t))
       /\ WF_vars(Cleanup(p, t))
       /\ WF_vars(Renew(p, t) \/ RenewLost(p, t))

FairSpec == Spec /\ Fairness

\* The steps by which a flow goes on.  The event loop and the pool of workers
\* serve in the order of arrival (queues of asyncio and ThreadPoolExecutor): a
\* flow that again and again could go on does, however often callers schedule.
GoOn(p, t) ==
  \/ EnterPool(p, t) \/ StartNode(p, t) \/ LeaseCheckFails(p, t)
  \/ EndNode(p, t) \/ NodeStops(p, t) \/ Conclude(p, t)
  \/ WriteVerdict(p, t) \/ Cleanup(p, t)

QueueSpec ==
  /\ Spec
  /\ \A p \in Process, t \in Task : WF_vars(Schedule(p, t)) /\ SF_vars(GoOn(p, t))

-----------------------------------------------------------------------------
(* Properties *)

\* A process runs the task in good faith: its flow is active and its heartbeat
\* has not been told that the lease is gone.
Runs(p, t) == flow[p][t] # "none" /\ hb[p][t] # Off

\* The purpose of the lease (claim in schedule_task_flow, heartbeat, release in
\* the done-callback): two processes never run the same task in good faith,
\* however crashes, restarts, clock skew and late heartbeats interleave.
SingleRunner ==
  \A t \in Task : \A p, q \in Process : Runs(p, t) /\ Runs(q, t) => p = q

\* While a flow's heartbeat lives, the row is this process's and its expiry is
\* the last one the heartbeat wrote: nobody else's claim or release, and no
\* second flow of the same process, touches it.
RowFollowsHeartbeat ==
  \A p \in Process, t \in Task :
    Runs(p, t) => owner[t] = p /\ left[t] = TTL + Skew[p] - hb[p][t]

\* Without failed database calls, no flow is stopped with "lease lost": the
\* check in front of each node passes throughout the flow, since the heartbeat
\* renews the lease in time by the process's own clock.
NoSpuriousLoss ==
  faults = 0 =>
    \A p \in Process, t \in Task :
      flow[p][t] # "none" => ~lost[p][t] /\ Owned(p, t)

WritesVerdict(p, t) == flow[p][t] \in Verdict \cup {"error"} /\ flow'[p][t] = "done"

\* Whoever writes the final status of a task holds its lease at that moment,
\* although _run_task_flow does not look at it, as long as no database call has
\* failed: the heartbeat keeps the row for the flow up to that write.
FaultlessVerdictByHolder ==
  [][\A p \in Process, t \in Task :
       faults = 0 /\ WritesVerdict(p, t) => owner[t] = p]_vars

\* A flow that has lost its lease row never gets it back, so it can enter no
\* further node: renewals only update, and claims belong to new flows.
LostForGood ==
  [][\A p \in Process, t \in Task :
       flow[p][t] # "none" /\ flow'[p][t] # "none" /\ owner[t] # p
         => owner'[t] # p]_vars

\* The facts about flows, heartbeats and backlogs that RowFollowsHeartbeat rests
\* on.  Only a task that exists is run or about to be; a process about to
\* schedule a task does not run it already; an ended flow leaves neither a
\* heartbeat nor a loss mark; a process that is down does nothing.
NodeBelowEnd ==
  \A p \in Process, t \in Task : flow[p][t] = "node" => step[p][t] < Nodes
DownIsIdle ==
  \A p \in Process, t \in Task :
    life[p] # "up" => flow[p][t] = "none" /\ t \notin backlog[p]
NoneIsOff ==
  \A p \in Process, t \in Task :
    flow[p][t] = "none" => hb[p][t] = Off /\ ~lost[p][t]
AbsentIsIdle ==
  \A p \in Process, t \in Task :
    status[t] = "absent" => flow[p][t] = "none" /\ t \notin backlog[p]
BacklogIsIdle ==
  \A p \in Process, t \in Task : t \in backlog[p] => flow[p][t] = "none"
LeaseInv ==
  /\ NodeBelowEnd /\ DownIsIdle /\ NoneIsOff /\ AbsentIsIdle /\ BacklogIsIdle
  /\ RowFollowsHeartbeat

\* TaskLease implements the promise of TaskOwnership.
Ownership == INSTANCE TaskOwnership WITH
  runners <- [t \in Task |-> {p \in Process : Runs(p, t)}]
ImplementsOwnership == Ownership!Spec

\* Every created task settles for good in SUCCESS, FAILED or
\* WAITING_FOR_HUMAN, through crashes and restarts, unless a database call
\* fails.
EventuallySettled ==
  \A t \in Task : status[t] # "absent" ~> [](status[t] \in Settled) \/ faults > 0

\* Every flow ends and leaves the process, so that its task can be scheduled
\* again and a worker is free: one that waits behind others in the pool, one whose
\* row or loss mark a second scheduling has taken away, one whose heartbeat is
\* dead, and whichever call has failed.
FlowsEnd ==
  \A p \in Process, t \in Task : flow[p][t] # "none" ~> flow[p][t] = "none"

=============================================================================
