---------------------------- MODULE SandboxRuns ----------------------------
(***************************************************************************)
(* Runs of code in the Docker sandbox by the worker threads of a process:  *)
(* the session, the tenant's concurrency slot, the temporary code file,    *)
(* the container and its registration (execute_code_in_docker_impl), with  *)
(* the signal handler of the process, its death and restart, and the       *)
(* cleaner of old containers.                                              *)
(*                                                                         *)
(* A run is one call of execute_in_sandbox_with_audit; its trace id is     *)
(* fresh.  Each step of a run is atomic where the code holds a lock or     *)
(* makes one call, a call on state that only the run itself reads is part  *)
(* of its neighbour, and the threads interleave between steps.  `age' is   *)
(* the time since a container was created.                                 *)
(***************************************************************************)
EXTENDS Integers, FiniteSets

CONSTANTS
  Run,             \* calls, named by their trace ids
  Tenant,
  TenantOf,        \* the tenant of a call
  MaxConcurrency,  \* max_tenant_concurrency
  Timeout,         \* time a container is waited for
  Factor,          \* ZOMBIE_CONTAINER_TIMEOUT_FACTOR
  Lag,             \* time a run spends on its container outside the wait
  Signals,         \* whether the signal handlers are installed
  MaxDeaths,       \* bound on signals and crashes of the process
  MaxFaults        \* bound on failed removals and container starts

ASSUME SandboxParameters ==
  /\ TenantOf \in [Run -> Tenant]
  /\ MaxConcurrency \in Nat \ {0}
  /\ {Timeout, Factor, Lag, MaxDeaths, MaxFaults} \subseteq Nat
  /\ Signals \in BOOLEAN

VARIABLES
  pc,        \* where the run is
  session,   \* status of its session
  outcome,   \* "success" of the result
  held,      \* runs with concurrency_incremented
  started,   \* runs whose start_sandbox_container has returned
  count,     \* _tenant_concurrency
  registry,  \* keys of _running_containers
  file,      \* runs whose temporary code file exists
  box,       \* runs whose container exists
  age,       \* age of the container
  process,   \* "up", "down", or how far its signal handler is
  snapshot,  \* containers_to_kill of the handler
  deaths, faults

runs == <<pc, session, outcome, held, started>>
shared == <<count, registry>>
outside == <<file, box, age>>
system == <<process, snapshot, deaths, faults>>
vars == <<runs, shared, outside, system>>

Place == {"idle", "session", "reserving", "reserved", "prepared", "launched",
          "waiting", "exited", "completed", "cleanup", "releasing", "returned", "dead"}
Handling == {"signalled", "snapped", "cleared"}
Expiry == Factor * Timeout       \* what the cleaner calls a zombie

Init ==
  /\ pc = [r \in Run |-> "idle"]
  /\ session = [r \in Run |-> "absent"]
  /\ outcome = [r \in Run |-> "none"]
  /\ held = {} /\ started = {}
  /\ count = [t \in Tenant |-> 0]
  /\ registry = {}
  /\ file = {} /\ box = {}
  /\ age = [r \in Run |-> 0]
  /\ process = "up" /\ snapshot = {}
  /\ deaths = 0 /\ faults = 0

Alive == process # "down"
ShutdownRequested == process \in Handling

Fault == faults < MaxFaults /\ faults' = faults + 1

-----------------------------------------------------------------------------
(* Steps of a run *)

From(r, place) == Alive /\ pc[r] = place
To(r, place) == pc' = [pc EXCEPT ![r] = place]

\* Validation or the AST audit refuses the code, or the service shuts down:
\* a result without a session.
Preflight(r) ==
  /\ From(r, "idle") /\ To(r, "returned")
  /\ outcome' = [outcome EXCEPT ![r] = "failure"]
  /\ UNCHANGED <<session, held, started, shared, outside, system>>

Enter(r) ==
  /\ From(r, "idle") /\ To(r, "session")
  /\ ~ShutdownRequested
  /\ session' = [session EXCEPT ![r] = "created"]
  /\ UNCHANGED <<outcome, held, started, shared, outside, system>>

\* The policy cannot be loaded or evaluated: the exception passes the finally
\* clause by, and the audited entry point turns it into a result.
GovernanceRaises(r) ==
  /\ From(r, "session") /\ To(r, "returned")
  /\ outcome' = [outcome EXCEPT ![r] = "failure"]
  /\ UNCHANGED <<session, held, started, shared, outside, system>>

\* Mutant of Failed: the response is built without completing the session.
FailedResultOnly(r) ==
  /\ To(r, "cleanup")
  /\ outcome' = [outcome EXCEPT ![r] = "failure"]
  /\ UNCHANGED session

\* A failure response, that of a governance denial included.
Failed(r) ==
  /\ To(r, "cleanup")
  /\ outcome' = [outcome EXCEPT ![r] = "failure"]
  /\ session' = [session EXCEPT ![r] = "failed"]

\* Denied by governance, refused by the shutdown or by validation, or over the
\* tenant's limit.
Refuse(r) ==
  /\ From(r, "session")
  /\ Failed(r)
  /\ UNCHANGED <<held, started, shared, outside, system>>

\* reserve_tenant_slot reads the tenant's count under the lock ...
Admit(r) ==
  /\ From(r, "session") /\ To(r, "reserving")
  /\ ~ShutdownRequested
  /\ count[TenantOf[r]] < MaxConcurrency
  /\ UNCHANGED <<session, outcome, held, started, shared, outside, system>>

\* ... and takes the lock again to add one.
Reserve(r) ==
  /\ From(r, "reserving") /\ To(r, "reserved")
  /\ count' = [count EXCEPT ![TenantOf[r]] = @ + 1]
  /\ held' = held \cup {r}
  /\ UNCHANGED <<session, outcome, started, registry, outside, system>>

\* No Docker client, no image, or no output directory.
StartFails(r) ==
  /\ From(r, "reserved")
  /\ Failed(r)
  /\ UNCHANGED <<held, started, shared, outside, system>>

WriteFile(r) ==
  /\ From(r, "reserved") /\ To(r, "prepared")
  /\ file' = file \cup {r}
  /\ UNCHANGED <<session, outcome, held, started, shared, box, age, system>>

\* containers.run raises, before or after it has created the container.  The
\* caller knows neither the file nor the container.
RunFails(r) ==
  /\ From(r, "prepared")
  /\ Fault
  /\ Failed(r)
  /\ box' \in {box, box \cup {r}}
  /\ UNCHANGED <<held, started, shared, file, age, process, snapshot, deaths>>

RunContainer(r) ==
  /\ From(r, "prepared") /\ To(r, "launched")
  /\ box' = box \cup {r}
  /\ UNCHANGED <<session, outcome, held, started, shared, file, age, system>>

Register(r) ==
  /\ From(r, "launched") /\ To(r, "waiting")
  /\ registry' = registry \cup {r}
  /\ session' = [session EXCEPT ![r] = "running"]
  /\ started' = started \cup {r}
  /\ UNCHANGED <<outcome, held, count, outside, system>>

\* The container ends with exit code 0 within the time.
Exit(r) ==
  /\ From(r, "waiting") /\ To(r, "exited")
  /\ UNCHANGED <<session, outcome, held, started, shared, outside, system>>

TimedOut(r) == age[r] >= Timeout

\* The wait times out and the container is killed.
ExecTimeout(r) ==
  /\ From(r, "waiting") /\ TimedOut(r)
  /\ Failed(r)
  /\ UNCHANGED <<held, started, shared, outside, system>>

\* Another exit code, an error of the wait or of the logs, or of the events that
\* are published when the session of a successful run is completed already.
ExecFails(r) ==
  /\ From(r, "waiting") \/ From(r, "exited") \/ From(r, "completed")
  /\ Failed(r)
  /\ UNCHANGED <<held, started, shared, outside, system>>

\* attach_sandbox_session of the response to a successful run ...
Complete(r) ==
  /\ From(r, "exited") /\ To(r, "completed")
  /\ session' = [session EXCEPT ![r] = "completed"]
  /\ UNCHANGED <<outcome, held, started, shared, outside, system>>

\* ... which is returned when its events are published.
Succeed(r) ==
  /\ From(r, "completed") /\ To(r, "cleanup")
  /\ outcome' = [outcome EXCEPT ![r] = "success"]
  /\ UNCHANGED <<session, held, started, shared, outside, system>>

\* Mutant of Mine: a failed run removes nothing.
MineIfSuccessful(r) == IF outcome[r] = "success" THEN started \cap {r} ELSE {}

\* The run whose file and container the finally clause knows.
Mine(r) == started \cap {r}

Cleanup(r) ==
  /\ From(r, "cleanup") /\ To(r, "releasing")
  /\ file' = file \ Mine(r) /\ box' = box \ Mine(r)
  /\ UNCHANGED <<session, outcome, held, started, shared, age, system>>

\* Removing the file or the container fails, and the run goes on.
CleanupFails(r) ==
  /\ From(r, "cleanup") /\ To(r, "releasing")
  /\ Fault
  /\ \/ file' = file \ Mine(r) /\ UNCHANGED box
     \/ box' = box \ Mine(r) /\ UNCHANGED file
  /\ UNCHANGED <<session, outcome, held, started, shared, age,
                 process, snapshot, deaths>>

\* What the finally clause gives back.
Slots(r) == IF r \in held THEN 1 ELSE 0

\* decrement_tenant_concurrency never goes below zero.
Release(r) ==
  /\ From(r, "releasing") /\ To(r, "returned")
  /\ registry' = registry \ {r}
  /\ count' = [count EXCEPT ![TenantOf[r]] = IF @ > Slots(r) THEN @ - Slots(r) ELSE 0]
  /\ held' = held \ {r}
  /\ UNCHANGED <<session, outcome, started, outside, system>>

-----------------------------------------------------------------------------
(* The process: its signal handler, its death, and the cleaner *)

Signal ==
  /\ Signals /\ process = "up"
  /\ deaths < MaxDeaths /\ deaths' = deaths + 1
  /\ process' = "signalled"
  /\ UNCHANGED <<runs, shared, outside, snapshot, faults>>

TakeSnapshot ==
  /\ process = "signalled"
  /\ process' = "snapped" /\ snapshot' = registry
  /\ UNCHANGED <<runs, shared, outside, deaths, faults>>

ClearRegistry ==
  /\ process = "snapped"
  /\ process' = "cleared" /\ registry' = {}
  /\ UNCHANGED <<runs, count, outside, snapshot, deaths, faults>>

\* One container of the snapshot after the other; failures are passed over.
RemoveRunning ==
  /\ process = "cleared"
  /\ \E r \in snapshot :
       /\ snapshot' = snapshot \ {r}
       /\ \/ box' = box \ {r} /\ UNCHANGED faults
          \/ Fault /\ UNCHANGED box
  /\ UNCHANGED <<runs, shared, file, age, process, deaths>>

\* What is left of the process's calls: nothing but files and containers.
Gone ==
  /\ process' = "down"
  /\ pc' = [r \in Run |-> IF pc[r] \in {"idle", "returned"} THEN pc[r] ELSE "dead"]
  /\ session' = [r \in Run |-> "absent"]
  /\ held' = {} /\ started' = {}
  /\ count' = [t \in Tenant |-> 0]
  /\ registry' = {} /\ snapshot' = {}
  /\ UNCHANGED <<outcome, outside, faults>>

ExitNow == process = "cleared" /\ snapshot = {} /\ Gone /\ UNCHANGED deaths

Die == Alive /\ deaths < MaxDeaths /\ deaths' = deaths + 1 /\ Gone

Restart ==
  /\ process = "down"
  /\ process' = "up"
  /\ UNCHANGED <<runs, shared, outside, snapshot, deaths, faults>>

\* Mutant of Zombie: one execution timeout makes a zombie.
ZombieAtTimeout(r) == age[r] > Timeout

\* Mutant of Zombie: only the containers this process has registered.
ZombieOfOurs(r) == age[r] > Expiry /\ r \in registry

Zombie(r) == age[r] > Expiry

\* The cleaner goes by name and age, over the containers of every process.
Clean(r) ==
  /\ Alive
  /\ r \in box /\ Zombie(r)
  /\ box' = box \ {r}
  /\ UNCHANGED <<runs, shared, file, age, system>>

\* A run that still needs its container.
InUse(r) == pc[r] \in {"launched", "waiting", "exited", "completed", "cleanup"}

\* Time passes.  The calls of a run to Docker have timeouts of their own: it is
\* done with its container within Timeout + Lag.
Tick ==
  /\ \A r \in Run : InUse(r) => age[r] < Timeout + Lag
  /\ age' = [r \in Run |->
       IF r \in box /\ age[r] <= Expiry THEN age[r] + 1 ELSE age[r]]
  /\ age' # age
  /\ UNCHANGED <<runs, shared, file, box, system>>

-----------------------------------------------------------------------------
RunStep(r) ==
  \/ GovernanceRaises(r) \/ Refuse(r) \/ Admit(r) \/ Reserve(r)
  \/ StartFails(r) \/ WriteFile(r) \/ RunFails(r) \/ RunContainer(r)
  \/ Register(r) \/ ExecTimeout(r) \/ ExecFails(r) \/ Complete(r) \/ Succeed(r)
  \/ Cleanup(r) \/ CleanupFails(r) \/ Release(r)

Handler == TakeSnapshot \/ ClearRegistry \/ RemoveRunning \/ ExitNow

Next ==
  \/ \E r \in Run : Preflight(r) \/ Enter(r) \/ RunStep(r) \/ Exit(r) \/ Clean(r)
  \/ Signal \/ Handler \/ Die \/ Restart \/ Tick

\* Threads, the handler and the cleaner make progress and a dead process is
\* started again.  Code need not come to an end by itself.
Fairness ==
  /\ WF_vars(Tick) /\ WF_vars(Handler) /\ WF_vars(Restart)
  /\ \A r \in Run :
       /\ WF_vars(pc[r] # "waiting" /\ RunStep(r))
       /\ WF_vars(ExecTimeout(r))
       /\ WF_vars(Clean(r))

Spec == Init /\ [][Next]_vars /\ Fairness

-----------------------------------------------------------------------------
(* Properties *)

\* The types.  Ages stay within one unit of the cleaner's limit, and a tenant's
\* count never goes below zero: decrement_tenant_concurrency is called only by
\* those who have incremented.
TypeOK ==
  /\ pc \in [Run -> Place]
  /\ session \in [Run -> {"absent", "created", "running", "completed", "failed"}]
  /\ outcome \in [Run -> {"none", "success", "failure"}]
  /\ UNION {held, started, registry, file, box, snapshot} \subseteq Run
  /\ count \in [Tenant -> Nat]
  /\ age \in [Run -> 0 .. Expiry + 1]
  /\ process \in {"up", "down"} \cup Handling
  /\ deaths \in 0 .. MaxDeaths /\ faults \in 0 .. MaxFaults

Holders(t) == {r \in held : TenantOf[r] = t}

\* The tenant's count is the number of its calls that hold a slot: refused
\* calls, failures at every point and restarts neither leak a slot nor give
\* one back twice.
SlotsConserved == \A t \in Tenant : count[t] = Cardinality(Holders(t))

\* The result and the session tell the same story: a call that has built its
\* response is a success exactly if its session is completed, also when a session
\* was completed and the events of the success could not be published.
ResultMatchesSession ==
  \A r \in Run : pc[r] \in {"cleanup", "releasing"} =>
    session[r] = (IF outcome[r] = "success" THEN "completed" ELSE "failed")

\* A call that returns, however it ends, leaves neither its code file nor its
\* container behind, unless a start or a removal has failed.
NothingLeftBehind ==
  faults = 0 => \A r \in Run : pc[r] = "returned" => r \notin file \cup box

\* What the configuration must provide and does not check: a run is done with
\* its container before the cleaner takes it for a zombie.
CleanerSlack == Timeout + Lag <= Expiry

\* A container in the wait is removed by nobody but the signal handler: the
\* cleaner, which sees all containers and no calls, takes zombies only.
CleanerSparesLive ==
  [][\A r \in Run : InUse(r) /\ r \in box /\ r \notin box' =>
       process = "cleared" \/ pc'[r] # pc[r]]_vars

\* Every container goes in the end, those of dead processes and those that
\* were started behind the handler's back included.
EventuallyNoContainer == \A r \in Run : <>[](r \notin box)

=============================================================================
