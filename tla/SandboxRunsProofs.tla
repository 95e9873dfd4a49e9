------------------------- MODULE SandboxRunsProofs -------------------------
(***************************************************************************)
(* Theorems about SandboxRuns, for any calls, tenants, limits and times.   *)
(*                                                                         *)
(* The types come first, since every step changes functions at one point.  *)
(* The other inductions use them: where a run holds its slot, what exists  *)
(* of a run outside the process, and how old a container in use can be.    *)
(***************************************************************************)
EXTENDS SandboxRuns, FiniteSetTheorems, TLAPS

LEMMA ExpiryIsNat == Expiry \in Nat
BY SandboxParameters DEF Expiry

\* The variables keep their types: ages stay within one unit of the cleaner's
\* limit and the tenants' counts do not go below zero.
THEOREM TypeCorrect == Spec => []TypeOK
<1>1. Init => TypeOK
  BY SandboxParameters, ExpiryIsNat DEF Init, TypeOK, Place, Handling
<1>2. TypeOK /\ [Next]_vars => TypeOK'
  <2> SUFFICES ASSUME TypeOK, [Next]_vars PROVE TypeOK'
    OBVIOUS
  <2> USE SandboxParameters, ExpiryIsNat
      DEF TypeOK, Place, Handling, runs, shared, outside, system, From, To
  <2>1. ASSUME NEW r \in Run, Preflight(r) PROVE TypeOK'
    BY <2>1 DEF Preflight
  <2>2. ASSUME NEW r \in Run, Enter(r) PROVE TypeOK'
    BY <2>2 DEF Enter
  <2>3. ASSUME NEW r \in Run, RunStep(r) PROVE TypeOK'
    <3>1. CASE GovernanceRaises(r)
      BY <3>1 DEF GovernanceRaises
    <3>2. CASE Refuse(r)
      BY <3>2 DEF Refuse, Failed
    <3>3. CASE Admit(r)
      BY <3>3 DEF Admit
    <3>4. CASE Reserve(r)
      BY <3>4 DEF Reserve
    <3>5. CASE StartFails(r)
      BY <3>5 DEF StartFails, Failed
    <3>6. CASE WriteFile(r)
      BY <3>6 DEF WriteFile
    <3>7. CASE RunFails(r)
      BY <3>7 DEF RunFails, Failed, Fault
    <3>8. CASE RunContainer(r)
      BY <3>8 DEF RunContainer
    <3>9. CASE Register(r)
      BY <3>9 DEF Register
    <3>10. CASE ExecTimeout(r)
      BY <3>10 DEF ExecTimeout, Failed
    <3>11. CASE ExecFails(r)
      BY <3>11 DEF ExecFails, Failed
    <3>12. CASE Complete(r) \/ Succeed(r)
      BY <3>12 DEF Complete, Succeed
    <3>13. CASE Cleanup(r)
      BY <3>13 DEF Cleanup
    <3>14. CASE CleanupFails(r)
      BY <3>14 DEF CleanupFails, Fault
    <3>15. CASE Release(r)
      BY <3>15 DEF Release, Slots
    <3> QED BY <2>3, <3>1, <3>2, <3>3, <3>4, <3>5, <3>6, <3>7, <3>8, <3>9, <3>10, <3>11, <3>12, <3>13, <3>14, <3>15 DEF RunStep
  <2>4. ASSUME NEW r \in Run, Exit(r) PROVE TypeOK'
    BY <2>4 DEF Exit
  <2>5. ASSUME NEW r \in Run, Clean(r) PROVE TypeOK'
    BY <2>5 DEF Clean
  <2>6. CASE Signal
    BY <2>6 DEF Signal
  <2>7. CASE TakeSnapshot
    BY <2>7 DEF TakeSnapshot
  <2>8. CASE ClearRegistry
    BY <2>8 DEF ClearRegistry
  <2>9. CASE RemoveRunning
    BY <2>9 DEF RemoveRunning, Fault
  <2>10. CASE ExitNow
    BY <2>10 DEF ExitNow, Gone
  <2>11. CASE Die
    BY <2>11 DEF Die, Gone
  <2>12. CASE Restart
    BY <2>12 DEF Restart
  <2>13. CASE Tick
    BY <2>13 DEF Tick
  <2>14. CASE UNCHANGED vars
    BY <2>14 DEF vars
  <2> QED BY <2>1, <2>2, <2>3, <2>4, <2>5, <2>6, <2>7, <2>8, <2>9, <2>10, <2>11, <2>12, <2>13, <2>14 DEF Next, Handler
<1> QED BY <1>1, <1>2, PTL DEF Spec

-----------------------------------------------------------------------------
\* Where a run can be while it holds a slot.
SlotPlace ==
  \A r \in held : pc[r] \in {"reserved", "prepared", "launched", "waiting",
                            "exited", "completed", "cleanup", "releasing"}

SlotInv == SlotPlace /\ IsFiniteSet(held) /\ SlotsConserved

\* Only three kinds of step touch a slot.
LEMMA SlotFrame ==
  ASSUME TypeOK, SlotPlace, [Next]_vars
  PROVE  \/ \E r \in Run : Reserve(r) \/ Release(r)
         \/ Gone
         \/ UNCHANGED <<held, count>> /\ SlotPlace'
<1> USE DEF TypeOK, SlotPlace, runs, shared, outside, system, From, To
<1>1. ASSUME NEW r \in Run, Preflight(r) \/ Enter(r) \/ Exit(r) \/ Clean(r)
      PROVE  UNCHANGED <<held, count>> /\ SlotPlace'
  BY <1>1 DEF Preflight, Enter, Exit, Clean
<1>2. ASSUME NEW r \in Run, RunStep(r), ~Reserve(r), ~Release(r)
      PROVE  UNCHANGED <<held, count>> /\ SlotPlace'
  <2>1. CASE GovernanceRaises(r) \/ Refuse(r) \/ Admit(r)
    BY <2>1 DEF GovernanceRaises, Refuse, Failed, Admit
  <2>2. CASE StartFails(r) \/ WriteFile(r) \/ RunFails(r) \/ RunContainer(r)
    BY <2>2 DEF StartFails, Failed, WriteFile, RunFails, RunContainer
  <2>3. CASE Register(r) \/ ExecTimeout(r) \/ ExecFails(r) \/ Complete(r)
              \/ Succeed(r)
    BY <2>3 DEF Register, ExecTimeout, ExecFails, Failed, Complete, Succeed
  <2>4. CASE Cleanup(r) \/ CleanupFails(r)
    BY <2>4 DEF Cleanup, CleanupFails
  <2> QED BY <1>2, <2>1, <2>2, <2>3, <2>4 DEF RunStep
<1>3. CASE Signal \/ TakeSnapshot \/ ClearRegistry \/ RemoveRunning \/ Restart \/ Tick
  BY <1>3 DEF Signal, TakeSnapshot, ClearRegistry, RemoveRunning, Restart, Tick
<1>4. CASE UNCHANGED vars
  BY <1>4 DEF vars
<1> QED BY <1>1, <1>2, <1>3, <1>4 DEF Next, Handler, ExitNow, Die

\* The tenant's count is the number of its calls that hold a slot, for any
\* number of calls: every path of a call gives back what it has taken.
THEOREM SlotsNeverLeak == Spec => []SlotsConserved
<1>1. Init => SlotInv
  <2> SUFFICES ASSUME Init PROVE SlotInv
    OBVIOUS
  <2>1. held = {} /\ \A t \in Tenant : Holders(t) = {} /\ count[t] = 0
    BY DEF Init, Holders
  <2> QED BY <2>1, FS_EmptySet DEF SlotInv, SlotPlace, SlotsConserved
<1>2. TypeOK /\ SlotInv /\ [Next]_vars => SlotInv'
  <2> SUFFICES ASSUME TypeOK, SlotInv, [Next]_vars PROVE SlotInv'
    OBVIOUS
  <2>1. \A t \in Tenant : IsFiniteSet(Holders(t))
    BY FS_Subset DEF SlotInv, Holders
  <2>2. ASSUME NEW r \in Run, Reserve(r) PROVE SlotInv'
    <3> DEFINE t == TenantOf[r]
    <3>1. r \notin held /\ held' = held \cup {r} /\ t \in Tenant
      BY <2>2, SandboxParameters DEF Reserve, From, SlotInv, SlotPlace
    <3>2. SlotPlace' /\ IsFiniteSet(held')
      BY <2>2, <3>1, FS_AddElement DEF Reserve, From, To, SlotInv, SlotPlace, TypeOK
    <3>3. Holders(t)' = Holders(t) \cup {r} /\ r \notin Holders(t)
      BY <3>1 DEF Holders
    <3>4. \A u \in Tenant : u # t => Holders(u)' = Holders(u)
      BY <3>1 DEF Holders
    <3>5. count' = [count EXCEPT ![t] = @ + 1]
      BY <2>2 DEF Reserve
    <3>6. Cardinality(Holders(t)') = Cardinality(Holders(t)) + 1
      BY <2>1, <3>1, <3>3, FS_AddElement
    <3>7. SlotsConserved'
      BY <3>1, <3>4, <3>5, <3>6 DEF SlotInv, SlotsConserved, TypeOK
    <3> QED BY <3>2, <3>7 DEF SlotInv
  <2>3. ASSUME NEW r \in Run, Release(r) PROVE SlotInv'
    <3> DEFINE t == TenantOf[r]
    <3>1. held' = held \ {r} /\ t \in Tenant
      BY <2>3, SandboxParameters DEF Release
    <3>2. SlotPlace' /\ IsFiniteSet(held')
      BY <2>3, <3>1, FS_RemoveElement DEF Release, To, SlotInv, SlotPlace, TypeOK
    <3>3. \A u \in Tenant : u # t => Holders(u)' = Holders(u)
      BY <3>1 DEF Holders
    <3>4. CASE r \in held
      <4>1. Holders(t)' = Holders(t) \ {r} /\ r \in Holders(t)
        BY <3>1, <3>4 DEF Holders
      <4>2. Cardinality(Holders(t)') = Cardinality(Holders(t)) - 1
        BY <2>1, <3>1, <4>1, FS_RemoveElement
      <4>3. Cardinality(Holders(t)) # 0
        BY <2>1, <3>1, <4>1, FS_EmptySet
      <4>4. count[t] = Cardinality(Holders(t)) /\ count[t] \in Nat
        BY <3>1 DEF SlotInv, SlotsConserved, TypeOK
      <4>5. (IF count[t] > 1 THEN count[t] - 1 ELSE 0) = count[t] - 1
        BY <4>3, <4>4
      <4>6. count' = [count EXCEPT ![t] = count[t] - 1]
        BY <2>3, <3>4, <4>5 DEF Release, Slots
      <4> QED BY <3>1, <3>2, <3>3, <4>2, <4>4, <4>6 DEF SlotInv, SlotsConserved, TypeOK
    <3>5. CASE r \notin held
      <4>1. held' = held
        BY <3>1, <3>5
      <4>2. \A u \in Tenant : Holders(u)' = Holders(u)
        BY <4>1 DEF Holders
      <4>3. count' = count
        BY <2>3, <3>1, <3>5 DEF Release, Slots, TypeOK
      <4> QED BY <3>2, <4>2, <4>3 DEF SlotInv, SlotsConserved
    <3> QED BY <3>4, <3>5
  <2>4. CASE Gone
    <3>1. held' = {} /\ \A t \in Tenant : Holders(t)' = {} /\ count'[t] = 0
      BY <2>4 DEF Gone, Holders
    <3> QED BY <3>1, FS_EmptySet DEF SlotInv, SlotPlace, SlotsConserved
  <2>5. CASE UNCHANGED <<held, count>> /\ SlotPlace'
    <3>1. \A t \in Tenant : Holders(t)' = Holders(t)
      BY <2>5 DEF Holders
    <3> QED BY <2>5, <3>1 DEF SlotInv, SlotsConserved
  <2> QED BY <2>2, <2>3, <2>4, <2>5, SlotFrame DEF SlotInv
<1> QED BY <1>1, <1>2, TypeCorrect, PTL DEF Spec, SlotInv

-----------------------------------------------------------------------------
\* The response of a run whose session is completed is a success, unless a failure
\* turns the session over first.
Told ==
  /\ ResultMatchesSession
  /\ \A r \in Run : pc[r] = "completed" => session[r] = "completed"

\* A call that has built its response is a success exactly if its session is
\* completed, on every path through the exception handlers.
THEOREM ResultTellsSession == Spec => []ResultMatchesSession
<1>1. Init => Told
  BY DEF Init, Told, ResultMatchesSession
<1>2. TypeOK /\ Told /\ [Next]_vars => Told'
  <2> SUFFICES ASSUME TypeOK, Told, [Next]_vars
               PROVE  Told'
    OBVIOUS
  <2> USE DEF TypeOK, Told, ResultMatchesSession, runs, shared, outside, system, From, To
  <2>1. ASSUME NEW r \in Run, Preflight(r) \/ Enter(r) \/ Exit(r) \/ Clean(r)
        PROVE  Told'
    BY <2>1 DEF Preflight, Enter, Exit, Clean
  <2>2. ASSUME NEW r \in Run, RunStep(r) PROVE Told'
    <3>1. CASE GovernanceRaises(r) \/ Admit(r) \/ Reserve(r) \/ WriteFile(r)
      BY <3>1 DEF GovernanceRaises, Admit, Reserve, WriteFile
    <3>2. CASE RunContainer(r) \/ Register(r)
      BY <3>2 DEF RunContainer, Register
    <3>3. CASE Refuse(r) \/ StartFails(r) \/ RunFails(r) \/ ExecTimeout(r) \/ ExecFails(r)
      BY <3>3 DEF Refuse, StartFails, RunFails, ExecTimeout, ExecFails, Failed
    <3>4. CASE Complete(r) \/ Succeed(r)
      BY <3>4 DEF Complete, Succeed
    <3>5. CASE Cleanup(r) \/ CleanupFails(r) \/ Release(r)
      BY <3>5 DEF Cleanup, CleanupFails, Release
    <3> QED BY <2>2, <3>1, <3>2, <3>3, <3>4, <3>5 DEF RunStep
  <2>3. CASE Signal \/ TakeSnapshot \/ ClearRegistry \/ RemoveRunning \/ Restart \/ Tick
    BY <2>3 DEF Signal, TakeSnapshot, ClearRegistry, RemoveRunning, Restart, Tick
  <2>4. CASE Gone
    BY <2>4 DEF Gone
  <2>5. CASE UNCHANGED vars
    BY <2>5 DEF vars
  <2> QED BY <2>1, <2>2, <2>3, <2>4, <2>5 DEF Next, Handler, ExitNow, Die
<1>3. Told => ResultMatchesSession
  BY DEF Told
<1> QED BY <1>1, <1>2, <1>3, TypeCorrect, PTL DEF Spec

-----------------------------------------------------------------------------
\* Where a run can be while its file or its container exists, if no start and
\* no removal has failed: past the point where the finally clause knows of them
\* it has them in `started'.
FilePlace ==
  \A r \in file : \/ pc[r] \in {"prepared", "launched", "dead"}
                  \/ r \in started /\ pc[r] \in {"waiting", "exited", "completed", "cleanup"}
BoxPlace ==
  \A r \in box : \/ pc[r] \in {"launched", "dead"}
                 \/ r \in started /\ pc[r] \in {"waiting", "exited", "completed", "cleanup"}
WaitStarted == \A r \in Run : pc[r] \in {"waiting", "exited", "completed"} => r \in started
Places == FilePlace /\ BoxPlace /\ WaitStarted
Known == faults = 0 => Places

\* A call that returns leaves neither its code file nor its container behind,
\* unless a start or a removal has failed.
THEOREM CallsCleanUp == Spec => []NothingLeftBehind
<1>1. Init => Known
  BY DEF Init, Known, Places, FilePlace, BoxPlace, WaitStarted
<1>2. TypeOK /\ Known /\ [Next]_vars => Known'
  <2> SUFFICES ASSUME TypeOK, Known, [Next]_vars, faults' = 0 PROVE Places'
    BY DEF Known
  <2>0. faults = 0 /\ Places /\ ~Fault
    <3>1. ~Fault
      BY SandboxParameters DEF Fault, TypeOK
    <3>2. faults' = faults
      BY <3>1 DEF Next, vars, system, outside, shared, runs, Preflight, Enter,
        RunStep, Exit, Clean, Signal, Handler, Die, Restart, Tick, Gone, ExitNow,
        TakeSnapshot, ClearRegistry, RemoveRunning, GovernanceRaises, Refuse,
        Admit, Reserve, StartFails, WriteFile, RunFails, RunContainer, Register,
        ExecTimeout, ExecFails, Complete, Succeed, Cleanup, CleanupFails, Release
    <3> QED BY <3>1, <3>2 DEF Known
  <2> USE <2>0 DEF TypeOK, Places, FilePlace, BoxPlace, WaitStarted,
                   runs, shared, outside, system, From, To
  <2>1. ASSUME NEW r \in Run, Preflight(r) \/ Enter(r) \/ Exit(r) \/ Clean(r)
        PROVE  Places'
    BY <2>1 DEF Preflight, Enter, Exit, Clean
  <2>2. ASSUME NEW r \in Run, RunStep(r) PROVE Places'
    <3>1. CASE GovernanceRaises(r) \/ Admit(r) \/ Reserve(r) \/ WriteFile(r)
      BY <3>1 DEF GovernanceRaises, Admit, Reserve, WriteFile
    <3>2. CASE RunContainer(r) \/ Register(r)
      BY <3>2 DEF RunContainer, Register
    <3>3. CASE Refuse(r) \/ StartFails(r) \/ ExecTimeout(r) \/ ExecFails(r)
      BY <3>3 DEF Refuse, StartFails, ExecTimeout, ExecFails, Failed
    <3>4. CASE Complete(r) \/ Succeed(r)
      BY <3>4 DEF Complete, Succeed
    <3>5. CASE Cleanup(r) \/ Release(r)
      BY <3>5 DEF Cleanup, Mine, Release
    <3> QED BY <2>2, <3>1, <3>2, <3>3, <3>4, <3>5 DEF RunStep, RunFails, CleanupFails
  <2>3. CASE Signal \/ TakeSnapshot \/ ClearRegistry \/ RemoveRunning \/ Restart \/ Tick
    BY <2>3 DEF Signal, TakeSnapshot, ClearRegistry, RemoveRunning, Restart, Tick
  <2>4. CASE Gone
    BY <2>4 DEF Gone
  <2>5. CASE UNCHANGED vars
    BY <2>5 DEF vars
  <2> QED BY <2>1, <2>2, <2>3, <2>4, <2>5 DEF Next, Handler, ExitNow, Die
<1>3. Known => NothingLeftBehind
  BY DEF Known, Places, FilePlace, BoxPlace, NothingLeftBehind
<1> QED BY <1>1, <1>2, <1>3, TypeCorrect, PTL DEF Spec

-----------------------------------------------------------------------------
\* A run has no container before it has created one, and while it is using one
\* the container is no older than the wait and the calls around it allow.
Young ==
  /\ \A r \in Run : pc[r] \in {"idle", "session", "reserving", "reserved", "prepared"}
       => r \notin box /\ age[r] = 0
  /\ \A r \in Run : InUse(r) => age[r] <= Timeout + Lag

LEMMA YoungInvariant == Spec => []Young
<1>1. Init => Young
  BY DEF Init, Young, InUse
<1>2. TypeOK /\ Young /\ [Next]_vars => Young'
  <2> SUFFICES ASSUME TypeOK, Young, [Next]_vars PROVE Young'
    OBVIOUS
  <2>0. Timeout \in Nat /\ Lag \in Nat /\ Expiry \in Nat
    BY SandboxParameters, ExpiryIsNat
  <2> USE <2>0 DEF TypeOK, Young, InUse, runs, shared, outside, system, From, To
  <2>1. ASSUME NEW r \in Run, Preflight(r) \/ Enter(r) \/ Exit(r) \/ Clean(r)
        PROVE  Young'
    BY <2>1 DEF Preflight, Enter, Exit, Clean
  <2>2. ASSUME NEW r \in Run, RunStep(r) PROVE Young'
    <3>1. CASE GovernanceRaises(r) \/ Admit(r) \/ Reserve(r) \/ WriteFile(r)
      BY <3>1 DEF GovernanceRaises, Admit, Reserve, WriteFile
    <3>2. CASE RunContainer(r) \/ Register(r)
      BY <3>2 DEF RunContainer, Register
    <3>3. CASE Refuse(r) \/ StartFails(r) \/ ExecTimeout(r) \/ ExecFails(r)
      BY <3>3 DEF Refuse, StartFails, ExecTimeout, ExecFails, Failed
    <3>4. CASE RunFails(r)
      BY <3>4 DEF RunFails, Failed
    <3>5. CASE Complete(r) \/ Succeed(r)
      BY <3>5 DEF Complete, Succeed
    <3>6. CASE Cleanup(r) \/ CleanupFails(r) \/ Release(r)
      BY <3>6 DEF Cleanup, CleanupFails, Release
    <3> QED BY <2>2, <3>1, <3>2, <3>3, <3>4, <3>5, <3>6 DEF RunStep
  <2>3. CASE Signal \/ TakeSnapshot \/ ClearRegistry \/ RemoveRunning \/ Restart
    BY <2>3 DEF Signal, TakeSnapshot, ClearRegistry, RemoveRunning, Restart
  <2>4. CASE Tick
    BY <2>4 DEF Tick
  <2>5. CASE Gone
    BY <2>5 DEF Gone
  <2>6. CASE UNCHANGED vars
    BY <2>6 DEF vars
  <2> QED BY <2>1, <2>2, <2>3, <2>4, <2>5, <2>6 DEF Next, Handler, ExitNow, Die
<1> QED BY <1>1, <1>2, TypeCorrect, PTL DEF Spec

\* The cleaner, which knows containers and no calls, never removes one that a
\* run still uses, if the timeouts leave it room.
THEOREM CleanerTakesZombiesOnly ==
  ASSUME CleanerSlack
  PROVE  Spec => CleanerSparesLive
<1>1. TypeOK /\ Young /\ [Next]_vars =>
        [\A r \in Run : InUse(r) /\ r \in box /\ r \notin box' =>
           process = "cleared" \/ pc'[r] # pc[r]]_vars
  <2> SUFFICES ASSUME TypeOK, Young, Next,
                      NEW r \in Run, InUse(r), r \in box, r \notin box'
               PROVE  process = "cleared" \/ pc'[r] # pc[r]
    OBVIOUS
  <2> USE DEF TypeOK, runs, shared, outside, system, From, To
  <2>1. ASSUME NEW s \in Run, Preflight(s) \/ Enter(s) \/ Exit(s) PROVE FALSE
    BY <2>1 DEF Preflight, Enter, Exit
  <2>2. ASSUME NEW s \in Run, Clean(s) PROVE FALSE
    <3>1. s = r /\ age[r] > Expiry
      BY <2>2 DEF Clean, Zombie
    <3> QED BY <3>1, CleanerSlack, SandboxParameters, ExpiryIsNat DEF Young, CleanerSlack
  <2>3. ASSUME NEW s \in Run, RunStep(s) PROVE pc'[r] # pc[r]
    <3>1. CASE Cleanup(s) \/ CleanupFails(s)
      BY <3>1 DEF Cleanup, CleanupFails, Mine
    <3>2. CASE ~Cleanup(s) /\ ~CleanupFails(s)
      BY <2>3, <3>2 DEF RunStep, GovernanceRaises, Refuse, Admit, Reserve,
        StartFails, WriteFile, RunFails, RunContainer, Register, ExecTimeout,
        ExecFails, Complete, Succeed, Release
    <3> QED BY <3>1, <3>2
  <2>4. CASE RemoveRunning
    BY <2>4 DEF RemoveRunning
  <2>5. CASE Signal \/ TakeSnapshot \/ ClearRegistry \/ Restart \/ Tick \/ Gone
    BY <2>5 DEF Signal, TakeSnapshot, ClearRegistry, Restart, Tick, Gone
  <2> QED BY <2>1, <2>2, <2>3, <2>4, <2>5 DEF Next, Handler, ExitNow, Die
<1> QED BY <1>1, TypeCorrect, YoungInvariant, PTL DEF Spec, CleanerSparesLive

=============================================================================
