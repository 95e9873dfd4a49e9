-------------------------- MODULE TaskLeaseProofs --------------------------
(***************************************************************************)
(* Theorems about TaskLease, for any processes, tasks and parameters.      *)
(*                                                                         *)
(* TypeOK is inductive together with NodeBelowEnd.  The facts about flows  *)
(* and backlogs follow in a second induction, the agreement of lease row   *)
(* and heartbeat in a third, which needs HeartbeatInTime and ~Resubmit.    *)
(***************************************************************************)
EXTENDS TaskLease, TLAPS

Typed == TypeOK /\ NodeBelowEnd

LEMMA TypedInvariant == Spec => []Typed
<1>1. Init => Typed
  BY LeaseParameters DEF Init, Typed, TypeOK, NodeBelowEnd, FlowState, Off, Floor
<1>2. Typed /\ [Next]_vars => Typed'
  <2> SUFFICES ASSUME Typed, [Next]_vars PROVE Typed'
    OBVIOUS
  <2> USE LeaseParameters DEF Typed, TypeOK, NodeBelowEnd, FlowState, Verdict,
                              Off, Floor, lease, local
  <2>1. ASSUME NEW p \in Process, Start(p) PROVE Typed'
    BY <2>1 DEF Start
  <2>2. ASSUME NEW p \in Process, Crash(p) PROVE Typed'
    BY <2>2 DEF Crash
  <2>3. ASSUME NEW p \in Process, NEW t \in Task, Submit(p, t) PROVE Typed'
    BY <2>3 DEF Submit
  <2>4. ASSUME NEW p \in Process, NEW t \in Task, SubmitAgain(p, t) PROVE Typed'
    BY <2>4 DEF SubmitAgain
  <2>5. ASSUME NEW p \in Process, NEW t \in Task, Schedule(p, t) PROVE Typed'
    <3>1. CASE ScheduleConflict(p, t)
      BY <3>1 DEF ScheduleConflict, BeginSchedule
    <3>2. CASE ScheduleClaimFails(p, t)
      BY <3>2 DEF ScheduleClaimFails, BeginSchedule, Fault
    <3>3. CASE ScheduleRaises(p, t)
      BY <3>3 DEF ScheduleRaises, Fault
    <3>4. CASE ScheduleDuplicate(p, t)
      BY <3>4 DEF ScheduleDuplicate, BeginSchedule
    <3>5. CASE ScheduleDuplicateKeepsRow(p, t)
      BY <3>5 DEF ScheduleDuplicateKeepsRow, BeginSchedule, Fault, Grant
    <3>6. CASE ScheduleStart(p, t)
      BY <3>6 DEF ScheduleStart, BeginSchedule, Grant
    <3> QED BY <2>5, <3>1, <3>2, <3>3, <3>4, <3>5, <3>6 DEF Schedule
  <2>6. ASSUME NEW p \in Process, NEW t \in Task, RunStep(p, t) PROVE Typed'
    <3>1. CASE EnterPool(p, t)
      BY <3>1 DEF EnterPool, GoTo
    <3>2. CASE PreludeFails(p, t)
      BY <3>2 DEF PreludeFails, GoTo, Fault
    <3>3. CASE StartNode(p, t)
      BY <3>3 DEF StartNode, GoTo
    <3>4. CASE LeaseCheckFails(p, t)
      BY <3>4 DEF LeaseCheckFails, GoTo
    <3>5. CASE LeaseCheckUnknown(p, t)
      BY <3>5 DEF LeaseCheckUnknown, GoTo, Fault
    <3>6. CASE NodeStatus(p, t)
      BY <3>6 DEF NodeStatus, GoTo
    <3>7. CASE EndNode(p, t)
      BY <3>7 DEF EndNode, GoTo
    <3>8. CASE NodeStops(p, t)
      BY <3>8 DEF NodeStops, GoTo
    <3>9. CASE Conclude(p, t)
      BY <3>9 DEF Conclude, GoTo
    <3>10. CASE WriteVerdict(p, t)
      BY <3>10 DEF WriteVerdict, GoTo
    <3>11. CASE WriteVerdictFails(p, t)
      BY <3>11 DEF WriteVerdictFails, GoTo, Fault
    <3> QED BY <2>6, <3>1, <3>2, <3>3, <3>4, <3>5, <3>6, <3>7, <3>8, <3>9,
               <3>10, <3>11 DEF RunStep
  <2>7. ASSUME NEW p \in Process, NEW t \in Task, Finish(p, t) PROVE Typed'
    <3>1. ForgetFlow(p, t)
      BY <2>7 DEF Finish, Cleanup, CleanupKeepsRow
    <3>2. /\ owner' \in [Task -> Process \cup {None}]
          /\ left' \in [Task -> Floor .. TTL + MaxSkew]
          /\ faults' \in 0 .. MaxFaults
      <4>1. CASE UNCHANGED lease /\ (UNCHANGED faults \/ Fault)
        BY <4>1 DEF Fault
      <4>2. CASE UNCHANGED faults /\ Release(p, t) /\ owner[t] = p
        <5>1. Floor \in Floor .. TTL + MaxSkew
          OBVIOUS
        <5> QED BY <4>2, <5>1 DEF Release
      <4> QED BY <2>7, <4>1, <4>2 DEF Finish, Cleanup, CleanupKeepsRow, Release
    <3>3. /\ flow' \in [Process -> [Task -> FlowState]]
          /\ step' \in [Process -> [Task -> 0 .. Nodes]]
      BY <3>1 DEF ForgetFlow
    <3>4. /\ hb' \in [Process -> [Task -> Off .. HeartbeatEvery + Lag]]
          /\ lost' \in [Process -> [Task -> BOOLEAN]]
      BY <3>1 DEF ForgetFlow
    <3>5. NodeBelowEnd'
      BY <3>1 DEF ForgetFlow
    <3> QED BY <3>1, <3>2, <3>3, <3>4, <3>5 DEF ForgetFlow
  <2>8. ASSUME NEW p \in Process, NEW t \in Task, Heartbeat(p, t) PROVE Typed'
    <3>1. CASE Renew(p, t)
      BY <3>1 DEF Renew, HeartbeatDue, Grant
    <3>2. CASE RenewLost(p, t)
      BY <3>2 DEF RenewLost, HeartbeatDue
    <3>3. CASE RenewFails(p, t)
      BY <3>3 DEF RenewFails, HeartbeatDue, Fault
    <3> QED BY <2>8, <3>1, <3>2, <3>3 DEF Heartbeat
  <2>9. CASE Tick
    BY <2>9 DEF Tick
  <2>10. CASE UNCHANGED vars
    BY <2>10 DEF vars
  <2> QED BY <2>1, <2>2, <2>3, <2>4, <2>5, <2>6, <2>7, <2>8, <2>9, <2>10 DEF Next
<1> QED BY <1>1, <1>2, PTL DEF Spec

\* The variables keep their types: in particular the remaining time of a row
\* and the age of a heartbeat stay within their bounds.
THEOREM TypeCorrect == Spec => []TypeOK
BY TypedInvariant, PTL DEF Typed

-----------------------------------------------------------------------------
\* What a step of a running flow does, seen from outside: the flow stays
\* active, and process, backlog, lease and heartbeat stay as they are.
LEMMA RunStepFrame ==
  ASSUME TypeOK, NEW p \in Process, NEW t \in Task, RunStep(p, t)
  PROVE  /\ UNCHANGED <<life, backlog, lease, hb, lost>>
         /\ flow[p][t] # "none"
         /\ \A q \in Process, u \in Task :
              flow'[q][u] = "none" <=> flow[q][u] = "none"
         /\ \A u \in Task : status'[u] = "absent" => status[u] = "absent"
         /\ faults' >= faults
<1> USE DEF TypeOK, FlowState, Verdict, GoTo
<1>1. CASE EnterPool(p, t)
  BY <1>1 DEF EnterPool
<1>2. CASE PreludeFails(p, t)
  BY <1>2 DEF PreludeFails, Fault
<1>3. CASE StartNode(p, t)
  BY <1>3 DEF StartNode
<1>4. CASE LeaseCheckFails(p, t)
  BY <1>4 DEF LeaseCheckFails
<1>5. CASE LeaseCheckUnknown(p, t)
  BY <1>5 DEF LeaseCheckUnknown, Fault
<1>6. CASE NodeStatus(p, t)
  BY <1>6 DEF NodeStatus
<1>7. CASE EndNode(p, t)
  BY <1>7 DEF EndNode
<1>8. CASE NodeStops(p, t)
  BY <1>8 DEF NodeStops
<1>9. CASE Conclude(p, t)
  BY <1>9 DEF Conclude
<1>10. CASE WriteVerdict(p, t)
  BY <1>10 DEF WriteVerdict
<1>11. CASE WriteVerdictFails(p, t)
  BY <1>11 DEF WriteVerdictFails, Fault
<1> QED BY <1>1, <1>2, <1>3, <1>4, <1>5, <1>6, <1>7, <1>8, <1>9, <1>10, <1>11
        DEF RunStep

\* What a schedule call does whatever its outcome: it takes tasks from the
\* backlog and clears loss marks.
LEMMA ScheduleFrame ==
  ASSUME TypeOK, NEW p \in Process, NEW t \in Task, Schedule(p, t)
  PROVE  /\ UNCHANGED <<life, status>>
         /\ \A q \in Process : backlog'[q] \subseteq backlog[q]
         /\ \A q \in Process, u \in Task : lost'[q][u] => lost[q][u]
<1>1. CASE ScheduleRaises(p, t)
  BY <1>1 DEF ScheduleRaises, TypeOK
<1>2. CASE BeginSchedule(p, t) /\ UNCHANGED <<life, status>>
  BY <1>2 DEF BeginSchedule, TypeOK
<1> QED
  BY <1>1, <1>2 DEF Schedule, ScheduleConflict, ScheduleClaimFails,
     ScheduleDuplicate, ScheduleDuplicateKeepsRow, ScheduleStart

Tidy == DownIsIdle /\ NoneIsOff /\ AbsentIsIdle /\ BacklogIsIdle

LEMMA TidyInvariant ==
  ASSUME ~Resubmit
  PROVE  Spec => []Tidy
<1>1. Init => Tidy
  BY DEF Init, Tidy, DownIsIdle, NoneIsOff, AbsentIsIdle, BacklogIsIdle
<1>2. Typed /\ Tidy /\ [Next]_vars => Tidy'
  <2> SUFFICES ASSUME TypeOK, Tidy, [Next]_vars PROVE Tidy'
    BY DEF Typed
  <2> USE LeaseParameters DEF Tidy, DownIsIdle, NoneIsOff, AbsentIsIdle,
                              BacklogIsIdle, TypeOK, lease, local
  <2>1. ASSUME NEW p \in Process, Start(p) PROVE Tidy'
    BY <2>1 DEF Start
  <2>2. ASSUME NEW p \in Process, Crash(p) PROVE Tidy'
    BY <2>2 DEF Crash
  <2>3. ASSUME NEW p \in Process, NEW t \in Task, Submit(p, t) PROVE Tidy'
    BY <2>3 DEF Submit
  <2>4. ASSUME NEW p \in Process, NEW t \in Task, SubmitAgain(p, t) PROVE Tidy'
    BY <2>4, ~Resubmit DEF SubmitAgain
  <2>5. ASSUME NEW p \in Process, NEW t \in Task, Schedule(p, t) PROVE Tidy'
    <3>1. CASE flow' = flow /\ hb' = hb
      BY <2>5, <3>1, ScheduleFrame
    <3>2. CASE ScheduleStart(p, t)
      BY <3>2 DEF ScheduleStart, BeginSchedule
    <3> QED
      BY <2>5, <3>1, <3>2 DEF Schedule, ScheduleConflict, ScheduleClaimFails,
         ScheduleRaises, ScheduleDuplicate, ScheduleDuplicateKeepsRow
  <2>6. ASSUME NEW p \in Process, NEW t \in Task, RunStep(p, t) PROVE Tidy'
    BY <2>6, RunStepFrame
  <2>7. ASSUME NEW p \in Process, NEW t \in Task, Finish(p, t) PROVE Tidy'
    <3>1. ForgetFlow(p, t)
      BY <2>7 DEF Finish, Cleanup, CleanupKeepsRow
    <3> QED BY <3>1 DEF ForgetFlow
  <2>8. ASSUME NEW p \in Process, NEW t \in Task, Heartbeat(p, t) PROVE Tidy'
    <3>1. HeartbeatDue(p, t) /\ flow[p][t] # "none"
      BY <2>8 DEF Heartbeat, Renew, RenewLost, RenewFails, HeartbeatDue, Off
    <3>2. \A q \in Process, u \in Task :
            flow[q][u] = "none" => hb'[q][u] = hb[q][u] /\ lost'[q][u] = lost[q][u]
      <4>1. CASE Renew(p, t)
        BY <3>1, <4>1 DEF Renew
      <4>2. CASE RenewLost(p, t)
        BY <3>1, <4>2 DEF RenewLost
      <4>3. CASE RenewFails(p, t)
        BY <3>1, <4>3 DEF RenewFails
      <4> QED BY <2>8, <4>1, <4>2, <4>3 DEF Heartbeat
    <3> QED BY <3>1, <3>2 DEF HeartbeatDue
  <2>9. CASE Tick
    BY <2>9 DEF Tick
  <2>10. CASE UNCHANGED vars
    BY <2>10 DEF vars
  <2> QED BY <2>1, <2>2, <2>3, <2>4, <2>5, <2>6, <2>7, <2>8, <2>9, <2>10 DEF Next
<1> QED BY <1>1, <1>2, TypedInvariant, PTL DEF Spec

-----------------------------------------------------------------------------
\* While p runs t, no other process can claim t: the expiry p's heartbeat wrote
\* last is not yet past.
LEMMA RunnerBlocksClaims ==
  ASSUME HeartbeatInTime, TypeOK, RowFollowsHeartbeat,
         NEW p \in Process, NEW q \in Process, NEW t \in Task,
         Runs(p, t), q # p
  PROVE  ~Claimable(q, t) /\ owner[t] = p /\ left[t] > Floor
<1>1. owner[t] = p /\ left[t] = TTL + Skew[p] - hb[p][t]
  BY DEF RowFollowsHeartbeat
<1>2. hb[p][t] \in 0 .. HeartbeatEvery + Lag
  BY DEF Runs, TypeOK, Off
<1>3. left[t] >= 0
  BY <1>1, <1>2, LeaseParameters DEF HeartbeatInTime
<1>4. left[t] \in Int /\ left[t] > Floor
  BY <1>3, LeaseParameters DEF TypeOK, Floor
<1>5. owner[t] # None
  BY <1>1, LeaseParameters
<1> QED BY <1>1, <1>3, <1>4, <1>5 DEF Claimable

\* Lease row and heartbeat agree in every step that may touch either.
LEMMA RowInvariant ==
  ASSUME HeartbeatInTime, ~Resubmit
  PROVE  Spec => []RowFollowsHeartbeat
<1>1. Init => RowFollowsHeartbeat
  BY DEF Init, RowFollowsHeartbeat, Runs
<1>2. Typed /\ Tidy /\ RowFollowsHeartbeat /\ [Next]_vars => RowFollowsHeartbeat'
  <2> SUFFICES ASSUME TypeOK, Tidy, RowFollowsHeartbeat, [Next]_vars,
                      NEW q \in Process, NEW u \in Task, Runs(q, u)'
               PROVE  (owner[u] = q /\ left[u] = TTL + Skew[q] - hb[q][u])'
    BY DEF Typed, RowFollowsHeartbeat
  <2> DEFINE Kept == /\ Runs(q, u)
                     /\ owner'[u] = owner[u] /\ left'[u] = left[u]
                     /\ hb'[q][u] = hb[q][u]
  <2>0. SUFFICES ASSUME ~Kept
                 PROVE  (owner[u] = q /\ left[u] = TTL + Skew[q] - hb[q][u])'
    BY DEF RowFollowsHeartbeat
  <2>1. ASSUME NEW p \in Process, NEW t \in Task, ScheduleStart(p, t)
        PROVE  (owner[u] = q /\ left[u] = TTL + Skew[q] - hb[q][u])'
    <3>1. CASE p = q /\ t = u
      <4>1. owner'[u] = q /\ left'[u] = TTL + Skew[q] /\ hb'[q][u] = 0
        BY <2>1, <3>1 DEF ScheduleStart, Grant, TypeOK
      <4> QED BY <4>1, LeaseParameters
    <3>2. CASE p # q /\ t = u
      <4>1. Runs(q, u)
        BY <2>1, <3>2 DEF ScheduleStart, Runs, TypeOK
      <4> QED BY <2>1, <3>2, <4>1, RunnerBlocksClaims DEF ScheduleStart
    <3>3. CASE t # u
      BY <2>0, <2>1, <3>3 DEF ScheduleStart, Grant, Runs, TypeOK
    <3> QED BY <3>1, <3>2, <3>3
  <2>2. ASSUME NEW p \in Process, NEW t \in Task, Schedule(p, t)
        PROVE  (owner[u] = q /\ left[u] = TTL + Skew[q] - hb[q][u])'
    <3>1. CASE UNCHANGED <<lease, flow, hb>>
      BY <2>0, <3>1 DEF Runs, lease
    <3>2. t \in backlog[p] => flow[p][t] = "none"
      BY DEF Tidy, BacklogIsIdle
    <3> QED
      BY <2>1, <2>2, <3>1, <3>2 DEF Schedule, ScheduleConflict,
         ScheduleClaimFails, ScheduleRaises, ScheduleDuplicate,
         ScheduleDuplicateKeepsRow, BeginSchedule
  <2>3. ASSUME NEW p \in Process, NEW t \in Task, RunStep(p, t)
        PROVE  (owner[u] = q /\ left[u] = TTL + Skew[q] - hb[q][u])'
    BY <2>0, <2>3, RunStepFrame DEF Runs, lease
  <2>4. ASSUME NEW p \in Process, NEW t \in Task, Finish(p, t)
        PROVE  (owner[u] = q /\ left[u] = TTL + Skew[q] - hb[q][u])'
    <3>1. ForgetFlow(p, t) /\ (Release(p, t) \/ UNCHANGED lease)
      BY <2>4 DEF Finish, Cleanup, CleanupKeepsRow
    <3>2. ~(p = q /\ t = u) /\ Runs(q, u) /\ hb'[q][u] = hb[q][u]
      BY <3>1 DEF ForgetFlow, Runs, TypeOK
    <3>3. owner[u] = q
      BY <3>2 DEF RowFollowsHeartbeat
    <3>4. owner'[u] = owner[u] /\ left'[u] = left[u]
      BY <3>1, <3>2, <3>3 DEF Release, lease, TypeOK
    <3> QED BY <2>0, <3>2, <3>4
  <2>5. ASSUME NEW p \in Process, NEW t \in Task, Heartbeat(p, t)
        PROVE  (owner[u] = q /\ left[u] = TTL + Skew[q] - hb[q][u])'
    <3>1. flow' = flow
      BY <2>5 DEF Heartbeat, Renew, RenewLost, RenewFails, HeartbeatDue
    <3>2. CASE Renew(p, t)
      <4>1. CASE p = q /\ t = u
        <5>1. owner'[u] = q /\ left'[u] = TTL + Skew[q] /\ hb'[q][u] = 0
          BY <3>2, <4>1 DEF Renew, Grant, TypeOK
        <5> QED BY <5>1, LeaseParameters
      <4>2. CASE t # u
        BY <2>0, <3>1, <3>2, <4>2 DEF Renew, Grant, Runs, TypeOK
      <4>3. CASE p # q /\ t = u
        <5>1. Runs(q, u)
          BY <3>1, <3>2, <4>3 DEF Renew, Runs, TypeOK
        <5> QED BY <3>2, <4>3, <5>1 DEF Renew, RowFollowsHeartbeat
      <4> QED BY <4>1, <4>2, <4>3
    <3>3. CASE RenewLost(p, t) \/ RenewFails(p, t)
      <4>1. UNCHANGED lease /\ hb' = [hb EXCEPT ![p][t] = Off]
        BY <3>3 DEF RenewLost, RenewFails
      <4> QED BY <2>0, <3>1, <4>1 DEF Runs, lease, TypeOK
    <3> QED BY <2>5, <3>2, <3>3 DEF Heartbeat
  <2>6. CASE Tick
    <3>1. Runs(q, u) /\ hb'[q][u] = hb[q][u] + 1
      BY <2>6 DEF Tick, Runs, TypeOK, Off
    <3>2. left[u] > Floor
      <4>1. left[u] = TTL + Skew[q] - hb[q][u]
        BY <3>1 DEF RowFollowsHeartbeat
      <4>2. hb[q][u] \in 0 .. HeartbeatEvery + Lag
        BY <3>1 DEF Runs, TypeOK, Off
      <4> QED BY <4>1, <4>2, LeaseParameters DEF HeartbeatInTime, Floor
    <3>3. left'[u] = left[u] - 1 /\ owner'[u] = owner[u]
      BY <2>6, <3>2 DEF Tick
    <3>4. owner[u] = q /\ left[u] = TTL + Skew[q] - hb[q][u]
      BY <3>1 DEF RowFollowsHeartbeat
    <3> QED BY <3>1, <3>3, <3>4, LeaseParameters DEF TypeOK
  <2>7. ASSUME NEW p \in Process, Crash(p)
        PROVE  (owner[u] = q /\ left[u] = TTL + Skew[q] - hb[q][u])'
    BY <2>0, <2>7 DEF Crash, Runs, TypeOK, lease
  <2>8. ASSUME UNCHANGED <<lease, local>>
        PROVE  (owner[u] = q /\ left[u] = TTL + Skew[q] - hb[q][u])'
    BY <2>0, <2>8 DEF lease, local, Runs
  <2> QED
    BY <2>2, <2>3, <2>4, <2>5, <2>6, <2>7, <2>8
       DEF Next, Start, Submit, SubmitAgain, vars
<1> QED BY <1>1, <1>2, TypedInvariant, TidyInvariant, PTL DEF Spec

\* Two processes never run the same task in good faith, for any number of
\* processes and tasks, whatever crashes and database calls fail, as long as
\* heartbeats come in time and nobody schedules an active task again.
THEOREM OneRunner ==
  ASSUME HeartbeatInTime, ~Resubmit
  PROVE  Spec => []SingleRunner
<1>1. RowFollowsHeartbeat => SingleRunner
  BY DEF RowFollowsHeartbeat, SingleRunner
<1> QED BY <1>1, RowInvariant, PTL

-----------------------------------------------------------------------------
\* Without a failed call every active flow still has its heartbeat.
HeartbeatLives ==
  faults = 0 => \A p \in Process, t \in Task :
                  flow[p][t] # "none" => Runs(p, t) /\ ~lost[p][t]

LEMMA HeartbeatInvariant ==
  ASSUME HeartbeatInTime, ~Resubmit
  PROVE  Spec => []HeartbeatLives
<1>1. Init => HeartbeatLives
  BY DEF Init, HeartbeatLives
<1>2. Typed /\ Tidy /\ RowFollowsHeartbeat /\ HeartbeatLives /\ [Next]_vars
        => HeartbeatLives'
  <2> SUFFICES ASSUME TypeOK, Tidy, RowFollowsHeartbeat, HeartbeatLives,
                      [Next]_vars, faults' = 0
               PROVE  HeartbeatLives'
    BY DEF Typed, HeartbeatLives
  <2> USE DEF HeartbeatLives, Runs, TypeOK
  <2>0. faults' >= faults => faults = 0
    OBVIOUS
  <2>1. ~Fault
    BY DEF Fault
  <2>2. ASSUME NEW p \in Process, NEW t \in Task, Schedule(p, t)
        PROVE  HeartbeatLives'
    <3>1. CASE UNCHANGED <<flow, hb, faults>>
      BY <2>2, <3>1, ScheduleFrame
    <3>2. CASE ScheduleStart(p, t)
      BY <3>2, LeaseParameters DEF ScheduleStart, BeginSchedule, Off
    <3> QED
      BY <2>1, <2>2, <3>1, <3>2 DEF Schedule, ScheduleConflict,
         ScheduleClaimFails, ScheduleRaises, ScheduleDuplicate,
         ScheduleDuplicateKeepsRow
  <2>3. ASSUME NEW p \in Process, NEW t \in Task, RunStep(p, t)
        PROVE  HeartbeatLives'
    BY <2>0, <2>3, RunStepFrame
  <2>4. ASSUME NEW p \in Process, NEW t \in Task, Finish(p, t)
        PROVE  HeartbeatLives'
    <3>1. ForgetFlow(p, t) /\ UNCHANGED faults
      BY <2>1, <2>4 DEF Finish, Cleanup, CleanupKeepsRow
    <3> QED BY <3>1 DEF ForgetFlow
  <2>5. ASSUME NEW p \in Process, NEW t \in Task, Heartbeat(p, t)
        PROVE  HeartbeatLives'
    <3>1. ~RenewLost(p, t)
      <4> SUFFICES ASSUME RenewLost(p, t) PROVE FALSE
        OBVIOUS
      <4>1. owner[t] # p /\ hb[p][t] # Off
        BY LeaseParameters DEF RenewLost, HeartbeatDue, Off
      <4>2. flow[p][t] # "none"
        BY <4>1 DEF Tidy, NoneIsOff
      <4> QED BY <4>1, <4>2 DEF RowFollowsHeartbeat
    <3>2. Renew(p, t)
      BY <2>1, <2>5, <3>1 DEF Heartbeat, RenewFails
    <3> QED BY <3>2 DEF Renew, HeartbeatDue, Off
  <2>6. CASE Tick
    BY <2>6 DEF Tick, Off
  <2>7. ASSUME NEW p \in Process, Crash(p) PROVE HeartbeatLives'
    BY <2>7 DEF Crash
  <2>8. ASSUME UNCHANGED <<local, faults>> PROVE HeartbeatLives'
    BY <2>8 DEF local
  <2> QED
    BY <2>2, <2>3, <2>4, <2>5, <2>6, <2>7, <2>8
       DEF Next, Start, Submit, SubmitAgain, vars
<1> QED BY <1>1, <1>2, TypedInvariant, TidyInvariant, RowInvariant, PTL DEF Spec

\* As long as no database call fails, an active flow holds an unexpired lease by
\* its own clock and is not marked lost: no lease check stops it.
THEOREM NoFlowStopped ==
  ASSUME HeartbeatInTime, ~Resubmit
  PROVE  Spec => []NoSpuriousLoss
<1>1. TypeOK /\ RowFollowsHeartbeat /\ HeartbeatLives => NoSpuriousLoss
  <2> SUFFICES ASSUME TypeOK, RowFollowsHeartbeat, HeartbeatLives, faults = 0,
                      NEW p \in Process, NEW t \in Task, flow[p][t] # "none"
               PROVE  ~lost[p][t] /\ Owned(p, t)
    BY DEF NoSpuriousLoss
  <2>1. Runs(p, t) /\ ~lost[p][t]
    BY DEF HeartbeatLives
  <2>2. owner[t] = p /\ left[t] = TTL + Skew[p] - hb[p][t]
    BY <2>1 DEF RowFollowsHeartbeat
  <2>3. hb[p][t] \in 0 .. HeartbeatEvery + Lag
    BY <2>1 DEF Runs, TypeOK, Off
  <2>4. left[t] > Skew[p]
    BY <2>2, <2>3, LeaseParameters DEF HeartbeatInTime
  <2> QED BY <2>1, <2>2, <2>4 DEF Owned
<1> QED BY <1>1, TypeCorrect, RowInvariant, HeartbeatInvariant, PTL

\* Where database calls do not fail, whoever writes the final status of a task
\* holds the task's lease when it does, although the write does not look at it.
THEOREM HolderWritesVerdict ==
  ASSUME HeartbeatInTime, ~Resubmit
  PROVE  Spec => FaultlessVerdictByHolder
<1>1. NoSpuriousLoss =>
        [\A p \in Process, t \in Task :
           faults = 0 /\ WritesVerdict(p, t) => owner[t] = p]_vars
  BY DEF NoSpuriousLoss, WritesVerdict, Verdict, Owned
<1> QED BY <1>1, NoFlowStopped, PTL DEF FaultlessVerdictByHolder

-----------------------------------------------------------------------------
\* A flow that has lost its lease row never regains it, even if heartbeats are
\* late: this needs no timing assumption.
THEOREM LossIsFinal ==
  ASSUME ~Resubmit
  PROVE  Spec => LostForGood
<1>1. TypeOK /\ Tidy /\ [Next]_vars =>
        [\A p \in Process, t \in Task :
           flow[p][t] # "none" /\ flow'[p][t] # "none" /\ owner[t] # p
             => owner'[t] # p]_vars
  <2> SUFFICES ASSUME TypeOK, Tidy, Next,
                      NEW q \in Process, NEW u \in Task,
                      flow[q][u] # "none", owner[u] # q, owner'[u] = q
               PROVE  FALSE
    BY DEF vars, lease
  <2> USE DEF lease, TypeOK
  <2>1. ASSUME NEW p \in Process, NEW t \in Task, Schedule(p, t) PROVE FALSE
    <3>1. CASE UNCHANGED lease
      BY <3>1
    <3>2. CASE ScheduleStart(p, t)
      BY <3>2 DEF ScheduleStart, Grant
    <3>3. t \in backlog[p] => flow[p][t] = "none"
      BY DEF Tidy, BacklogIsIdle
    <3> QED
      BY <2>1, <3>1, <3>2, <3>3 DEF Schedule, ScheduleConflict,
         ScheduleClaimFails, ScheduleRaises, ScheduleDuplicate,
         ScheduleDuplicateKeepsRow, BeginSchedule
  <2>2. ASSUME NEW p \in Process, NEW t \in Task, RunStep(p, t) PROVE FALSE
    BY <2>2, RunStepFrame
  <2>3. ASSUME NEW p \in Process, NEW t \in Task, Finish(p, t) PROVE FALSE
    BY <2>3, LeaseParameters DEF Finish, Cleanup, CleanupKeepsRow, Release
  <2>4. ASSUME NEW p \in Process, NEW t \in Task, Heartbeat(p, t) PROVE FALSE
    BY <2>4 DEF Heartbeat, Renew, RenewLost, RenewFails, Grant
  <2>5. CASE UNCHANGED owner
    BY <2>5
  <2> QED
    BY <2>1, <2>2, <2>3, <2>4, <2>5
       DEF Next, Start, Crash, Submit, SubmitAgain, Tick
<1> QED BY <1>1, TypedInvariant, TidyInvariant, PTL DEF Spec, LostForGood, Typed

-----------------------------------------------------------------------------
\* The lease, as the code keeps it, implements the promise of TaskOwnership: a
\* process becomes the runner of a task only when the task has none.
THEOREM LeaseImplementsOwnership ==
  ASSUME HeartbeatInTime, ~Resubmit
  PROVE  Spec => ImplementsOwnership
<1> DEFINE R == [t \in Task |-> {p \in Process : Runs(p, t)}]
<1>1. Init => Ownership!Init
  BY DEF Init, Ownership!Init, Runs
<1>2. Typed /\ Tidy /\ RowFollowsHeartbeat /\ [Next]_vars
        => [Ownership!Next]_(R)
  <2> SUFFICES ASSUME TypeOK, Tidy, RowFollowsHeartbeat, [Next]_vars
               PROVE  Ownership!Next \/ R' = R
    BY DEF Typed
  <2> USE DEF TypeOK, Runs
  <2>1. ASSUME \A q \in Process, u \in Task : Runs(q, u)' <=> Runs(q, u)
        PROVE  R' = R
    BY <2>1
  <2>2. ASSUME NEW p \in Process, NEW t \in Task, Schedule(p, t)
        PROVE  Ownership!Next \/ R' = R
    <3>1. CASE UNCHANGED <<flow, hb>>
      BY <2>1, <3>1
    <3>2. CASE ScheduleStart(p, t)
      <4>1. \A q \in Process : ~Runs(q, t)
        <5> SUFFICES ASSUME NEW q \in Process, Runs(q, t) PROVE FALSE
          OBVIOUS
        <5>1. p # q /\ Claimable(p, t)
          BY <3>2 DEF ScheduleStart
        <5> QED BY <5>1, RunnerBlocksClaims
      <4>2. Runs(p, t)'
        BY <3>2, LeaseParameters DEF ScheduleStart, Off
      <4>3. \A q \in Process, u \in Task :
              q # p \/ u # t => (Runs(q, u)' <=> Runs(q, u))
        BY <3>2 DEF ScheduleStart
      <4>4. R[t] = {} /\ R' = [R EXCEPT ![t] = {p}]
        <5>1. {q \in Process : Runs(q, t)} = {}
          BY <4>1
        <5>2. {q \in Process : Runs(q, t)'} = {p}
          BY <4>1, <4>2, <4>3
        <5>3. \A u \in Task : u # t =>
                {q \in Process : Runs(q, u)'} = {q \in Process : Runs(q, u)}
          BY <4>3
        <5>4. \A u \in Task : R'[u] = [R EXCEPT ![t] = {p}][u]
          BY <5>2, <5>3, Zenon
        <5> HIDE DEF Runs
        <5> QED BY <5>1, <5>4
      <4> QED BY <4>4 DEF Ownership!Next, Ownership!Take
    <3> QED
      BY <2>2, <3>1, <3>2 DEF Schedule, ScheduleConflict,
         ScheduleClaimFails, ScheduleRaises, ScheduleDuplicate,
         ScheduleDuplicateKeepsRow
  <2>3. ASSUME NEW p \in Process, NEW t \in Task, ~Runs(p, t)',
               \A q \in Process, u \in Task :
                 q # p \/ u # t => (Runs(q, u)' <=> Runs(q, u))
        PROVE  Ownership!Next \/ R' = R
    <3>1. CASE Runs(p, t)
      <4>1. p \in R[t] /\ R' = [R EXCEPT ![t] = @ \ {p}]
        <5>1. {q \in Process : Runs(q, t)'} = {q \in Process : Runs(q, t)} \ {p}
          BY <2>3
        <5>2. \A u \in Task : u # t =>
                {q \in Process : Runs(q, u)'} = {q \in Process : Runs(q, u)}
          BY <2>3
        <5>3. \A u \in Task : R'[u] = [R EXCEPT ![t] = @ \ {p}][u]
          BY <5>1, <5>2
        <5> HIDE DEF Runs
        <5> QED BY <3>1, <5>3
      <4> QED BY <4>1 DEF Ownership!Next, Ownership!Drop
    <3>2. CASE ~Runs(p, t)
      BY <2>1, <2>3, <3>2
    <3> QED BY <3>1, <3>2
  <2>4. ASSUME NEW p \in Process, NEW t \in Task, RunStep(p, t)
        PROVE  R' = R
    BY <2>1, <2>4, RunStepFrame
  <2>5. ASSUME NEW p \in Process, NEW t \in Task, Finish(p, t)
        PROVE  Ownership!Next \/ R' = R
    <3>1. ForgetFlow(p, t)
      BY <2>5 DEF Finish, Cleanup, CleanupKeepsRow
    <3>2. ~Runs(p, t)'
      BY <3>1 DEF ForgetFlow
    <3>3. \A q \in Process, u \in Task :
            q # p \/ u # t => (Runs(q, u)' <=> Runs(q, u))
      BY <3>1 DEF ForgetFlow
    <3> HIDE DEF Runs
    <3> QED BY <2>3, <3>2, <3>3
  <2>6. ASSUME NEW p \in Process, NEW t \in Task, Heartbeat(p, t)
        PROVE  Ownership!Next \/ R' = R
    <3>1. UNCHANGED flow /\ hb[p][t] # Off
      BY <2>6, LeaseParameters
         DEF Heartbeat, Renew, RenewLost, RenewFails, HeartbeatDue, Off
    <3>2. CASE Renew(p, t)
      BY <2>1, <3>1, <3>2 DEF Renew, Off
    <3>3. CASE RenewLost(p, t) \/ RenewFails(p, t)
      <4>1. hb' = [hb EXCEPT ![p][t] = Off]
        BY <3>3 DEF RenewLost, RenewFails
      <4>2. ~Runs(p, t)'
        BY <3>1, <4>1
      <4>3. \A q \in Process, u \in Task :
              q # p \/ u # t => (Runs(q, u)' <=> Runs(q, u))
        BY <3>1, <4>1
      <4> HIDE DEF Runs
      <4> QED BY <2>3, <4>2, <4>3
    <3> QED BY <2>6, <3>2, <3>3 DEF Heartbeat
  <2>7. CASE Tick
    BY <2>1, <2>7 DEF Tick, Off
  <2>8. ASSUME NEW p \in Process, Crash(p)
        PROVE  Ownership!Next
    <3>1. \A q \in Process, u \in Task :
            Runs(q, u)' <=> Runs(q, u) /\ q # p
      BY <2>8 DEF Crash
    <3>2. R' = [u \in Task |-> R[u] \ {p}]
      BY <3>1
    <3> QED BY <3>2 DEF Ownership!Next, Ownership!Die
  <2>9. CASE UNCHANGED local
    BY <2>1, <2>9 DEF local
  <2> QED
    BY <2>2, <2>4, <2>5, <2>6, <2>7, <2>8, <2>9
       DEF Next, Start, Submit, SubmitAgain, vars
<1> QED
  BY <1>1, <1>2, TypedInvariant, TidyInvariant, RowInvariant, PTL
     DEF Spec, ImplementsOwnership, Ownership!Spec
=============================================================================
