--------------------------- MODULE TaskRowProofs ---------------------------
(***************************************************************************)
(* What the row keeps when the threads of one process write it: merges do  *)
(* not lose each other's sections, edits stay, and the persisted status    *)
(* only moves forward.  The lock of merge_blackboard_sections and _rw_lock *)
(* are locks of one process, so these theorems assume that there is one.   *)
(* What a client shows is in order however many processes answer it: every *)
(* list an answer may come from is, and an answer begins behind the        *)
(* cursor, which is the last event shown.                                  *)
(***************************************************************************)
EXTENDS TaskRow, WellFoundedInduction, TLAPS

OneProcess == \A p, q \in Process : p = q

Merging(th) == pc[th] \in {"load", "save"}

Target == Section \cup {"journal", "global"}

IsRow(r) == r = [journal |-> r.journal, global |-> r.global, section |-> r.section]

\* The types the arguments below need.
Shape ==
  /\ IsRow(row) /\ row.global \in Nat /\ row.section \in [Section -> SUBSET Nat]
  /\ global \in [Process -> Nat]
  /\ board \in [Process -> [Section -> SUBSET Nat]]
  /\ pc \in [Thread -> Place]
  /\ target \in [Thread -> Target]
  /\ DOMAIN dump = Thread /\ DOMAIN copy = Thread
  /\ \A th \in Thread : Merging(th) =>
       /\ target[th] = "global" => dump[th] \in Nat
       /\ target[th] \in Section => dump[th] \in SUBSET Nat
  /\ \A th \in Thread : pc[th] \in {"missed", "fetched", "edited"} => target[th] \in Section
  /\ \A th \in Thread : pc[th] \in {"missed", "fetched"} => dump[th] \in SUBSET Nat
  /\ mergeLock \in [Process -> Thread \cup {None}]
  /\ rwLock \in [Process -> Thread \cup {None}]
  /\ version \in Nat /\ edits \in Nat

\* A thread that is about to save holds the lock, and the row is still what it
\* has loaded.
Fresh ==
  \A th \in Thread :
    pc[th] = "save" => mergeLock[ProcessOf[th]] = th /\ copy[th] = row

\* The thread that holds _rw_lock is in update_global_status, and nobody else
\* writes the task: what it persists is the latest version.
Holder ==
  /\ \A th \in Thread :
       /\ pc[th] \in {"announce", "announced"} => rwLock[ProcessOf[th]] = th
       /\ rwLock[ProcessOf[th]] = th =>
            /\ pc[th] \notin {"idle", "missed", "fetched", "edited"}
            /\ Merging(th) => target[th] \in {"journal", "global"}
            /\ global[ProcessOf[th]] = version
       /\ Merging(th) /\ target[th] = "global" =>
            /\ rwLock[ProcessOf[th]] = th
            /\ dump[th] = global[ProcessOf[th]]
  /\ row.global <= version
  /\ \A p \in Process : global[p] <= version

RowInv == Shape /\ Fresh /\ Holder

\* While no thread has got in another's way: what a thread merges of a section is
\* what memory has; what a thread has loaded is what the row has, or not more than
\* memory has by now; a section in memory has all edits of the row.
EditInv ==
  ~raced =>
    /\ \A th \in Thread, s \in Section :
         pc[th] \in {"edited", "load", "save"} /\ target[th] = s =>
           /\ board[ProcessOf[th]][s] # {}
           /\ Merging(th) => dump[th] = board[ProcessOf[th]][s]
    /\ \A th \in Thread, s \in Section :
         pc[th] = "fetched" /\ target[th] = s =>
           /\ board[ProcessOf[th]][s] = {} => dump[th] = row.section[s]
           /\ board[ProcessOf[th]][s] # {} => dump[th] \subseteq board[ProcessOf[th]][s]
    /\ \A p \in Process, s \in Section :
         board[p][s] # {} => row.section[s] \subseteq board[p][s]

-----------------------------------------------------------------------------
\* What Updated does to the fields of a row.
LEMMA UpdatedFields ==
  ASSUME NEW r, IsRow(r), NEW s \in Target, NEW v
  PROVE  /\ IsRow(Updated(r, s, v))
         /\ Updated(r, s, v).global = IF s = "global" THEN v ELSE r.global
         /\ s \notin Section => Updated(r, s, v).section = r.section
         /\ s \in Section =>
              Updated(r, s, v).section = [r.section EXCEPT ![s] = v]
  BY RowParameters, SMTT(60) DEF Updated, IsRow, Target

\* The locks' holders and the processes of threads.
LEMMA Owners ==
  /\ \A th \in Thread : ProcessOf[th] \in Process /\ th # None
  /\ Section \cap {"journal", "global"} = {}
  BY RowParameters

\* What the page changes when it is answered a status: nothing but its phase.
rest == <<row, process, thread, seen, count, version, edits, raced, crashes, faults>>

\* The next-state relation, one name per action; what the page does is to read
\* events or to go on to another phase.
LEMMA Actions ==
  ASSUME [Next]_vars
  PROVE  \/ UNCHANGED rest
         \/ \E th \in Thread :
              \/ Load(th) \/ Save(th) \/ MergeFails(th)
              \/ Publish(th) \/ Snapshot(th)
              \/ SetStatus(th) \/ Announce(th) \/ AnnounceMore(th)
              \/ PersistStatus(th) \/ Persist(th)
              \/ Fetch(th) \/ FetchFails(th) \/ Fill(th)
         \/ \E th \in Thread, s \in Section : Miss(th, s) \/ Edit(th, s)
         \/ \E p \in Process : GetTaskState(p) \/ ReadEvents(p) \/ Crash(p)
<1>1. ASSUME NEW p \in Process, Follow(p) PROVE UNCHANGED rest \/ ReadEvents(p)
  BY <1>1 DEF Follow, Poll, Sync, Focus, LearnEnd, Resume, LearnEndAgain, Answered, rest
<1>2. UNCHANGED vars => UNCHANGED rest
  BY DEF vars, client, rest
<1> QED BY <1>1, <1>2 DEF Next, WriteStatus

\* Who changes the row, and how: a thread that saves, and no other step.
LEMMA OnlySavesWrite ==
  ASSUME [Next]_vars, row' # row
  PROVE  \E th \in Thread : Save(th)
  BY Actions DEF rest, Load, MergeFails, Publish, Snapshot, SetStatus,
     Announce, AnnounceMore, PersistStatus, Persist, Miss, Fetch, FetchFails,
     Fill, Edit, GetTaskState, ReadEvents, Crash

-----------------------------------------------------------------------------
LEMMA ShapeInit == Init => Shape
  BY RowParameters DEF Init, Shape, EmptyRow, IsRow, Target, Place, Merging

LEMMA FreshStep ==
  ASSUME OneProcess, RowInv, [Next]_vars
  PROVE  Fresh'
<1> USE Owners
<1>0. CASE UNCHANGED rest
  BY <1>0 DEF RowInv, Fresh, rest, thread
<1>1. ASSUME NEW th \in Thread, Load(th) PROVE Fresh'
  BY <1>1 DEF RowInv, Shape, Fresh, Load, MayLoad, GoTo, OneProcess
<1>2. ASSUME NEW th \in Thread, Save(th) PROVE Fresh'
  BY <1>2 DEF RowInv, Shape, Fresh, Save, Return, Forget, GoTo, OneProcess
<1>3. ASSUME NEW th \in Thread, MergeFails(th) PROVE Fresh'
  BY <1>3 DEF RowInv, Shape, Fresh, MergeFails, MayLoad, Return, Forget, GoTo,
     OneProcess
<1>4. ASSUME NEW th \in Thread,
             \/ Publish(th) \/ Snapshot(th) \/ SetStatus(th) \/ Announce(th)
             \/ AnnounceMore(th) \/ PersistStatus(th) \/ Persist(th)
      PROVE  Fresh'
  BY <1>4 DEF RowInv, Shape, Fresh, Publish, Snapshot, SetStatus, Announce,
     AnnounceMore, PersistStatus, Persist, AppendEvent, Merge, GoTo
<1>5. ASSUME NEW th \in Thread, NEW s \in Section, Edit(th, s) PROVE Fresh'
  BY <1>5 DEF RowInv, Shape, Fresh, Edit, GoTo
<1>6. ASSUME NEW p \in Process, GetTaskState(p) \/ ReadEvents(p) PROVE Fresh'
  BY <1>6 DEF RowInv, Fresh, GetTaskState, ReadEvents, thread
<1>7. ASSUME NEW p \in Process, Crash(p) PROVE Fresh'
  BY <1>7 DEF RowInv, Shape, Fresh, Crash, OneProcess
<1>8. ASSUME NEW th \in Thread, NEW s \in Section, Miss(th, s) PROVE Fresh'
  BY <1>8 DEF RowInv, Shape, Fresh, Miss, GoTo
<1>9. ASSUME NEW th \in Thread, Fetch(th) \/ FetchFails(th) \/ Fill(th)
      PROVE  Fresh'
  BY <1>9 DEF RowInv, Shape, Fresh, Fetch, FetchFails, Fill, Forget, GoTo
<1> QED
  BY <1>0, <1>1, <1>2, <1>3, <1>4, <1>5, <1>6, <1>7, <1>8, <1>9, Actions

\* A save replaces the thread's target by what it has dumped, in the row of now.
LEMMA SaveUpdates ==
  ASSUME RowInv, NEW th \in Thread, Save(th)
  PROVE  /\ row' = Updated(row, target[th], dump[th])
         /\ IsRow(row')
         /\ row'.global = IF target[th] = "global" THEN dump[th] ELSE row.global
         /\ target[th] \notin Section => row'.section = row.section
         /\ target[th] \in Section =>
              row'.section = [row.section EXCEPT ![target[th]] = dump[th]]
<1>1. row' = Updated(row, target[th], dump[th])
  BY DEF RowInv, Fresh, Save
<1>2. IsRow(row) /\ target[th] \in Target
  BY DEF RowInv, Shape
<1> QED BY <1>1, <1>2, UpdatedFields

LEMMA ShapeStep ==
  ASSUME OneProcess, RowInv, [Next]_vars
  PROVE  Shape'
<1> USE Owners DEF Target
<1>0. CASE UNCHANGED rest
  BY <1>0 DEF RowInv, Shape, Merging, rest, thread, process
<1>1. ASSUME NEW th \in Thread, Load(th) PROVE Shape'
  BY <1>1 DEF RowInv, Shape, Merging, Load, GoTo, Place, process
<1>2. ASSUME NEW th \in Thread, Save(th) PROVE Shape'
  <2>1. IsRow(row') /\ row'.global \in Nat /\ row'.section \in [Section -> SUBSET Nat]
    <3>1. target[th] = "global" => dump[th] \in Nat
      BY <1>2 DEF RowInv, Shape, Merging, Save
    <3>2. target[th] \in Section => dump[th] \in SUBSET Nat
      BY <1>2 DEF RowInv, Shape, Merging, Save
    <3>3. CASE target[th] \in Section
      <4>1. row'.section = [row.section EXCEPT ![target[th]] = dump[th]]
        BY <1>2, <3>3, SaveUpdates
      <4>2. row.section \in [Section -> SUBSET Nat]
        BY DEF RowInv, Shape
      <4>3. row'.section \in [Section -> SUBSET Nat]
        BY <3>2, <3>3, <4>1, <4>2
      <4>4. row'.global = row.global /\ IsRow(row')
        BY <1>2, <3>3, SaveUpdates
      <4> QED BY <4>3, <4>4 DEF RowInv, Shape
    <3>4. CASE target[th] \notin Section
      <4>1. row'.section = row.section /\ IsRow(row')
        BY <1>2, <3>4, SaveUpdates
      <4>2. row'.global \in Nat
        BY <1>2, <3>1, SaveUpdates DEF RowInv, Shape
      <4> QED BY <4>1, <4>2 DEF RowInv, Shape
    <3> QED BY <3>3, <3>4
  <2> QED
    BY <1>2, <2>1 DEF RowInv, Shape, Merging, Save, Return, Forget, GoTo, Place,
       process
<1>3. ASSUME NEW th \in Thread, MergeFails(th) PROVE Shape'
  BY <1>3 DEF RowInv, Shape, Merging, MergeFails, Fault, Return, Forget, GoTo,
     Place, process
<1>4. ASSUME NEW th \in Thread, Publish(th) \/ Announce(th) \/ AnnounceMore(th)
      PROVE  Shape'
  <2>1. /\ pc' = [pc EXCEPT ![th] = "append"]
        /\ UNCHANGED <<row, global, board, target, dump, copy, mergeLock, rwLock,
                       version, edits>>
    BY <1>4 DEF Publish, Announce, AnnounceMore, GoTo
  <2> QED BY <2>1 DEF RowInv, Shape, Merging, Place
<1>5. ASSUME NEW th \in Thread, Snapshot(th) PROVE Shape'
  BY <1>5 DEF RowInv, Shape, Merging, Snapshot, Merge, GoTo, Place, process
<1>6. ASSUME NEW th \in Thread, SetStatus(th) PROVE Shape'
  BY <1>6 DEF RowInv, Shape, Merging, SetStatus, GoTo, Place
<1>7. ASSUME NEW th \in Thread, PersistStatus(th) PROVE Shape'
  BY <1>7 DEF RowInv, Shape, Merging, PersistStatus, Merge, GoTo, Place,
     process
<1>8. ASSUME NEW th \in Thread, Persist(th) PROVE Shape'
  <2>1. /\ target[th] = "global" => board[ProcessOf[th]][target[th]] \in Nat
        /\ target[th] \in Section => board[ProcessOf[th]][target[th]] \in SUBSET Nat
    BY <1>8 DEF RowInv, Shape, Persist
  <2> QED
    BY <1>8, <2>1 DEF RowInv, Shape, Merging, Persist, Merge, GoTo, Place,
       process
<1>9. ASSUME NEW th \in Thread, NEW s \in Section, Edit(th, s) PROVE Shape'
  <2>1. InHand(th, s) \cup {edits + 1} \in SUBSET Nat
    BY DEF RowInv, Shape, InHand
  <2>2. board' \in [Process -> [Section -> SUBSET Nat]]
    BY <1>9, <2>1 DEF RowInv, Shape, Edit
  <2> QED
    BY <1>9, <2>2 DEF RowInv, Shape, Merging, Edit, GoTo, Place
<1>10. ASSUME NEW p \in Process, GetTaskState(p) \/ ReadEvents(p) PROVE Shape'
  <2>1. Current(p) \in Nat
    BY DEF RowInv, Shape, Current
  <2>2. /\ global' \in [Process -> Nat]
        /\ UNCHANGED <<row, board, thread, version, edits>>
    <3>1. CASE GetTaskState(p)
      BY <3>1, <2>1 DEF RowInv, Shape, GetTaskState, thread
    <3>2. CASE ReadEvents(p)
      BY <3>2 DEF RowInv, Shape, ReadEvents, thread
    <3> QED BY <1>10, <3>1, <3>2
  <2> QED BY <2>2 DEF RowInv, Shape, Merging, thread
<1>11. ASSUME NEW p \in Process, Crash(p) PROVE Shape'
  <2>1. EmptyRow.section \in [Section -> SUBSET Nat]
    BY DEF EmptyRow
  <2>2. /\ global' \in [Process -> Nat]
        /\ board' \in [Process -> [Section -> SUBSET Nat]]
        /\ mergeLock' \in [Process -> Thread \cup {None}]
        /\ rwLock' \in [Process -> Thread \cup {None}]
    BY <1>11, <2>1 DEF RowInv, Shape, Crash
  <2>3. /\ pc' \in [Thread -> Place] /\ target' \in [Thread -> Target]
        /\ DOMAIN dump' = Thread /\ DOMAIN copy' = Thread
    BY <1>11 DEF RowInv, Shape, Crash, Forget, Place
  <2>4. \A th \in Thread :
          ~Merging(th)' /\ pc'[th] \notin {"missed", "fetched", "edited"}
    BY <1>11 DEF Crash, OneProcess, Merging
  <2> QED
    BY <1>11, <2>2, <2>3, <2>4 DEF RowInv, Shape, Crash
<1>12. ASSUME NEW th \in Thread, NEW s \in Section, Miss(th, s) PROVE Shape'
  BY <1>12 DEF RowInv, Shape, Merging, Miss, GoTo, Place, process
<1>13. ASSUME NEW th \in Thread, Fetch(th) \/ FetchFails(th) PROVE Shape'
  <2>1. row.section[target[th]] \in SUBSET Nat
    BY <1>13 DEF RowInv, Shape, Fetch, FetchFails
  <2>2. /\ pc[th] = "missed" /\ pc' = [pc EXCEPT ![th] = "fetched"]
        /\ UNCHANGED <<row, global, board, target, copy, mergeLock, rwLock,
                       version, edits>>
    BY <1>13 DEF Fetch, FetchFails, GoTo, process
  <2>3. /\ DOMAIN dump' = Thread
        /\ dump'[th] \in SUBSET Nat
        /\ \A other \in Thread \ {th} : dump'[other] = dump[other]
    BY <1>13, <2>1, <2>2 DEF RowInv, Shape, Fetch, FetchFails
  <2>4. /\ pc' \in [Thread -> Place]
        /\ \A other \in Thread \ {th} : pc'[other] = pc[other]
        /\ pc'[th] = "fetched"
    BY <2>2 DEF RowInv, Shape, Place
  <2> QED BY <2>2, <2>3, <2>4 DEF RowInv, Shape, Merging
<1>14. ASSUME NEW th \in Thread, Fill(th) PROVE Shape'
  <2>1. target[th] \in Section /\ dump[th] \in SUBSET Nat
    BY <1>14 DEF RowInv, Shape, Fill
  <2>2. board' \in [Process -> [Section -> SUBSET Nat]]
    BY <1>14, <2>1 DEF RowInv, Shape, Fill
  <2> QED
    BY <1>14, <2>2 DEF RowInv, Shape, Merging, Fill, Forget, GoTo, Place
<1> QED
  BY <1>0, <1>1, <1>2, <1>3, <1>4, <1>5, <1>6, <1>7, <1>8, <1>9, <1>10, <1>11,
     <1>12, <1>13, <1>14, Actions

LEMMA HolderStep ==
  ASSUME OneProcess, RowInv, [Next]_vars
  PROVE  Holder'
<1> USE Owners
<1>0. CASE UNCHANGED rest
  BY <1>0 DEF RowInv, Holder, Merging, rest, thread, process
<1>1. ASSUME NEW th \in Thread, Load(th) PROVE Holder'
  BY <1>1 DEF RowInv, Shape, Holder, Merging, Load, GoTo, process
<1>2. ASSUME NEW th \in Thread, Save(th) PROVE Holder'
  <2>1. row'.global = IF target[th] = "global" THEN dump[th] ELSE row.global
    BY <1>2, SaveUpdates
  <2>2. row'.global <= version'
    BY <1>2, <2>1 DEF RowInv, Shape, Holder, Merging, Save
  <2> QED
    BY <1>2, <2>2 DEF RowInv, Shape, Holder, Merging, Save, Return, Forget, GoTo,
       process, OneProcess
<1>3. ASSUME NEW th \in Thread, MergeFails(th) PROVE Holder'
  BY <1>3 DEF RowInv, Shape, Holder, Merging, MergeFails, Return, Forget, GoTo,
     process, OneProcess
<1>4. ASSUME NEW th \in Thread, Publish(th) \/ Announce(th) \/ AnnounceMore(th)
      PROVE  Holder'
  <2>1. /\ pc[th] \in {"idle", "announce", "announced"}
        /\ pc' = [pc EXCEPT ![th] = "append"]
        /\ UNCHANGED <<row, global, target, dump, rwLock, version>>
    BY <1>4 DEF Publish, Announce, AnnounceMore, GoTo
  <2> QED BY <2>1 DEF RowInv, Shape, Holder, Merging
<1>5. ASSUME NEW th \in Thread, Snapshot(th) PROVE Holder'
  BY <1>5 DEF RowInv, Shape, Holder, Merging, Snapshot, Merge, GoTo, process
<1>6. ASSUME NEW th \in Thread, SetStatus(th) PROVE Holder'
  <2>1. /\ pc' = [pc EXCEPT ![th] = "announce"]
        /\ version' = version + 1
        /\ \A p \in Process : global'[p] = version' /\ rwLock'[p] = th
        /\ \A p \in Process : rwLock[p] = None
        /\ UNCHANGED <<row, target, dump>>
    BY <1>6 DEF RowInv, Shape, SetStatus, GoTo, OneProcess
  <2>2. /\ pc'[th] = "announce"
        /\ \A other \in Thread \ {th} : pc'[other] = pc[other]
    BY <2>1 DEF RowInv, Shape
  <2>3. \A other \in Thread :
          /\ pc[other] \notin {"announce", "announced"}
          /\ ~(Merging(other) /\ target[other] = "global")
    BY <2>1 DEF RowInv, Holder
  <2> QED BY <2>1, <2>2, <2>3 DEF RowInv, Shape, Holder, Merging
<1>7. ASSUME NEW th \in Thread, PersistStatus(th) PROVE Holder'
  <2>1. /\ pc[th] = "announced" /\ pc'[th] = "load"
        /\ target'[th] = "global" /\ dump'[th] = global[ProcessOf[th]]
        /\ \A other \in Thread \ {th} :
             /\ pc'[other] = pc[other] /\ target'[other] = target[other]
             /\ dump'[other] = dump[other]
        /\ UNCHANGED <<row, global, rwLock, version>>
    BY <1>7 DEF RowInv, Shape, PersistStatus, MayPersist, Merge, GoTo, process
  <2> QED BY <2>1 DEF RowInv, Holder, Merging
<1>8. ASSUME NEW th \in Thread, Persist(th) PROVE Holder'
  BY <1>8 DEF RowInv, Shape, Holder, Merging, Persist, Merge, GoTo, process
<1>9. ASSUME NEW th \in Thread, NEW s \in Section, Edit(th, s) PROVE Holder'
  <2>1. /\ pc[th] \in {"idle", "fetched"}
        /\ pc'[th] = "edited"
        /\ \A other \in Thread \ {th} :
             /\ pc'[other] = pc[other] /\ target'[other] = target[other]
             /\ dump'[other] = dump[other]
        /\ UNCHANGED <<row, global, rwLock, version>>
    BY <1>9 DEF RowInv, Shape, Edit, MayEdit, GoTo
  <2> QED BY <2>1 DEF RowInv, Holder, Merging
<1>10. ASSUME NEW p \in Process, GetTaskState(p) PROVE Holder'
  BY <1>10 DEF RowInv, Shape, Holder, Merging, GetTaskState, Current,
     thread, OneProcess
<1>11. ASSUME NEW p \in Process, ReadEvents(p) PROVE Holder'
  BY <1>11 DEF RowInv, Holder, Merging, ReadEvents, thread
<1>12. ASSUME NEW p \in Process, Crash(p) PROVE Holder'
  BY <1>12 DEF RowInv, Shape, Holder, Merging, Crash, Forget, OneProcess
<1>13. ASSUME NEW th \in Thread, NEW s \in Section, Miss(th, s) PROVE Holder'
  BY <1>13 DEF RowInv, Shape, Holder, Merging, Miss, GoTo, process
<1>14. ASSUME NEW th \in Thread, Fetch(th) \/ FetchFails(th) PROVE Holder'
  BY <1>14 DEF RowInv, Shape, Holder, Merging, Fetch, FetchFails, GoTo, process
<1>15. ASSUME NEW th \in Thread, Fill(th) PROVE Holder'
  BY <1>15 DEF RowInv, Shape, Holder, Merging, Fill, Forget, GoTo
<1> QED
  BY <1>0, <1>1, <1>2, <1>3, <1>4, <1>5, <1>6, <1>7, <1>8, <1>9, <1>10, <1>11,
     <1>12, <1>13, <1>14, <1>15, Actions

LEMMA RowInvInit == Init => RowInv
<1> SUFFICES ASSUME Init PROVE RowInv
  OBVIOUS
<1>1. Shape
  BY ShapeInit
<1>2. Fresh /\ Holder
  BY Owners DEF Init, Fresh, Holder, Merging, EmptyRow
<1> QED BY <1>1, <1>2 DEF RowInv

LEMMA RowInvStep ==
  ASSUME OneProcess, RowInv, [Next]_vars
  PROVE  RowInv'
  BY ShapeStep, FreshStep, HolderStep DEF RowInv

\* Init and every step keep RowInv while one process writes the row.
LEMMA RowInvHolds == ASSUME OneProcess PROVE Spec => []RowInv
<1>1. OneProcess /\ RowInv /\ [Next]_vars => RowInv'
  BY RowInvStep
<1> QED BY <1>1, RowInvInit, PTL DEF Spec

-----------------------------------------------------------------------------
\* merge_blackboard_sections: the threads of one process, however they
\* interleave, fail and restart, never undo each other's merges.
THEOREM MergesCompose ==
  ASSUME OneProcess
  PROVE  Spec => MergeKeepsOtherSections
<1> DEFINE Keeps ==
      \A th \in Thread :
        pc[th] = "save" /\ pc'[th] # "save" /\ row' # row
          => row' = Updated(row, target[th], dump[th])
<1>1. ASSUME RowInv, [Next]_vars PROVE Keeps
  <2> SUFFICES ASSUME NEW th \in Thread,
                      pc[th] = "save", pc'[th] # "save", row' # row
               PROVE  row' = Updated(row, target[th], dump[th])
    OBVIOUS
  <2>1. PICK writer \in Thread : Save(writer)
    BY <1>1, OnlySavesWrite
  <2>2. writer = th
    BY <2>1 DEF Save, Return, GoTo
  <2> QED BY <1>1, <2>1, <2>2, SaveUpdates
<1>2. RowInv /\ [Next]_vars => [Keeps]_vars
  BY <1>1
<1>3. Spec => [][Keeps]_vars
  BY <1>2, RowInvHolds, PTL DEF Spec
<1> QED BY <1>3 DEF MergeKeepsOtherSections

\* update_global_status: the status in the row only moves forward, whatever
\* crashes and fails.
THEOREM StatusMovesOn ==
  ASSUME OneProcess
  PROVE  Spec => StatusAdvances
<1> DEFINE Advances == row'.global >= row.global
<1>1. ASSUME RowInv, [Next]_vars PROVE Advances
  <2>1. CASE row' = row
    BY <1>1, <2>1 DEF RowInv, Shape
  <2>2. CASE row' # row
    <3>1. PICK th \in Thread : Save(th)
      BY <1>1, <2>2, OnlySavesWrite
    <3>2. row'.global = IF target[th] = "global" THEN dump[th] ELSE row.global
      BY <1>1, <3>1, SaveUpdates
    <3>3. target[th] = "global" => dump[th] = version
      BY <1>1, <3>1, Owners DEF RowInv, Holder, Merging, Save
    <3> QED BY <1>1, <3>2, <3>3 DEF RowInv, Shape, Holder
  <2> QED BY <2>1, <2>2
<1>2. RowInv /\ [Next]_vars => [Advances]_vars
  BY <1>1
<1>3. Spec => [][Advances]_vars
  BY <1>2, RowInvHolds, PTL DEF Spec
<1> QED BY <1>3 DEF StatusAdvances

-----------------------------------------------------------------------------
\* What EditInv asks of one thread.
InStep(th, s) ==
  /\ pc[th] \in {"edited", "load", "save"} /\ target[th] = s =>
       /\ board[ProcessOf[th]][s] # {}
       /\ pc[th] # "edited" => dump[th] = board[ProcessOf[th]][s]
  /\ pc[th] = "fetched" /\ target[th] = s =>
       /\ board[ProcessOf[th]][s] = {} => dump[th] = row.section[s]
       /\ board[ProcessOf[th]][s] # {} => dump[th] \subseteq board[ProcessOf[th]][s]

\* A step of one thread that leaves memory alone keeps EditInv, if it leaves the
\* thread in step and the row behind memory.
LEMMA EditMove ==
  ASSUME EditInv, ~raced, NEW th \in Thread, UNCHANGED board,
         \A other \in Thread : other # th =>
           /\ pc'[other] = pc[other] /\ target'[other] = target[other]
           /\ dump'[other] = dump[other],
         \A s \in Section : InStep(th, s)',
         \A p \in Process, s \in Section :
           /\ board[p][s] # {} => row'.section[s] \subseteq board[p][s]
           /\ board[p][s] = {} => row'.section[s] = row.section[s]
  PROVE  EditInv'
<1> USE Owners
<1>1. ASSUME NEW other \in Thread, NEW s \in Section PROVE InStep(other, s)'
  <2>1. CASE other = th
    BY <2>1
  <2>2. CASE other # th
    <3>1. InStep(other, s)
      BY DEF EditInv, InStep, Merging
    <3>2. board[ProcessOf[other]][s] = {} => row'.section[s] = row.section[s]
      OBVIOUS
    <3> QED BY <2>2, <3>1, <3>2 DEF InStep
  <2> QED BY <2>1, <2>2
<1>2. \A p \in Process, s \in Section :
        board'[p][s] # {} => row'.section[s] \subseteq board'[p][s]
  OBVIOUS
<1> QED BY <1>1, <1>2 DEF EditInv, InStep, Merging

\* EditInv is kept too.
LEMMA EditInvStep ==
  ASSUME OneProcess, RowInv, EditInv, [Next]_vars
  PROVE  EditInv'
<1> USE Owners
<1> SUFFICES ASSUME ~raced' PROVE EditInv'
  BY DEF EditInv
<1>a. ~raced
  BY Actions DEF rest, Load, Save, MergeFails, Publish, Snapshot,
     SetStatus, Announce, AnnounceMore, PersistStatus, Persist, Miss, Fetch,
     FetchFails, Fill, Edit, GetTaskState, ReadEvents, Crash
<1>0. CASE UNCHANGED rest
  BY <1>a, <1>0 DEF EditInv, Merging, rest, thread, process
<1>1. ASSUME NEW th \in Thread, Load(th) PROVE EditInv'
  <2>1. /\ pc[th] = "load" /\ pc' = [pc EXCEPT ![th] = "save"]
        /\ UNCHANGED <<row, board, target, dump>>
    BY <1>1 DEF Load, GoTo, process
  <2>2. \A other \in Thread : Merging(other)' <=> Merging(other)
    BY <2>1 DEF RowInv, Shape, Merging
  <2>3. \A other \in Thread : other # th => pc'[other] = pc[other]
    BY <2>1 DEF RowInv, Shape
  <2>4. pc'[th] = "save"
    BY <2>1 DEF RowInv, Shape
  <2> QED BY <1>a, <2>1, <2>2, <2>3, <2>4 DEF EditInv
<1>2. ASSUME NEW th \in Thread, Save(th) PROVE EditInv'
  <2>1. \A p \in Process, s \in Section :
          board[p][s] # {} => row'.section[s] \subseteq board[p][s]
    <3>1. CASE target[th] \in Section
      <4>1. dump[th] = board[ProcessOf[th]][target[th]]
        BY <1>a, <1>2, <3>1 DEF EditInv, Merging, Save
      <4>2. row'.section = [row.section EXCEPT ![target[th]] = dump[th]]
        BY <1>2, <3>1, SaveUpdates
      <4> QED BY <1>a, <4>1, <4>2 DEF RowInv, Shape, EditInv, OneProcess
    <3>2. CASE target[th] \notin Section
      <4>1. row'.section = row.section
        BY <1>2, <3>2, SaveUpdates
      <4> QED BY <1>a, <4>1 DEF EditInv
    <3> QED BY <3>1, <3>2
  <2>2. /\ pc'[th] \in {"idle", "announced"}
        /\ \A other \in Thread \ {th} :
             /\ pc'[other] = pc[other] /\ target'[other] = target[other]
             /\ dump'[other] = dump[other]
        /\ board' = board
    BY <1>2 DEF RowInv, Shape, Save, Return, Forget, GoTo, process
  <2>3. ASSUME NEW p \in Process, NEW s \in Section, board[p][s] = {}
        PROVE  row'.section[s] = row.section[s]
    <3>1. CASE target[th] \in Section
      <4>1. pc[th] = "save" /\ ProcessOf[th] = p
        BY <1>2 DEF Save, OneProcess
      <4>2. target[th] # s
        BY <1>a, <2>3, <3>1, <4>1 DEF EditInv
      <4>3. row'.section = [row.section EXCEPT ![target[th]] = dump[th]]
        BY <1>2, <3>1, SaveUpdates
      <4> QED BY <4>2, <4>3 DEF RowInv, Shape
    <3>2. CASE target[th] \notin Section
      BY <1>2, <3>2, SaveUpdates
    <3> QED BY <3>1, <3>2
  <2>4. \A s \in Section : InStep(th, s)'
    BY <2>2 DEF InStep
  <2> QED BY <1>a, <2>1, <2>2, <2>3, <2>4, EditMove
<1>b. \A p \in Process, s \in Section :
        board[p][s] # {} => row.section[s] \subseteq board[p][s]
  BY <1>a DEF EditInv
<1>3. ASSUME NEW th \in Thread, MergeFails(th) PROVE EditInv'
  <2>1. /\ pc'[th] \in {"idle", "announced"} /\ row' = row /\ board' = board
        /\ \A other \in Thread : other # th =>
             /\ pc'[other] = pc[other] /\ target'[other] = target[other]
             /\ dump'[other] = dump[other]
    BY <1>3 DEF RowInv, Shape, MergeFails, Return, Forget, GoTo, process
  <2>2. \A s \in Section : InStep(th, s)'
    BY <2>1 DEF InStep
  <2> QED BY <1>a, <1>b, <2>1, <2>2, EditMove
<1>4. ASSUME NEW th \in Thread,
             Publish(th) \/ SetStatus(th) \/ Announce(th) \/ AnnounceMore(th)
      PROVE  EditInv'
  <2>1. /\ \E place \in {"append", "announce"} : pc' = [pc EXCEPT ![th] = place]
        /\ UNCHANGED <<row, board, target, dump>>
    BY <1>4 DEF Publish, SetStatus, Announce, AnnounceMore, GoTo
  <2>2. /\ pc'[th] \in {"append", "announce"}
        /\ \A other \in Thread : other # th => pc'[other] = pc[other]
    BY <2>1 DEF RowInv, Shape
  <2>3. \A s \in Section : InStep(th, s)'
    BY <2>2 DEF InStep
  <2> QED BY <1>a, <1>b, <2>1, <2>2, <2>3, EditMove
<1>5. ASSUME NEW th \in Thread, Snapshot(th) \/ PersistStatus(th) PROVE EditInv'
  <2>1. /\ pc' = [pc EXCEPT ![th] = "load"]
        /\ \E section \in {"journal", "global"} :
             target' = [target EXCEPT ![th] = section]
        /\ \A other \in Thread \ {th} : dump'[other] = dump[other]
        /\ UNCHANGED <<row, board>>
    BY <1>5 DEF RowInv, Shape, Snapshot, PersistStatus, Merge, GoTo, process
  <2>2. /\ pc'[th] = "load" /\ target'[th] \in {"journal", "global"}
        /\ \A other \in Thread : other # th =>
             pc'[other] = pc[other] /\ target'[other] = target[other]
    BY <2>1 DEF RowInv, Shape
  <2>3. \A s \in Section : InStep(th, s)'
    BY <2>2 DEF InStep
  <2> QED BY <1>a, <1>b, <2>1, <2>2, <2>3, EditMove
<1>6. ASSUME NEW th \in Thread, Persist(th) PROVE EditInv'
  <2>1. /\ pc[th] = "edited" /\ target[th] \in Section
        /\ pc'[th] = "load" /\ target'[th] = target[th]
        /\ dump'[th] = board[ProcessOf[th]][target[th]]
        /\ row' = row /\ board' = board
        /\ \A other \in Thread : other # th =>
             /\ pc'[other] = pc[other] /\ target'[other] = target[other]
             /\ dump'[other] = dump[other]
    BY <1>6 DEF RowInv, Shape, Persist, Merge, GoTo, process
  <2>2. board[ProcessOf[th]][target[th]] # {}
    BY <1>a, <2>1 DEF EditInv
  <2>3. \A s \in Section : InStep(th, s)'
    BY <2>1, <2>2 DEF InStep
  <2> QED BY <1>a, <1>b, <2>1, <2>3, EditMove
<1>7. ASSUME NEW th \in Thread, NEW s \in Section, Edit(th, s) PROVE EditInv'
  <2> DEFINE b == board[ProcessOf[th]][s]
             new == InHand(th, s) \cup {edits + 1}
  <2>0. b \subseteq InHand(th, s) /\ ~InMerge(th, s)
    BY <1>7 DEF Edit
  <2>1. /\ new # {} /\ b \subseteq new /\ row.section[s] \subseteq new
        /\ b = {} => row.section[s] = {}
    <3>1. CASE b = {}
      <4>1. pc[th] = "fetched" /\ target[th] = s /\ dump[th] = {}
        BY <1>7, <3>1 DEF Edit, MayEdit
      <4>2. row.section[s] = {}
        BY <1>a, <3>1, <4>1 DEF EditInv
      <4> QED BY <3>1, <4>2
    <3>2. CASE b # {}
      <4>1. row.section[s] \subseteq b
        BY <1>a, <3>2 DEF EditInv
      <4> QED BY <2>0, <3>2, <4>1
    <3> QED BY <3>1, <3>2
  <2>2. /\ pc[th] \in {"idle", "fetched"}
        /\ board' = [board EXCEPT ![ProcessOf[th]][s] = new]
        /\ target' = [target EXCEPT ![th] = s]
        /\ pc' = [pc EXCEPT ![th] = "edited"]
        /\ row' = row
        /\ \A other \in Thread \ {th} : dump'[other] = dump[other]
    BY <1>7 DEF RowInv, Shape, Edit, MayEdit, GoTo
  <2>3. \A p \in Process, x \in Section :
          board'[p][x] = IF x = s THEN new ELSE board[p][x]
    BY <2>2 DEF RowInv, Shape, OneProcess
  <2>b. \A p \in Process : board[p][s] = b
    BY DEF OneProcess
  <2> HIDE DEF b, new
  <2>4. \A p \in Process, x \in Section :
          board'[p][x] # {} => row'.section[x] \subseteq board'[p][x]
    BY <1>a, <2>1, <2>2, <2>3 DEF EditInv
  <2>5. \A other \in Thread \ {th} : Merging(other) => target[other] # s
    BY <2>0 DEF InMerge, Merging
  <2>6. /\ pc'[th] = "edited" /\ target'[th] = s
        /\ \A other \in Thread \ {th} :
             pc'[other] = pc[other] /\ target'[other] = target[other]
    BY <2>2 DEF RowInv, Shape
  <2>7. ASSUME NEW other \in Thread, NEW x \in Section,
               pc'[other] \in {"edited", "load", "save"}, target'[other] = x
        PROVE  /\ board'[ProcessOf[other]][x] # {}
               /\ Merging(other)' => dump'[other] = board'[ProcessOf[other]][x]
    <3>1. CASE other = th
      BY <2>1, <2>3, <2>6, <2>7, <3>1 DEF Merging
    <3>2. CASE other # th /\ x = s
      <4>1. ~Merging(other)'
        BY <2>5, <2>6, <2>7, <3>2 DEF Merging
      <4> QED BY <2>1, <2>3, <3>2, <4>1
    <3>3. CASE other # th /\ x # s
      <4>1. board'[ProcessOf[other]][x] = board[ProcessOf[other]][x]
        BY <2>3, <3>3
      <4> QED BY <1>a, <2>2, <2>6, <2>7, <3>3, <4>1 DEF EditInv, Merging
    <3> QED BY <3>1, <3>2, <3>3
  <2>8. ASSUME NEW other \in Thread, NEW x \in Section,
               pc'[other] = "fetched", target'[other] = x
        PROVE  /\ board'[ProcessOf[other]][x] = {} => dump'[other] = row'.section[x]
               /\ board'[ProcessOf[other]][x] # {}
                    => dump'[other] \subseteq board'[ProcessOf[other]][x]
    <3>1. /\ other # th /\ pc[other] = "fetched" /\ target[other] = x
          /\ dump'[other] = dump[other]
      BY <2>2, <2>6, <2>8
    <3>2. /\ board[ProcessOf[other]][x] = {} => dump[other] = row.section[x]
          /\ board[ProcessOf[other]][x] # {}
               => dump[other] \subseteq board[ProcessOf[other]][x]
      BY <1>a, <3>1 DEF EditInv
    <3>3. CASE x = s
      <4>1. board'[ProcessOf[other]][x] = new /\ board[ProcessOf[other]][x] = b
        BY <2>3, <2>b, <3>3
      <4>2. dump[other] \subseteq new
        BY <2>1, <3>2, <3>3, <4>1
      <4> QED BY <2>1, <3>1, <4>1, <4>2
    <3>4. CASE x # s
      BY <2>2, <2>3, <3>1, <3>2, <3>4
    <3> QED BY <3>3, <3>4
  <2> QED BY <2>4, <2>7, <2>8 DEF EditInv
<1>8. ASSUME NEW p \in Process, GetTaskState(p) \/ ReadEvents(p) PROVE EditInv'
  <2>1. UNCHANGED <<row, board, pc, target, dump>>
    BY <1>8 DEF GetTaskState, ReadEvents, thread
  <2> QED BY <1>a, <2>1 DEF EditInv, Merging
<1>9. ASSUME NEW p \in Process, Crash(p) PROVE EditInv'
  <2>1. \A th \in Thread : pc'[th] = "idle"
    BY <1>9 DEF Crash, OneProcess
  <2>2. \A q \in Process, s \in Section : board'[q][s] = {}
    BY <1>9 DEF RowInv, Shape, Crash, EmptyRow, OneProcess
  <2> QED BY <2>1, <2>2 DEF EditInv, Merging
<1>10. ASSUME NEW th \in Thread, NEW s \in Section, Miss(th, s) PROVE EditInv'
  <2>1. /\ pc'[th] = "missed" /\ target'[th] = s
        /\ UNCHANGED <<row, board>>
        /\ \A other \in Thread \ {th} :
             /\ pc'[other] = pc[other] /\ target'[other] = target[other]
             /\ dump'[other] = dump[other]
    BY <1>10 DEF RowInv, Shape, Miss, GoTo, process
  <2> QED BY <1>a, <2>1 DEF EditInv, Merging
<1>11. ASSUME NEW th \in Thread, Fetch(th) PROVE EditInv'
  <2>1. /\ target[th] \in Section
        /\ pc'[th] = "fetched" /\ target'[th] = target[th]
        /\ dump'[th] = row.section[target[th]]
        /\ row' = row /\ board' = board
        /\ \A other \in Thread : other # th =>
             /\ pc'[other] = pc[other] /\ target'[other] = target[other]
             /\ dump'[other] = dump[other]
    BY <1>11 DEF RowInv, Shape, Fetch, GoTo, process
  <2>2. \A s \in Section : InStep(th, s)'
    BY <1>b, <2>1 DEF InStep
  <2> QED BY <1>a, <1>b, <2>1, <2>2, EditMove
<1>12. ASSUME NEW th \in Thread, FetchFails(th) PROVE EditInv'
  BY <1>12 DEF FetchFails
<1>13. ASSUME NEW th \in Thread, Fill(th) PROVE EditInv'
  <2> DEFINE x == target[th]
             b == board[ProcessOf[th]][x]
  <2>0. /\ pc[th] = "fetched" /\ x \in Section
        /\ b = {} => dump[th] = row.section[x]
        /\ b # {} => dump[th] \subseteq b
    BY <1>a, <1>13 DEF RowInv, Shape, EditInv, Fill
  <2>1. \A p \in Process : board[p][x] = b
    BY DEF OneProcess
  <2>2. /\ pc'[th] = "idle" /\ row' = row
        /\ \A other \in Thread \ {th} :
             /\ pc'[other] = pc[other] /\ target'[other] = target[other]
             /\ dump'[other] = dump[other]
    BY <1>13 DEF RowInv, Shape, Fill, Forget, GoTo
  <2>3. b # {} => board' = board
    <3> SUFFICES ASSUME b # {}, dump[th] # {} PROVE board' = board
      BY <1>13 DEF Fill
    <3>1. board' = [board EXCEPT ![ProcessOf[th]][x] = dump[th]]
      BY <1>13 DEF Fill
    <3>2. board'[ProcessOf[th]][x] = dump[th]
      BY <2>0, <3>1 DEF RowInv, Shape
    <3>3. b \subseteq dump[th]
      BY <1>13, <3>2 DEF Fill
    <3>4. dump[th] = b
      BY <2>0, <3>3
    <3>5. board' = [board EXCEPT ![ProcessOf[th]][x] = board[ProcessOf[th]][x]]
      BY <3>1, <3>4
    <3>6. board = [p \in Process |-> [s \in Section |-> board[p][s]]]
      BY DEF RowInv, Shape
    <3> HIDE DEF x, b
    <3> QED BY <2>0, <3>5, <3>6
  <2>4. b = {} => \A p \in Process, y \in Section :
                    board'[p][y] = IF y = x THEN row.section[x] ELSE board[p][y]
    BY <1>13, <2>0, <2>1 DEF RowInv, Shape, Fill, OneProcess
  <2> HIDE DEF x, b
  <2>5. CASE b # {}
    <3>1. board' = board
      BY <2>3, <2>5
    <3> QED BY <1>a, <2>2, <3>1 DEF EditInv, Merging
  <2>6. CASE b = {}
    <3>1. \A p \in Process, y \in Section :
            board'[p][y] = IF y = x THEN row.section[x] ELSE board[p][y]
      BY <2>4, <2>6
    <3>2. \A p \in Process : board[p][x] = {}
      BY <2>1, <2>6
    <3>3. ASSUME NEW other \in Thread, NEW y \in Section,
                 pc'[other] \in {"edited", "load", "save"}, target'[other] = y
          PROVE  /\ board'[ProcessOf[other]][y] # {}
                 /\ Merging(other)' => dump'[other] = board'[ProcessOf[other]][y]
      <4>1. /\ other # th /\ pc'[other] = pc[other] /\ target[other] = y
            /\ dump'[other] = dump[other]
        BY <2>2, <3>3
      <4>2. /\ board[ProcessOf[other]][y] # {}
            /\ Merging(other) => dump[other] = board[ProcessOf[other]][y]
        BY <1>a, <3>3, <4>1 DEF EditInv
      <4> QED BY <3>1, <3>2, <4>1, <4>2 DEF Merging
    <3>4. ASSUME NEW other \in Thread, NEW y \in Section,
                 pc'[other] = "fetched", target'[other] = y
          PROVE  /\ board'[ProcessOf[other]][y] = {} => dump'[other] = row'.section[y]
                 /\ board'[ProcessOf[other]][y] # {}
                      => dump'[other] \subseteq board'[ProcessOf[other]][y]
      <4>1. /\ other # th /\ pc[other] = "fetched" /\ target[other] = y
            /\ dump'[other] = dump[other]
        BY <2>2, <3>4
      <4>2. /\ board[ProcessOf[other]][y] = {} => dump[other] = row.section[y]
            /\ board[ProcessOf[other]][y] # {}
                 => dump[other] \subseteq board[ProcessOf[other]][y]
        BY <1>a, <4>1 DEF EditInv
      <4> QED BY <2>2, <3>1, <3>2, <4>1, <4>2
    <3>5. \A p \in Process, y \in Section :
            board'[p][y] # {} => row'.section[y] \subseteq board'[p][y]
      BY <1>a, <2>2, <3>1 DEF EditInv
    <3> QED BY <3>3, <3>4, <3>5 DEF EditInv
  <2> QED BY <2>5, <2>6
<1> QED
  BY <1>0, <1>1, <1>2, <1>3, <1>4, <1>5, <1>6, <1>7, <1>8, <1>9, <1>10, <1>11,
     <1>12, <1>13, Actions

\* The sub-blackboards: an edit that has reached the row can be lost in three ways
\* only, those that `raced' names, whoever reads and edits the sections, whatever
\* crashes and whichever merges fail.
THEOREM EditsStay ==
  ASSUME OneProcess
  PROVE  Spec => EditsKept
<1> DEFINE Kept ==
      ~raced => \A s \in Section : row.section[s] \subseteq row'.section[s]
<1>1. Init => EditInv
  BY DEF Init, EditInv, Merging, EmptyRow
<1>2. RowInv /\ EditInv /\ [Next]_vars => EditInv'
  BY EditInvStep
<1>3. ASSUME RowInv, EditInv, [Next]_vars PROVE Kept
  <2> SUFFICES ASSUME ~raced
               PROVE  \A s \in Section : row.section[s] \subseteq row'.section[s]
    OBVIOUS
  <2>1. CASE row' = row
    BY <2>1
  <2>2. CASE row' # row
    <3>1. PICK th \in Thread : Save(th)
      BY <1>3, <2>2, OnlySavesWrite
    <3>2. CASE target[th] \in Section
      <4>1. row'.section = [row.section EXCEPT ![target[th]] = dump[th]]
        BY <1>3, <3>1, <3>2, SaveUpdates
      <4>2. row.section[target[th]] \subseteq dump[th]
        <5> DEFINE s == target[th]
        <5>1. s \in Section /\ ProcessOf[th] \in Process
          BY <3>2, Owners
        <5>2. pc[th] = "save" /\ target[th] = s
          BY <3>1 DEF Save
        <5>3. board[ProcessOf[th]][s] # {} /\ dump[th] = board[ProcessOf[th]][s]
          BY <1>3, <5>1, <5>2 DEF EditInv, Merging
        <5> QED BY <1>3, <5>1, <5>3 DEF EditInv
      <4> QED BY <1>3, <4>1, <4>2 DEF RowInv, Shape
    <3>3. CASE target[th] \notin Section
      BY <1>3, <3>1, <3>3, SaveUpdates
    <3> QED BY <3>2, <3>3
  <2> QED BY <2>1, <2>2
<1>4. RowInv /\ EditInv /\ [Next]_vars => [Kept]_vars
  BY <1>3
<1>5. Spec => [][Kept]_vars
  BY <1>1, <1>2, <1>4, RowInvHolds, PTL DEF Spec
<1> QED BY <1>5 DEF EditsKept

-----------------------------------------------------------------------------
\* One thread at a time publishes a task's events, which is one thread here: a
\* second one could put an older snapshot of the list over the announcement.
OneRunner == \A a, b \in Runner : a = b

Stream == Seq([id : Nat, version : Nat])

Announces(events, v) == \E i \in DOMAIN events : events[i].version = v

\* The lists are streams of events, and only runners write them.
StreamInv ==
  /\ list \in [Process -> Stream] /\ listed \in [Process -> BOOLEAN]
  /\ row.journal \in Stream
  /\ count \in Nat /\ faults \in Nat
  /\ \A th \in Thread :
       /\ Merging(th) /\ target[th] = "journal" => dump[th] \in Stream
       /\ Merging(th) /\ target[th] = "journal" => th \in Runner
       /\ pc[th] \in {"announce", "append", "announced"} => th \in Runner
       /\ rwLock[ProcessOf[th]] = th => th \in Runner
       /\ pc[th] = "append" => listed[ProcessOf[th]]

\* The announcement of the status being written is in memory's list, then in
\* the snapshot, then in the row, where it is when the status follows.
AnnouncedInv ==
  faults = 0 =>
    \A th \in Thread : rwLock[ProcessOf[th]] = th =>
      LET v == global[ProcessOf[th]] IN
      /\ pc[th] = "append" => Announces(list[ProcessOf[th]], v)
      /\ Merging(th) /\ target[th] = "journal" => Announces(dump[th], v)
      /\ pc[th] = "announced" \/ (Merging(th) /\ target[th] = "global")
           => Announces(row.journal, v)

\* What a save does to the stream in the row.
LEMMA SaveJournal ==
  ASSUME RowInv, NEW th \in Thread, Save(th)
  PROVE  row'.journal = IF target[th] = "journal" THEN dump[th] ELSE row.journal
<1>1. row' = Updated(row, target[th], dump[th])
  BY DEF RowInv, Fresh, Save
<1>2. IsRow(row) /\ target[th] \in Target
  BY DEF RowInv, Shape
<1>3. Updated(row, target[th], dump[th]).journal
        = IF target[th] = "journal" THEN dump[th] ELSE row.journal
  BY <1>2, Owners, SMTT(60) DEF Updated, IsRow, Target
<1> QED BY <1>1, <1>3

\* An appended event is a longer stream's last.
LEMMA Appended ==
  ASSUME NEW s \in Stream, NEW n \in Nat, NEW v \in Nat
  PROVE  /\ Append(s, [id |-> n + 1, version |-> v]) \in Stream
         /\ Announces(Append(s, [id |-> n + 1, version |-> v]), v)
<1> DEFINE e == [id |-> n + 1, version |-> v]
           t == Append(s, e)
<1>1. e \in [id : Nat, version : Nat] /\ e.version = v
  OBVIOUS
<1> HIDE DEF e
<1>2. t \in Stream /\ Len(s) + 1 \in DOMAIN t /\ t[Len(s) + 1] = e
  BY <1>1 DEF Stream
<1> QED BY <1>1, <1>2 DEF Announces, e

LEMMA StreamInvStep ==
  ASSUME OneProcess, RowInv, StreamInv, [Next]_vars
  PROVE  StreamInv'
<1> USE Owners
<1>0. CASE UNCHANGED rest
  BY <1>0 DEF StreamInv, Merging, rest, thread, process
<1>1. ASSUME NEW th \in Thread, Load(th) PROVE StreamInv'
  <2>1. /\ pc[th] = "load" /\ pc' = [pc EXCEPT ![th] = "save"]
        /\ UNCHANGED <<row, list, listed, target, dump, rwLock, count, faults>>
    BY <1>1 DEF Load, GoTo, process
  <2> QED BY <2>1 DEF RowInv, Shape, StreamInv, Merging
<1>2. ASSUME NEW th \in Thread, Save(th) PROVE StreamInv'
  <2>1. row'.journal \in Stream
    BY <1>2, SaveJournal DEF StreamInv, Merging, Save
  <2>2. /\ \/ pc'[th] = "idle"
           \/ pc'[th] = "announced" /\ target[th] = "journal"
        /\ pc[th] = "save"
        /\ \A other \in Thread \ {th} :
             /\ pc'[other] = pc[other] /\ target'[other] = target[other]
             /\ dump'[other] = dump[other]
        /\ \A other \in Thread :
             rwLock'[ProcessOf[other]] = other => rwLock[ProcessOf[other]] = other
        /\ UNCHANGED <<list, listed, count, faults>>
    BY <1>2 DEF RowInv, Shape, Save, Return, Forget, GoTo, process
  <2> QED BY <2>1, <2>2 DEF StreamInv, Merging
<1>3. ASSUME NEW th \in Thread, MergeFails(th) PROVE StreamInv'
  <2>2. /\ \/ pc'[th] = "idle"
           \/ pc'[th] = "announced" /\ target[th] = "journal"
        /\ pc[th] \in {"load", "save"}
        /\ \A other \in Thread \ {th} :
             /\ pc'[other] = pc[other] /\ target'[other] = target[other]
             /\ dump'[other] = dump[other]
        /\ \A other \in Thread :
             rwLock'[ProcessOf[other]] = other => rwLock[ProcessOf[other]] = other
        /\ UNCHANGED <<row, list, listed, count>> /\ faults' = faults + 1
    BY <1>3 DEF RowInv, Shape, MergeFails, Fault, Return, Forget, GoTo, process
  <2> QED BY <2>2 DEF StreamInv, Merging
<1>4. ASSUME NEW th \in Thread, Publish(th) \/ Announce(th) \/ AnnounceMore(th)
      PROVE  StreamInv'
  <2>1. PICK v \in Nat : AppendEvent(ProcessOf[th], v)
    BY <1>4 DEF RowInv, Shape, Publish, Announce, AnnounceMore
  <2>2. /\ list' \in [Process -> Stream]
        /\ listed' \in [Process -> BOOLEAN] /\ listed'[ProcessOf[th]]
        /\ \A p \in Process : listed[p] => listed'[p]
        /\ count' \in Nat
    BY <2>1, Appended DEF StreamInv, AppendEvent
  <2>3. /\ pc' = [pc EXCEPT ![th] = "append"] /\ th \in Runner
        /\ UNCHANGED <<row, target, dump, rwLock, faults>>
    BY <1>4 DEF StreamInv, Publish, Announce, AnnounceMore, GoTo
  <2> QED BY <2>2, <2>3 DEF RowInv, Shape, StreamInv, Merging
<1>5. ASSUME NEW th \in Thread, Snapshot(th) PROVE StreamInv'
  <2>1. /\ pc[th] = "append" /\ pc'[th] = "load" /\ dump'[th] = list[ProcessOf[th]]
        /\ \A other \in Thread \ {th} :
             /\ pc'[other] = pc[other] /\ target'[other] = target[other]
             /\ dump'[other] = dump[other]
        /\ UNCHANGED <<row, list, listed, rwLock, count, faults>>
    BY <1>5 DEF RowInv, Shape, Snapshot, Merge, GoTo, process
  <2> QED BY <2>1 DEF StreamInv, Merging
<1>6. ASSUME NEW th \in Thread, SetStatus(th) PROVE StreamInv'
  <2>1. /\ pc' = [pc EXCEPT ![th] = "announce"] /\ th \in Runner
        /\ rwLock' = [rwLock EXCEPT ![ProcessOf[th]] = th]
        /\ UNCHANGED <<row, list, listed, target, dump, count, faults>>
    BY <1>6 DEF SetStatus, GoTo
  <2> QED BY <2>1 DEF RowInv, Shape, StreamInv, Merging
<1>7. ASSUME NEW th \in Thread, PersistStatus(th) PROVE StreamInv'
  <2>1. /\ pc[th] = "announced" /\ pc'[th] = "load" /\ target'[th] = "global"
        /\ \A other \in Thread \ {th} :
             /\ pc'[other] = pc[other] /\ target'[other] = target[other]
             /\ dump'[other] = dump[other]
        /\ UNCHANGED <<row, list, listed, rwLock, count, faults>>
    BY <1>7 DEF RowInv, Shape, PersistStatus, MayPersist, Merge, GoTo, process
  <2> QED BY <2>1 DEF StreamInv, Merging
<1>8. ASSUME NEW th \in Thread,
             \/ Persist(th) \/ Fetch(th) \/ FetchFails(th) \/ Fill(th)
             \/ \E s \in Section : Miss(th, s) \/ Edit(th, s)
      PROVE  StreamInv'
  <2>1. /\ \/ pc'[th] \in {"idle", "missed", "fetched", "edited"}
           \/ pc'[th] = "load" /\ target'[th] \in Section
        /\ \A other \in Thread \ {th} :
             /\ pc'[other] = pc[other] /\ target'[other] = target[other]
             /\ dump'[other] = dump[other]
        /\ UNCHANGED <<row, list, listed, rwLock, count>>
        /\ faults' \in {faults, faults + 1}
    <3>1. CASE Persist(th)
      BY <3>1 DEF RowInv, Shape, Persist, Merge, GoTo, process
    <3>2. CASE Fetch(th) \/ FetchFails(th)
      BY <3>2 DEF RowInv, Shape, Fetch, FetchFails, Fault, GoTo, process
    <3>3. CASE Fill(th)
      BY <3>3 DEF RowInv, Shape, Fill, Forget, GoTo
    <3>4. CASE \E s \in Section : Miss(th, s) \/ Edit(th, s)
      BY <3>4 DEF RowInv, Shape, Miss, Edit, GoTo, process
    <3> QED BY <1>8, <3>1, <3>2, <3>3, <3>4
  <2> QED BY <2>1 DEF StreamInv, Merging
<1>9. ASSUME NEW p \in Process, GetTaskState(p) PROVE StreamInv'
  <2>1. UNCHANGED <<row, list, listed, thread, count, faults>>
    BY <1>9 DEF GetTaskState
  <2> QED BY <2>1 DEF StreamInv, Merging, thread
<1>10. ASSUME NEW p \in Process, ReadEvents(p) PROVE StreamInv'
  <2>1. list' \in [Process -> Stream] /\ listed' \in [Process -> BOOLEAN]
    BY <1>10 DEF StreamInv, ReadEvents, Records
  <2>2. \A q \in Process : listed[q] => listed'[q]
    BY <1>10 DEF StreamInv, ReadEvents
  <2>3. UNCHANGED <<row, thread, count, faults>>
    BY <1>10 DEF ReadEvents
  <2> QED BY <2>1, <2>2, <2>3 DEF StreamInv, Merging, thread
<1>11. ASSUME NEW p \in Process, Crash(p) PROVE StreamInv'
  <2>1. list' \in [Process -> Stream] /\ listed' \in [Process -> BOOLEAN]
    BY <1>11 DEF StreamInv, Crash, Stream
  <2>2. \A th \in Thread : pc'[th] = "idle" /\ rwLock'[ProcessOf[th]] # th
    BY <1>11 DEF RowInv, Shape, Crash, OneProcess
  <2>3. UNCHANGED <<row, count, faults>>
    BY <1>11 DEF Crash
  <2> QED BY <2>1, <2>2, <2>3 DEF StreamInv, Merging
<1> QED
  BY <1>0, <1>1, <1>2, <1>3, <1>4, <1>5, <1>6, <1>7, <1>8, <1>9, <1>10, <1>11,
     Actions

\* A thread that does not hold the status in hand owes no announcement.
LEMMA NotWriting ==
  ASSUME RowInv, NEW th \in Thread,
         \/ pc[th] \in {"idle", "missed", "fetched", "edited"}
         \/ Merging(th) /\ target[th] \in Section
  PROVE  rwLock[ProcessOf[th]] # th
  BY Owners DEF RowInv, Holder

LEMMA AnnouncedInvStep ==
  ASSUME OneProcess, OneRunner, RowInv, StreamInv, AnnouncedInv, [Next]_vars
  PROVE  AnnouncedInv'
<1> USE Owners
<1>a. \A a, b \in Thread :
        rwLock[ProcessOf[a]] = a /\ b \in Runner => a = b
  BY DEF StreamInv, OneRunner
<1>0. CASE UNCHANGED rest
  BY <1>0 DEF AnnouncedInv, Merging, rest, thread, process
<1>1. ASSUME NEW th \in Thread, Load(th) PROVE AnnouncedInv'
  <2>1. /\ pc[th] = "load" /\ pc' = [pc EXCEPT ![th] = "save"]
        /\ UNCHANGED <<row, list, global, target, dump, rwLock, faults>>
    BY <1>1 DEF Load, GoTo, process
  <2> QED BY <2>1 DEF RowInv, Shape, AnnouncedInv, Merging
<1>2. ASSUME NEW th \in Thread, Save(th) PROVE AnnouncedInv'
  <2>1. /\ pc[th] = "save"
        /\ pc'[th] = IF target[th] = "journal" /\ rwLock[ProcessOf[th]] = th
                       THEN "announced" ELSE "idle"
        /\ \A other \in Thread \ {th} :
             /\ pc'[other] = pc[other] /\ target'[other] = target[other]
             /\ dump'[other] = dump[other]
        /\ \A other \in Thread :
             rwLock'[ProcessOf[other]] = other => rwLock[ProcessOf[other]] = other
        /\ target[th] = "global" => rwLock'[ProcessOf[th]] = None
        /\ UNCHANGED <<list, global, faults>>
    BY <1>2 DEF RowInv, Shape, Save, Return, Forget, GoTo, process
  <2>2. row'.journal = IF target[th] = "journal" THEN dump[th] ELSE row.journal
    BY <1>2, SaveJournal
  <2>3. target[th] = "journal" => th \in Runner
    BY <2>1 DEF StreamInv, Merging
  <2>4. target[th] \in Section => rwLock[ProcessOf[th]] # th
    BY <2>1, NotWriting DEF Merging
  <2>5. target[th] \in Section \cup {"journal", "global"}
    BY DEF RowInv, Shape, Target
  <2> QED BY <1>a, <2>1, <2>2, <2>3, <2>4, <2>5 DEF AnnouncedInv, Merging
<1>3. ASSUME NEW th \in Thread, MergeFails(th) \/ FetchFails(th) PROVE AnnouncedInv'
  <2>1. faults' = faults + 1
    BY <1>3 DEF MergeFails, FetchFails, Fault
  <2> QED BY <2>1 DEF StreamInv, AnnouncedInv
<1>4. ASSUME NEW th \in Thread, Publish(th) PROVE AnnouncedInv'
  <2>1. th \in Runner /\ rwLock' = rwLock
    BY <1>4 DEF Publish
  <2>2. rwLock[ProcessOf[th]] # th
    BY <1>4, NotWriting DEF Publish
  <2> QED BY <1>a, <2>1, <2>2 DEF AnnouncedInv
<1>5. ASSUME NEW th \in Thread, Announce(th) \/ AnnounceMore(th)
      PROVE  AnnouncedInv'
  <2>1. /\ pc[th] \in {"announce", "announced"}
        /\ pc' = [pc EXCEPT ![th] = "append"]
        /\ AppendEvent(ProcessOf[th], global[ProcessOf[th]])
        /\ UNCHANGED <<row, global, target, dump, rwLock, faults>>
    BY <1>5 DEF Announce, AnnounceMore, GoTo
  <2>2. th \in Runner
    BY <2>1 DEF StreamInv
  <2>3. Announces(list'[ProcessOf[th]], global'[ProcessOf[th]])
    <3>1. /\ list[ProcessOf[th]] \in Stream /\ count \in Nat
          /\ global[ProcessOf[th]] \in Nat
      BY DEF RowInv, Shape, StreamInv
    <3>2. list'[ProcessOf[th]] = Append(list[ProcessOf[th]],
            [id |-> count + 1, version |-> global[ProcessOf[th]]])
      BY <2>1 DEF StreamInv, AppendEvent
    <3> QED BY <2>1, <3>1, <3>2, Appended
  <2>4. pc'[th] = "append"
    BY <2>1 DEF RowInv, Shape
  <2> QED BY <1>a, <2>1, <2>2, <2>3, <2>4 DEF AnnouncedInv, Merging
<1>6. ASSUME NEW th \in Thread, SetStatus(th) PROVE AnnouncedInv'
  <2>1. /\ pc'[th] = "announce" /\ th \in Runner
        /\ \A p \in Process : rwLock'[p] = th
    BY <1>6 DEF RowInv, Shape, SetStatus, GoTo, OneProcess
  <2> QED BY <2>1 DEF AnnouncedInv, Merging
<1>7. ASSUME NEW th \in Thread, Snapshot(th) PROVE AnnouncedInv'
  <2>1. /\ pc[th] = "append" /\ pc'[th] = "load"
        /\ target'[th] = "journal" /\ dump'[th] = list[ProcessOf[th]]
        /\ UNCHANGED <<row, list, global, rwLock, faults>>
    BY <1>7 DEF RowInv, Shape, Snapshot, Merge, GoTo, process
  <2>2. th \in Runner
    BY <2>1 DEF StreamInv
  <2> QED BY <1>a, <2>1, <2>2 DEF AnnouncedInv, Merging
<1>8. ASSUME NEW th \in Thread, PersistStatus(th) PROVE AnnouncedInv'
  <2>1. /\ pc[th] = "announced" /\ pc'[th] = "load" /\ target'[th] = "global"
        /\ UNCHANGED <<row, list, global, rwLock, faults>>
    BY <1>8 DEF RowInv, Shape, PersistStatus, MayPersist, Merge, GoTo, process
  <2>2. th \in Runner
    BY <2>1 DEF StreamInv
  <2> QED BY <1>a, <2>1, <2>2 DEF AnnouncedInv, Merging
<1>9. ASSUME NEW th \in Thread,
             \/ Persist(th) \/ Fetch(th) \/ Fill(th)
             \/ \E s \in Section : Miss(th, s) \/ Edit(th, s)
      PROVE  AnnouncedInv'
  <2>1. /\ pc[th] \in {"idle", "missed", "fetched", "edited"}
        /\ \A other \in Thread \ {th} :
             /\ pc'[other] = pc[other] /\ target'[other] = target[other]
             /\ dump'[other] = dump[other]
        /\ UNCHANGED <<row, list, global, rwLock, faults>>
    <3>1. CASE Persist(th)
      BY <3>1 DEF RowInv, Shape, Persist, Merge, GoTo, process
    <3>2. CASE Fetch(th)
      BY <3>2 DEF RowInv, Shape, Fetch, GoTo, process
    <3>3. CASE Fill(th)
      BY <3>3 DEF RowInv, Shape, Fill, Forget, GoTo
    <3>4. CASE \E s \in Section : Miss(th, s) \/ Edit(th, s)
      BY <3>4 DEF RowInv, Shape, Miss, Edit, MayEdit, GoTo, process
    <3> QED BY <1>9, <3>1, <3>2, <3>3, <3>4
  <2>2. rwLock[ProcessOf[th]] # th
    BY <2>1, NotWriting
  <2> QED BY <2>1, <2>2 DEF AnnouncedInv, Merging
<1>10. ASSUME NEW p \in Process, GetTaskState(p) PROVE AnnouncedInv'
  <2>1. \A th \in Thread : rwLock'[ProcessOf[th]] # th
    BY <1>10 DEF GetTaskState, thread, OneProcess
  <2> QED BY <2>1 DEF AnnouncedInv
<1>11. ASSUME NEW p \in Process, ReadEvents(p) PROVE AnnouncedInv'
  <2>1. \A th \in Thread :
          pc[th] = "append" => list'[ProcessOf[th]] = list[ProcessOf[th]]
    BY <1>11 DEF StreamInv, ReadEvents, Records
  <2>2. UNCHANGED <<row, global, thread, faults>>
    BY <1>11 DEF ReadEvents
  <2> QED BY <2>1, <2>2 DEF AnnouncedInv, Merging, thread
<1>12. ASSUME NEW p \in Process, Crash(p) PROVE AnnouncedInv'
  <2>1. \A th \in Thread : rwLock'[ProcessOf[th]] # th
    BY <1>12 DEF RowInv, Shape, Crash, OneProcess
  <2> QED BY <2>1 DEF AnnouncedInv
<1> QED
  BY <1>0, <1>1, <1>2, <1>3, <1>4, <1>5, <1>6, <1>7, <1>8, <1>9, <1>10, <1>11,
     <1>12, Actions

\* update_global_status: when a status reaches the row, the stream in the row
\* announces it, whatever crashes in between, as long as no call has failed.
THEOREM AnnouncedBeforeRow ==
  ASSUME OneProcess, OneRunner
  PROVE  Spec => StatusAnnouncedFirst
<1> DEFINE Announced ==
      faults = 0 /\ row'.global # row.global
        => \E i \in DOMAIN row'.journal :
             row'.journal[i].version = row'.global
<1>1. Init => StreamInv /\ AnnouncedInv
  <2> SUFFICES ASSUME Init PROVE StreamInv /\ AnnouncedInv
    OBVIOUS
  <2>1. StreamInv
    BY RowParameters, Owners DEF Init, StreamInv, Stream, Merging, EmptyRow
  <2>2. AnnouncedInv
    BY Owners DEF Init, AnnouncedInv
  <2> QED BY <2>1, <2>2
<1>2. RowInv /\ StreamInv /\ AnnouncedInv /\ [Next]_vars
        => StreamInv' /\ AnnouncedInv'
  BY StreamInvStep, AnnouncedInvStep
<1>3. ASSUME RowInv, AnnouncedInv, [Next]_vars PROVE Announced
  <2> SUFFICES ASSUME faults = 0, row'.global # row.global
               PROVE  Announces(row'.journal, row'.global)
    BY DEF Announces
  <2>1. PICK th \in Thread : Save(th)
    BY <1>3, OnlySavesWrite
  <2>2. target[th] = "global" /\ row'.global = dump[th]
    BY <1>3, <2>1, SaveUpdates
  <2>3. row'.journal = row.journal
    BY <1>3, <2>1, <2>2, SaveJournal
  <2>4. Merging(th)
    BY <2>1 DEF Save, Merging
  <2>5. rwLock[ProcessOf[th]] = th /\ dump[th] = global[ProcessOf[th]]
    BY <1>3, <2>2, <2>4 DEF RowInv, Holder
  <2> QED BY <1>3, <2>2, <2>3, <2>4, <2>5 DEF AnnouncedInv
<1>4. RowInv /\ AnnouncedInv /\ [Next]_vars => [Announced]_vars
  BY <1>3
<1>5. Spec => [][Announced]_vars
  BY <1>1, <1>2, <1>4, RowInvHolds, PTL DEF Spec
<1> QED BY <1>5 DEF StatusAnnouncedFirst

-----------------------------------------------------------------------------
(* The client's list *)

LEMMA LessIs ==
  \A x, y \in Nat : <<x, y>> \in OpToRel(<, Nat) <=> x < y
BY DEF OpToRel

\* A set that holds 0 and the successors of its members holds every number.
LEMMA SetInduction ==
  ASSUME NEW S, 0 \in S, \A n \in S : n \in Nat => n + 1 \in S
  PROVE  Nat \subseteq S
<1> DEFINE T == Nat \ S
<1> SUFFICES ASSUME T # {} PROVE FALSE
  OBVIOUS
<1>1. PICK x \in T : \A y \in T : ~ (<<y, x>> \in OpToRel(<, Nat))
  <2>1. T \subseteq Nat
    OBVIOUS
  <2> QED BY <2>1, NatLessThanWellFounded, WFMin
<1>2. x # 0
  OBVIOUS
<1>3. x - 1 \in Nat /\ x - 1 < x
  BY <1>2
<1>4. x - 1 \in S
  BY <1>1, <1>3, LessIs
<1>5. (x - 1) + 1 = x
  OBVIOUS
<1>6. x \in S
  BY <1>3, <1>4, <1>5
<1> QED BY <1>6

Unfolds(g, X, n, b, step) ==
  /\ g \in [0 .. n -> X] /\ g[0] = b
  /\ \A i \in 1 .. n : g[i] = step[<<g[i - 1], i>>]

\* A function over 0 .. n with a given first value and a given step exists.
LEMMA Recursion ==
  ASSUME NEW n \in Nat, NEW X, NEW b \in X, NEW step \in [X \X (1 .. n) -> X]
  PROVE  \E g : Unfolds(g, X, n, b, step)
<1> DEFINE Fits(g, k) == /\ g \in [0 .. k -> X] /\ g[0] = b
                         /\ \A i \in 1 .. k : g[i] = step[<<g[i - 1], i>>]
           K == {k \in Nat : k <= n => \E g : Fits(g, k)}
<1>1. 0 \in K
  <2>1. Fits([i \in 0 .. 0 |-> b], 0)
    OBVIOUS
  <2> QED BY <2>1
<1>2. ASSUME NEW k \in K PROVE k + 1 \in K
  <2> SUFFICES ASSUME k + 1 <= n PROVE \E g : Fits(g, k + 1)
    OBVIOUS
  <2>1. PICK g : Fits(g, k)
    OBVIOUS
  <2> DEFINE h == [i \in 0 .. (k + 1) |-> IF i = k + 1 THEN step[<<g[k], k + 1>>] ELSE g[i]]
  <2>2. g[k] \in X /\ k + 1 \in 1 .. n
    BY <2>1
  <2>3. step[<<g[k], k + 1>>] \in X
    BY <2>2
  <2>4. h \in [0 .. (k + 1) -> X]
    BY <2>1, <2>3
  <2>5. h[0] = b
    BY <2>1
  <2>6. ASSUME NEW i \in 1 .. (k + 1) PROVE h[i] = step[<<h[i - 1], i>>]
    <3>1. CASE i = k + 1
      <4>1. i - 1 = k /\ k \in 0 .. (k + 1) /\ k # k + 1
        BY <3>1
      <4>2. h[i - 1] = g[k] /\ h[i] = step[<<g[k], k + 1>>]
        BY <3>1, <4>1
      <4> QED BY <3>1, <4>2
    <3>2. CASE i \in 1 .. k
      BY <3>2, <2>1
    <3> QED BY <3>1, <3>2
  <2> QED BY <2>4, <2>5, <2>6
<1> HIDE DEF Fits
<1>3. Nat \subseteq K
  BY <1>1, <1>2, SetInduction
<1>4. PICK g : Fits(g, n)
  BY <1>3
<1> QED BY <1>4 DEF Fits, Unfolds

\* Whatever relates every element of seq to the later ones relates those that
\* are picked.
LEMMA PickedInOrder ==
  ASSUME NEW S, NEW seq \in Seq(S), NEW I, NEW R,
         \A i, j \in DOMAIN seq : i < j => <<seq[i], seq[j]>> \in R
  PROVE  /\ Picked(seq, I) \in Seq(S)
         /\ \A k \in DOMAIN Picked(seq, I) : \E i \in DOMAIN seq : Picked(seq, I)[k] = seq[i]
         /\ \A k, l \in DOMAIN Picked(seq, I) :
              k < l => <<Picked(seq, I)[k], Picked(seq, I)[l]>> \in R
<1> DEFINE L == Len(seq)
           body(f) == [n \in 0 .. L |->
                         IF n = 0 THEN <<>>
                         ELSE IF n \in I THEN Append(f[n - 1], seq[n]) ELSE f[n - 1]]
           p == CHOOSE f : f = body(f)
<1>1. Picked(seq, I) = p[L]
  BY DEF Picked
<1>2. L \in Nat /\ DOMAIN seq = 1 .. L
  OBVIOUS
<1>3. p = body(p)
  <2> DEFINE step == [a \in Seq(S) \X (1 .. L) |->
                        IF a[2] \in I THEN Append(a[1], seq[a[2]]) ELSE a[1]]
  <2>1. step \in [Seq(S) \X (1 .. L) -> Seq(S)]
    OBVIOUS
  <2>2. <<>> \in Seq(S)
    OBVIOUS
  <2> HIDE DEF step, L
  <2>3. PICK g : Unfolds(g, Seq(S), L, <<>>, step)
    BY <1>2, <2>1, <2>2, Recursion
  <2>4. ASSUME NEW i \in 1 .. L
        PROVE  g[i] = IF i \in I THEN Append(g[i - 1], seq[i]) ELSE g[i - 1]
    <3>1. i - 1 \in 0 .. L
      BY <1>2
    <3>2. g[i - 1] \in Seq(S)
      BY <2>3, <3>1 DEF Unfolds
    <3> QED BY <2>3, <3>2 DEF step, Unfolds
  <2>5. g = [n \in 0 .. L |-> g[n]]
    BY <2>3 DEF Unfolds
  <2>6. \A n \in 0 .. L : n # 0 => n \in 1 .. L
    BY <1>2
  <2>7. g = body(g)
    BY <2>3, <2>4, <2>5, <2>6 DEF Unfolds
  <2> QED BY <2>7
<1> HIDE DEF p, L
<1>4. p[0] = <<>>
  BY <1>2, <1>3
<1>5. ASSUME NEW n \in 1 .. L
      PROVE  p[n] = IF n \in I THEN Append(p[n - 1], seq[n]) ELSE p[n - 1]
  <2>1. n \in 0 .. L /\ n # 0
    BY <1>2
  <2>2. body(p)[n] = IF n \in I THEN Append(p[n - 1], seq[n]) ELSE p[n - 1]
    BY <2>1
  <2> QED BY <1>3, <2>2
<1> DEFINE Good(n) == /\ p[n] \in Seq(S)
                      /\ \A k \in DOMAIN p[n] : \E i \in 1 .. n : p[n][k] = seq[i]
                      /\ \A k, l \in DOMAIN p[n] : k < l => <<p[n][k], p[n][l]>> \in R
           K == {n \in Nat : n <= L => Good(n)}
<1>6. 0 \in K
  <2>1. p[0] \in Seq(S) /\ DOMAIN p[0] = {}
    BY <1>4
  <2> QED BY <2>1
<1>7. ASSUME NEW n \in K PROVE n + 1 \in K
  <2> SUFFICES ASSUME n + 1 <= L PROVE Good(n + 1)
    OBVIOUS
  <2>1. Good(n) /\ n + 1 \in 1 .. L /\ (n + 1) - 1 = n
    BY <1>2
  <2>2. CASE n + 1 \notin I
    <3>1. p[n + 1] = p[n]
      BY <2>1, <2>2, <1>5
    <3>2. \A i \in 1 .. n : i \in 1 .. (n + 1)
      BY <2>1
    <3> QED BY <2>1, <3>1, <3>2
  <2>3. CASE n + 1 \in I
    <3>1. p[n + 1] = Append(p[n], seq[n + 1])
      BY <2>1, <2>3, <1>5
    <3> DEFINE q == p[n]
               x == seq[n + 1]
    <3>2. q \in Seq(S) /\ x \in S /\ p[n + 1] = Append(q, x)
      BY <2>1, <1>2, <3>1
    <3>3. /\ p[n + 1] \in Seq(S) /\ DOMAIN p[n + 1] = 1 .. (Len(q) + 1)
          /\ p[n + 1][Len(q) + 1] = x
          /\ \A k \in 1 .. Len(q) : p[n + 1][k] = q[k]
          /\ DOMAIN q = 1 .. Len(q) /\ Len(q) \in Nat
      <4> HIDE DEF q, x
      <4> QED BY <3>2
    <3>4. \A k \in DOMAIN q : \E i \in 1 .. n : q[k] = seq[i]
      BY <2>1
    <3>5. \A k, l \in DOMAIN q : k < l => <<q[k], q[l]>> \in R
      BY <2>1
    <3> HIDE DEF q, x
    <3>6. ASSUME NEW k \in DOMAIN p[n + 1]
          PROVE  \E i \in 1 .. (n + 1) : p[n + 1][k] = seq[i]
      <4>1. CASE k = Len(q) + 1
        BY <4>1, <3>3, <2>1 DEF x
      <4>2. CASE k \in 1 .. Len(q)
        BY <4>2, <3>3, <3>4
      <4> QED BY <4>1, <4>2, <3>3
    <3>7. ASSUME NEW k \in DOMAIN p[n + 1], NEW l \in DOMAIN p[n + 1], k < l
          PROVE  <<p[n + 1][k], p[n + 1][l]>> \in R
      <4>1. k \in 1 .. Len(q)
        BY <3>3, <3>7
      <4>2. CASE l = Len(q) + 1
        <5>1. PICK i \in 1 .. n : q[k] = seq[i]
          BY <3>3, <3>4, <4>1
        <5>2. i \in DOMAIN seq /\ n + 1 \in DOMAIN seq /\ i < n + 1
          BY <2>1, <1>2
        <5>3. <<seq[i], seq[n + 1]>> \in R
          BY <5>2
        <5> QED BY <3>3, <4>1, <4>2, <5>1, <5>3 DEF x
      <4>3. CASE l \in 1 .. Len(q)
        BY <3>3, <3>5, <3>7, <4>1, <4>3
      <4> QED BY <3>3, <4>2, <4>3
    <3> QED BY <3>3, <3>6, <3>7
  <2> QED BY <2>2, <2>3
<1> HIDE DEF Good
<1>8. Nat \subseteq K
  BY <1>6, <1>7, SetInduction
<1>9. Good(L)
  BY <1>2, <1>8
<1> QED BY <1>1, <1>2, <1>9 DEF Good

LEMMA ElementsOf ==
  ASSUME NEW T, NEW n \in Nat, NEW s \in [1 .. n -> T]
  PROVE  s \in Seq(T)
OBVIOUS

LEMMA SeqGrows ==
  ASSUME NEW S, NEW T, S \subseteq T, NEW s \in Seq(S)
  PROVE  s \in Seq(T) /\ \A i \in DOMAIN s : s[i] \in S
<1>1. Len(s) \in Nat /\ DOMAIN s = 1 .. Len(s) /\ s = [i \in 1 .. Len(s) |-> s[i]]
  OBVIOUS
<1>2. \A i \in 1 .. Len(s) : s[i] \in S
  OBVIOUS
<1>3. s \in [1 .. Len(s) -> T]
  BY <1>1, <1>2
<1> QED BY <1>1, <1>2, <1>3, ElementsOf

\* Events in the order of their publication, of the first n.
InOrder(s, n) ==
  /\ s \in Seq([id : 1 .. n, version : Nat])
  /\ \A i, j \in DOMAIN s : i < j => s[i].id < s[j].id

Stored(r, n) == IsRow(r) /\ r.global \in Nat /\ InOrder(r.journal, n)

\* What a thread at place is about to merge into section t.
Bound(place, t, v, n) ==
  place \in {"load", "save"} => /\ t = "journal" => InOrder(v, n)
                                /\ t = "global" => v \in Nat

OrderTypes ==
  /\ count \in Nat /\ version \in Nat
  /\ global \in [Process -> Nat]
  /\ pc \in [Thread -> Place] /\ target \in [Thread -> Target]
  /\ DOMAIN list = Process /\ DOMAIN copy = Thread
  /\ dump = [th \in Thread |-> dump[th]]
  /\ \A th \in Thread : pc[th] \in {"missed", "fetched", "edited"} => target[th] \in Section

\* Every list, in memory, on its way and in the row, is in order.
OrderInv ==
  /\ OrderTypes
  /\ Stored(row, count) /\ \A th \in Thread : Stored(copy[th], count)
  /\ \A p \in Process : InOrder(list[p], count)
  /\ \A th \in Thread : Bound(pc[th], target[th], dump[th], count)

\* What the client shows is in order and has been published.
ShownInv == seen \in Seq(1 .. count) /\ SeenInOrder

LEMMA OrderStays ==
  ASSUME NEW n \in Nat
  PROVE  /\ \A s : InOrder(s, n) => InOrder(s, n + 1)
         /\ \A r : Stored(r, n) => Stored(r, n + 1)
         /\ \A a, t, v : Bound(a, t, v, n) => Bound(a, t, v, n + 1)
<1>1. ASSUME NEW s, InOrder(s, n) PROVE InOrder(s, n + 1)
  <2>1. [id : 1 .. n, version : Nat] \subseteq [id : 1 .. (n + 1), version : Nat]
    OBVIOUS
  <2>2. s \in Seq([id : 1 .. (n + 1), version : Nat])
    BY <1>1, <2>1, SeqGrows DEF InOrder
  <2> QED BY <1>1, <2>2 DEF InOrder
<1> QED BY <1>1 DEF Stored, Bound

LEMMA OrderAppends ==
  ASSUME NEW n \in Nat, NEW v \in Nat, NEW s, InOrder(s, n)
  PROVE  InOrder(Append(s, [id |-> n + 1, version |-> v]), n + 1)
<1> DEFINE X == [id : 1 .. (n + 1), version : Nat]
           e == [id |-> n + 1, version |-> v]
           q == Append(s, e)
<1>1. e \in X /\ e.id = n + 1
  OBVIOUS
<1>2. InOrder(s, n + 1)
  BY OrderStays
<1>3. s \in Seq(X) /\ \A i, j \in DOMAIN s : i < j => s[i].id < s[j].id
  BY <1>2 DEF InOrder
<1>4. \A i \in DOMAIN s : s[i].id \in 1 .. n
  <2>1. \A i \in DOMAIN s : s[i] \in [id : 1 .. n, version : Nat]
    BY SeqGrows DEF InOrder
  <2> QED BY <2>1
<1> HIDE DEF X, e
<1>5. /\ q \in Seq(X) /\ DOMAIN q = 1 .. (Len(s) + 1) /\ q[Len(s) + 1] = e
      /\ DOMAIN s = 1 .. Len(s) /\ \A i \in 1 .. Len(s) : q[i] = s[i]
      /\ Len(s) \in Nat
  BY <1>1, <1>3
<1>6. ASSUME NEW i \in DOMAIN q, NEW j \in DOMAIN q, i < j PROVE q[i].id < q[j].id
  <2>1. i \in DOMAIN s /\ q[i] = s[i]
    BY <1>5, <1>6
  <2>2. CASE j = Len(s) + 1
    <3>1. s[i].id \in 1 .. n
      BY <1>4, <2>1
    <3> QED BY <1>1, <1>5, <2>1, <2>2, <3>1
  <2>3. CASE j \in DOMAIN s
    BY <1>3, <1>5, <1>6, <2>1, <2>3
  <2> QED BY <1>5, <2>2, <2>3
<1> QED BY <1>5, <1>6 DEF InOrder, X, e

LEMMA UpdatedStored ==
  ASSUME NEW n, NEW r, Stored(r, n), NEW t \in Target, NEW v, Bound("save", t, v, n)
  PROVE  Stored(Updated(r, t, v), n)
<1>1. IsRow(r)
  BY DEF Stored
<1>2. /\ IsRow(Updated(r, t, v))
      /\ Updated(r, t, v).global = IF t = "global" THEN v ELSE r.global
  BY <1>1, UpdatedFields
<1>3. Updated(r, t, v).journal = IF t = "journal" THEN v ELSE r.journal
  BY <1>1, Owners, SMTT(60) DEF Updated, IsRow, Target
<1> QED BY <1>2, <1>3 DEF Stored, Bound

\* The events of an answer are in order and later than all that are shown.
LEMMA AnswerInOrder ==
  ASSUME OrderInv, ShownInv, NEW p \in Process
  PROVE  /\ InOrder(Answer(p), count)
         /\ \A i \in DOMAIN Answer(p), j \in DOMAIN seen : seen[j] < Answer(p)[i].id
<1> DEFINE s == Records(p)
           X == [id : 1 .. count, version : Nat]
<1>1. InOrder(s, count)
  BY DEF OrderInv, Records, Stored
<1>2. seen \in Seq(Nat) /\ \A i, j \in DOMAIN seen : i < j => seen[i] < seen[j]
  <2>1. 1 .. count \subseteq Nat
    OBVIOUS
  <2> QED BY <2>1, SeqGrows DEF ShownInv, SeenInOrder
<1> HIDE DEF s, X
<1>3. CASE seen = <<>>
  <2>1. Answer(p) = s
    BY <1>3 DEF Answer, s
  <2> QED BY <1>1, <1>3, <2>1
<1>4. CASE seen # <<>>
  <2> DEFINE last == seen[Len(seen)]
             at == {i \in DOMAIN s : s[i].id = last}
  <2>1. Answer(p) = IF at = {} THEN <<>> ELSE SubSeq(s, Min(at) + 1, Len(s))
    BY <1>4 DEF Answer, After, Last, s
  <2>2. CASE at = {}
    <3>1. Answer(p) = <<>>
      BY <2>1, <2>2
    <3> QED BY <3>1 DEF InOrder
  <2>3. CASE at # {}
    <3>1. s \in Seq(X) /\ \A i, j \in DOMAIN s : i < j => s[i].id < s[j].id
      BY <1>1 DEF InOrder, X
    <3>2. \A i \in DOMAIN s : s[i].id \in Nat
      <4>1. \A i \in DOMAIN s : s[i] \in X
        BY <3>1, SeqGrows
      <4>2. 1 .. count \subseteq Nat
        OBVIOUS
      <4> QED BY <4>1, <4>2 DEF X
    <3>3. PICK m \in at : TRUE
      BY <2>3
    <3>4. m \in DOMAIN s /\ s[m].id = last /\ DOMAIN s = 1 .. Len(s) /\ Len(s) \in Nat
      BY <3>1, <3>3
    <3>5. \A i \in at : i = m
      <4> SUFFICES ASSUME NEW i \in at, i # m PROVE FALSE
        OBVIOUS
      <4>1. i \in DOMAIN s /\ s[i].id = s[m].id /\ (i < m \/ m < i)
        BY <3>4
      <4> QED BY <3>1, <3>2, <3>4, <4>1
    <3>6. Min(at) = m
      <4>1. \A i \in at : m <= i
        BY <3>4, <3>5
      <4> QED BY <3>3, <3>5, <4>1 DEF Min
    <3> DEFINE a == SubSeq(s, m + 1, Len(s))
    <3>7. Answer(p) = a
      BY <2>1, <2>3, <3>6
    <3>8. a \in Seq(X) /\ \A i \in DOMAIN a : m + i \in DOMAIN s /\ a[i] = s[m + i]
      <4> HIDE DEF at, last
      <4>1. m \in 1 .. Len(s) /\ s \in Seq(X)
        BY <3>1, <3>4
      <4>2. /\ DOMAIN a = 1 .. (Len(s) - m) 
            /\ \A i \in 1 .. (Len(s) - m) : a[i] = s[m + i]
        BY <4>1, <3>4
      <4>3. a \in Seq(X)
        BY <4>1, <3>4
      <4> QED BY <4>2, <4>3, <4>1, <3>4
    <3>9. DOMAIN a \subseteq Nat \ {0}
      BY <3>8
    <3> HIDE DEF a, at, last
    <3>10. \A i, j \in DOMAIN a : i < j => a[i].id < a[j].id
      <4> SUFFICES ASSUME NEW i \in DOMAIN a, NEW j \in DOMAIN a, i < j
                   PROVE  a[i].id < a[j].id
        OBVIOUS
      <4>1. m + i < m + j
        BY <3>4, <3>9
      <4> QED BY <3>1, <3>8, <4>1
    <3>11. ASSUME NEW i \in DOMAIN a, NEW j \in DOMAIN seen PROVE seen[j] < a[i].id
      <4>1. m < m + i /\ m \in Nat /\ i \in Nat
        BY <3>4, <3>9
      <4>2. s[m].id < s[m + i].id
        BY <3>1, <3>4, <3>8, <4>1
      <4>3. seen[j] <= last
        <5>1. Len(seen) \in DOMAIN seen /\ (j = Len(seen) \/ j < Len(seen))
          BY <1>2, <1>4
        <5>2. seen[j] \in Nat /\ seen[Len(seen)] \in Nat
          BY <1>2, <5>1
        <5> QED BY <1>2, <5>1, <5>2 DEF last
      <4>4. seen[j] \in Nat /\ s[m].id \in Nat /\ s[m + i].id \in Nat /\ a[i] = s[m + i]
        BY <1>2, <3>2, <3>4, <3>8
      <4> QED BY <4>2, <4>3, <4>4, <3>4
    <3> QED BY <3>7, <3>8, <3>10, <3>11 DEF InOrder, X
  <2> QED BY <2>2, <2>3
<1> QED BY <1>3, <1>4

LEMMA OrderInit ==
  ASSUME Init
  PROVE  OrderInv /\ ShownInv
<1>1. InOrder(<<>>, 0) /\ Stored(EmptyRow, 0)
  BY DEF InOrder, Stored, EmptyRow, IsRow
<1>2. OrderInv
  BY <1>1 DEF Init, OrderInv, OrderTypes, EmptyRow, Bound, Place, Target
<1> QED BY <1>2 DEF Init, ShownInv, SeenInOrder

\* A thread that merges next, with a value in order.
LEMMA OrderMerge ==
  ASSUME OrderInv, NEW th \in Thread, NEW t \in Target, NEW v, Merge(th, t, v),
         Bound("load", t, v, count), UNCHANGED <<row, process, copy, count, version>>
  PROVE  OrderInv'
<1>1. /\ pc' = [pc EXCEPT ![th] = "load"] /\ target' = [target EXCEPT ![th] = t]
      /\ dump' = [dump EXCEPT ![th] = v]
  BY DEF Merge, GoTo
<1>2. OrderTypes'
  BY <1>1 DEF OrderInv, OrderTypes, Place, process
<1>3. \A u \in Thread : Bound(pc[u], target[u], dump[u], count)'
  BY <1>1 DEF OrderInv, OrderTypes
<1> QED BY <1>2, <1>3 DEF OrderInv, process

\* A thread that leaves the merge, or gives up its section.
LEMMA OrderLeave ==
  ASSUME OrderInv, NEW th \in Thread, Forget({th}), UNCHANGED <<list, global, count, version>>,
         Stored(row', count),
         \E place \in {"idle", "announced"} : pc' = [pc EXCEPT ![th] = place]
  PROVE  OrderInv'
<1>1. PICK place \in {"idle", "announced"} : pc' = [pc EXCEPT ![th] = place]
  OBVIOUS
<1>2. /\ target' = [u \in Thread |-> IF u = th THEN "journal" ELSE target[u]]
      /\ dump' = [u \in Thread |-> IF u = th THEN <<>> ELSE dump[u]]
      /\ copy' = [u \in Thread |-> IF u = th THEN EmptyRow ELSE copy[u]]
  BY DEF Forget
<1>3. OrderTypes'
  BY <1>1, <1>2 DEF OrderInv, OrderTypes, Place, Target
<1>4. Stored(EmptyRow, count)
  BY DEF Stored, EmptyRow, IsRow, InOrder
<1>5. \A u \in Thread : Stored(copy[u], count)'
  BY <1>2, <1>4 DEF OrderInv
<1>6. \A u \in Thread : Bound(pc[u], target[u], dump[u], count)'
  BY <1>1, <1>2 DEF OrderInv, OrderTypes, Bound
<1> QED BY <1>3, <1>5, <1>6 DEF OrderInv

\* A thread that moves outside of the merge, with its section.
LEMMA OrderMove ==
  ASSUME OrderInv, NEW th \in Thread, NEW place \in Place \ {"load", "save"},
         NEW t \in Target, NEW v,
         pc' = [pc EXCEPT ![th] = place],
         target' = [target EXCEPT ![th] = t], dump' = [dump EXCEPT ![th] = v],
         place \in {"missed", "fetched", "edited"} => t \in Section,
         UNCHANGED <<row, list, global, copy, count, version>>
  PROVE  OrderInv'
<1>1. OrderTypes'
  BY DEF OrderInv, OrderTypes
<1>2. \A u \in Thread : Bound(pc[u], target[u], dump[u], count)'
  BY DEF OrderInv, OrderTypes, Bound
<1> QED BY <1>1, <1>2 DEF OrderInv

\* An event is published.
LEMMA OrderAppend ==
  ASSUME OrderInv, NEW th \in Thread, NEW v \in Nat, AppendEvent(ProcessOf[th], v),
         GoTo(th, "append"), UNCHANGED <<row, global, target, dump, copy, version>>
  PROVE  OrderInv'
<1> DEFINE p == ProcessOf[th]
           e == [id |-> count + 1, version |-> v]
<1>1. /\ count \in Nat /\ count' = count + 1 /\ p \in Process
      /\ list' = [list EXCEPT ![p] = Append(list[p], e)]
      /\ pc' = [pc EXCEPT ![th] = "append"]
  BY Owners DEF AppendEvent, GoTo, OrderInv, OrderTypes
<1>2. InOrder(Append(list[p], e), count + 1)
  BY <1>1, OrderAppends DEF OrderInv
<1>3. /\ Stored(row', count')
      /\ \A u \in Thread : Stored(copy'[u], count')
      /\ \A q \in Process : InOrder(list[q], count')
      /\ \A u \in Thread : Bound(pc[u], target[u], dump[u], count')
  BY <1>1, OrderStays DEF OrderInv
<1> HIDE DEF p, e
<1>4. OrderTypes'
  BY <1>1 DEF OrderInv, OrderTypes, Place
<1>5. \A q \in Process : InOrder(list[q], count)'
  BY <1>1, <1>2, <1>3 DEF OrderInv, OrderTypes
<1>6. \A u \in Thread : Bound(pc[u], target[u], dump[u], count)'
  BY <1>1, <1>3 DEF OrderInv, OrderTypes, Bound
<1> QED BY <1>3, <1>4, <1>5, <1>6 DEF OrderInv

LEMMA OrderStep ==
  ASSUME OrderInv, ShownInv, [Next]_vars
  PROVE  OrderInv'
<1> USE Owners
<1>t. OrderTypes
  BY DEF OrderInv
<1>0. CASE UNCHANGED rest
  BY <1>0 DEF OrderInv, OrderTypes, rest, thread, process
<1>1. ASSUME NEW th \in Thread, Load(th) PROVE OrderInv'
  <2>1. /\ pc[th] = "load" /\ pc' = [pc EXCEPT ![th] = "save"]
        /\ copy' = [copy EXCEPT ![th] = row]
        /\ UNCHANGED <<row, list, global, target, dump, count, version>>
    BY <1>1 DEF Load, GoTo, process
  <2>2. OrderTypes'
    BY <1>t, <2>1 DEF OrderTypes, Place
  <2>3. \A u \in Thread : Stored(copy[u], count)'
    BY <1>t, <2>1 DEF OrderInv, OrderTypes
  <2>4. \A u \in Thread : Bound(pc[u], target[u], dump[u], count)'
    BY <1>t, <2>1 DEF OrderInv, OrderTypes, Bound
  <2> QED BY <2>1, <2>2, <2>3, <2>4 DEF OrderInv
<1>2. ASSUME NEW th \in Thread, Save(th) PROVE OrderInv'
  <2>1. pc[th] = "save" /\ row' = Updated(copy[th], target[th], dump[th])
    BY <1>2 DEF Save
  <2>2. Stored(copy[th], count) /\ target[th] \in Target
        /\ Bound("save", target[th], dump[th], count)
    BY <1>t, <2>1 DEF OrderInv, OrderTypes
  <2>3. Stored(row', count)
    BY <2>1, <2>2, UpdatedStored
  <2>4. /\ Forget({th}) /\ UNCHANGED <<list, global, count, version>>
        /\ \E place \in {"idle", "announced"} : pc' = [pc EXCEPT ![th] = place]
    BY <1>2 DEF Save, Return, GoTo, process
  <2> QED BY <2>3, <2>4, OrderLeave
<1>3. ASSUME NEW th \in Thread, MergeFails(th) PROVE OrderInv'
  <2>1. /\ Forget({th}) /\ UNCHANGED <<row, list, global, count, version>>
        /\ \E place \in {"idle", "announced"} : pc' = [pc EXCEPT ![th] = place]
    BY <1>3 DEF MergeFails, Return, GoTo, process
  <2>2. Stored(row', count)
    BY <2>1 DEF OrderInv
  <2> QED BY <2>1, <2>2, OrderLeave
<1>4. ASSUME NEW th \in Thread, Publish(th) \/ Announce(th) \/ AnnounceMore(th)
      PROVE  OrderInv'
  <2>1. PICK v \in Nat : AppendEvent(ProcessOf[th], v)
    BY <1>4, <1>t DEF Publish, Announce, AnnounceMore, OrderTypes
  <2>2. GoTo(th, "append") /\ UNCHANGED <<row, global, target, dump, copy, version>>
    BY <1>4 DEF Publish, Announce, AnnounceMore
  <2> QED BY <2>1, <2>2, OrderAppend
<1>5. ASSUME NEW th \in Thread, Snapshot(th) PROVE OrderInv'
  <2>1. /\ Merge(th, "journal", list[ProcessOf[th]])
        /\ UNCHANGED <<row, process, copy, count, version>>
    BY <1>5 DEF Snapshot
  <2>2. Bound("load", "journal", list[ProcessOf[th]], count) /\ "journal" \in Target
    BY DEF OrderInv, Bound, Target
  <2> QED BY <2>1, <2>2, OrderMerge
<1>6. ASSUME NEW th \in Thread, SetStatus(th) PROVE OrderInv'
  <2>1. /\ pc' = [pc EXCEPT ![th] = "announce"]
        /\ global' = [global EXCEPT ![ProcessOf[th]] = version + 1]
        /\ version' = version + 1
        /\ UNCHANGED <<row, list, target, dump, copy, count>>
    BY <1>6 DEF SetStatus, GoTo
  <2>2. OrderTypes'
    BY <1>t, <2>1 DEF OrderTypes, Place
  <2>3. \A u \in Thread : Bound(pc[u], target[u], dump[u], count)'
    BY <1>t, <2>1 DEF OrderInv, OrderTypes, Bound
  <2> QED BY <2>1, <2>2, <2>3 DEF OrderInv
<1>7. ASSUME NEW th \in Thread, PersistStatus(th) PROVE OrderInv'
  <2>1. /\ Merge(th, "global", global[ProcessOf[th]])
        /\ UNCHANGED <<row, process, copy, count, version>>
    BY <1>7 DEF PersistStatus
  <2>2. Bound("load", "global", global[ProcessOf[th]], count) /\ "global" \in Target
    BY <1>t DEF OrderTypes, Bound, Target
  <2> QED BY <2>1, <2>2, OrderMerge
<1>8. ASSUME NEW th \in Thread, Persist(th) PROVE OrderInv'
  <2>1. /\ pc[th] = "edited"
        /\ Merge(th, target[th], board[ProcessOf[th]][target[th]])
        /\ UNCHANGED <<row, process, copy, count, version>>
    BY <1>8 DEF Persist
  <2>2. target[th] \in Section
    BY <1>t, <2>1 DEF OrderTypes
  <2>3. /\ Bound("load", target[th], board[ProcessOf[th]][target[th]], count)
        /\ target[th] \in Target
    BY <2>2 DEF Bound, Target
  <2> QED BY <2>1, <2>3, OrderMerge
<1>9. ASSUME NEW th \in Thread, Fetch(th) \/ FetchFails(th) PROVE OrderInv'
  <2>1. pc[th] = "missed" /\ pc' = [pc EXCEPT ![th] = "fetched"]
    BY <1>9 DEF Fetch, FetchFails, GoTo
  <2>2. target[th] \in Section /\ target[th] \in Target
    BY <1>t, <2>1 DEF OrderTypes, Target
  <2>3. /\ target' = [target EXCEPT ![th] = target[th]]
        /\ dump' = [dump EXCEPT ![th] = dump'[th]]
        /\ UNCHANGED <<row, list, global, copy, count, version>>
    BY <1>9, <1>t DEF Fetch, FetchFails, OrderTypes, process
  <2>4. "fetched" \in Place \ {"load", "save"}
    BY DEF Place
  <2> QED BY <2>1, <2>2, <2>3, <2>4, OrderMove
<1>10. ASSUME NEW th \in Thread, Fill(th) PROVE OrderInv'
  <2>1. /\ Forget({th}) /\ UNCHANGED <<row, list, global, count, version>>
        /\ \E place \in {"idle", "announced"} : pc' = [pc EXCEPT ![th] = place]
    BY <1>10 DEF Fill, GoTo
  <2>2. Stored(row', count)
    BY <2>1 DEF OrderInv
  <2> QED BY <2>1, <2>2, OrderLeave
<1>11. ASSUME NEW th \in Thread, NEW s \in Section, Miss(th, s) \/ Edit(th, s)
       PROVE  OrderInv'
  <2>1. PICK place \in {"missed", "edited"} : pc' = [pc EXCEPT ![th] = place]
    BY <1>11 DEF Miss, Edit, GoTo
  <2>2. /\ target' = [target EXCEPT ![th] = s] /\ dump' = [dump EXCEPT ![th] = {}]
        /\ UNCHANGED <<row, list, global, copy, count, version>>
    BY <1>11 DEF Miss, Edit, process
  <2>3. place \in Place \ {"load", "save"} /\ s \in Target
    BY DEF Place, Target
  <2> QED BY <2>1, <2>2, <2>3, OrderMove
<1>12. ASSUME NEW p \in Process, GetTaskState(p) PROVE OrderInv'
  <2>1. /\ global' = [global EXCEPT ![p] = Current(p)]
        /\ UNCHANGED <<row, list, pc, target, dump, copy, count, version>>
    BY <1>12 DEF GetTaskState, thread
  <2>2. Current(p) \in Nat
    BY <1>t DEF Current, OrderInv, OrderTypes, Stored
  <2>3. OrderTypes'
    BY <1>t, <2>1, <2>2 DEF OrderTypes
  <2> QED BY <2>1, <2>3 DEF OrderInv
<1>13. ASSUME NEW p \in Process, ReadEvents(p) PROVE OrderInv'
  <2>1. /\ list' = [list EXCEPT ![p] = Records(p)]
        /\ UNCHANGED <<row, global, pc, target, dump, copy, count, version>>
    BY <1>13 DEF ReadEvents, thread
  <2>2. InOrder(Records(p), count)
    BY DEF OrderInv, Records, Stored
  <2>3. OrderTypes'
    BY <1>t, <2>1 DEF OrderTypes
  <2>4. \A q \in Process : InOrder(list[q], count)'
    BY <1>t, <2>1, <2>2 DEF OrderInv, OrderTypes
  <2> QED BY <2>1, <2>3, <2>4 DEF OrderInv
<1>14. ASSUME NEW p \in Process, Crash(p) PROVE OrderInv'
  <2> DEFINE mine == {th \in Thread : ProcessOf[th] = p}
  <2>1. /\ list' = [list EXCEPT ![p] = <<>>]
        /\ global' = [global EXCEPT ![p] = 0]
        /\ pc' = [th \in Thread |-> IF th \in mine THEN "idle" ELSE pc[th]]
        /\ target' = [th \in Thread |-> IF th \in mine THEN "journal" ELSE target[th]]
        /\ dump' = [th \in Thread |-> IF th \in mine THEN <<>> ELSE dump[th]]
        /\ copy' = [th \in Thread |-> IF th \in mine THEN EmptyRow ELSE copy[th]]
        /\ UNCHANGED <<row, count, version>>
    BY <1>14 DEF Crash, Forget
  <2>2. InOrder(<<>>, count) /\ Stored(EmptyRow, count)
    BY DEF Stored, EmptyRow, IsRow, InOrder
  <2> HIDE DEF mine
  <2>3. OrderTypes'
    BY <1>t, <2>1 DEF OrderTypes, Place, Target
  <2>4. \A u \in Thread : Stored(copy[u], count)'
    BY <2>1, <2>2 DEF OrderInv
  <2>5. \A q \in Process : InOrder(list[q], count)'
    BY <1>t, <2>1, <2>2 DEF OrderInv, OrderTypes
  <2>6. \A u \in Thread : Bound(pc[u], target[u], dump[u], count)'
    BY <2>1 DEF OrderInv, Bound
  <2> QED BY <2>1, <2>3, <2>4, <2>5, <2>6 DEF OrderInv
<1> QED BY <1>0, <1>1, <1>2, <1>3, <1>4, <1>5, <1>6, <1>7, <1>8, <1>9, <1>10, <1>11,
           <1>12, <1>13, <1>14, Actions

\* The page appends events that are later than those it shows.
LEMMA ShownStep ==
  ASSUME OrderInv, ShownInv, [Next]_vars
  PROVE  ShownInv'
<1>1. ASSUME NEW p \in Process, ReadEvents(p) PROVE ShownInv'
  <2> DEFINE X == [id : 1 .. count, version : Nat]
             events == Answer(p)
             I == {i \in DOMAIN events : ~Contains(seen, events[i].id)}
             fresh == Picked(events, I)
             ids == [i \in DOMAIN fresh |-> fresh[i].id]
             R == {pair \in X \X X : pair[1].id < pair[2].id}
  <2>1. seen' = seen \o ids /\ count' = count
    BY <1>1 DEF ReadEvents
  <2>2. /\ InOrder(events, count)
        /\ \A i \in DOMAIN events, j \in DOMAIN seen : seen[j] < events[i].id
    BY AnswerInOrder
  <2>3. events \in Seq(X) /\ \A i \in DOMAIN events : events[i] \in X
    BY <2>2, SeqGrows DEF InOrder
  <2>4. \A i, j \in DOMAIN events : i < j => <<events[i], events[j]>> \in R
    BY <2>2, <2>3 DEF InOrder
  <2> HIDE DEF X, events, I, R
  <2>5. /\ fresh \in Seq(X)
        /\ \A k \in DOMAIN fresh : \E i \in DOMAIN events : fresh[k] = events[i]
        /\ \A k, l \in DOMAIN fresh : k < l => <<fresh[k], fresh[l]>> \in R
    BY <2>3, <2>4, PickedInOrder
  <2> HIDE DEF fresh
  <2>6. \A k \in DOMAIN fresh : fresh[k] \in X /\ fresh[k].id \in 1 .. count
    <3>1. \A k \in DOMAIN fresh : fresh[k] \in X
      BY <2>5
    <3> QED BY <3>1 DEF X
  <2>7. Len(fresh) \in Nat /\ DOMAIN fresh = 1 .. Len(fresh)
    BY <2>5
  <2>8. ids \in [1 .. Len(fresh) -> 1 .. count]
    BY <2>6, <2>7
  <2>9. ids \in Seq(1 .. count) /\ Len(ids) = Len(fresh)
    BY <2>7, <2>8, ElementsOf
  <2>10. \A k, l \in DOMAIN ids : k < l => ids[k] < ids[l]
    BY <2>5, <2>7 DEF R
  <2>11. \A k \in DOMAIN ids, j \in DOMAIN seen : seen[j] < ids[k]
    BY <2>2, <2>5, <2>7
  <2> HIDE DEF ids
  <2>12. seen \in Seq(1 .. count) /\ \A i, j \in DOMAIN seen : i < j => seen[i] < seen[j]
    BY DEF ShownInv, SeenInOrder
  <2>13. /\ seen \o ids \in Seq(1 .. count) /\ Len(seen) \in Nat /\ Len(ids) \in Nat
         /\ DOMAIN seen = 1 .. Len(seen) /\ DOMAIN ids = 1 .. Len(ids)
         /\ DOMAIN (seen \o ids) = 1 .. (Len(seen) + Len(ids))
         /\ \A i \in 1 .. Len(seen) : (seen \o ids)[i] = seen[i]
         /\ \A i \in 1 .. (Len(seen) + Len(ids)) :
              i \notin 1 .. Len(seen) => /\ i - Len(seen) \in 1 .. Len(ids)
                                         /\ (seen \o ids)[i] = ids[i - Len(seen)]
    BY <2>9, <2>12
  <2>14. ASSUME NEW i \in DOMAIN (seen \o ids), NEW j \in DOMAIN (seen \o ids), i < j
         PROVE  (seen \o ids)[i] < (seen \o ids)[j]
    <3>1. CASE j \in 1 .. Len(seen)
      <4>1. i \in 1 .. Len(seen)
        BY <2>13, <2>14, <3>1
      <4> QED BY <2>12, <2>13, <2>14, <3>1, <4>1
    <3>2. CASE i \in 1 .. Len(seen) /\ j \notin 1 .. Len(seen)
      BY <2>11, <2>13, <3>2
    <3>3. CASE i \notin 1 .. Len(seen) /\ j \notin 1 .. Len(seen)
      <4>1. i - Len(seen) < j - Len(seen)
        BY <2>13, <2>14
      <4> QED BY <2>10, <2>13, <3>3, <4>1
    <3> QED BY <3>1, <3>2, <3>3
  <2> QED BY <2>1, <2>13, <2>14 DEF ShownInv, SeenInOrder
<1>2. CASE UNCHANGED seen /\ (UNCHANGED count \/ count' = count + 1)
  <2>1. 1 .. count \subseteq 1 .. count'
    BY <1>2 DEF OrderInv, OrderTypes
  <2> QED BY <1>2, <2>1, SeqGrows DEF ShownInv, SeenInOrder
<1>3. UNCHANGED rest => UNCHANGED <<seen, count>>
  BY DEF rest
<1>4. ASSUME NEW th \in Thread,
             \/ Load(th) \/ Save(th) \/ MergeFails(th)
             \/ Publish(th) \/ Snapshot(th)
             \/ SetStatus(th) \/ Announce(th) \/ AnnounceMore(th)
             \/ PersistStatus(th) \/ Persist(th)
             \/ Fetch(th) \/ FetchFails(th) \/ Fill(th)
      PROVE  UNCHANGED seen /\ (UNCHANGED count \/ count' = count + 1)
  BY <1>4 DEF Load, Save, MergeFails, Publish, Snapshot, SetStatus, Announce, AnnounceMore,
     PersistStatus, Persist, Fetch, FetchFails, Fill, AppendEvent, client
<1>5. ASSUME NEW th \in Thread, NEW s \in Section, Miss(th, s) \/ Edit(th, s)
      PROVE  UNCHANGED <<seen, count>>
  BY <1>5 DEF Miss, Edit, client
<1>6. ASSUME NEW p \in Process, GetTaskState(p) \/ Crash(p)
      PROVE  UNCHANGED <<seen, count>>
  BY <1>6 DEF GetTaskState, Crash, client
<1> QED BY <1>1, <1>2, <1>3, <1>4, <1>5, <1>6, Actions

\* A client shows the events in the order of their publication and none twice,
\* whichever processes answer it and however often they restart: every list that
\* may be an answer is in order, and an answer begins after the cursor.
THEOREM ShownInOrder == Spec => []SeenInOrder
<1>1. Init => OrderInv /\ ShownInv
  BY OrderInit
<1>2. (OrderInv /\ ShownInv) /\ [Next]_vars => (OrderInv /\ ShownInv)'
  BY OrderStep, ShownStep
<1>3. ShownInv => SeenInOrder
  BY DEF ShownInv
<1> QED BY <1>1, <1>2, <1>3, PTL DEF Spec
=============================================================================
