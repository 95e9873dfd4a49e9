------------------------------ MODULE TaskRow ------------------------------
(***************************************************************************)
(* The Postgres row of one task (kag_execution_states) and everything that *)
(* is kept in it: the task's status (GlobalBlackboard), the sections of    *)
(* the sub-blackboards, and the stream of its events (EventJournal).       *)
(*                                                                         *)
(* Threads of API processes write the row through one operation,           *)
(* StateRepo.merge_blackboard_sections: load the row, replace one section, *)
(* write the row, under a lock that only the threads of one process share. *)
(* Every process answers from its memory and falls back to the row; a      *)
(* client polls the events with a cursor.                                  *)
(***************************************************************************)
EXTENDS Integers, Sequences, SequencesExt

CONSTANTS
  Process,      \* API processes
  Thread,       \* flow workers and request handlers
  ProcessOf,    \* the process of a thread
  Runner,       \* threads that run the task's flow: they publish its events
  Section,      \* sections of the sub-blackboards
  Reads,        \* <<thread, section>>: which thread reads which section
  Edits,        \* those which the thread edits, too
  None,         \* a lock nobody holds
  MaxEvents,    \* bound on published events
  MaxEdits,     \* bound on edits of sections
  MaxCrashes,   \* bound on crashes
  MaxFaults     \* bound on failed database calls

ASSUME RowParameters ==
  /\ ProcessOf \in [Thread -> Process]
  /\ Runner \subseteq Thread
  /\ Edits \subseteq Reads /\ Reads \subseteq Thread \X Section
  /\ None \notin Thread
  /\ Section \cap {"journal", "global"} = {}
  /\ {MaxEvents, MaxEdits, MaxCrashes, MaxFaults} \subseteq Nat

VARIABLES
  row,        \* state_data of the row: journal, global and the sections
  list,       \* the task's events in a process's EventJournal._storage
  listed,     \* whether the process's _storage has the task
  global,     \* version of the task in GlobalBlackboard._task_states, 0: none
  board,      \* the sections in the processes' sub-blackboards
  pc,         \* where a thread is
  target,     \* the section a thread merges or restores
  dump,       \* what it merges or has loaded, as it was at that moment
  copy,       \* the row as the thread has loaded it
  mergeLock,  \* StateRepo._state_locks of the task, one per process
  rwLock,     \* GlobalBlackboard._rw_lock, one per process
  seen,       \* ids of the events the page shows, in order
  page,       \* whether the page still asks
  count,      \* events published so far
  version,    \* versions of the task so far (updated_at)
  edits,      \* edits so far
  raced,      \* whether threads have got in each other's way over a section
  crashes, faults

process == <<list, listed, global, board>>
thread == <<pc, target, dump, copy, mergeLock, rwLock>>
client == <<seen, page>>
vars == <<row, process, thread, client, count, version, edits, raced, crashes, faults>>

\* An event: its id and, for a status update, the version it announces.
Event == [id : 1 .. MaxEvents, version : 0 .. MaxEvents]
Journal == UNION {[1 .. n -> Event] : n \in 0 .. MaxEvents}
Row == [journal : Journal, global : 0 .. MaxEvents,
        section : [Section -> SUBSET (1 .. MaxEdits)]]

\* "announce": update_global_status has changed the task in memory and
\* publishes next.  "append": the event is in the list and the snapshot is
\* next.  "announced": back in update_global_status.  "missed": restore is
\* next.  "fetched": restore has loaded the row.  "edited": persist is next.
\* "load", "save": inside merge_blackboard_sections.
Place == {"idle", "announce", "append", "announced", "missed", "fetched",
          "edited", "load", "save"}

TypeOK ==
  /\ row \in Row
  /\ list \in [Process -> Journal] /\ listed \in [Process -> BOOLEAN]
  /\ global \in [Process -> 0 .. MaxEvents]
  /\ board \in [Process -> [Section -> SUBSET (1 .. MaxEdits)]]
  /\ pc \in [Thread -> Place]
  /\ target \in [Thread -> Section \cup {"journal", "global"}]
  /\ \A th \in Thread :
       /\ target[th] = "journal" => dump[th] \in Journal
       /\ target[th] = "global" => dump[th] \in 0 .. MaxEvents
       /\ target[th] \in Section => dump[th] \subseteq 1 .. MaxEdits
  /\ copy \in [Thread -> Row]
  /\ mergeLock \in [Process -> Thread \cup {None}]
  /\ rwLock \in [Process -> Thread \cup {None}]
  /\ seen \in UNION {[1 .. n -> 1 .. MaxEvents] : n \in 0 .. MaxEvents}
  /\ page \in {"polling", "syncing", "stopped", "resumed"}
  /\ {count, version} \subseteq 0 .. MaxEvents
  /\ edits \in 0 .. MaxEdits /\ raced \in BOOLEAN
  /\ crashes \in 0 .. MaxCrashes /\ faults \in 0 .. MaxFaults

EmptyRow == [journal |-> <<>>, global |-> 0, section |-> [s \in Section |-> {}]]

Init ==
  /\ row = EmptyRow
  /\ list = [p \in Process |-> <<>>] /\ listed = [p \in Process |-> FALSE]
  /\ global = [p \in Process |-> 0]
  /\ board = [p \in Process |-> EmptyRow.section]
  /\ pc = [th \in Thread |-> "idle"]
  /\ target = [th \in Thread |-> "journal"]
  /\ dump = [th \in Thread |-> <<>>]
  /\ copy = [th \in Thread |-> EmptyRow]
  /\ mergeLock = [p \in Process |-> None] /\ rwLock = [p \in Process |-> None]
  /\ seen = <<>> /\ page = "polling"
  /\ count = 0 /\ version = 0 /\ edits = 0 /\ raced = FALSE
  /\ crashes = 0 /\ faults = 0

Fault == faults < MaxFaults /\ faults' = faults + 1

GoTo(th, place) == pc' = [pc EXCEPT ![th] = place]

-----------------------------------------------------------------------------
(* merge_blackboard_sections *)

\* The thread has dumped a section and calls the merge.
Merge(th, section, value) ==
  /\ GoTo(th, "load")
  /\ target' = [target EXCEPT ![th] = section]
  /\ dump' = [dump EXCEPT ![th] = value]

\* Mutant of MayLoad: no _state_lock around the merge.
MayLoadAnyTime(th) == TRUE

\* with cls._state_lock(tenant_id, task_id)
MayLoad(th) == mergeLock[ProcessOf[th]] = None

Load(th) ==
  /\ pc[th] = "load" /\ MayLoad(th)
  /\ mergeLock' = [mergeLock EXCEPT ![ProcessOf[th]] = th]
  /\ copy' = [copy EXCEPT ![th] = row]
  /\ GoTo(th, "save")
  /\ UNCHANGED <<row, process, target, dump, rwLock, client,
                 count, version, edits, raced, crashes, faults>>

\* full_state[section_name] = payload
Updated(state, section, value) ==
  IF section = "journal" THEN [state EXCEPT !.journal = value]
  ELSE IF section = "global" THEN [state EXCEPT !.global = value]
  ELSE [state EXCEPT !.section[section] = value]

\* The local variables of threads that have left the merge are gone.
Forget(threads) ==
  /\ target' = [th \in Thread |-> IF th \in threads THEN "journal" ELSE target[th]]
  /\ dump' = [th \in Thread |-> IF th \in threads THEN <<>> ELSE dump[th]]
  /\ copy' = [th \in Thread |-> IF th \in threads THEN EmptyRow ELSE copy[th]]

\* Where the caller of the merge goes on.  A publish inside
\* update_global_status returns to it; persisting the task ends it and frees
\* _rw_lock; every other caller is done.
Return(th) ==
  LET p == ProcessOf[th] IN
  /\ GoTo(th, IF target[th] = "journal" /\ rwLock[p] = th
                THEN "announced" ELSE "idle")
  /\ mergeLock' = [mergeLock EXCEPT ![p] = IF @ = th THEN None ELSE @]
  /\ rwLock' = [rwLock EXCEPT ![p] = IF target[th] = "global" THEN None ELSE @]
  /\ Forget({th})

Save(th) ==
  /\ pc[th] = "save"
  /\ row' = Updated(copy[th], target[th], dump[th])
  /\ Return(th)
  /\ UNCHANGED <<process, client,
                 count, version, edits, raced, crashes, faults>>

\* The load or the save raises.  EventJournal._persist and the sub-blackboards
\* swallow it; update_global_status lets it through and frees _rw_lock.
MergeFails(th) ==
  /\ pc[th] = "save" \/ (pc[th] = "load" /\ MayLoad(th))
  /\ Fault
  /\ Return(th)
  /\ UNCHANGED <<row, process, client,
                 count, version, edits, raced, crashes>>

-----------------------------------------------------------------------------
(* event_bus.publish and EventJournal *)

\* event_journal.append: the list in memory, whether or not the row has one.
AppendEvent(p, announced) ==
  /\ count < MaxEvents
  /\ count' = count + 1
  /\ list' = [list EXCEPT ![p] =
                Append(@, [id |-> count + 1, version |-> announced])]
  /\ listed' = [listed EXCEPT ![p] = TRUE]

\* A node of the flow or the sandbox publishes an event of its own.
Publish(th) ==
  /\ pc[th] = "idle" /\ th \in Runner
  /\ AppendEvent(ProcessOf[th], 0)
  /\ GoTo(th, "append")
  /\ UNCHANGED <<row, global, board, target, dump, copy, mergeLock, rwLock,
                 client, version, edits, raced, crashes, faults>>

\* _persist: the snapshot, then the merge.
Snapshot(th) ==
  /\ pc[th] = "append"
  /\ Merge(th, "journal", list[ProcessOf[th]])
  /\ UNCHANGED <<row, process, copy, mergeLock, rwLock, client,
                 count, version, edits, raced, crashes, faults>>

-----------------------------------------------------------------------------
(* GlobalBlackboard *)

\* _get_task_state_locked: the persisted task if it is newer than memory's.
Current(p) == IF row.global > global[p] THEN row.global ELSE global[p]

\* create_task, or update_global_status of a task that exists: under _rw_lock
\* the task changes in memory, then the event is published.
SetStatus(th) ==
  LET p == ProcessOf[th] IN
  /\ pc[th] = "idle" /\ th \in Runner
  /\ rwLock[p] = None
  /\ version = 0 \/ Current(p) > 0
  /\ version < MaxEvents /\ count < MaxEvents   \* room for its event
  /\ version' = version + 1
  /\ global' = [global EXCEPT ![p] = version + 1]
  /\ rwLock' = [rwLock EXCEPT ![p] = th]
  /\ GoTo(th, "announce")
  /\ UNCHANGED <<row, list, listed, board, target, dump, copy, mergeLock,
                 client, count, edits, raced, crashes, faults>>

Announce(th) ==
  /\ pc[th] = "announce"
  /\ AppendEvent(ProcessOf[th], global[ProcessOf[th]])
  /\ GoTo(th, "append")
  /\ UNCHANGED <<row, global, board, target, dump, copy, mergeLock, rwLock,
                 client, version, edits, raced, crashes, faults>>

\* A terminal status has further events (SYS_TASK_FINISHED, the monitor's).
AnnounceMore(th) ==
  /\ pc[th] = "announced"
  /\ AppendEvent(ProcessOf[th], global[ProcessOf[th]])
  /\ GoTo(th, "append")
  /\ UNCHANGED <<row, global, board, target, dump, copy, mergeLock, rwLock,
                 client, version, edits, raced, crashes, faults>>

\* Mutant of MayPersist: before the event.
PersistAnyTime(th) == pc[th] \in {"announce", "announced"}

\* _persist_task_state comes after the events.
MayPersist(th) == pc[th] = "announced"

PersistStatus(th) ==
  /\ MayPersist(th)
  /\ Merge(th, "global", global[ProcessOf[th]])
  /\ UNCHANGED <<row, process, copy, mergeLock, rwLock, client,
                 count, version, edits, raced, crashes, faults>>

\* get_task_state: waits for _rw_lock and takes the persisted task if it is
\* newer than memory's.
GetTaskState(p) ==
  /\ rwLock[p] = None
  /\ Current(p) > 0
  /\ global' = [global EXCEPT ![p] = Current(p)]
  /\ UNCHANGED <<row, list, listed, board, thread, client,
                 count, version, edits, raced, crashes, faults>>

-----------------------------------------------------------------------------
(* Sub-blackboards *)

\* The process has no copy of the section: read returns None.
Miss(th, s) ==
  /\ pc[th] = "idle" /\ <<th, s>> \in Reads
  /\ board[ProcessOf[th]][s] = {}
  /\ target' = [target EXCEPT ![th] = s]
  /\ dump' = [dump EXCEPT ![th] = {}]
  /\ GoTo(th, "missed")
  /\ UNCHANGED <<row, process, copy, mergeLock, rwLock, client,
                 count, version, edits, raced, crashes, faults>>

\* restore loads the row, without a lock.
Fetch(th) ==
  /\ pc[th] = "missed"
  /\ dump' = [dump EXCEPT ![th] = row.section[target[th]]]
  /\ GoTo(th, "fetched")
  /\ UNCHANGED <<row, process, target, copy, mergeLock, rwLock, client,
                 count, version, edits, raced, crashes, faults>>

\* The load raises: restore returns False, as if the row had no such section.
FetchFails(th) ==
  /\ pc[th] = "missed"
  /\ Fault
  /\ raced' = TRUE
  /\ GoTo(th, "fetched")
  /\ UNCHANGED <<row, process, target, dump, copy, mergeLock, rwLock, client,
                 count, version, edits, crashes>>

\* restore writes what it has loaded to the blackboard, whatever is there by
\* now, and returns to the reader.
Fill(th) ==
  LET p == ProcessOf[th] IN
  /\ pc[th] = "fetched"
  /\ board' = IF dump[th] = {} THEN board
               ELSE [board EXCEPT ![p][target[th]] = dump[th]]
  /\ raced' = (raced \/ ~(board[p][target[th]] \subseteq board'[p][target[th]]))
  /\ GoTo(th, "idle")
  /\ Forget({th})
  /\ UNCHANGED <<row, list, listed, global, mergeLock, rwLock, client,
                 count, version, edits, crashes, faults>>

\* Mutant of MayEdit: the section is not restored.
MayEditUnrestored(th, s) == pc[th] = "idle"

\* read has found the section, or restore has found none.
MayEdit(th, s) ==
  \/ pc[th] = "idle" /\ board[ProcessOf[th]][s] # {}
  \/ pc[th] = "fetched" /\ target[th] = s /\ dump[th] = {}

\* The section the thread has in hand: a new one where restore found none.
InHand(th, s) == IF pc[th] = "fetched" THEN {} ELSE board[ProcessOf[th]][s]

\* Another thread has dumped the section and has not saved it yet.
InMerge(th, s) ==
  \E other \in Thread \ {th} : pc[other] \in {"load", "save"} /\ target[other] = s

\* A thread changes a section and writes it to the blackboard.
Edit(th, s) ==
  /\ <<th, s>> \in Edits /\ MayEdit(th, s)
  /\ edits < MaxEdits
  /\ edits' = edits + 1
  /\ board' = [board EXCEPT ![ProcessOf[th]][s] = InHand(th, s) \cup {edits + 1}]
  /\ raced' = (raced \/ ~(board[ProcessOf[th]][s] \subseteq InHand(th, s)) \/ InMerge(th, s))
  /\ target' = [target EXCEPT ![th] = s]
  /\ dump' = [dump EXCEPT ![th] = {}]
  /\ GoTo(th, "edited")
  /\ UNCHANGED <<row, list, listed, global, copy, mergeLock, rwLock, client,
                 count, version, crashes, faults>>

\* persist: the section as it is now, then the merge.
Persist(th) ==
  /\ pc[th] = "edited"
  /\ Merge(th, target[th], board[ProcessOf[th]][target[th]])
  /\ UNCHANGED <<row, process, copy, mergeLock, rwLock, client,
                 count, version, edits, raced, crashes, faults>>

-----------------------------------------------------------------------------
(* The page of the task (App.tsx) *)

\* Mutant of Records: memory's list and the row's.
RecordsOfBoth(p) == list[p] \o row.journal

\* EventJournal.read: memory's list if the process has one, else the row's,
\* which is kept unless it is empty.
Records(p) == IF listed[p] THEN list[p] ELSE row.journal

\* build_analysis_events: what follows the client's cursor; nothing if the
\* cursor is not in the list.
After(records, id) ==
  LET at == {i \in DOMAIN records : records[i].id = id} IN
  IF at = {} THEN <<>> ELSE SubSeq(records, Min(at) + 1, Len(records))

\* The events of an answer: all of them to a client without a cursor.  The
\* cursor is the last event shown.
Answer(p) ==
  IF seen = <<>> THEN Records(p) ELSE After(Records(p), Last(seen))

\* The elements of seq at the positions I, in their order.
Picked(seq, I) ==
  LET picked[n \in 0 .. Len(seq)] ==
        IF n = 0 THEN <<>>
        ELSE LET before == picked[n - 1]
             IN  IF n \in I THEN Append(before, seq[n]) ELSE before
  IN  picked[Len(seq)]

\* GET of the events.  The page appends those it does not show yet.
ReadEvents(p) ==
  LET events == Answer(p)
      fresh == Picked(events, {i \in DOMAIN events : ~Contains(seen, events[i].id)}) IN
  /\ seen' = seen \o [i \in DOMAIN fresh |-> fresh[i].id]
  /\ listed' = [listed EXCEPT ![p] = @ \/ row.journal # <<>>]
  /\ list' = [list EXCEPT ![p] = Records(p)]
  /\ UNCHANGED <<row, global, board, thread,
                 count, version, edits, raced, crashes, faults>>

\* eventsQuery, at its interval while the page knows of no terminal status.
Poll(p) ==
  /\ page \in {"polling", "resumed"}
  /\ ReadEvents(p)
  /\ UNCHANGED page

\* detailQuery is answered a status, and the page goes from one phase to another.
\* Which statuses are terminal is a choice.
Answered(p, from, to) ==
  /\ Current(p) > 0
  /\ page = from /\ page' = to
  /\ UNCHANGED <<row, process, thread, seen,
                 count, version, edits, raced, crashes, faults>>

\* Mutant of LearnEnd: without the last pair of requests.
LearnEndAndStop(p) == Answered(p, "polling", "stopped")

\* A terminal status: both queries stop, and both are sent once more.
LearnEnd(p) == Answered(p, "polling", "syncing")

Sync(p) ==
  /\ page = "syncing"
  /\ ReadEvents(p)
  /\ page' = "stopped"

\* The last request, or one of those that react-query sends when the window gets
\* the focus, is answered a status that is not terminal: both queries resume.
Resume(p) == Answered(p, "stopped", "resumed")

\* terminalSyncState is "done" for good: now a terminal status stops them at once.
LearnEndAgain(p) == Answered(p, "resumed", "stopped")

\* The window of a page that has stopped gets the focus.
Focus(p) ==
  /\ page = "stopped"
  /\ ReadEvents(p)
  /\ UNCHANGED page

Follow(p) ==
  \/ Poll(p) \/ LearnEnd(p) \/ Sync(p) \/ Resume(p) \/ LearnEndAgain(p) \/ Focus(p)

-----------------------------------------------------------------------------
\* A process dies and starts again, with empty memory.
Crash(p) ==
  LET mine == {th \in Thread : ProcessOf[th] = p} IN
  /\ crashes < MaxCrashes
  /\ crashes' = crashes + 1
  /\ list' = [list EXCEPT ![p] = <<>>] /\ listed' = [listed EXCEPT ![p] = FALSE]
  /\ global' = [global EXCEPT ![p] = 0]
  /\ board' = [board EXCEPT ![p] = EmptyRow.section]
  /\ pc' = [th \in Thread |-> IF th \in mine THEN "idle" ELSE pc[th]]
  /\ mergeLock' = [mergeLock EXCEPT ![p] = None]
  /\ rwLock' = [rwLock EXCEPT ![p] = None]
  /\ Forget(mine)
  /\ UNCHANGED <<row, client, count, version, edits, raced, faults>>

WriteStatus(th) ==
  SetStatus(th) \/ Announce(th) \/ AnnounceMore(th) \/ PersistStatus(th)

Next ==
  \/ \E th \in Thread :
       \/ Load(th) \/ Save(th) \/ MergeFails(th)
       \/ Publish(th) \/ Snapshot(th) \/ WriteStatus(th)
       \/ \E s \in Section : Miss(th, s) \/ Edit(th, s)
       \/ Fetch(th) \/ FetchFails(th) \/ Fill(th) \/ Persist(th)
  \/ \E p \in Process : GetTaskState(p) \/ Follow(p) \/ Crash(p)

\* The page polls at its interval, and its last request for events is answered.
\* It need not learn of an end, nor get the focus.
Spec == Init /\ [][Next]_vars /\ \A p \in Process : WF_vars(Poll(p) \/ Sync(p))

-----------------------------------------------------------------------------
(* Properties *)

\* A merge changes the section it is called for and no other, although it
\* writes the whole row as it was when it was loaded: what threads merge into
\* other sections in between is not lost.
MergeKeepsOtherSections ==
  [][\A th \in Thread :
       pc[th] = "save" /\ pc'[th] # "save" /\ row' # row
         => row' = Updated(row, target[th], dump[th])]_vars

\* No edit of a section that has reached the row is lost again, through restarts
\* and failed merges, whoever reads and edits the section: it is restored before
\* it is edited, and merges of other sections leave it alone.  What can undo an
\* edit is one of three things, and `raced' says that none has happened: a
\* restore has failed (it is taken for an empty row), a restored or new copy has
\* taken the place of a newer one in memory, or the section was edited between
\* another thread's dump of it and the save.
EditsKept ==
  [][~raced => \A s \in Section : row.section[s] \subseteq row'.section[s]]_vars

\* The persisted status only moves forward, although every merge of another
\* section writes the status as it was when the row was loaded.
StatusAdvances == [][row'.global >= row.global]_vars

\* update_global_status: when a status reaches the row, the stream in the row
\* already announces it.  A reader of the row after a crash may find an event
\* without its status, never a status without its event.
StatusAnnouncedFirst ==
  [][faults = 0 /\ row'.global # row.global
       => \E i \in DOMAIN row'.journal :
            row'.journal[i].version = row'.global]_vars

\* The page shows events in the order of their publication and none twice,
\* whatever restarts do to the list behind its cursor.
SeenInOrder == \A i, j \in DOMAIN seen : i < j => seen[i] < seen[j]

\* As long as no process restarts, the page comes to show every event that exists
\* before it learns of the task's end, whenever it learns of it: the last request
\* shows what the interval has not.  Later events may need a reload.
EventuallySeen ==
  \A n \in 1 .. MaxEvents :
    count >= n /\ page = "polling" ~> n \in ToSet(seen) \/ crashes > 0

=============================================================================
