---------------------------- MODULE SkillMemory ----------------------------
(***************************************************************************)
(* Skills that tasks of a workspace share: the rows of kind approved_skill *)
(* of MemoryRepo with their usage and outcome counters, and the memory of  *)
(* each task (approved_skills and historical_matches of MemoryData), while *)
(* the flows of several tasks recall, use, harvest and judge skills and    *)
(* their processes die.                                                    *)
(*                                                                         *)
(* A flow goes through the nodes that touch skills: analyst, coder (not on *)
(* every route), harvester, in several rounds, and then the verdict of     *)
(* _run_task_flow.  A finished node is checkpointed: a restarted flow goes *)
(* on behind it.  A skill is its name; what it recommends and requires is  *)
(* the score it gets for a task's query.                                   *)
(*                                                                         *)
(* Left out: the backend without a database (tests only), the limits of    *)
(* the lists over all rows, which stand far above the number of skills     *)
(* here, task summaries and preferences.                                   *)
(***************************************************************************)
EXTENDS Naturals, FiniteSets, SequencesExt

CONSTANTS
  Task,
  Repo,        \* skills with a row from the start
  Preset,      \* load_preset_skills(), in order
  Harvested,   \* the skill a task's dynamic path is named by
  Score,       \* what a task's query gives a skill; 0 is no match
  Limit,       \* merged_limit
  Rounds,      \* bound on the rounds of a task
  MaxTroubles  \* bound on crashes and failed calls together

Skill == Repo \union ToSet(Preset) \union {Harvested[t] : t \in Task}

ASSUME SkillParameters ==
  /\ IsFiniteSet(Task) /\ IsFiniteSet(Repo)
  /\ Preset \in Seq(Skill)
  /\ Score \in [Task -> [Skill -> Nat]]
  /\ Limit \in Nat \ {0}
  /\ Rounds \in [Task -> Nat \ {0}]
  /\ MaxTroubles \in Nat

VARIABLES
  row,      \* agent_memories: payload usage and usage_count column, or Absent
  mem,      \* a task's MemoryData in its process
  saved,    \* the memory section of the task's row
  at,       \* where the flow is
  node,     \* the node it is in, or goes to, with its round
  todo,     \* skills the current loop still has to deal with
  records,  \* merged_records of save_approved_skills
  verdict,  \* success of the flow's verdict
  uses,     \* history: whose uses the counter of a skill counts
  told,     \* history: which outcomes they count
  crashes, faults

flow == <<at, node, todo, records, verdict>>
history == <<uses, told>>
vars == <<row, mem, saved, flow, history, crashes, faults>>

Absent == [absent |-> TRUE]
NoUsage == [none |-> TRUE]
NoMemory == [approved |-> <<>>, copy |-> <<>>, matches |-> <<>>]
ZeroUsage == [count |-> 0, last |-> <<>>, good |-> 0, bad |-> 0, judged |-> <<>>]

Init ==
  /\ row = [s \in Skill |->
              IF s \in Repo THEN [usage |-> NoUsage, column |-> 0] ELSE Absent]
  /\ mem = [t \in Task |-> NoMemory]
  /\ saved = [t \in Task |-> NoMemory]
  /\ at = [t \in Task |-> "between"]
  /\ node = [t \in Task |-> <<"analyst", 1>>]
  /\ todo = [t \in Task |-> <<>>]
  /\ records = [t \in Task |-> <<>>]
  /\ verdict = [t \in Task |-> FALSE]
  /\ uses = [s \in Skill |-> <<>>]
  /\ told = [s \in Skill |-> <<>>]
  /\ crashes = 0 /\ faults = 0

-----------------------------------------------------------------------------
(* SkillRetriever *)

Take(seq, n) == SubSeq(seq, 1, IF Len(seq) < n THEN Len(seq) ELSE n)

\* The elements of seq at the positions I, in their order.
Picked(seq, I) ==
  LET picked[n \in 0..Len(seq)] ==
        IF n = 0 THEN <<>>
        ELSE LET before == picked[n - 1]
             IN  IF n \in I THEN Append(before, seq[n]) ELSE before
  IN  picked[Len(seq)]

\* merge_skill_sources: the first of a name stays.
Merge(seq) ==
  LET merged[n \in 0..Len(seq)] ==
        IF n = 0 THEN <<>>
        ELSE LET before == merged[n - 1]
             IN  IF Contains(before, seq[n]) THEN before ELSE Append(before, seq[n])
  IN  merged[Len(seq)]

\* rank_matches_for_query: matches only, best first, ties in their order.
Ranked(t, skills) ==
  LET ranked[n \in 0..Len(skills)] ==
        IF n = 0 THEN <<>>
        ELSE LET s == skills[n]
                 before == ranked[n - 1]
                 ahead == {i \in DOMAIN before : Score[t][before[i]] >= Score[t][s]}
             IN  IF Score[t][s] = 0 THEN before
                 ELSE Picked(before, ahead) \o <<s>>
                      \o Picked(before, DOMAIN before \ ahead)
  IN  Take(ranked[Len(skills)], Limit)

\* The rows found and the presets that match.
Historical(t, found) == Merge(found \o Ranked(t, Preset))

\* merge_task_and_historical
Recalled(t, own, historical) ==
  LET ranked == Ranked(t, historical)
  IN  Take(Merge(own \o IF ranked = <<>> THEN Take(historical, Limit) ELSE ranked),
           Limit)

\* Mutant of NewMatches: everything recalled counts as new.
AllMatches(own, recalled) == recalled

\* extract_historical_matches: what the task did not have.
NewMatches(own, recalled) ==
  Picked(recalled, {i \in DOMAIN recalled : ~Contains(own, recalled[i])})

\* merge_historical_match_updates with fresh matches: an update of a name
\* replaces stages and the used_in_codegen mark by its own.
WithMatches(matches, new, stage) ==
  [s \in DOMAIN matches \union ToSet(new) |->
     IF Contains(new, s) THEN [stages |-> {stage}, used |-> FALSE] ELSE matches[s]]

-----------------------------------------------------------------------------
(* MemoryRepo *)

UsageIn(usage) == IF usage = NoUsage THEN ZeroUsage ELSE usage
CountIn(usage) == UsageIn(usage).count

\* Mutant of Upserted: the incoming payload replaces the stored one.
Overwritten(old, usage) == [usage |-> usage, column |-> CountIn(usage)]

\* _upsert_records: an existing usage stays whatever the incoming record says.
Upserted(old, usage) ==
  IF old = Absent THEN [usage |-> usage, column |-> CountIn(usage)]
  ELSE [usage |-> IF old.usage = NoUsage THEN usage ELSE old.usage,
        column |-> IF old.column < CountIn(usage) THEN CountIn(usage) ELSE old.column]

\* Mutant of Used: the last use is remembered by its stage alone.
UsedByStage(usage, t, stage) ==
  IF usage.last = <<stage>> THEN usage
  ELSE [usage EXCEPT !.count = @ + 1, !.last = <<stage>>]

\* The _mutator of record_skill_usage: a repetition changes nothing.
Used(usage, t, stage) ==
  IF usage.last = <<t, stage>> THEN usage
  ELSE [usage EXCEPT !.count = @ + 1, !.last = <<t, stage>>]

\* The _mutator of record_skill_outcome.
Judged(usage, t, success) ==
  IF usage.judged = <<t, success>> THEN usage
  ELSE [usage EXCEPT !.good = IF success THEN @ + 1 ELSE @,
                     !.bad = IF success THEN @ ELSE @ + 1,
                     !.judged = <<t, success>>]

\* _merge_approved_skill_usage
MergedUsage(existing, incoming) == IF existing = NoUsage THEN incoming ELSE existing

\* _mutate_approved_skill_in_postgres: one transaction on a locked row.
Mutate(s, usage) == row' = [row EXCEPT ![s] = [usage |-> usage, column |-> usage.count]]

-----------------------------------------------------------------------------
(* Steps of a flow *)

At(t, place) == at[t] = place
Goto(t, place) == at' = [at EXCEPT ![t] = place]
Fault == crashes + faults < MaxTroubles /\ faults' = faults + 1

\* persist_task_memory: the failure of the write is logged.
Persist(t, memory) ==
  /\ mem' = [mem EXCEPT ![t] = memory]
  /\ \/ saved' = [saved EXCEPT ![t] = memory] /\ UNCHANGED faults
     \/ Fault /\ UNCHANGED saved

\* _apply_repo_skill_update: the task's copy of a skill gets the row's usage.
Copied(memory, s, usage) ==
  IF Contains(memory.approved, s)
  THEN [memory EXCEPT !.copy = [@ EXCEPT ![s] = usage]] ELSE memory

\* recall_skills up to the loop over the new matches, for each order in which
\* the rows may be listed, or with none when the list fails.
Recall(t) ==
  /\ At(t, "between") /\ node[t][1] \in {"analyst", "coder"}
  /\ \E found \in SetToSeqs({s \in Skill : row[s] # Absent}) \union {<<>>} :
       LET own == mem[t].approved
           recalled == Recalled(t, own, Historical(t, found))
           new == NewMatches(own, recalled)
       IN  /\ IF found = <<>> /\ \E s \in Skill : row[s] # Absent
              THEN Fault ELSE UNCHANGED faults
           /\ mem' = [mem EXCEPT ![t] =
                [approved |-> recalled,
                 copy |-> [s \in ToSet(recalled) |-> ZeroUsage],
                 matches |-> WithMatches(mem[t].matches, new, node[t][1])]]
           /\ todo' = [todo EXCEPT ![t] = new]
  /\ Goto(t, "using")
  /\ UNCHANGED <<row, saved, node, records, verdict, history, crashes>>

\* record_skill_usage of the next new match: in the row, if the skill has one.
RecordUsage(t) ==
  /\ At(t, "using") /\ todo[t] # <<>>
  /\ LET s == Head(todo[t])
         before == UsageIn(row[s].usage)
         after == Used(before, t, node[t][1])
     IN  IF row[s] = Absent THEN UNCHANGED <<row, mem, uses>>
         ELSE /\ Mutate(s, after)
              /\ mem' = [mem EXCEPT ![t] = Copied(@, s, after)]
              /\ uses' = IF after = before THEN uses
                         ELSE [uses EXCEPT ![s] = Append(@, t)]
  /\ todo' = [todo EXCEPT ![t] = Tail(@)]
  /\ UNCHANGED <<saved, at, node, records, verdict, told, crashes, faults>>

RecordUsageFails(t) ==
  /\ At(t, "using") /\ todo[t] # <<>>
  /\ Fault
  /\ todo' = [todo EXCEPT ![t] = Tail(@)]
  /\ UNCHANGED <<row, mem, saved, at, node, records, verdict, history, crashes>>

\* The end of recall_skills.
KeepRecalled(t) ==
  /\ At(t, "using") /\ todo[t] = <<>>
  /\ Persist(t, mem[t])
  /\ Goto(t, IF node[t][1] = "coder" THEN "marking" ELSE "ended")
  /\ UNCHANGED <<row, node, todo, records, verdict, history, crashes>>

\* mark_matches_used_in_codegen
MarkUsed(t) ==
  /\ At(t, "marking")
  /\ Persist(t, [mem[t] EXCEPT !.matches =
       [s \in DOMAIN @ |-> IF Contains(mem[t].approved, s)
                           THEN [stages |-> @[s].stages \union {"coder"}, used |-> TRUE]
                           ELSE @[s]]])
  /\ Goto(t, "ended")
  /\ UNCHANGED <<row, node, todo, records, verdict, history, crashes>>

\* SkillHarvester.harvest yields a candidate for a dynamic path that left a trace.
HasCandidate(dynamic, traced) == dynamic /\ traced

\* SkillValidator.validate of a harvested skill, which always has a name and a
\* replay case with a query: it needs capabilities and signals to replay.
Validated(capabilities, signals) == capabilities /\ signals

\* SkillPromoter.evaluate; a candidate has been validated before.
Promotion(valid, authorized) ==
  IF valid /\ authorized THEN "approved"
  ELSE IF valid THEN "needs_review" ELSE "rejected"

\* merged_approved of store_harvest_result, with the copies the task keeps and
\* the records it saves: a harvested skill has no usage, one that the task has
\* recalled the copy's.
HarvestedMemory(memory, new) ==
  LET names == Merge(memory.approved \o new)
  IN  [memory EXCEPT !.approved = names,
         !.copy = [s \in ToSet(names) |->
                     IF Contains(new, s) THEN ZeroUsage ELSE memory.copy[s]]]

RecordsOf(memory, new) ==
  [i \in DOMAIN memory.approved |->
     LET s == memory.approved[i]
     IN  [skill |-> s, usage |-> IF Contains(new, s) THEN NoUsage ELSE memory.copy[s]]]

HarvestNothing(t) ==
  /\ At(t, "between") /\ node[t][1] = "harvester"
  /\ \E dynamic, traced \in BOOLEAN : ~HasCandidate(dynamic, traced)
  /\ Goto(t, "ended")
  /\ UNCHANGED <<row, mem, saved, node, todo, records, verdict, history, crashes, faults>>

\* The node with a candidate, approved or not, up to save_approved_skills.
Harvest(t) ==
  /\ At(t, "between") /\ node[t][1] = "harvester"
  /\ \E capabilities, signals, authorized \in BOOLEAN :
       LET approved == Promotion(Validated(capabilities, signals), authorized) = "approved"
           new == IF approved THEN <<Harvested[t]>> ELSE <<>>
           memory == HarvestedMemory(mem[t], new)
       IN  /\ Persist(t, memory)
           /\ records' = [records EXCEPT ![t] = RecordsOf(memory, new)]
           /\ Goto(t, IF memory.approved = <<>> THEN "ended" ELSE "saving")
  /\ UNCHANGED <<row, node, todo, verdict, history, crashes>>

\* A record with the usage that its row has by now.
WithSnapshot(record) ==
  LET old == row[record.skill]
  IN  [record EXCEPT !.usage =
         MergedUsage(IF old = Absent THEN NoUsage ELSE old.usage, @)]

\* The snapshots of save_approved_skills, all of them at once: the upsert pays
\* as little attention to an old one as to a new one.
Snapshot(t) ==
  /\ At(t, "saving")
  /\ records' = [records EXCEPT ![t] = [i \in DOMAIN @ |-> WithSnapshot(@[i])]]
  /\ Goto(t, "upserting")
  /\ UNCHANGED <<row, mem, saved, node, todo, verdict, history, crashes, faults>>

Upsert(t) ==
  /\ At(t, "upserting")
  /\ row' = [s \in Skill |->
       IF \E i \in DOMAIN records[t] : records[t][i].skill = s
       THEN LET i == CHOOSE i \in DOMAIN records[t] : records[t][i].skill = s
            IN  Upserted(row[s], records[t][i].usage)
       ELSE row[s]]
  /\ Goto(t, "ended")
  /\ UNCHANGED <<mem, saved, node, todo, records, verdict, history, crashes, faults>>

\* A snapshot or the upsert fails: store_harvest_result goes on.
SaveFails(t) ==
  /\ at[t] \in {"saving", "upserting"}
  /\ Fault
  /\ Goto(t, "ended")
  /\ UNCHANGED <<row, mem, saved, node, todo, records, verdict, history, crashes>>

After(t) ==
  LET n == node[t] IN
  CASE n[1] = "analyst" -> {<<"coder", n[2]>>, <<"harvester", n[2]>>}
    [] n[1] = "coder" -> {<<"harvester", n[2]>>}
    [] OTHER -> {<<"verdict", n[2]>>}
                \union IF n[2] < Rounds[t] THEN {<<"analyst", n[2] + 1>>} ELSE {}

\* The checkpoint of the node, and on to the next one that touches skills.
EndNode(t) ==
  /\ At(t, "ended")
  /\ \E n \in After(t) : node' = [node EXCEPT ![t] = n]
  /\ Goto(t, "between")
  /\ records' = [records EXCEPT ![t] = <<>>]
  /\ UNCHANGED <<row, mem, saved, todo, verdict, history, crashes, faults>>

\* Mutant of UsedInCodegen: whatever the task has recalled.
AllMatched(memory) == DOMAIN memory.matches

UsedInCodegen(memory) == {s \in DOMAIN memory.matches : memory.matches[s].used}

\* The verdict; one that waits for a human judges no skill.
Conclude(t) ==
  /\ At(t, "between") /\ node[t][1] = "verdict"
  /\ \/ Goto(t, "done") /\ UNCHANGED <<todo, verdict>>
     \/ /\ \E success \in BOOLEAN : verdict' = [verdict EXCEPT ![t] = success]
        /\ todo' = [todo EXCEPT ![t] = SetToSeq(UsedInCodegen(mem[t]))]
        /\ Goto(t, "judging")
  /\ UNCHANGED <<row, mem, saved, node, records, history, crashes, faults>>

\* record_skill_outcome of the next skill.
RecordOutcome(t) ==
  /\ At(t, "judging") /\ todo[t] # <<>>
  /\ LET s == Head(todo[t])
         before == UsageIn(row[s].usage)
         after == Judged(before, t, verdict[t])
     IN  IF row[s] = Absent THEN UNCHANGED <<row, mem, told>>
         ELSE /\ Mutate(s, after)
              /\ mem' = [mem EXCEPT ![t] = Copied(@, s, after)]
              /\ told' = IF after = before THEN told
                         ELSE [told EXCEPT ![s] = Append(@, <<t, verdict[t]>>)]
  /\ todo' = [todo EXCEPT ![t] = Tail(@)]
  /\ UNCHANGED <<saved, at, node, records, verdict, uses, crashes, faults>>

\* It raises: the flow ends as FAILED, whatever its verdict was.
RecordOutcomeFails(t) ==
  /\ At(t, "judging") /\ todo[t] # <<>>
  /\ Fault
  /\ verdict' = [verdict EXCEPT ![t] = FALSE]
  /\ todo' = [todo EXCEPT ![t] = <<>>]
  /\ Goto(t, "done")
  /\ UNCHANGED <<row, mem, saved, node, records, history, crashes>>

\* The memory is persisted and the status written.
Settle(t) ==
  /\ At(t, "judging") /\ todo[t] = <<>>
  /\ Persist(t, mem[t])
  /\ Goto(t, "done")
  /\ UNCHANGED <<row, node, todo, records, verdict, history, crashes>>

\* The process of the task dies and the flow is taken up again in front of the
\* node that had not ended; what the task remembers is restored, or starts
\* anew when that fails.
Crash(t) ==
  /\ at[t] # "done" /\ crashes + faults < MaxTroubles
  /\ crashes' = crashes + 1
  /\ \/ mem' = [mem EXCEPT ![t] = saved[t]] /\ UNCHANGED faults
     \/ Fault /\ mem' = [mem EXCEPT ![t] = NoMemory]
  /\ Goto(t, "between")
  /\ todo' = [todo EXCEPT ![t] = <<>>]
  /\ records' = [records EXCEPT ![t] = <<>>]
  /\ UNCHANGED <<row, saved, node, verdict, history>>

Finished == (\A t \in Task : at[t] = "done") /\ UNCHANGED vars

Next ==
  \/ \E t \in Task :
       \/ Recall(t) \/ RecordUsage(t) \/ RecordUsageFails(t) \/ KeepRecalled(t)
       \/ MarkUsed(t) \/ HarvestNothing(t) \/ Harvest(t) \/ Snapshot(t) \/ Upsert(t) \/ SaveFails(t)
       \/ EndNode(t) \/ Conclude(t) \/ RecordOutcome(t) \/ RecordOutcomeFails(t)
       \/ Settle(t) \/ Crash(t)
  \/ Finished

Spec == Init /\ [][Next]_vars

-----------------------------------------------------------------------------
(* Properties *)

Usage == [count : Nat, last : {<<>>} \union (Task \X {"analyst", "coder"}),
          good : Nat, bad : Nat, judged : {<<>>} \union (Task \X BOOLEAN)]
Row == {Absent} \union [usage : Usage \union {NoUsage}, column : Nat]
Node == {"analyst", "coder", "harvester", "verdict"} \X Nat
Record == [skill : Skill, usage : Usage \union {NoUsage}]

\* The types of the rows and of the flows' positions.
TypeOK ==
  /\ row \in [Skill -> Row]
  /\ at \in [Task -> {"between", "using", "marking", "ended", "saving",
                      "upserting", "judging", "done"}]
  /\ node \in [Task -> Node]
  /\ records \in [Task -> Seq(Record)]
  /\ todo \in [Task -> Seq(Skill)]
  /\ verdict \in [Task -> BOOLEAN]
  /\ \A t \in Task : mem[t].approved \in Seq(Skill)

\* No count is ever taken back: the harvest of one task, which reads the rows
\* and writes them back later, does not undo what another has counted in
\* between (the ON CONFLICT clause of _upsert_records).
CountsGrow ==
  [][\A s \in Skill : row[s] # Absent =>
       /\ row'[s] # Absent
       /\ LET old == UsageIn(row[s].usage)
              new == UsageIn(row'[s].usage)
          IN  old.count <= new.count /\ old.good <= new.good /\ old.bad <= new.bad]_vars

\* Without restarts a skill's use counts once for a task, however many stages
\* and rounds of the task recall it, and whatever calls fail.
UsedOncePerTask == crashes = 0 => \A s \in Skill : IsInjective(uses[s])

\* Without restarts and failures each skill the task used is judged once, with
\* the task's verdict.
JudgedOncePerTask ==
  crashes = 0 /\ faults = 0 =>
    \A s \in Skill : \A i \in DOMAIN told[s] :
      LET t == told[s][i][1]
      IN  /\ \A j \in DOMAIN told[s] : told[s][j][1] = t => j = i
          /\ told[s][i][2] = verdict[t] /\ mem[t].matches[s].used

=============================================================================
