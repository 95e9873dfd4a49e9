------------------------------ MODULE TaskFlow ------------------------------
(***************************************************************************)
(* One task's flow: the rounds of execute_task_flow, the checkpoint around *)
(* every node (_run_checkpointed_node), the nodes' effects on the          *)
(* execution state, and the verdict that becomes the task's status.        *)
(*                                                                         *)
(* The flow is the list `todo' of what the round still has to do.  A step  *)
(* is <<node, tag>>: node and tag make the checkpoint's name, with the     *)
(* round's number for the nodes in PerRound.  <<"if", x>> is a decision of *)
(* _execute_round or execute_task_flow between nodes, <<"verdict", x>> the *)
(* write of the final status.                                              *)
(*                                                                         *)
(* A crash at any point loses the graph state and keeps the checkpoints    *)
(* and the execution state; an unfinished task starts over and replays the *)
(* completed nodes.  Which process runs the flow is the matter of          *)
(* TaskLease; here a lost lease is one more way for the flow to end.       *)
(***************************************************************************)
EXTENDS Integers, Sequences, FiniteSets

CONSTANTS
  Scenarios,        \* the tasks to follow and their environments: records of
                    \*   stored:    ExecutionData exists, checkpoints are kept
                    \*   reports:   whether patches carry round_output and
                    \*              material_refresh_actions, a set of Booleans
                    \*   routes:    what the analyst may put in next_actions
                    \*   refreshes: what the evidence compiler may ask for
                    \*   entries:   next_actions the flow is called with
                    \*   overlays:  resume overlays, in the state the flow is
                    \*              called with or from the dynamic node
                    \*   leaseLoss: whether the lease may be lost
                    \*   crashes:   bound on crashes
  MaxRounds,        \* _MAX_STATIC_ROUNDS
  MaxDebugRetries   \* MAX_DEBUG_RETRIES of the auditor

Elements(s) == {s[i] : i \in DOMAIN s}
IsList(s) == s \in Seq(Elements(s))

\* A resume overlay: whether it resumes the static path, the steps it asks for
\* and those it skips.
IsOverlay(o) ==
  /\ DOMAIN o = {"go", "next", "skip"}
  /\ o.go \in BOOLEAN /\ IsList(o.next)

NoOverlay == [go |-> FALSE, next |-> <<>>, skip |-> {}]

ASSUME FlowParameters ==
  /\ \A s \in Scenarios :
       /\ {s.stored, s.leaseLoss} \cup s.reports \subseteq BOOLEAN
       /\ s.reports # {}
       /\ \A actions \in s.routes \cup s.refreshes \cup s.entries : IsList(actions)
       /\ \A o \in s.overlays : IsOverlay(o)
       /\ <<>> \in s.entries /\ NoOverlay \in s.overlays
       /\ s.crashes \in Nat
  /\ MaxRounds \in Nat \ {0}
  /\ MaxDebugRetries \in Nat

VARIABLES
  round,     \* round_idx
  todo,      \* steps the round still has to take
  doing,     \* "idle", "running": in a node, "returned": before its checkpoint
  patch,     \* what the node has returned
  g,         \* the graph state, as far as the control flow reads it
  overlay,   \* the resume overlay of this round
  coded,     \* has_coder
  dyn,       \* has_dynamic
  ckpt,      \* persisted node_checkpoints
  code,      \* persisted generated_code: "none", "safe" or "unsafe"
  audited,   \* the auditor has seen this code
  record,    \* persisted execution_record: "none", "ok" or "bad"
  verified,  \* persisted artifact_verification.passed
  status,    \* global_status
  crashes,
  scenario   \* the member of Scenarios this behaviour follows

memory == <<round, todo, doing, patch, g, overlay, coded, dyn>>
disk == <<code, audited, record, verified>>
vars == <<memory, ckpt, disk, status, crashes, scenario>>

Stored == scenario.stored
Reports == scenario.reports

Unfinished == {"pending", "working"}
Settled == {"success", "failed", "waiting"}

-----------------------------------------------------------------------------
(* The graph state and checkpoints *)

\* The defaults of NodeOutputPatchState: the fields a checkpoint can hold.
Defaults == [
  next_actions |-> <<>>, retry_count |-> 0, audit_result |-> "unset",
  execution_record |-> "none", blocked |-> FALSE, dynamic_status |-> "none",
  dynamic_continuation |-> "finish", dynamic_resume_overlay |-> NoOverlay,
  final_response |-> "none"]

\* The graph state _run_task_flow or a test starts execute_task_flow with.
Fresh(entry, resume) ==
  [next_actions |-> entry, retry_count |-> 0, audit_result |-> "unset",
   execution_record |-> "none", blocked |-> FALSE, dynamic_status |-> "none",
   dynamic_continuation |-> "finish", dynamic_resume_overlay |-> resume,
   final_response |-> "none",
   round_output |-> "stop", material_refresh_actions |-> <<>>,
   compiled_evidence_sources |-> {}, force_analyst |-> FALSE]

\* state.update(p) for the graph state.
Update(state, p) ==
  LET new(f) == IF f \in DOMAIN p THEN p[f] ELSE state[f]
  IN  [next_actions |-> new("next_actions"), retry_count |-> new("retry_count"),
       audit_result |-> new("audit_result"),
       execution_record |-> new("execution_record"), blocked |-> new("blocked"),
       dynamic_status |-> new("dynamic_status"),
       dynamic_continuation |-> new("dynamic_continuation"),
       dynamic_resume_overlay |-> new("dynamic_resume_overlay"),
       final_response |-> new("final_response"),
       round_output |-> new("round_output"),
       material_refresh_actions |-> new("material_refresh_actions"),
       compiled_evidence_sources |-> state.compiled_evidence_sources,
       force_analyst |-> state.force_analyst]

\* A node returns a part of these fields.
NoPatch == <<>>

PerRound == {"analyst", "static_evidence", "coder", "auditor", "debugger",
             "executor", "skill_harvester"}

\* The name of a step's checkpoint: "coder:r0", "summarizer".
Key(s) == <<s, IF s[1] \in PerRound THEN round ELSE 0>>

NoCheckpoint == [state |-> "absent", output |-> NoPatch]

Checkpoint(s) == IF Key(s) \in DOMAIN ckpt THEN ckpt[Key(s)] ELSE NoCheckpoint

SetCheckpoint(s, state, output) ==
  ckpt' = IF Stored
            THEN [k \in DOMAIN ckpt \cup {Key(s)} |->
                    IF k = Key(s) THEN [state |-> state, output |-> output] ELSE ckpt[k]]
            ELSE ckpt

\* NodeCheckpointState validates the patch: fields it does not know and an
\* audit_result of None are errors.
Storable(p) ==
  /\ DOMAIN p \subseteq DOMAIN Defaults
  /\ "audit_result" \in DOMAIN p => p.audit_result # "None"

\* Every field of the model comes back from a checkpoint, set or not.
Replayed(s) ==
  LET p == Checkpoint(s).output
  IN  [f \in DOMAIN Defaults |-> IF f \in DOMAIN p THEN p[f] ELSE Defaults[f]]

Completed(s) == Stored /\ Checkpoint(s).state = "completed"

-----------------------------------------------------------------------------
(* The steps of a round *)

\* The lists of a sequence of lists, one after the other.
Joined(lists) ==
  LET upto[i \in 0 .. Len(lists)] ==
        IF i = 0 THEN <<>> ELSE upto[i - 1] \o lists[i]
  IN  upto[Len(lists)]

Compile(source) ==
  IF source \in g.compiled_evidence_sources
    THEN <<>> ELSE << <<"evidence_compiler", source>> >>

\* Data preparation before the analyst.
PrepareSteps(a) ==
  IF a \in overlay.skip THEN <<>>
  ELSE CASE a = "data_inspector" -> << <<a, "">> >>
         [] a = "kag_retriever" -> << <<a, "">>, <<"context_builder", "">> >>
         [] OTHER -> <<>>

\* What follows compiled evidence.
RefreshSteps(a) ==
  CASE a \in {"data_inspector", "context_builder"} ->
         << <<a, "material_refresh">> >>
    [] a = "kag_retriever" ->
         << <<a, "material_refresh">>, <<"context_builder", "material_refresh">> >>
    [] OTHER -> <<>>

Coder == IF "coder" \in overlay.skip THEN <<>> ELSE << <<"coder", "">> >>

\* The coders among the steps of an overlay.
Coders(next) ==
  [i \in 1 .. Cardinality({j \in DOMAIN next : next[j] = "coder"}) |-> "coder"]

\* What follows the analyst.
PlanSteps(a) ==
  CASE a = "static_evidence" /\ a \notin overlay.skip /\ ~overlay.go ->
         << <<a, "">> >> \o Compile(a) \o << <<"if", "refreshed">> >>
    [] a = "coder" -> Coder
    [] OTHER -> <<>>

NewRound == << <<"if", "overlay">> >>
Ending == << <<"summarizer", "">>, <<"verdict", "flow">> >>
Blocked == << <<"summarizer", "">>, <<"verdict", "blocked">> >>
Failure == << <<"verdict", "error">> >>
Lost == << <<"verdict", "lost">> >>

At(node, tag) == todo # <<>> /\ Head(todo) = <<node, tag>>
AtNode(node) == todo # <<>> /\ Head(todo)[1] = node
Then(steps) == todo' = steps \o Tail(todo)

-----------------------------------------------------------------------------
Init ==
  /\ scenario \in Scenarios
  /\ round = 0
  /\ todo = NewRound
  /\ doing = "idle"
  /\ patch = NoPatch
  /\ \E entry \in scenario.entries, o \in scenario.overlays : g = Fresh(entry, o)
  /\ overlay = NoOverlay
  /\ coded = FALSE /\ dyn = FALSE
  /\ ckpt = <<>>
  /\ code = "none" /\ audited = FALSE
  /\ record = "none" /\ verified = FALSE
  /\ status = "pending"
  /\ crashes = 0

-----------------------------------------------------------------------------
(* Decisions between the nodes *)

Decides(x) ==
  /\ At("if", x)
  /\ UNCHANGED <<doing, patch, ckpt, disk, status, crashes>>

\* Phase 0: an overlay that resumes the static path is compiled first.
DecideOverlay ==
  /\ Decides("overlay")
  /\ overlay' = IF g.dynamic_resume_overlay.go
                  THEN g.dynamic_resume_overlay ELSE NoOverlay
  /\ Then((IF g.dynamic_resume_overlay.go
             THEN Compile("dynamic_resume") ELSE <<>>) \o << <<"if", "prepare">> >>)
  /\ UNCHANGED <<round, g, coded, dyn>>

\* Phase 1: the preparation that next_actions asks for.
DecidePreparation ==
  /\ Decides("prepare")
  /\ LET asked == [i \in DOMAIN g.next_actions |-> PrepareSteps(g.next_actions[i])]
     IN  Then(Joined(asked) \o << <<"if", "analyst">> >>)
  /\ UNCHANGED <<round, g, overlay, coded, dyn>>

\* Phase 2: the analyst runs, or the overlay's steps stand in for its plan.
DecideAnalyst ==
  /\ Decides("analyst")
  /\ IF /\ "analyst" \notin overlay.skip
        /\ ~overlay.go \/ "analyst" \in Elements(overlay.next) \/ g.force_analyst
       THEN /\ Then(<< <<"analyst", "">>, <<"if", "plan">> >>)
            /\ UNCHANGED g
       ELSE /\ Then(<< <<"if", "plan">> >>)
            /\ g' = [g EXCEPT !.next_actions = Coders(overlay.next)]
  /\ UNCHANGED <<round, overlay, coded, dyn>>

\* Phase 3: the actions of the plan.
DecidePlan ==
  /\ Decides("plan")
  /\ LET plan == [i \in DOMAIN g.next_actions |-> PlanSteps(g.next_actions[i])]
     IN  Then(Joined(plan) \o << <<"if", "coder">> >>)
  /\ coded' = FALSE
  /\ dyn' = ("dynamic" \in Elements(g.next_actions))
  /\ UNCHANGED <<round, g, overlay>>

\* Refreshed material goes through the analyst and on to the coder.
DecideRefreshed ==
  /\ Decides("refreshed")
  /\ Then(IF g.force_analyst
            THEN << <<"analyst", "material_refresh">> >> \o Coder ELSE <<>>)
  /\ UNCHANGED <<round, g, overlay, coded, dyn>>

\* On resume from the dynamic path the coder follows by itself.
DecideCoder ==
  /\ Decides("coder")
  /\ Then((IF overlay.go /\ "analyst" \notin overlay.skip /\ ~coded
             THEN Coder ELSE <<>>)
          \o << <<"auditor", "">>, <<"if", "debugger">> >>)
  /\ UNCHANGED <<round, g, overlay, coded, dyn>>

\* Mutant of DecideDebugger: the repaired code is not audited again.
DecideDebuggerOnly ==
  /\ Decides("debugger")
  /\ Then((IF g.next_actions = <<"debugger">>
             THEN << <<"debugger", "">> >> ELSE <<>>) \o << <<"if", "executor">> >>)
  /\ UNCHANGED <<round, g, overlay, coded, dyn>>

\* Phase 4: only a request for the debugger is acted upon.
DecideDebugger ==
  /\ Decides("debugger")
  /\ Then((IF g.next_actions = <<"debugger">>
             THEN << <<"debugger", "">>, <<"auditor", "post_debug">> >>
             ELSE <<>>) \o << <<"if", "executor">> >>)
  /\ UNCHANGED <<round, g, overlay, coded, dyn>>

\* Phase 5: the executor, or a round without one.
DecideExecutor ==
  /\ Decides("executor")
  /\ IF coded /\ ~dyn
       THEN /\ Then(<< <<"executor", "">>, <<"if", "verified">> >>)
            /\ UNCHANGED g
       ELSE /\ Then(<< <<"skill_harvester", "">>, <<"if", "round">> >>)
            /\ g' = [g EXCEPT !.round_output = IF dyn THEN "dynamic" ELSE "stop"]
  /\ UNCHANGED <<round, overlay, coded, dyn>>

\* Failed verification: one repair and one more run.
DecideVerified ==
  /\ Decides("verified")
  /\ Then((IF g.round_output = "verification_failed"
             THEN << <<"debugger", "post_exec">>, <<"auditor", "post_exec">>,
                     <<"executor", "retry">> >>
             ELSE <<>>) \o << <<"skill_harvester", "">>, <<"if", "round">> >>)
  /\ UNCHANGED <<round, g, overlay, coded, dyn>>

\* Mutant of NextRound: the round's number stays.
SameRound == todo' = NewRound /\ UNCHANGED round

\* Mutant of NextRound: one round too many.
OneMoreRound ==
  IF round < MaxRounds
    THEN round' = round + 1 /\ todo' = NewRound
    ELSE todo' = Ending /\ UNCHANGED round

\* The next iteration of the loop, or its end.
NextRound ==
  IF round + 1 < MaxRounds
    THEN round' = round + 1 /\ todo' = NewRound
    ELSE todo' = Ending /\ UNCHANGED round

DecideRound ==
  /\ Decides("round")
  /\ CASE g.round_output = "again" -> NextRound
       [] g.round_output = "dynamic" ->
            /\ todo' = << <<"dynamic", "">>, <<"if", "resumed">> >>
            /\ UNCHANGED round
       [] OTHER -> todo' = Ending /\ UNCHANGED round
  /\ UNCHANGED <<g, overlay, coded, dyn>>

DecideResumed ==
  /\ Decides("resumed")
  /\ IF g.dynamic_continuation = "resume_static"
       THEN NextRound ELSE todo' = Ending /\ UNCHANGED round
  /\ UNCHANGED <<g, overlay, coded, dyn>>

-----------------------------------------------------------------------------
(* A node and its checkpoint *)

IsNode == todo # <<>> /\ Head(todo)[1] \notin {"if", "verdict"}

\* The refresh steps a step inserts: those of a compiler that has just run.
Inserted(s, after) ==
  LET asked == after.material_refresh_actions
  IN  IF s[1] = "evidence_compiler"
        THEN Joined([i \in DOMAIN asked |-> RefreshSteps(asked[i])]) ELSE <<>>

\* Mutant of Blocks: a failed knowledge build does not block.
BlocksOnDataOnly(s) == s[1] \in {"data_inspector", "static_evidence"}

\* After these nodes the flow looks at "blocked".
Blocks(s) == s[1] \in {"data_inspector", "kag_retriever", "static_evidence"}

\* current_state.update(p), and what the flow does on account of p.
Apply(s, p) ==
  LET before == IF s[1] = "executor" THEN [g EXCEPT !.round_output = "stop"] ELSE g
      after == Update(before, p)
  IN
  /\ g' = IF s[1] = "evidence_compiler"
            THEN [after EXCEPT
                   !.compiled_evidence_sources = @ \cup {s[2]},
                   !.force_analyst = @ \/ after.material_refresh_actions # <<>>]
            ELSE after
  /\ IF Blocks(s) /\ after.blocked THEN todo' = Blocked
                                   ELSE Then(Inserted(s, after))
  /\ coded' = (coded \/ s[1] = "coder")
  /\ UNCHANGED <<round, overlay, dyn>>

Replay ==
  /\ IsNode /\ doing = "idle"
  /\ Completed(Head(todo))
  /\ Apply(Head(todo), Replayed(Head(todo)))
  /\ UNCHANGED <<doing, patch, ckpt, disk, status, crashes>>

Begin ==
  /\ IsNode /\ doing = "idle"
  /\ ~Completed(Head(todo))
  /\ doing' = "running"
  /\ SetCheckpoint(Head(todo), "running", Checkpoint(Head(todo)).output)
  /\ UNCHANGED <<round, todo, patch, g, overlay, coded, dyn, disk, status, crashes>>

Runs(node) == doing = "running" /\ AtNode(node)

Return(p) ==
  /\ doing' = "returned"
  /\ patch' = p
  /\ UNCHANGED <<round, todo, g, overlay, coded, dyn, ckpt, crashes>>

\* The node has returned: its checkpoint is completed and its patch applied.
Complete ==
  /\ doing = "returned"
  /\ ~Stored \/ Storable(patch)
  /\ SetCheckpoint(Head(todo), "completed", patch)
  /\ Apply(Head(todo), patch)
  /\ doing' = "idle" /\ patch' = NoPatch
  /\ UNCHANGED <<disk, status, crashes>>

FlowStops(ending) ==
  /\ todo' = ending
  /\ doing' = "idle" /\ patch' = NoPatch
  /\ UNCHANGED <<round, g, overlay, coded, dyn, disk, crashes>>

\* The checkpoint's validation raises outside the try block of the node.
Reject ==
  /\ doing = "returned"
  /\ Stored /\ ~Storable(patch)
  /\ FlowStops(Failure)
  /\ UNCHANGED <<ckpt, status>>

\* Nodes that report no phase to the task's status.
Silent == {"evidence_compiler", "context_builder", "dynamic"}

\* The node raises, before or after it has reported its phase.
Raise ==
  /\ doing = "running"
  /\ SetCheckpoint(Head(todo), "failed", Checkpoint(Head(todo)).output)
  /\ status' = status \/ (status' = "working" /\ Head(todo)[1] \notin Silent)
  /\ FlowStops(Failure)

\* The lease check in front of a node, or one inside the executor and the
\* dynamic node, raises TaskLeaseLostError.
LoseLease ==
  /\ scenario.leaseLoss
  /\ \/ IsNode /\ doing = "idle" /\ UNCHANGED <<ckpt, status>>
     \/ /\ \/ Runs("executor") /\ code # "none" /\ status' \in {status, "working"}
           \/ Runs("dynamic") /\ UNCHANGED status
        /\ SetCheckpoint(Head(todo), "failed", Checkpoint(Head(todo)).output)
  /\ FlowStops(Lost)

-----------------------------------------------------------------------------
(* The nodes *)

NoWrite == UNCHANGED disk
Working == status' = "working"

Analyst ==
  /\ Runs("analyst")
  /\ \E route \in scenario.routes : Return([next_actions |-> route])
  /\ NoWrite /\ Working

StaticEvidence ==
  /\ Runs("static_evidence")
  /\ \E blocked \in BOOLEAN :
       Return(IF blocked THEN [blocked |-> TRUE, next_actions |-> <<"coder">>]
                         ELSE [next_actions |-> <<"coder">>])
  /\ NoWrite /\ Working

EvidenceCompiler ==
  /\ Runs("evidence_compiler")
  /\ \/ TRUE \in Reports /\ \E r \in scenario.refreshes : Return([material_refresh_actions |-> r])
     \/ FALSE \in Reports /\ Return(NoPatch)
  /\ NoWrite /\ UNCHANGED status

\* A preparation that blocks asks for a human and says so in the status.
PrepareBlocked ==
  /\ Return([blocked |-> TRUE, next_actions |-> <<"wait_for_human">>])
  /\ status' = "waiting"

DataInspector ==
  /\ Runs("data_inspector")
  /\ \/ PrepareBlocked
     \/ Return([blocked |-> FALSE]) /\ Working
  /\ NoWrite

KagRetriever ==
  /\ Runs("kag_retriever")
  /\ \/ PrepareBlocked
     \/ Return([next_actions |-> <<"context_builder">>]) /\ Working
  /\ NoWrite

ContextBuilder ==
  /\ Runs("context_builder")
  /\ Return([next_actions |-> <<"analyst">>])
  /\ NoWrite /\ UNCHANGED status

\* New code, by the coder or the debugger; the audit of the old one is void.
WriteCode ==
  /\ code' \in {"safe", "unsafe"}
  /\ audited' = FALSE
  /\ UNCHANGED <<record, verified>>

CoderNode ==
  /\ Runs("coder")
  /\ Return([next_actions |-> <<"auditor">>])
  /\ WriteCode /\ Working

\* Without ExecutionData the coder has nothing to generate code from.
CoderNoContext ==
  /\ Runs("coder") /\ ~Stored /\ code = "none"
  /\ Return([next_actions |-> <<"auditor">>])
  /\ NoWrite /\ Working

DebuggerNode ==
  /\ Runs("debugger")
  /\ Return([next_actions |-> <<"auditor">>, retry_count |-> g.retry_count + 1])
  /\ WriteCode /\ Working

MayRepair == g.retry_count < MaxDebugRetries

AuditorNoCode ==
  /\ Runs("auditor") /\ code = "none"
  /\ Return([audit_result |-> "None", next_actions |-> <<"executor">>])
  /\ NoWrite /\ Working

AuditorSafe ==
  /\ Runs("auditor") /\ code = "safe"
  /\ Return([audit_result |-> "given", next_actions |-> <<"executor">>])
  /\ audited' = TRUE /\ UNCHANGED <<code, record, verified>> /\ Working

AuditorRepair ==
  /\ Runs("auditor") /\ code = "unsafe" /\ MayRepair
  /\ Return([audit_result |-> "given", next_actions |-> <<"debugger">>])
  /\ audited' = TRUE /\ UNCHANGED <<code, record, verified>> /\ Working

\* Repairs are used up: the auditor writes FAILED for the task.
AuditorGivesUp ==
  /\ Runs("auditor") /\ code = "unsafe" /\ ~MayRepair
  /\ Return([audit_result |-> "given", next_actions |-> <<"skill_harvester">>])
  /\ audited' = TRUE /\ UNCHANGED <<code, record, verified>>
  /\ status' = "failed"

ReturnRecord(r, out) ==
  \/ TRUE \in Reports /\ Return([execution_record |-> r, round_output |-> out])
  \/ FALSE \in Reports /\ Return([execution_record |-> r])

ExecutorNoCode ==
  /\ Runs("executor") /\ code = "none"
  /\ ReturnRecord("none", "stop")
  /\ NoWrite /\ UNCHANGED status

\* The sandbox audits the code once more; then the artifacts are verified.
Executor ==
  /\ Runs("executor") /\ code # "none"
  /\ record' \in IF code = "safe" THEN {"ok", "bad"} ELSE {"bad"}
  /\ verified' \in BOOLEAN
  /\ \E multi \in BOOLEAN :
       ReturnRecord(record', IF ~verified' THEN "verification_failed"
                             ELSE IF multi THEN "again" ELSE "stop")
  /\ UNCHANGED <<code, audited>> /\ Working

SkillHarvester ==
  /\ Runs("skill_harvester")
  /\ Return(NoPatch)
  /\ NoWrite /\ Working

Summarizer ==
  /\ Runs("summarizer")
  /\ \E r \in {"answer", "gap"} : Return([final_response |-> r])
  /\ NoWrite /\ Working

Explored(o) ==
  [dynamic_status |-> "completed", dynamic_resume_overlay |-> o,
   dynamic_continuation |-> IF o.go THEN "resume_static" ELSE "finish"]

\* Governance denies the exploration, or it runs; "unavailable" is a result of
\* the tests' stubs, which the verdict knows.
Dynamic ==
  /\ Runs("dynamic")
  /\ \/ \E result \in {"denied", "unavailable"} :
          Return([dynamic_status |-> result, dynamic_continuation |-> "finish"])
     \/ \E o \in scenario.overlays : Return(Explored(o))
  /\ NoWrite /\ UNCHANGED status

NodeStep ==
  \/ Analyst \/ StaticEvidence \/ EvidenceCompiler \/ DataInspector
  \/ KagRetriever \/ ContextBuilder \/ CoderNode \/ CoderNoContext \/ DebuggerNode
  \/ AuditorNoCode \/ AuditorSafe \/ AuditorRepair \/ AuditorGivesUp
  \/ ExecutorNoCode \/ Executor \/ SkillHarvester \/ Summarizer \/ Dynamic

-----------------------------------------------------------------------------
(* The verdict, and crashes *)

\* Mutant of FlowVerdict: the execution record is not looked at.
FlowVerdictOnText ==
  CASE g.dynamic_status = "denied" -> "waiting"
    [] g.dynamic_status = "unavailable" -> "failed"
    [] OTHER -> IF g.final_response = "gap" THEN "waiting" ELSE "success"

\* Mutant of FlowVerdict: a run without a report is a failure.
FlowVerdictOnOutput ==
  CASE g.dynamic_status = "denied" -> "waiting"
    [] g.dynamic_status = "unavailable" -> "failed"
    [] OTHER ->
         IF g.execution_record # "ok" \/ g.round_output = "verification_failed"
           THEN "failed"
           ELSE IF g.final_response = "gap" THEN "waiting" ELSE "success"

\* execute_task_flow's verdict when the rounds have ended.
FlowVerdict ==
  CASE g.dynamic_status = "denied" -> "waiting"
    [] g.dynamic_status = "unavailable" -> "failed"
    [] OTHER -> IF g.execution_record # "ok" THEN "failed"
                ELSE IF g.final_response = "gap" THEN "waiting" ELSE "success"

Verdict(kind) ==
  CASE kind = "flow" -> FlowVerdict
    [] kind = "blocked" -> "waiting"
    [] OTHER -> "failed"

WriteVerdict ==
  /\ AtNode("verdict")
  /\ status' = Verdict(Head(todo)[2])
  /\ todo' = <<>>
  /\ UNCHANGED <<round, doing, patch, g, overlay, coded, dyn, ckpt, disk, crashes>>

\* The outcome of the skills used is recorded before the status; if that
\* fails the task fails.
VerdictRaises ==
  /\ AtNode("verdict") /\ Head(todo)[2] # "error"
  /\ Verdict(Head(todo)[2]) \in {"success", "failed"}
  /\ todo' = Failure
  /\ UNCHANGED <<round, doing, patch, g, overlay, coded, dyn, ckpt, disk,
                 status, crashes>>

\* The process dies.  Recovery lists the task if it is unfinished and runs
\* the flow from the start, over the checkpoints.
Crash ==
  /\ todo # <<>> /\ crashes < scenario.crashes
  /\ crashes' = crashes + 1
  /\ todo' = IF status \in Unfinished THEN NewRound ELSE <<>>
  /\ round' = 0 /\ doing' = "idle" /\ patch' = NoPatch
  /\ g' = Fresh(<<>>, NoOverlay)
  /\ overlay' = NoOverlay /\ coded' = FALSE /\ dyn' = FALSE
  /\ UNCHANGED <<ckpt, disk, status>>

Decide ==
  \/ DecideOverlay \/ DecidePreparation \/ DecideAnalyst \/ DecidePlan
  \/ DecideRefreshed \/ DecideCoder \/ DecideDebugger \/ DecideExecutor
  \/ DecideVerified \/ DecideRound \/ DecideResumed

FlowStep ==
  /\ \/ Decide \/ Replay \/ Begin \/ NodeStep \/ Complete \/ Reject \/ Raise
     \/ WriteVerdict \/ VerdictRaises
  /\ UNCHANGED scenario

\* The flow has written its verdict.
Ended == todo = <<>> /\ UNCHANGED vars

Next ==
  \/ FlowStep
  \/ LoseLease /\ UNCHANGED scenario
  \/ Crash /\ UNCHANGED scenario
  \/ Ended

\* A node returns or raises in the end: the sandbox and the model calls have
\* timeouts.  A lease need not be lost and a process need not crash.
Spec == Init /\ [][Next]_vars /\ WF_vars(FlowStep)

-----------------------------------------------------------------------------
(* Properties *)

\* The variables have their types; a flow is in a node only with a node at
\* the head of its steps, and holds a patch only between node and checkpoint.
TypeOK ==
  /\ round \in 0 .. MaxRounds - 1
  /\ doing \in {"idle", "running", "returned"}
  /\ doing # "idle" => IsNode
  /\ doing # "returned" => patch = NoPatch
  /\ DOMAIN g = DOMAIN Fresh(<<>>, NoOverlay)
  /\ overlay \in scenario.overlays
  /\ {coded, dyn, audited, verified} \subseteq BOOLEAN
  /\ \A k \in DOMAIN ckpt :
       /\ ckpt[k].state \in {"running", "completed", "failed"}
       /\ Storable(ckpt[k].output)
  /\ code \in {"none", "safe", "unsafe"}
  /\ record \in {"none", "ok", "bad"}
  /\ status \in Unfinished \cup Settled
  /\ crashes \in 0 .. scenario.crashes

\* The executor never takes code to the sandbox that no auditor has seen:
\* every repair, after an audit or after a failed verification, and every
\* regeneration after a crash is audited before it runs.
AuditedBeforeRun == Runs("executor") /\ code # "none" => audited

\* A task is SUCCESS only if the execution record on disk is that of a
\* successful run: no overlay, replay, crash or dynamic detour ends in
\* SUCCESS without one.
SuccessMeansRun == status = "success" => record = "ok"

\* Once preparation or evidence is blocked the flow only summarizes: no code
\* is written, audited or run on material known to be missing.
BlockedRunsNothing ==
  [][doing = "idle" /\ doing' = "running" /\ g.blocked => AtNode("summarizer")]_vars

\* When the flow comes to its verdict and the sandbox has recorded success
\* the verdict is not FAILED, unless the dynamic path was unavailable.
VerdictFollowsRecord ==
  [][At("verdict", "flow") /\ todo' = <<>> /\ status' = "failed" /\ crashes = 0
       => record # "ok" \/ g.dynamic_status = "unavailable"]_vars

\* Every flow ends: rounds, repairs, resumes and crashes cannot go on for ever.
EventuallyEnds == <>[](todo = <<>>)

-----------------------------------------------------------------------------
(* What the documents say and the code does not keep *)

\* A node that has returned does not fail the task on account of what its
\* patch contains: unknown fields are tolerated by the checkpoint.
UnknownFieldsTolerated ==
  [][doing = "returned" => todo' # Failure]_vars

=============================================================================
