---------------------------- MODULE StaticChain ----------------------------
(***************************************************************************)
(* The static chain of one task: what its nodes hand to each other.        *)
(* The analyst writes a plan; a bounded plan first collects evidence,      *)
(* which is compiled into datasets or knowledge hits and refreshes the     *)
(* task's materials; the coder makes a program for the plan; auditor and   *)
(* debugger repair it once; the executor runs it and verifies the files it *)
(* leaves; the summarizer's response and the run's record give the status. *)
(*                                                                         *)
(* TaskFlow has the order of the nodes, their checkpoints, crashes and     *)
(* leases.  Here the order is that of a task without a dynamic detour and  *)
(* the nodes' data are modelled.  One thing of the checkpoints matters:    *)
(* the model of a completed node's patch rejects the fields of the         *)
(* executor and of the evidence compiler it does not declare, although its *)
(* comment says it tolerates them.  `strict' tells the two apart; a strict *)
(* checkpoint ends the task.  (The format of a JSON dataset's mount is not *)
(* declared either: the coder's patch is then rejected, one node earlier.) *)
(***************************************************************************)
EXTENDS Naturals, FiniteSets, SequencesExt

CONSTANTS
  Inputs,       \* what a task may start with: records of a query and inputs
  Plans,        \* the plans the language model may return, see Plan
  Pages,        \* what one search or fetch may return: sequences of records
  Strays,       \* files outside its plan that a written program may leave
  Checkpoints,  \* subset of BOOLEAN: are unknown patch fields rejected?
  MaxRows,      \* cap on the rows of the compiled dataset
  MaxRounds,    \* rounds of the loop
  MaxRetries    \* repairs after an audit

Bounded == "bounded"
EvidenceFile == "evidence.json"      \* the compiled dataset
BundleFile == "static_evidence.json" \* the collected bundle

ASSUME Limits ==
  MaxRows \in Nat \ {0} /\ MaxRounds \in Nat \ {0} /\ MaxRetries \in Nat /\ Checkpoints \subseteq BOOLEAN

-----------------------------------------------------------------------------
(* The contract between planner, coder and verification.                   *)

Modes == {"auto", "dataset_analysis", "document_rule_audit", "document_rule_analysis",
          "hybrid_analysis", "dynamic_research_analysis", "need_more_inputs"}

Family(mode) ==
  CASE mode = "document_rule_analysis" -> "document_rule_audit"
    [] mode \in {"hybrid_analysis", "dynamic_research_analysis"} -> "hybrid_reconciliation"
    [] mode = "need_more_inputs" -> "input_gap_report"
    [] OTHER -> "dataset_profile"

Families == {Family(mode) : mode \in Modes}

Required(family) ==
  CASE family = "dataset_profile" -> {"analysis_report.md", "summary.json"}
    [] family = "document_rule_audit" -> {"rule_audit_report.md", "rule_checks.json"}
    [] family = "hybrid_reconciliation" ->
         {"analysis_report.md", "cross_source_findings.json", "comparison.csv"}
    [] family = "input_gap_report" -> {"input_gap_report.md"}

Optional(family) ==
  CASE family = "dataset_profile" -> {"comparison.csv"}
    [] family = "input_gap_report" -> {"requested_inputs.json"}
    [] OTHER -> {}

Declared(family) == Required(family) \cup Optional(family)

Prohibited(family) == IF family = "input_gap_report" THEN {"chart"} ELSE {}

Files == UNION {Declared(family) : family \in Families} \cup Strays

\* What a file is, by its suffix; a file without one is a mere diagnostic and
\* one with a foreign suffix is not accepted at all.
Category(file) ==
  CASE file \in {"analysis_report.md", "rule_audit_report.md", "input_gap_report.md"} -> "report"
    [] file \in {"chart.png"} -> "chart"
    [] file \in {"program.bin"} -> "foreign"
    [] file \in {"log"} -> "diagnostic"
    [] OTHER -> "export"

\* Mutant of Unexpected: optional files count as undeclared.
UnexpectedOptional(family, files) ==
  {file \in files : \/ Category(file) = "foreign"
                    \/ file \notin Required(family) /\ Category(file) # "diagnostic"
                    \/ Category(file) \in Prohibited(family)}

\* The verification of a run's files against a family's contract.
Unexpected(family, files) ==
  {file \in files : \/ Category(file) = "foreign"
                    \/ file \notin Declared(family) /\ Category(file) # "diagnostic"
                    \/ Category(file) \in Prohibited(family)}

MeetsContract(family, files) ==
  Required(family) \subseteq files /\ Unexpected(family, files) = {}

-----------------------------------------------------------------------------
(* Data.                                                                   *)

Least(a, b) == IF a < b THEN a ELSE b

\* What one search result or fetched page holds for the compiler: the rows its
\* text parses into, whether there is a text at all, and whether a line of it
\* names a rule, a metric or a filter.
Record == [rows : Seq(Nat), text : BOOLEAN, labelled : BOOLEAN]

\* What a query says about the network, whether it asks for code or for a
\* verification, and the materials it mentions.
Query == [external : {"forbidden", "open", "single", "none"}, code : BOOLEAN,
          mentions : SUBSET {"dataset", "document"}]

\* The task's inputs: datasets, those among them nothing can read, documents, and
\* whether there is business context.
AreMaterials(in) ==
  /\ in = [datasets |-> in.datasets, broken |-> in.broken,
           documents |-> in.documents, context |-> in.context]
  /\ in.broken \subseteq in.datasets /\ in.context \in BOOLEAN

\* The planner's structured answer: `queries' and `urls' count its evidence
\* plan, `research' is the mode written there, `governed' says whether the
\* profile static_evidence allows the capabilities it asks for.
Plan == [network : {"none", Bounded, "open"}, iteration : {"single_pass", "multi_round"},
         mode : Modes, by : {"model", "fallback"}, queries : Nat, urls : Nat,
         research : {"none", "single_pass"}, governed : BOOLEAN]

\* What a search or a fetch returns is a sequence of records.
ASSUME PagesOfRecords == Pages \subseteq Seq(Record)
ASSUME Situations == \A s \in Inputs : s.query \in Query /\ AreMaterials(s.inputs)
ASSUME PlansOfTheModel == \A p \in Plans : p \in Plan /\ p.by = "model"

NoBrief == [mode |-> "none"]
NoPlan == [mode |-> "none"]
NoCode == [by |-> "none", safe |-> FALSE]
NoRun == [by |-> "none", ok |-> FALSE]
NoVerification == [passed |-> FALSE, plan |-> NoPlan]
NoMaterial == [records |-> 0, rows |-> <<>>, from |-> {}, hits |-> {}]

VARIABLES
  strict,        \* the checkpoint of this flow rejects unknown fields
  query, inputs, \* of the task: datasets, broken, documents, context
  inspected,     \* datasets whose schema is known
  brief, plan,   \* knowledge.analysis_brief, static.execution_strategy
  bundle,        \* static.static_evidence_bundle: the records collected last
  material,      \* what the evidence compiler has made of the first bundle
  compiled,      \* compiled_evidence_sources has static_evidence
  forced,        \* force_analyst_after_material_refresh
  mounts,        \* the flow's input_mounts
  code,          \* static.generated_code, with the plan it was made for
  record,        \* execution_record: the last run of the sandbox
  verification,  \* static.artifact_verification, with the plan it judged by
  round, retry,  \* of the flow
  pc, status

task == <<strict, query>>
data == <<inputs, inspected, bundle, material, compiled, forced>>
vars == <<task, data, brief, plan, mounts, code, record, verification, round, retry, pc, status>>

Init ==
  /\ strict \in Checkpoints
  /\ \E situation \in Inputs :
       /\ query = situation.query
       /\ inputs = situation.inputs
  /\ inspected = {}
  /\ brief = NoBrief /\ plan = NoPlan
  /\ bundle = <<>> /\ material = NoMaterial /\ compiled = FALSE /\ forced = FALSE
  /\ mounts = {}
  /\ code = NoCode /\ record = NoRun /\ verification = NoVerification
  /\ round = 0 /\ retry = 0
  /\ pc = "analyst" /\ status = "running"

-----------------------------------------------------------------------------
(* The analyst: brief and plan.                                            *)

\* _material_facts and _analysis_mode_for_static_branch
StaticMode(in) ==
  CASE in.datasets # {} -> "dataset_analysis"
    [] in.datasets = {} /\ (in.documents # {} \/ in.context) -> "document_rule_analysis"
    [] OTHER -> "need_more_inputs"

RequiresStatic(in) == StaticMode(in) # "need_more_inputs" \/ query.code

\* An open query is dynamic unless the task needs the static chain too and the
\* refining model, asked when the query is complex enough, says otherwise.
Refined(in) == IF RequiresStatic(in) THEN {"dynamic", "static"} ELSE {"dynamic"}

Classified(in) ==
  {IF query.external = "open" /\ route = "dynamic"
     THEN "dynamic_research_analysis" ELSE StaticMode(in) : route \in Refined(in)}

\* What a classification says is missing: an external check, done or forbidden,
\* and for a task without materials those it mentions, or all.
Gaps(mode) ==
  {gap \in {"external"} : \/ mode = "dynamic_research_analysis"
                         \/ query.external \in {"single", "forbidden"}}
  \cup (IF mode # "need_more_inputs" \/ query.external = "open" THEN {}
        ELSE IF query.mentions = {} THEN {"dataset", "document"} ELSE query.mentions)

\* build_analysis_brief
Brief(in, mode, gaps) ==
  [mode |-> mode, datasets |-> in.datasets,
   gaps |-> gaps \cup (IF in.datasets = {} /\ ~in.context THEN {"context"} ELSE {})
                 \cup (IF material.records = 0 THEN {"evidence"} ELSE {})]

\* A brief is built once; later plans are made from it.
BriefInForce == IF brief = NoBrief THEN Brief(inputs, "auto", {}) ELSE brief

Fallback ==
  [network |-> "none", iteration |-> "single_pass", mode |-> BriefInForce.mode, by |-> "fallback",
   queries |-> 0, urls |-> 0, research |-> "none", governed |-> TRUE]

\* compile_plan: the model's plan, or the fallback when it gives none.
MakePlan ==
  /\ brief' = BriefInForce
  /\ plan' \in Plans \cup {Fallback}

Analyst ==
  /\ pc = "analyst"
  /\ MakePlan
  /\ pc' = IF plan'.network = Bounded THEN "evidence" ELSE "coder"
  /\ UNCHANGED <<task, data, mounts, code, record, verification, round, retry, status>>

\* The analyst again after a refresh; the coder follows, whatever it plans.
AnalystAgain ==
  /\ pc = "again"
  /\ MakePlan
  /\ pc' = "coder"
  /\ UNCHANGED <<task, data, mounts, code, record, verification, round, retry, status>>

-----------------------------------------------------------------------------
(* Evidence: collection, compilation, refresh.                             *)

\* At most two searches, the query itself when the plan's own research mode is
\* single_pass and lists none, and at most three pages.
Requests(p) ==
  (IF p.queries = 0 /\ p.research = "single_pass" THEN 1 ELSE Least(p.queries, 2)) + Least(p.urls, 3)

\* Every request finds something, nothing, or fails.
Collected(p) == {FlattenSeq(pages) : pages \in [1 .. Requests(p) -> Pages \cup {<<>>}]}

\* Without a compilation or a refresh no coder follows: the auditor finds the
\* program of an earlier round, or none, and nothing runs.
AfterEvidence ==
  CASE ~compiled -> "compile"
    [] compiled /\ forced -> "again"
    [] OTHER -> "summarize"

StaticEvidence ==
  /\ pc = "evidence" /\ plan.governed
  /\ bundle' \in Collected(plan)
  /\ mounts' = mounts \cup {BundleFile}
  /\ pc' = AfterEvidence
  /\ UNCHANGED <<task, inputs, inspected, material, compiled, forced, brief, plan, code, record,
                 verification, round, retry, status>>

EvidenceDenied ==
  /\ pc = "evidence" /\ ~plan.governed
  /\ bundle' = <<>>
  /\ pc' = "done" /\ status' = "waiting"
  /\ UNCHANGED <<task, inputs, inspected, material, compiled, forced, brief, plan, mounts, code,
                 record, verification, round, retry>>

\* Mutant of Taken: no cap, and a row repeated in one record is taken again.
TakenWithoutCap(rows, m) == SelectSeq(rows, LAMBDA row : row \notin ToSet(m.rows))

\* A row not seen before is taken until the cap is met, which is looked at after
\* a row has been taken.
Take(m, taken, row) ==
  IF \/ row \in ToSet(m.rows \o taken)
     \/ taken # <<>> /\ Len(m.rows) + Len(taken) >= MaxRows
    THEN taken ELSE Append(taken, row)

\* handle_source: what is taken of a record's rows.
Taken(rows, m) ==
  LET taken[n \in 0 .. Len(rows)] ==
        IF n = 0 THEN <<>> ELSE Take(m, taken[n - 1], rows[n])
  IN  taken[Len(rows)]

\* A record that gives no row and has a text is a hit.
AddRecord(m, r) ==
  LET rows == Taken(r.rows, m) IN
  [records |-> m.records + 1, rows |-> m.rows \o rows,
   from |-> m.from \cup {i \in {m.records + 1} : rows # <<>>},
   hits |-> m.hits \cup {i \in {m.records + 1} : rows = <<>> /\ r.text}]

Compiled ==
  LET done[n \in 0 .. Len(bundle)] ==
        IF n = 0 THEN NoMaterial ELSE AddRecord(done[n - 1], bundle[n])
  IN  done[Len(bundle)]

\* The evidence compiler runs once for a task.  Its rows become a dataset, its
\* labelled lines business context, and rows hide hits from the refresh.
EvidenceCompiler ==
  /\ pc = "compile"
  /\ material' = Compiled
  /\ compiled' = TRUE
  /\ inputs' = [inputs EXCEPT
       !.datasets = @ \cup {f \in {EvidenceFile} : material'.rows # <<>>},
       !.context = @ \/ \E i \in DOMAIN bundle : bundle[i].labelled]
  /\ IF strict
       THEN pc' = "done" /\ status' = "failed"
       ELSE /\ pc' = CASE material'.rows # <<>> -> "inspect"
                       [] material'.rows = <<>> /\ material'.hits # {} -> "context"
                       [] OTHER -> "summarize"
            /\ status' = status
  /\ UNCHANGED <<task, inspected, bundle, forced, brief, plan, mounts, code, record, verification,
                 round, retry>>

Uninspected == inputs.datasets \ inspected

DataInspector ==
  /\ pc = "inspect" /\ Uninspected \cap inputs.broken = {}
  /\ inspected' = inspected \cup Uninspected
  /\ forced' = TRUE
  /\ pc' = "again"
  /\ UNCHANGED <<task, inputs, bundle, material, compiled, brief, plan, mounts, code, record,
                 verification, round, retry, status>>

\* A dataset nothing can read ends the inspection and the task.  The datasets
\* before it have been inspected.
DataInspectorBlocks ==
  /\ pc = "inspect" /\ Uninspected \cap inputs.broken # {}
  /\ \E before \in SUBSET (Uninspected \ (inputs.broken \cup {EvidenceFile})) :
       inspected' = inspected \cup before
  /\ pc' = "done" /\ status' = "waiting"
  /\ UNCHANGED <<task, inputs, bundle, material, compiled, forced, brief, plan, mounts, code,
                 record, verification, round, retry>>

\* The context is rebuilt from the hits, whose wording decides whether there is
\* any, and the task is classified by what it has now.
ContextBuilder ==
  /\ pc = "context"
  /\ \E context \in BOOLEAN : inputs' = [inputs EXCEPT !.context = context]
  /\ \E mode \in Classified(inputs') : brief' = Brief(inputs', mode, Gaps(mode))
  /\ forced' = TRUE
  /\ pc' = "again"
  /\ UNCHANGED <<task, inspected, bundle, material, compiled, plan, mounts, code, record,
                 verification, round, retry, status>>

-----------------------------------------------------------------------------
(* Coder, auditor, debugger.                                               *)

\* Mutant of Mounts: the manifest is built once and reused.
MountsOnce == IF mounts = {} THEN inputs.datasets \cup inputs.documents ELSE mounts

\* build_static_input_mounts: the task's inputs, then what the flow has mounted.
Mounts == inputs.datasets \cup inputs.documents \cup mounts

Program(by, files, printed, safe) ==
  [by |-> by, plan |-> plan, mounted |-> Mounts, files |-> files, printed |-> printed, safe |-> safe]

\* The template compiler emits what the plan declares, optional files too, and
\* lists it.
Emitted(family) == Declared(family)

Template ==
  LET files == Emitted(Family(plan.mode)) IN Program("template", files, files, TRUE)

\* A model's program writes the required files or nothing, perhaps a stray one
\* too, lists its files or not, and may be refused by the audit.
Written ==
  LET whole == Required(Family(plan.mode))
      left == {whole, {}} \cup {whole \cup {stray} : stray \in Strays}
  IN {Program("model", {}, {}, FALSE)} \cup
     {Program("model", files, {}, TRUE) : files \in left} \cup
     {Program("model", files, files, TRUE) : files \in left}

\* prepare_static_codegen: the template when the model is out of reach or its
\* code does not parse.
Generated == {Template} \cup Written

\* Mutant of Coder: a program that exists already is kept.
CoderOnce ==
  /\ pc = "coder"
  /\ IF code = NoCode THEN code' \in Generated /\ mounts' = code'.mounted
                      ELSE UNCHANGED code /\ mounts' = Mounts
  /\ pc' = "audit"
  /\ UNCHANGED <<task, data, brief, plan, record, verification, round, retry, status>>

Coder ==
  /\ pc = "coder"
  /\ code' \in Generated
  /\ mounts' = code'.mounted
  /\ pc' = "audit"
  /\ UNCHANGED <<task, data, brief, plan, record, verification, round, retry, status>>

Auditor ==
  /\ pc = "audit"
  /\ pc' = IF code.safe \/ retry >= MaxRetries THEN "run" ELSE "repair"
  /\ UNCHANGED <<task, data, brief, plan, mounts, code, record, verification, round, retry, status>>

\* The debugger has another program made for the same plan.  The audit after it
\* decides nothing: the sandbox refuses an unsafe program by itself.
Debugger ==
  /\ pc \in {"repair", "fix"}
  /\ retry' = retry + 1
  /\ code' \in Generated
  /\ pc' = IF pc = "fix" THEN "rerun" ELSE "run"
  /\ UNCHANGED <<task, data, brief, plan, mounts, record, verification, round, status>>

-----------------------------------------------------------------------------
(* Executor, rounds, summary.                                              *)

\* A run leaves its files only if it succeeds.
Ran(ok) ==
  [by |-> code.by, plan |-> code.plan, ok |-> ok, mounted |-> mounts,
   files |-> IF ok THEN code.files ELSE {}, printed |-> IF ok THEN code.printed ELSE {}]

Verify(r) ==
  [passed |-> MeetsContract(Family(plan.mode), r.files), plan |-> plan]

AfterRun(passed) ==
  CASE ~passed /\ pc = "run" -> "fix"
    [] passed /\ plan.iteration = "multi_round" /\ round + 1 < MaxRounds -> "analyst"
    [] OTHER -> "summarize"

Executor ==
  /\ pc \in {"run", "rerun"}
  /\ \E ok \in {code.safe, FALSE} : record' = Ran(ok)
  /\ verification' = Verify(record')
  /\ IF strict
       THEN pc' = "done" /\ status' = "failed" /\ round' = round
       ELSE /\ pc' = AfterRun(verification'.passed)
            /\ status' = status
            /\ round' = IF pc' = "analyst" THEN round + 1 ELSE round
  /\ UNCHANGED <<task, data, brief, plan, mounts, code, retry>>

\* The outputs of the response: what the program lists, or else its files.
Outputs == IF record.printed # {} THEN record.printed ELSE record.files

\* Mutant of NeedsFollowUp: only the plan is looked at.
FollowUpByPlan == Family(plan.mode) = "input_gap_report"

NeedsFollowUp ==
  \/ Family(plan.mode) = "input_gap_report"
  \/ Outputs \cap {"input_gap_report.md", "requested_inputs.json"} # {}

Summarizer ==
  /\ pc = "summarize"
  /\ status' = CASE record.ok /\ NeedsFollowUp -> "waiting"
                 [] record.ok /\ ~NeedsFollowUp -> "success"
                 [] OTHER -> "failed"
  /\ pc' = "done"
  /\ UNCHANGED <<task, data, brief, plan, mounts, code, record, verification, round, retry>>

Next ==
  \/ Analyst \/ AnalystAgain
  \/ StaticEvidence \/ EvidenceDenied \/ EvidenceCompiler
  \/ DataInspector \/ DataInspectorBlocks \/ ContextBuilder
  \/ Coder \/ Auditor \/ Debugger
  \/ Executor \/ Summarizer

Spec == Init /\ [][Next]_vars

-----------------------------------------------------------------------------
(* Properties.                                                             *)

\* The variables keep their types; only datasets of the task are inspected, and
\* no round beyond the bound is begun.
TypeOK ==
  /\ strict \in BOOLEAN /\ query \in Query /\ AreMaterials(inputs)
  /\ inspected \subseteq inputs.datasets
  /\ brief = NoBrief \/ brief.mode \in Modes
  /\ compiled \in BOOLEAN /\ forced \in BOOLEAN
  /\ code.by \in {"none", "model", "template"} /\ code.safe \in BOOLEAN
  /\ record.by \in {"none", "model", "template"} /\ record.ok \in BOOLEAN
  /\ verification.passed \in BOOLEAN
  /\ round \in 0 .. MaxRounds - 1 /\ retry \in Nat
  /\ pc \in {"analyst", "again", "evidence", "compile", "inspect", "context", "coder", "audit",
            "repair", "fix", "run", "rerun", "summarize", "done"}
  /\ status \in {"running", "waiting", "success", "failed"}

\* A run is always judged by the plan its program was written for, although
\* plan, program, run and verdict are written by four nodes over several rounds
\* and repairs (analyst_node, coder_node or debugger_node, executor_node).
JudgedByOwnPlan == record # NoRun => record.plan = verification.plan

\* Every run has the task's datasets and documents mounted, those the evidence
\* compiler has added included, and the bundle collected last: the mounts come
\* from the flow's state, which the coder filled before repairs and refreshes
\* (executor_node reads state.input_mounts).
RunSeesInputs ==
  [][Executor => /\ inputs.datasets \cup inputs.documents \subseteq record'.mounted
                 /\ bundle # <<>> => BundleFile \in record'.mounted]_vars

\* When the model is out of reach, the template's program, if it runs, always
\* passes the verification: for every family the files it emits are those the
\* contract requires, and none it did not declare or prohibits
\* (_build_fallback_program_spec against verify_generated_artifacts).
FallbackDelivers ==
  record # NoRun /\ record.by = "template" /\ record.ok => verification.passed

\* A report of missing inputs that the template has delivered never ends as a
\* success, whatever plan a later round has put in force
\* (_final_response_requires_human_follow_up).
GapNeverSucceeds ==
  status = "success" /\ record.by = "template" => "input_gap_report.md" \notin record.files

\* Without a planner the chain asks the user for more inputs only if the task
\* has no dataset, document or context at that moment, and it says what is
\* missing: the brief it falls back on was built before (classify_analysis_task
\* in context_builder_node, compile_plan).
AsksOnlyWhenEmpty ==
  plan.mode = "need_more_inputs" /\ plan.by = "fallback" =>
    /\ inputs.datasets = {} /\ inputs.documents = {} /\ ~inputs.context
    /\ brief.gaps # {}

\* What was collected before the compilation is accounted for: each record with
\* a text has given rows or is a hit, no row is taken twice, and the cap is
\* passed by at most one row for each further record (compile_external_evidence).
EvidenceAccounted ==
  /\ pc \in {"inspect", "context"} =>
       \A i \in DOMAIN bundle : bundle[i].text => i \in material.from \cup material.hits
  /\ Cardinality(ToSet(material.rows)) = Len(material.rows)
  /\ material.rows # <<>> => Len(material.rows) < MaxRows + material.records

=============================================================================
