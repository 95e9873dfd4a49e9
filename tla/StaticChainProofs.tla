------------------------- MODULE StaticChainProofs -------------------------
(***************************************************************************)
(* Theorems about StaticChain, for any tasks, plans, pages, stray files    *)
(* and limits.                                                             *)
(*                                                                         *)
(* Between the coder and the end of a run the program at hand was made for *)
(* the plan in force and has the task's inputs mounted; what a template's  *)
(* program leaves depends on its plan alone.  From these facts follow what *)
(* is said of runs, verifications and statuses.  A plan without a planner  *)
(* follows the brief, and a brief asks for inputs only when the task's     *)
(* inputs can no longer change.  By induction over the records of a bundle *)
(* and the rows of a record, the evidence compiler loses no record with a  *)
(* text, takes no row twice and keeps to its cap.                          *)
(***************************************************************************)
EXTENDS StaticChain, FiniteSetTheorems, WellFoundedInduction, TLAPS

\* Every mode belongs to one of four families.
LEMMA FourFamilies ==
  ASSUME NEW mode
  PROVE  Family(mode) \in {"dataset_profile", "document_rule_audit",
                           "hybrid_reconciliation", "input_gap_report"}
BY DEF Family

\* What a family declares meets the family's contract.
LEMMA DeclaredMeets ==
  ASSUME NEW mode
  PROVE  MeetsContract(Family(mode), Declared(Family(mode)))
<1> DEFINE f == Family(mode)
<1>1. CASE f = "dataset_profile"
  BY <1>1 DEF MeetsContract, Unexpected, Declared, Required, Optional, Prohibited, Category
<1>2. CASE f = "document_rule_audit"
  BY <1>2 DEF MeetsContract, Unexpected, Declared, Required, Optional, Prohibited, Category
<1>3. CASE f = "hybrid_reconciliation"
  BY <1>3 DEF MeetsContract, Unexpected, Declared, Required, Optional, Prohibited, Category
<1>4. CASE f = "input_gap_report"
  BY <1>4 DEF MeetsContract, Unexpected, Declared, Required, Optional, Prohibited, Category
<1> QED BY <1>1, <1>2, <1>3, <1>4, FourFamilies

\* A new program is the template's or a model's, and made for the plan in force
\* and the inputs of the moment; the template's depends on the plan alone.
LEMMA Programs ==
  ASSUME NEW c \in Generated
  PROVE  /\ c.by \in {"model", "template"} /\ c.safe \in BOOLEAN
         /\ c.plan = plan /\ c.mounted = Mounts
         /\ c.by = "template" => /\ c.files = Declared(Family(plan.mode))
                                 /\ c.printed = c.files
<1>1. CASE c = Template
  BY <1>1 DEF Template, Program, Emitted
<1>2. CASE c \in Written
  <2>1. \E files, printed : \E safe \in BOOLEAN : c = Program("model", files, printed, safe)
    BY <1>2 DEF Written
  <2> QED BY <2>1 DEF Program
<1> QED BY <1>1, <1>2 DEF Generated

\* Between the coder and the end of its run there is a program.
HasProgram == pc \in {"audit", "repair", "run", "fix", "rerun"}

\* The program at hand.
ProgramInv ==
  /\ HasProgram => code.plan = plan
  /\ code.by = "template" => /\ code.files = Declared(Family(code.plan.mode))
                             /\ code.printed = code.files

\* The last run.
RecordInv ==
  /\ JudgedByOwnPlan
  /\ record.by = "template" => record.printed = record.files
  /\ FallbackDelivers

\* A success is final.
SuccessInv == GapNeverSucceeds /\ (status = "success" => pc = "done")

\* What is mounted.
MountInv ==
  /\ bundle # <<>> => BundleFile \in mounts
  /\ HasProgram => inputs.datasets \cup inputs.documents \subseteq mounts

\* A brief asks for inputs only after the one step that could have added some.
BriefInv ==
  /\ pc \in {"inspect", "context"} => compiled
  /\ brief.mode = "need_more_inputs" =>
       /\ compiled /\ pc \notin {"compile", "inspect", "context"}
       /\ inputs.datasets = {} /\ inputs.documents = {} /\ ~inputs.context
       /\ brief.gaps # {}
  /\ plan.mode = "need_more_inputs" /\ plan.by = "fallback" =>
       brief.mode = "need_more_inputs"

-----------------------------------------------------------------------------
\* The variables keep their types, and no round beyond the bound is begun.
THEOREM TypeCorrect == Spec => []TypeOK
<1>1. Init => TypeOK
  <2> SUFFICES ASSUME Init PROVE TypeOK
    OBVIOUS
  <2>1. query \in Query /\ AreMaterials(inputs)
    BY Situations DEF Init
  <2>2. strict \in BOOLEAN /\ inspected \subseteq inputs.datasets /\ round \in 0 .. MaxRounds - 1
    BY Limits DEF Init
  <2> QED BY <2>1, <2>2 DEF Init, TypeOK, NoCode, NoRun, NoVerification
<1>2. TypeOK /\ [Next]_vars => TypeOK'
  <2> SUFFICES ASSUME TypeOK, [Next]_vars PROVE TypeOK'
    OBVIOUS
  <2> USE DEF TypeOK, task, data
  <2>1. CASE Analyst \/ AnalystAgain
    BY <2>1 DEF Analyst, AnalystAgain, MakePlan, BriefInForce, Brief, Modes
  <2>2. CASE StaticEvidence
    BY <2>2 DEF StaticEvidence, AfterEvidence
  <2>3. CASE EvidenceDenied
    BY <2>3 DEF EvidenceDenied
  <2>4. CASE EvidenceCompiler
    <3> DEFINE D == inputs.datasets \cup {f \in {EvidenceFile} : material'.rows # <<>>}
               C == inputs.context \/ \E i \in DOMAIN bundle : bundle[i].labelled
    <3>1. inputs' = [inputs EXCEPT !.datasets = D, !.context = C]
      BY <2>4 DEF EvidenceCompiler
    <3>2. inputs.datasets \subseteq D
      OBVIOUS
    <3>3. C \in BOOLEAN
      OBVIOUS
    <3> HIDE DEF C, D
    <3>4. AreMaterials(inputs)' /\ inputs.datasets \subseteq inputs'.datasets
      BY <3>1, <3>2, <3>3 DEF AreMaterials
    <3> QED BY <2>4, <3>4 DEF EvidenceCompiler
  <2>5. CASE DataInspector
    BY <2>5 DEF DataInspector, Uninspected
  <2>6. CASE DataInspectorBlocks
    BY <2>6 DEF DataInspectorBlocks, Uninspected
  <2>7. CASE ContextBuilder
    <3>1. AreMaterials(inputs)' /\ inputs'.datasets = inputs.datasets
      BY <2>7 DEF ContextBuilder, AreMaterials
    <3>2. brief'.mode \in Modes
      BY <2>7 DEF ContextBuilder, Brief, Classified, StaticMode, Modes
    <3> QED BY <2>7, <3>1, <3>2 DEF ContextBuilder
  <2>8. CASE Coder
    BY <2>8, Programs DEF Coder
  <2>9. CASE Auditor
    BY <2>9 DEF Auditor
  <2>10. CASE Debugger
    BY <2>10, Programs DEF Debugger
  <2>11. CASE Executor
    <3>1. record'.by = code.by /\ record'.ok \in BOOLEAN
      <4>1. PICK ok \in {code.safe, FALSE} : record' = Ran(ok)
        BY <2>11 DEF Executor
      <4> QED BY <4>1 DEF Ran
    <3>2. verification'.passed \in BOOLEAN
      BY <2>11 DEF Executor, Verify, MeetsContract
    <3>3. /\ pc' \in {"done", "fix", "analyst", "summarize"}
          /\ round' \in 0 .. MaxRounds - 1
      BY <2>11, Limits DEF Executor, AfterRun
    <3> QED BY <2>11, <3>1, <3>2, <3>3 DEF Executor
  <2>12. CASE Summarizer
    BY <2>12 DEF Summarizer
  <2>13. CASE UNCHANGED vars
    BY <2>13 DEF vars
  <2> QED BY <2>1, <2>2, <2>3, <2>4, <2>5, <2>6, <2>7, <2>8, <2>9, <2>10, <2>11, <2>12, <2>13 DEF Next
<1> QED BY <1>1, <1>2, PTL DEF Spec

-----------------------------------------------------------------------------
(* Programs and runs *)

LEMMA ProgramStep == ProgramInv /\ [Next]_vars => ProgramInv'
<1> SUFFICES ASSUME ProgramInv, [Next]_vars PROVE ProgramInv'
  OBVIOUS
<1> USE DEF ProgramInv, HasProgram, task, data
<1>1. CASE Analyst \/ AnalystAgain
  BY <1>1 DEF Analyst, AnalystAgain
<1>2. CASE StaticEvidence \/ EvidenceDenied
  BY <1>2 DEF StaticEvidence, EvidenceDenied, AfterEvidence
<1>3. CASE EvidenceCompiler
  BY <1>3 DEF EvidenceCompiler
<1>4. CASE DataInspector \/ DataInspectorBlocks \/ ContextBuilder
  BY <1>4 DEF DataInspector, DataInspectorBlocks, ContextBuilder
<1>5. CASE Coder
  BY <1>5, Programs DEF Coder
<1>6. CASE Auditor
  BY <1>6 DEF Auditor
<1>7. CASE Debugger
  BY <1>7, Programs DEF Debugger
<1>8. CASE Executor
  BY <1>8 DEF Executor, AfterRun
<1>9. CASE Summarizer
  BY <1>9 DEF Summarizer
<1>10. CASE UNCHANGED vars
  BY <1>10 DEF vars
<1> QED BY <1>1, <1>2, <1>3, <1>4, <1>5, <1>6, <1>7, <1>8, <1>9, <1>10 DEF Next

THEOREM ProgramFollowsPlan == Spec => []ProgramInv
<1>1. Init => ProgramInv
  BY DEF Init, ProgramInv, HasProgram, NoCode
<1> QED BY <1>1, ProgramStep, PTL DEF Spec

\* Only the executor writes the run's record and its verification.
LEMMA OnlyExecutor == [Next]_vars => Executor \/ UNCHANGED <<record, verification>>
BY DEF Next, vars, task, data, Analyst, AnalystAgain, StaticEvidence, EvidenceDenied,
       EvidenceCompiler, DataInspector, DataInspectorBlocks, ContextBuilder, Coder,
       Auditor, Debugger, Summarizer

LEMMA RecordStep == ProgramInv /\ RecordInv /\ [Next]_vars => RecordInv'
<1> SUFFICES ASSUME ProgramInv, RecordInv, [Next]_vars PROVE RecordInv'
  OBVIOUS
<1> USE DEF RecordInv, JudgedByOwnPlan, FallbackDelivers
<1>1. CASE UNCHANGED <<record, verification>>
  BY <1>1
<1>2. CASE Executor
  <2>1. PICK ok \in {code.safe, FALSE} : record' = Ran(ok)
    BY <1>2 DEF Executor
  <2>2. verification' = Verify(record')
    BY <1>2 DEF Executor
  <2>3. code.plan = plan
    BY <1>2 DEF Executor, ProgramInv, HasProgram
  <2>4. record'.plan = plan /\ verification'.plan = plan
    BY <2>1, <2>2, <2>3 DEF Ran, Verify
  <2>5. record'.by = code.by /\ record'.ok = ok
    BY <2>1 DEF Ran
  <2>6. ASSUME record'.by = "template"
        PROVE  /\ record'.printed = record'.files
               /\ ok => record'.files = Declared(Family(plan.mode))
    BY <2>1, <2>3, <2>5, <2>6 DEF Ran, ProgramInv
  <2>7. ASSUME record'.by = "template", record'.ok PROVE verification'.passed
    <3>1. verification'.passed = MeetsContract(Family(plan.mode), record'.files)
      BY <2>2 DEF Verify
    <3>2. record'.files = Declared(Family(plan.mode))
      BY <2>5, <2>6, <2>7
    <3> QED BY <3>1, <3>2, DeclaredMeets
  <2> QED BY <2>4, <2>6, <2>7
<1> QED BY <1>1, <1>2, OnlyExecutor

LEMMA RecordCorrect == Spec => []RecordInv
<1>1. Init => RecordInv
  BY DEF Init, RecordInv, JudgedByOwnPlan, FallbackDelivers, NoRun
<1> QED BY <1>1, RecordStep, ProgramFollowsPlan, PTL DEF Spec

\* A run is always judged by the plan its program was written for.
THEOREM PlanOfTheRun == Spec => []JudgedByOwnPlan
BY RecordCorrect, PTL DEF RecordInv

\* A template's program that runs passes the verification, for every plan.
THEOREM FallbackIsEnough == Spec => []FallbackDelivers
BY RecordCorrect, PTL DEF RecordInv

\* A report of missing inputs by the template never ends as a success.
THEOREM GapIsNoSuccess == Spec => []GapNeverSucceeds
<1>1. Init => SuccessInv
  BY DEF Init, SuccessInv, GapNeverSucceeds
<1>2. RecordInv /\ SuccessInv /\ [Next]_vars => SuccessInv'
  <2> SUFFICES ASSUME RecordInv, SuccessInv, [Next]_vars PROVE SuccessInv'
    OBVIOUS
  <2> USE DEF SuccessInv, GapNeverSucceeds, task, data
  <2>1. CASE Summarizer
    <3>1. record.by = "template" => Outputs = record.files
      BY DEF RecordInv, Outputs
    <3>2. status' = "success" => ~NeedsFollowUp
      BY <2>1 DEF Summarizer
    <3> QED BY <2>1, <3>1, <3>2 DEF Summarizer, NeedsFollowUp
  <2>2. CASE UNCHANGED vars
    BY <2>2 DEF vars
  <2>3. ASSUME pc # "done", status' \in {status, "waiting", "failed"} PROVE SuccessInv'
    BY <2>3
  <2>4. [Next]_vars /\ ~Summarizer /\ ~UNCHANGED vars =>
          pc # "done" /\ status' \in {status, "waiting", "failed"}
    BY DEF Next, Analyst, AnalystAgain, StaticEvidence, EvidenceDenied, EvidenceCompiler,
           DataInspector, DataInspectorBlocks, ContextBuilder, Coder, Auditor, Debugger, Executor
  <2> QED BY <2>1, <2>2, <2>3, <2>4
<1>3. SuccessInv => GapNeverSucceeds
  BY DEF SuccessInv
<1> QED BY <1>1, <1>2, <1>3, RecordCorrect, PTL DEF Spec

-----------------------------------------------------------------------------
(* Mounts *)

LEMMA MountStep == MountInv /\ [Next]_vars => MountInv'
<1> SUFFICES ASSUME MountInv, [Next]_vars PROVE MountInv'
  OBVIOUS
<1> USE DEF MountInv, HasProgram, task, data
<1>1. CASE Analyst \/ AnalystAgain
  BY <1>1 DEF Analyst, AnalystAgain
<1>2. CASE StaticEvidence \/ EvidenceDenied
  BY <1>2 DEF StaticEvidence, EvidenceDenied, AfterEvidence
<1>3. CASE EvidenceCompiler
  BY <1>3 DEF EvidenceCompiler
<1>4. CASE DataInspector \/ DataInspectorBlocks \/ ContextBuilder
  BY <1>4 DEF DataInspector, DataInspectorBlocks, ContextBuilder
<1>5. CASE Coder
  <2>1. mounts' = Mounts
    BY <1>5, Programs DEF Coder
  <2> QED BY <1>5, <2>1 DEF Coder, Mounts
<1>6. CASE Auditor \/ Debugger
  BY <1>6 DEF Auditor, Debugger
<1>7. CASE Executor
  BY <1>7 DEF Executor, AfterRun
<1>8. CASE Summarizer
  BY <1>8 DEF Summarizer
<1>9. CASE UNCHANGED vars
  BY <1>9 DEF vars
<1> QED BY <1>1, <1>2, <1>3, <1>4, <1>5, <1>6, <1>7, <1>8, <1>9 DEF Next

\* Every run has the task's datasets and documents and the collected bundle.
THEOREM InputsMounted == Spec => RunSeesInputs
<1>1. Init => MountInv
  BY DEF Init, MountInv, HasProgram
<1>2. MountInv /\ [Next]_vars =>
        [Executor => /\ inputs.datasets \cup inputs.documents \subseteq record'.mounted
                     /\ bundle # <<>> => BundleFile \in record'.mounted]_vars
  <2> SUFFICES ASSUME MountInv, Executor
               PROVE  /\ inputs.datasets \cup inputs.documents \subseteq record'.mounted
                      /\ bundle # <<>> => BundleFile \in record'.mounted
    OBVIOUS
  <2>1. record'.mounted = mounts
    BY DEF Executor, Ran
  <2> QED BY <2>1 DEF MountInv, HasProgram, Executor
<1> QED BY <1>1, <1>2, MountStep, PTL DEF Spec, RunSeesInputs

-----------------------------------------------------------------------------
(* Asking for inputs *)

LEMMA BriefStep == TypeOK /\ BriefInv /\ [Next]_vars => BriefInv'
<1> SUFFICES ASSUME TypeOK, BriefInv, [Next]_vars PROVE BriefInv'
  OBVIOUS
<1> USE DEF BriefInv, task, data
<1>1. CASE Analyst \/ AnalystAgain
  <2>1. brief' = BriefInForce /\ plan' \in Plans \cup {Fallback}
    BY <1>1 DEF Analyst, AnalystAgain, MakePlan
  <2>2. brief'.mode = "need_more_inputs" => brief' = brief
    BY <2>1 DEF BriefInForce, Brief
  <2>3. plan'.by = "fallback" => plan' = Fallback
    BY <2>1, PlansOfTheModel
  <2>4. Fallback.mode = brief'.mode
    BY <2>1 DEF Fallback
  <2>5. pc' \in {"evidence", "coder"} /\ UNCHANGED <<compiled, inputs>>
    BY <1>1 DEF Analyst, AnalystAgain
  <2> QED BY <2>2, <2>3, <2>4, <2>5
<1>2. CASE StaticEvidence
  BY <1>2 DEF StaticEvidence, AfterEvidence, TypeOK
<1>3. CASE EvidenceDenied
  BY <1>3 DEF EvidenceDenied
<1>4. CASE EvidenceCompiler
  BY <1>4 DEF EvidenceCompiler
<1>5. CASE DataInspector
  BY <1>5 DEF DataInspector
<1>6. CASE DataInspectorBlocks
  BY <1>6 DEF DataInspectorBlocks
<1>7. CASE ContextBuilder
  <2>1. PICK mode \in Classified(inputs') : brief' = Brief(inputs', mode, Gaps(mode))
    BY <1>7 DEF ContextBuilder
  <2>2. compiled' /\ pc' = "again" /\ plan' = plan
    BY <1>7 DEF ContextBuilder
  <2>3. AreMaterials(inputs')
    BY <1>7 DEF ContextBuilder, TypeOK, AreMaterials
  <2>4. ~(plan.mode = "need_more_inputs" /\ plan.by = "fallback")
    BY <1>7 DEF ContextBuilder
  <2>5. ASSUME brief'.mode = "need_more_inputs"
        PROVE  /\ inputs'.datasets = {} /\ inputs'.documents = {} /\ ~inputs'.context
               /\ brief'.gaps # {}
    <3>1. StaticMode(inputs') = "need_more_inputs"
      BY <2>1, <2>5 DEF Brief, Classified
    <3>2. inputs'.datasets = {} /\ inputs'.documents = {} /\ ~inputs'.context
      BY <3>1, <2>3 DEF StaticMode, AreMaterials
    <3>3. "context" \in brief'.gaps
      BY <2>1, <3>2 DEF Brief
    <3> QED BY <3>2, <3>3
  <2> QED BY <2>2, <2>4, <2>5
<1>8. CASE Coder \/ Auditor \/ Debugger
  BY <1>8 DEF Coder, Auditor, Debugger
<1>9. CASE Executor
  BY <1>9 DEF Executor, AfterRun
<1>10. CASE Summarizer
  BY <1>10 DEF Summarizer
<1>11. CASE UNCHANGED vars
  BY <1>11 DEF vars
<1> QED BY <1>1, <1>2, <1>3, <1>4, <1>5, <1>6, <1>7, <1>8, <1>9, <1>10, <1>11 DEF Next

\* A plan made without a planner asks for inputs only if the task has none.
THEOREM AsksForCause == Spec => []AsksOnlyWhenEmpty
<1>1. Init => BriefInv
  BY DEF Init, BriefInv, NoBrief, NoPlan
<1>2. BriefInv => AsksOnlyWhenEmpty
  BY DEF BriefInv, AsksOnlyWhenEmpty
<1> QED BY <1>1, <1>2, BriefStep, TypeCorrect, PTL DEF Spec

-----------------------------------------------------------------------------
(* Induction over the length of a list *)

LEMMA LessIs ==
  \A x, y \in Nat : <<x, y>> \in OpToRel(<, Nat) <=> x < y
BY DEF OpToRel

\* A set that holds 0 and the successors of its members holds every number.
LEMMA SetInduction ==
  ASSUME NEW S, 0 \in S, \A n \in S : n \in Nat => n + 1 \in S
  PROVE  Nat \subseteq S
<1> DEFINE T == Nat \ S
<1> SUFFICES ASSUME T # {} PROVE FALSE
  OBVIOUS
<1>1. PICK x \in T : \A y \in T : ~ (<<y, x>> \in OpToRel(<, Nat))
  <2>1. T \subseteq Nat
    OBVIOUS
  <2> QED BY <2>1, NatLessThanWellFounded, WFMin
<1>2. x # 0
  OBVIOUS
<1>3. x - 1 \in Nat /\ x - 1 < x
  BY <1>2
<1>4. x - 1 \in S
  BY <1>1, <1>3, LessIs
<1>5. (x - 1) + 1 = x
  OBVIOUS
<1>6. x \in S
  BY <1>3, <1>4, <1>5
<1> QED BY <1>6

Unfolds(g, X, n, b, step) ==
  /\ g \in [0 .. n -> X] /\ g[0] = b
  /\ \A i \in 1 .. n : g[i] = step[<<g[i - 1], i>>]

\* A function over 0 .. n with a given first value and a given step exists.
LEMMA Recursion ==
  ASSUME NEW n \in Nat, NEW X, NEW b \in X, NEW step \in [X \X (1 .. n) -> X]
  PROVE  \E g : Unfolds(g, X, n, b, step)
<1> DEFINE Fits(g, k) == /\ g \in [0 .. k -> X] /\ g[0] = b
                         /\ \A i \in 1 .. k : g[i] = step[<<g[i - 1], i>>]
           K == {k \in Nat : k <= n => \E g : Fits(g, k)}
<1>1. 0 \in K
  <2>1. Fits([i \in 0 .. 0 |-> b], 0)
    OBVIOUS
  <2> QED BY <2>1
<1>2. ASSUME NEW k \in K PROVE k + 1 \in K
  <2> SUFFICES ASSUME k + 1 <= n PROVE \E g : Fits(g, k + 1)
    OBVIOUS
  <2>1. PICK g : Fits(g, k)
    OBVIOUS
  <2> DEFINE h == [i \in 0 .. (k + 1) |-> IF i = k + 1 THEN step[<<g[k], k + 1>>] ELSE g[i]]
  <2>2. g[k] \in X /\ k + 1 \in 1 .. n
    BY <2>1
  <2>3. step[<<g[k], k + 1>>] \in X
    BY <2>2
  <2>4. h \in [0 .. (k + 1) -> X]
    BY <2>1, <2>3
  <2>5. h[0] = b
    BY <2>1
  <2>6. ASSUME NEW i \in 1 .. (k + 1) PROVE h[i] = step[<<h[i - 1], i>>]
    <3>1. CASE i = k + 1
      <4>1. i - 1 = k /\ k \in 0 .. (k + 1) /\ k # k + 1
        BY <3>1
      <4>2. h[i - 1] = g[k] /\ h[i] = step[<<g[k], k + 1>>]
        BY <3>1, <4>1
      <4> QED BY <3>1, <4>2
    <3>2. CASE i \in 1 .. k
      BY <3>2, <2>1
    <3> QED BY <3>1, <3>2
  <2> QED BY <2>4, <2>5, <2>6
<1> HIDE DEF Fits
<1>3. Nat \subseteq K
  BY <1>1, <1>2, SetInduction
<1>4. PICK g : Fits(g, n)
  BY <1>3
<1> QED BY <1>4 DEF Fits, Unfolds

-----------------------------------------------------------------------------
(* The evidence compiler *)

\* What the compiler has made of a bundle so far.
Material == [records : Nat, rows : Seq(Nat), from : SUBSET Nat, hits : SUBSET Nat]

LEMMA EmptySeq == \A S : <<>> \in Seq(S)
OBVIOUS

LEMMA AppendBehind ==
  ASSUME NEW S, NEW a \in Seq(S), NEW b \in Seq(S), NEW x \in S
  PROVE  a \o Append(b, x) = Append(a \o b, x)
<1> DEFINE l == a \o Append(b, x)
           r == Append(a \o b, x)
<1>1. Len(a) \in Nat /\ Len(b) \in Nat
  OBVIOUS
<1>2. /\ l \in Seq(S) /\ Len(l) = Len(a) + Len(b) + 1
      /\ r \in Seq(S) /\ Len(r) = Len(a) + Len(b) + 1
  OBVIOUS
<1>3. ASSUME NEW i \in 1 .. Len(a) + Len(b) + 1 PROVE l[i] = r[i]
  <2>1. CASE i \in 1 .. Len(a)
    BY <2>1
  <2>2. CASE i \notin 1 .. Len(a) /\ i # Len(a) + Len(b) + 1
    <3>1. i - Len(a) \in 1 .. Len(b) /\ i \in 1 .. Len(a) + Len(b)
      BY <1>1, <2>2
    <3>2. r[i] = (a \o b)[i] /\ (a \o b)[i] = b[i - Len(a)]
      BY <2>2, <3>1
    <3>3. l[i] = Append(b, x)[i - Len(a)] /\ Append(b, x)[i - Len(a)] = b[i - Len(a)]
      BY <2>2, <3>1
    <3> QED BY <3>2, <3>3
  <2>3. CASE i = Len(a) + Len(b) + 1
    <3>1. r[i] = x
      BY <2>3
    <3>2. i - Len(a) = Len(b) + 1 /\ i \notin 1 .. Len(a)
      BY <1>1, <2>3
    <3>3. l[i] = Append(b, x)[i - Len(a)]
      BY <2>3, <3>2
    <3> QED BY <3>1, <3>2, <3>3
  <2> QED BY <2>1, <2>2, <2>3
<1> HIDE DEF l, r
<1>4. l = [i \in 1 .. Len(l) |-> l[i]] /\ r = [i \in 1 .. Len(r) |-> r[i]]
  BY <1>2
<1> QED BY <1>2, <1>3, <1>4 DEF l, r

\* Append keeps elements distinct.
LEMMA AppendDistinct ==
  ASSUME NEW S, NEW s \in Seq(S), NEW x \in S, IsInjective(s), x \notin ToSet(s)
  PROVE  Append(s, x) \in Seq(S) /\ IsInjective(Append(s, x))
<1> DEFINE t == Append(s, x)
<1>1. /\ t \in Seq(S) /\ Len(s) \in Nat /\ DOMAIN s = 1 .. Len(s)
      /\ DOMAIN t = 1 .. Len(s) + 1 /\ t[Len(s) + 1] = x
      /\ \A i \in 1 .. Len(s) : t[i] = s[i]
      /\ \A i \in 1 .. Len(s) + 1 : i = Len(s) + 1 \/ i \in 1 .. Len(s)
  OBVIOUS
<1>2. \A i \in DOMAIN s : s[i] # x
  BY DEF ToSet
<1> HIDE DEF t
<1>3. ASSUME NEW i \in DOMAIN t, NEW j \in DOMAIN t, t[i] = t[j] PROVE i = j
  <2>1. CASE i \in 1 .. Len(s) /\ j \in 1 .. Len(s)
    BY <1>1, <1>3, <2>1 DEF IsInjective
  <2>2. CASE i = Len(s) + 1 \/ j = Len(s) + 1
    BY <1>1, <1>2, <1>3, <2>2
  <2> QED BY <1>1, <2>1, <2>2
<1> QED BY <1>1, <1>3 DEF t, IsInjective

\* What may be taken of a record after m: distinct rows, one beyond the cap at
\* most.
May(m, taken) ==
  /\ taken \in Seq(Nat) /\ m.rows \o taken \in Seq(Nat)
  /\ IsInjective(m.rows \o taken)
  /\ taken # <<>> => \/ Len(m.rows) + Len(taken) <= MaxRows
                     \/ Len(taken) = 1

LEMMA TakeMay ==
  ASSUME NEW m \in Material, NEW taken, NEW row \in Nat, May(m, taken)
  PROVE  May(m, Take(m, taken, row))
<1>1. CASE \/ row \in ToSet(m.rows \o taken)
           \/ taken # <<>> /\ Len(m.rows) + Len(taken) >= MaxRows
  <2>1. Take(m, taken, row) = taken
    BY <1>1 DEF Take
  <2> QED BY <2>1
<1>2. CASE /\ row \notin ToSet(m.rows \o taken)
           /\ ~(taken # <<>> /\ Len(m.rows) + Len(taken) >= MaxRows)
  <2>1. Take(m, taken, row) = Append(taken, row)
    BY <1>2 DEF Take
  <2>2. taken \in Seq(Nat) /\ m.rows \in Seq(Nat) /\ m.rows \o taken \in Seq(Nat)
        /\ IsInjective(m.rows \o taken)
    BY DEF May, Material
  <2>3. m.rows \o Append(taken, row) = Append(m.rows \o taken, row)
    <3> DEFINE a == m.rows
    <3>1. a \in Seq(Nat) /\ taken \in Seq(Nat)
      BY <2>2
    <3> HIDE DEF a
    <3>2. a \o Append(taken, row) = Append(a \o taken, row)
      BY <3>1, AppendBehind
    <3> QED BY <3>2 DEF a
  <2>4. /\ Append(m.rows \o taken, row) \in Seq(Nat)
        /\ IsInjective(Append(m.rows \o taken, row))
    BY <1>2, <2>2, AppendDistinct
  <2>5. /\ Append(taken, row) \in Seq(Nat) /\ Len(Append(taken, row)) = Len(taken) + 1
        /\ Len(taken) \in Nat /\ Len(m.rows) \in Nat /\ (taken = <<>> => Len(taken) = 0)
    BY <2>2
  <2>6. Len(m.rows) + (Len(taken) + 1) <= MaxRows \/ Len(taken) + 1 = 1
    <3>1. MaxRows \in Nat
      BY Limits
    <3>2. CASE taken = <<>>
      BY <2>5, <3>2
    <3>3. CASE taken # <<>>
      <4>1. ~(Len(m.rows) + Len(taken) >= MaxRows)
        BY <1>2, <3>3
      <4>2. ASSUME NEW a \in Nat, NEW b \in Nat, ~(a + b >= MaxRows)
            PROVE  a + (b + 1) <= MaxRows
        BY <3>1, <4>2
      <4> QED BY <2>5, <4>1, <4>2
    <3> QED BY <3>2, <3>3
  <2> QED BY <2>1, <2>3, <2>4, <2>5, <2>6 DEF May
<1> QED BY <1>1, <1>2

LEMMA TakenMay ==
  ASSUME NEW m \in Material, NEW rows \in Seq(Nat), IsInjective(m.rows)
  PROVE  May(m, Taken(rows, m))
<1> DEFINE L == Len(rows)
           X == Seq(Nat)
           body(f) == [n \in 0 .. L |-> IF n = 0 THEN <<>> ELSE Take(m, f[n - 1], rows[n])]
           p == CHOOSE f : f = body(f)
           step == [a \in X \X (1 .. L) |-> Take(m, a[1], rows[a[2]])]
<1>1. Taken(rows, m) = p[L]
  BY DEF Taken
<1>2. L \in Nat /\ \A n \in 1 .. L : rows[n] \in Nat
  OBVIOUS
<1>3. <<>> \in X
  BY EmptySeq
<1>4. step \in [X \X (1 .. L) -> X]
  <2>1. ASSUME NEW a \in X, NEW n \in 1 .. L PROVE Take(m, a, rows[n]) \in X
    <3>1. rows[n] \in Nat
      BY <1>2
    <3> QED BY <3>1 DEF Take
  <2> QED BY <2>1
<1> HIDE DEF L, X, step
<1>5. PICK g : Unfolds(g, X, L, <<>>, step)
  BY <1>2, <1>3, <1>4, Recursion
<1>6. ASSUME NEW n \in 1 .. L PROVE g[n] = Take(m, g[n - 1], rows[n])
  <2>1. n - 1 \in 0 .. L
    BY <1>2
  <2>2. g[n - 1] \in X
    BY <1>5, <2>1 DEF Unfolds
  <2> QED BY <1>5, <2>2 DEF step, Unfolds
<1>7. g = [n \in 0 .. L |-> g[n]] /\ g[0] = <<>>
  BY <1>5 DEF Unfolds
<1>8. \A n \in 0 .. L : n # 0 => n \in 1 .. L
  BY <1>2
<1>9. g = body(g)
  BY <1>6, <1>7, <1>8
<1>10. p = body(p)
  BY <1>9
<1> HIDE DEF p
<1>11. ASSUME NEW n \in 1 .. L PROVE p[n] = Take(m, p[n - 1], rows[n])
  <2>1. n \in 0 .. L /\ n # 0
    BY <1>2
  <2>2. body(p)[n] = Take(m, p[n - 1], rows[n])
    BY <2>1
  <2> QED BY <1>10, <2>2
<1>12. p[0] = <<>>
  BY <1>2, <1>10
<1> DEFINE K == {n \in Nat : n <= L => May(m, p[n])}
<1>13. 0 \in K
  <2>1. m.rows \in Seq(Nat)
    BY DEF Material
  <2>2. m.rows \o <<>> = m.rows
    BY <2>1
  <2> QED BY <1>12, <2>1, <2>2, EmptySeq DEF May
<1>14. ASSUME NEW n \in K PROVE n + 1 \in K
  <2> SUFFICES ASSUME n + 1 <= L PROVE May(m, p[n + 1])
    OBVIOUS
  <2>1. May(m, p[n]) /\ n + 1 \in 1 .. L /\ (n + 1) - 1 = n
    BY <1>2
  <2>2. p[n + 1] = Take(m, p[n], rows[n + 1]) /\ rows[n + 1] \in Nat
    BY <1>2, <1>11, <2>1
  <2> QED BY <2>1, <2>2, TakeMay
<1>15. Nat \subseteq K
  BY <1>13, <1>14, SetInduction
<1>16. L \in K /\ L <= L
  BY <1>2, <1>15
<1> QED BY <1>1, <1>16

-----------------------------------------------------------------------------
\* Of n records the compiler has kept distinct rows, beyond the cap at most one
\* for each further record, and every record with a text.
Sound(m) ==
  /\ m \in Material /\ IsInjective(m.rows)
  /\ m.rows # <<>> => Len(m.rows) < MaxRows + m.records

LEMMA AddRecordSound ==
  ASSUME NEW m, NEW r \in Record, Sound(m)
  PROVE  /\ Sound(AddRecord(m, r))
         /\ AddRecord(m, r).records = m.records + 1
         /\ m.from \cup m.hits \subseteq AddRecord(m, r).from \cup AddRecord(m, r).hits
         /\ r.text => m.records + 1 \in AddRecord(m, r).from \cup AddRecord(m, r).hits
<1> DEFINE t == Taken(r.rows, m)
           new == AddRecord(m, r)
<1>1. m \in Material /\ IsInjective(m.rows) /\ r.rows \in Seq(Nat)
  BY DEF Sound, Record
<1>2. May(m, t)
  BY <1>1, TakenMay
<1>3. new = [records |-> m.records + 1, rows |-> m.rows \o t,
             from |-> m.from \cup {i \in {m.records + 1} : t # <<>>},
             hits |-> m.hits \cup {i \in {m.records + 1} : t = <<>> /\ r.text}]
  BY DEF AddRecord
<1> HIDE DEF t, new
<1>4. /\ m.records \in Nat /\ m.rows \in Seq(Nat) /\ m.from \in SUBSET Nat
      /\ m.hits \in SUBSET Nat
  BY <1>1 DEF Material
<1>5. new \in Material
  BY <1>2, <1>3, <1>4 DEF May, Material
<1>6. IsInjective(new.rows)
  BY <1>2, <1>3 DEF May
<1>7. ASSUME new.rows # <<>> PROVE Len(new.rows) < MaxRows + new.records
  <2>1. /\ t \in Seq(Nat) /\ Len(t) \in Nat /\ Len(m.rows) \in Nat
        /\ Len(new.rows) = Len(m.rows) + Len(t) /\ new.records = m.records + 1
        /\ MaxRows \in Nat \ {0}
    BY <1>2, <1>3, <1>4, Limits DEF May
  <2>2. CASE t = <<>>
    <3>1. m.rows # <<>> /\ Len(t) = 0
      BY <1>3, <1>4, <1>7, <2>2
    <3> QED BY <1>4, <2>1, <3>1 DEF Sound
  <2>3. CASE t # <<>> /\ Len(m.rows) + Len(t) <= MaxRows
    BY <1>4, <2>1, <2>3
  <2>4. CASE t # <<>> /\ Len(t) = 1
    <3>1. CASE m.rows = <<>>
      BY <1>4, <2>1, <2>4, <3>1
    <3>2. CASE m.rows # <<>>
      BY <1>4, <2>1, <2>4, <3>2 DEF Sound
    <3> QED BY <3>1, <3>2
  <2> QED BY <1>2, <2>2, <2>3, <2>4 DEF May
<1>8. /\ new.records = m.records + 1
      /\ m.from \cup m.hits \subseteq new.from \cup new.hits
      /\ r.text => m.records + 1 \in new.from \cup new.hits
  BY <1>3
<1> QED BY <1>5, <1>6, <1>7, <1>8 DEF new, Sound

LEMMA CompiledSound ==
  ASSUME bundle \in Seq(Record)
  PROVE  /\ Sound(Compiled)
         /\ \A i \in DOMAIN bundle :
              bundle[i].text => i \in Compiled.from \cup Compiled.hits
<1> DEFINE L == Len(bundle)
           body(f) == [n \in 0 .. L |->
                         IF n = 0 THEN NoMaterial ELSE AddRecord(f[n - 1], bundle[n])]
           p == CHOOSE f : f = body(f)
           X == {m \in Material : Sound(m)}
           step == [a \in X \X (1 .. L) |-> AddRecord(a[1], bundle[a[2]])]
<1>1. Compiled = p[L]
  BY DEF Compiled
<1>2. L \in Nat /\ DOMAIN bundle = 1 .. L /\ \A n \in 1 .. L : bundle[n] \in Record
  OBVIOUS
<1>3. NoMaterial \in X /\ NoMaterial.records = 0
  <2>1. NoMaterial.rows = <<>> /\ NoMaterial.records = 0
    BY DEF NoMaterial
  <2>2. NoMaterial \in Material
    BY EmptySeq DEF NoMaterial, Material
  <2>3. IsInjective(NoMaterial.rows)
    BY <2>1 DEF IsInjective
  <2> QED BY <2>1, <2>2, <2>3 DEF Sound
<1>4. step \in [X \X (1 .. L) -> X]
  <2>1. ASSUME NEW m \in X, NEW n \in 1 .. L PROVE AddRecord(m, bundle[n]) \in X
    <3>1. Sound(AddRecord(m, bundle[n]))
      BY <1>2, AddRecordSound
    <3> QED BY <3>1 DEF Sound
  <2> QED BY <2>1
<1> HIDE DEF L, X, step
<1>5. PICK g : Unfolds(g, X, L, NoMaterial, step)
  BY <1>2, <1>3, <1>4, Recursion
<1>6. ASSUME NEW n \in 1 .. L PROVE g[n] = AddRecord(g[n - 1], bundle[n])
  <2>1. n - 1 \in 0 .. L
    BY <1>2
  <2>2. g[n - 1] \in X
    BY <1>5, <2>1 DEF Unfolds
  <2> QED BY <1>5, <2>2 DEF step, Unfolds
<1>7. g = [n \in 0 .. L |-> g[n]] /\ g[0] = NoMaterial
  BY <1>5 DEF Unfolds
<1>8. \A n \in 0 .. L : n # 0 => n \in 1 .. L
  BY <1>2
<1>9. g = body(g)
  BY <1>6, <1>7, <1>8
<1>10. p = body(p)
  BY <1>9
<1> HIDE DEF p
<1>11. ASSUME NEW n \in 1 .. L PROVE p[n] = AddRecord(p[n - 1], bundle[n])
  <2>1. n \in 0 .. L /\ n # 0
    BY <1>2
  <2>2. body(p)[n] = AddRecord(p[n - 1], bundle[n])
    BY <2>1
  <2> QED BY <1>10, <2>2
<1>12. p[0] = NoMaterial
  BY <1>2, <1>10
<1> DEFINE Holds(n) == /\ Sound(p[n]) /\ p[n].records = n
                       /\ \A i \in 1 .. n : bundle[i].text => i \in p[n].from \cup p[n].hits
           K == {n \in Nat : n <= L => Holds(n)}
<1>13. 0 \in K
  BY <1>3, <1>12 DEF X
<1>14. ASSUME NEW n \in K PROVE n + 1 \in K
  <2> SUFFICES ASSUME n + 1 <= L PROVE Holds(n + 1)
    OBVIOUS
  <2>1. Holds(n) /\ n + 1 \in 1 .. L /\ (n + 1) - 1 = n
    BY <1>2
  <2>2. p[n + 1] = AddRecord(p[n], bundle[n + 1]) /\ bundle[n + 1] \in Record
    BY <1>2, <1>11, <2>1
  <2>3. /\ Sound(p[n + 1]) /\ p[n + 1].records = n + 1
        /\ p[n].from \cup p[n].hits \subseteq p[n + 1].from \cup p[n + 1].hits
        /\ bundle[n + 1].text => n + 1 \in p[n + 1].from \cup p[n + 1].hits
    BY <2>1, <2>2, AddRecordSound
  <2>4. \A i \in 1 .. n + 1 : i = n + 1 \/ i \in 1 .. n
    OBVIOUS
  <2> QED BY <2>1, <2>3, <2>4
<1>15. Nat \subseteq K
  BY <1>13, <1>14, SetInduction
<1>16. L \in K /\ L <= L
  BY <1>2, <1>15
<1> QED BY <1>1, <1>2, <1>16

\* As many different elements as positions.
LEMMA DistinctCount ==
  ASSUME NEW S, NEW s \in Seq(S), IsInjective(s)
  PROVE  Cardinality(ToSet(s)) = Len(s)
<1>1. Len(s) \in Nat /\ DOMAIN s = 1 .. Len(s)
  OBVIOUS
<1>2. s \in Bijection(1 .. Len(s), ToSet(s))
  <2>1. ToSet(s) = {s[i] : i \in 1 .. Len(s)}
    BY <1>1 DEF ToSet
  <2>2. s \in [1 .. Len(s) -> ToSet(s)]
    BY <1>1, <2>1
  <2> QED BY <1>1, <2>1, <2>2 DEF Bijection, Injection, Surjection, IsInjective
<1>3. ExistsBijection(1 .. Len(s), ToSet(s))
  BY <1>2 DEF ExistsBijection
<1> QED BY <1>1, <1>3, FS_CountingElements

LEMMA JoinSeqs ==
  ASSUME NEW S, NEW a \in Seq(S), NEW b \in Seq(S)
  PROVE  a \o b \in Seq(S) /\ <<>> \o a = a
OBVIOUS

\* The records of several pages, one after the other.
LEMMA FlattenedRecords ==
  ASSUME NEW n \in Nat, NEW pages \in [1 .. n -> Seq(Record)]
  PROVE  FlattenSeq(pages) \in Seq(Record)
<1> DEFINE X == Seq(Record)
           body(f) == [i \in 1 .. n |-> IF i = 1 THEN pages[i] ELSE f[i - 1] \o pages[i]]
           p == CHOOSE f : f = body(f)
           step == [a \in X \X (1 .. n) |-> a[1] \o pages[a[2]]]
<1>1. pages \in Seq(X) /\ Len(pages) = n
  OBVIOUS
<1>2. CASE n = 0
  <2>1. FlattenSeq(pages) = pages
    BY <1>1, <1>2 DEF FlattenSeq
  <2>2. pages = <<>>
    BY <1>2
  <2> QED BY <2>1, <2>2, EmptySeq
<1>3. CASE n # 0
  <2>1. FlattenSeq(pages) = p[n]
    BY <1>1, <1>3 DEF FlattenSeq
  <2>2. <<>> \in X
    BY EmptySeq
  <2>3. step \in [X \X (1 .. n) -> X]
    <3>1. ASSUME NEW a \in X, NEW i \in 1 .. n PROVE a \o pages[i] \in X
      BY JoinSeqs
    <3> QED BY <3>1
  <2> HIDE DEF X, step
  <2>4. PICK g : Unfolds(g, X, n, <<>>, step)
    BY <2>2, <2>3, Recursion
  <2>5. /\ \A i \in 0 .. n : g[i] \in X
        /\ g[0] = <<>>
        /\ \A i \in 1 .. n : g[i] = step[<<g[i - 1], i>>]
    BY <2>4 DEF Unfolds
  <2>6. ASSUME NEW i \in 1 .. n PROVE g[i] = g[i - 1] \o pages[i]
    <3>1. i - 1 \in 0 .. n
      OBVIOUS
    <3> QED BY <2>5, <3>1 DEF step
  <2> DEFINE h == [i \in 1 .. n |-> g[i]]
  <2>7. ASSUME NEW i \in 1 .. n
        PROVE  g[i] = IF i = 1 THEN pages[i] ELSE h[i - 1] \o pages[i]
    <3>1. CASE i = 1
      <4>1. g[i] = <<>> \o pages[i] /\ pages[i] \in X
        <5>1. i - 1 = 0 /\ pages[i] \in Seq(Record)
          BY <3>1
        <5> QED BY <2>5, <2>6, <5>1 DEF X
      <4> QED BY <3>1, <4>1, JoinSeqs DEF X
    <3>2. CASE i # 1
      <4>1. i - 1 \in 1 .. n
        BY <3>2
      <4> QED BY <2>6, <3>2, <4>1
    <3> QED BY <3>1, <3>2
  <2>8. h = body(h)
    BY <2>7
  <2>9. p = body(p)
    BY <2>8
  <2> HIDE DEF p
  <2>10. ASSUME NEW i \in 1 .. n
         PROVE  p[i] = IF i = 1 THEN pages[i] ELSE p[i - 1] \o pages[i]
    <3>1. body(p)[i] = IF i = 1 THEN pages[i] ELSE p[i - 1] \o pages[i]
      OBVIOUS
    <3> QED BY <2>9, <3>1
  <2> DEFINE K == {i \in Nat : i + 1 <= n => p[i + 1] \in X}
  <2>11. 0 \in K
    <3>1. p[1] = pages[1] /\ 1 \in 1 .. n
      BY <1>3, <2>10
    <3> QED BY <3>1 DEF X
  <2>12. ASSUME NEW i \in K PROVE i + 1 \in K
    <3> SUFFICES ASSUME (i + 1) + 1 <= n PROVE p[(i + 1) + 1] \in X
      OBVIOUS
    <3>1. /\ p[i + 1] \in X /\ (i + 1) + 1 \in 1 .. n /\ (i + 1) + 1 # 1
          /\ ((i + 1) + 1) - 1 = i + 1
      OBVIOUS
    <3>2. p[(i + 1) + 1] = p[i + 1] \o pages[(i + 1) + 1] /\ pages[(i + 1) + 1] \in Seq(Record)
      BY <2>10, <3>1
    <3> QED BY <3>1, <3>2, JoinSeqs DEF X
  <2>13. Nat \subseteq K
    BY <2>11, <2>12, SetInduction
  <2>14. n - 1 \in K /\ (n - 1) + 1 = n
    <3>1. n - 1 \in Nat /\ (n - 1) + 1 = n
      BY <1>3
    <3> QED BY <2>13, <3>1
  <2> QED BY <2>1, <2>14 DEF X
<1> QED BY <1>2, <1>3

\* What a plan's requests return is a sequence of records.
LEMMA CollectedRecords ==
  ASSUME NEW p, p.queries \in Nat, p.urls \in Nat, NEW b \in Collected(p)
  PROVE  b \in Seq(Record)
<1>1. Requests(p) \in Nat
  BY DEF Requests, Least
<1>2. Pages \cup {<<>>} \subseteq Seq(Record)
  BY PagesOfRecords, EmptySeq
<1>3. PICK pages \in [1 .. Requests(p) -> Pages \cup {<<>>}] : b = FlattenSeq(pages)
  BY DEF Collected
<1>4. pages \in [1 .. Requests(p) -> Seq(Record)]
  BY <1>2, <1>3
<1> QED BY <1>1, <1>3, <1>4, FlattenedRecords

\* What is collected are records, and what has been made of them is sound.
BundleInv ==
  /\ bundle \in Seq(Record) /\ Sound(material)
  /\ pc = "evidence" => plan.queries \in Nat /\ plan.urls \in Nat
  /\ pc \in {"inspect", "context"} =>
       \A i \in DOMAIN bundle : bundle[i].text => i \in material.from \cup material.hits

LEMMA BundleStep == BundleInv /\ [Next]_vars => BundleInv'
<1> SUFFICES ASSUME BundleInv, [Next]_vars PROVE BundleInv'
  OBVIOUS
<1> USE DEF BundleInv, task, data
<1>0. material' = material => (Sound(material)' <=> Sound(material))
  BY DEF Sound
<1>1. CASE Analyst \/ AnalystAgain
  <2>1. plan' \in Plans \cup {Fallback} /\ pc' \in {"evidence", "coder"}
    BY <1>1 DEF Analyst, AnalystAgain, MakePlan
  <2>2. UNCHANGED <<bundle, material>>
    BY <1>1 DEF Analyst, AnalystAgain
  <2>3. plan'.queries \in Nat /\ plan'.urls \in Nat
    BY <2>1, PlansOfTheModel DEF Fallback, Plan
  <2> QED BY <1>0, <2>1, <2>2, <2>3
<1>2. CASE StaticEvidence
  <2>1. bundle' \in Seq(Record)
    BY <1>2, CollectedRecords DEF StaticEvidence
  <2>2. pc' \in {"compile", "again", "summarize"} /\ UNCHANGED material
    BY <1>2 DEF StaticEvidence, AfterEvidence
  <2> QED BY <1>0, <2>1, <2>2
<1>3. CASE EvidenceDenied
  BY <1>0, <1>3, EmptySeq DEF EvidenceDenied
<1>4. CASE EvidenceCompiler
  <2>1. material' = Compiled /\ bundle' = bundle /\ pc' # "evidence"
    BY <1>4 DEF EvidenceCompiler
  <2>2. /\ Sound(Compiled)
        /\ \A i \in DOMAIN bundle :
             bundle[i].text => i \in Compiled.from \cup Compiled.hits
    BY CompiledSound
  <2>3. Sound(material)'
    BY <2>1, <2>2 DEF Sound
  <2> QED BY <2>1, <2>2, <2>3
<1>5. CASE DataInspector \/ DataInspectorBlocks \/ ContextBuilder
  <2>1. UNCHANGED <<bundle, material>> /\ pc' \in {"again", "done"}
    BY <1>5 DEF DataInspector, DataInspectorBlocks, ContextBuilder
  <2> QED BY <1>0, <2>1
<1>6. CASE Coder \/ Auditor \/ Debugger \/ Executor \/ Summarizer
  <2>1. UNCHANGED <<bundle, material>> /\ pc' \notin {"evidence", "inspect", "context"}
    BY <1>6 DEF Coder, Auditor, Debugger, Executor, AfterRun, Summarizer
  <2> QED BY <1>0, <2>1
<1>7. CASE UNCHANGED vars
  BY <1>0, <1>7 DEF vars
<1> QED BY <1>1, <1>2, <1>3, <1>4, <1>5, <1>6, <1>7 DEF Next

\* Whatever the pages hold, no record with a text is lost, no row is taken
\* twice, and the cap on the rows is kept up to one row for each record.
THEOREM EvidenceCounts == Spec => []EvidenceAccounted
<1>1. Init => BundleInv
  <2> SUFFICES ASSUME Init PROVE BundleInv
    OBVIOUS
  <2>1. bundle = <<>> /\ material = NoMaterial /\ pc = "analyst"
    BY DEF Init
  <2>2. Sound(NoMaterial)
    <3>1. NoMaterial.rows = <<>> /\ NoMaterial \in Material
      BY EmptySeq DEF NoMaterial, Material
    <3> QED BY <3>1 DEF IsInjective, Sound
  <2> QED BY <2>1, <2>2, EmptySeq DEF BundleInv
<1>2. BundleInv => EvidenceAccounted
  <2> SUFFICES ASSUME BundleInv PROVE EvidenceAccounted
    OBVIOUS
  <2>1. material.rows \in Seq(Nat) /\ IsInjective(material.rows)
    BY DEF BundleInv, Sound, Material
  <2>2. Cardinality(ToSet(material.rows)) = Len(material.rows)
    BY <2>1, DistinctCount
  <2>3. material.rows # <<>> => Len(material.rows) < MaxRows + material.records
    BY DEF BundleInv, Sound
  <2>4. pc \in {"inspect", "context"} =>
          \A i \in DOMAIN bundle : bundle[i].text => i \in material.from \cup material.hits
    BY DEF BundleInv
  <2> QED BY <2>2, <2>3, <2>4 DEF EvidenceAccounted
<1> QED BY <1>1, <1>2, BundleStep, PTL DEF Spec

=============================================================================
