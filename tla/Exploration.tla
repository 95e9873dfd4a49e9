---------------------------- MODULE Exploration ----------------------------
(***************************************************************************)
(* The dynamic node: governance of the request (HarnessGovernor), the loop *)
(* in which the model calls tools of the gateway (run_exploration_loop),   *)
(* and what the node writes of it to the task's row.                       *)
(*                                                                         *)
(* The model answers with tool calls, with a final answer, or not at all.  *)
(* A call may name any tool: one it was offered, one it was not, or a name *)
(* nobody registered.  What a tool returns is whether it failed and whether *)
(* the web result could be structured.  Of the row the model keeps the     *)
(* dynamic section, its trace apart, and the last governance decision.  An *)
(* event is its type: the events of the loop have no payload, and          *)
(* TraceNormalizer keeps the payload only.                                 *)
(*                                                                         *)
(* Left out: the wording of prompts and summaries, the knowledge and the   *)
(* memory put into the context, a tool's arguments, and what tools do      *)
(* elsewhere (sandbox_exec: SandboxRuns; memory_sync: the memory section). *)
(***************************************************************************)
EXTENDS Naturals, FiniteSets, SequencesExt

CONSTANTS
  RawPolicies,  \* policies the YAML file may hold, one after the other
  Envelopes,    \* task envelopes: profile, requested tools, query keywords
  Intents,      \* intents of the state
  Answers,      \* final answers of the model, as sequences of lines
  Callable,     \* tool names the model may put into a call
  MaxSteps,     \* max_dynamic_steps
  MaxCalls,     \* bound on the tool calls of one reply
  MaxTroubles   \* bound on crashes, lost leases and policy changes together

\* A line of an answer: a heading, which opens a section, or what it says below one.
Suggested == <<"analyst", "coder", "evidence_collection">>
Headings == {"open", "next", "refs", "other"}
Lines == [kind : Headings \cup {"bullet", "url", "text"},
          says : SUBSET (ToSet(Suggested) \cup {"none"})]

\* The tools registered with default_mcp_server, and those the loop never exposes.
Server == {"knowledge_query", "web_search", "web_fetch", "sandbox_exec",
           "dynamic_trace", "memory_sync", "skill_auth"}
Excluded == {"dynamic_trace", "memory_sync", "skill_auth"}
Tool == Server \cup {"unregistered"}

ASSUME ExplorationParameters ==
  /\ MaxSteps \in Nat \ {0} /\ MaxCalls \in Nat \ {0} /\ MaxTroubles \in Nat
  /\ \A e \in Envelopes : IsFiniteSet(e.tools)
  /\ Answers \subseteq Seq(Lines) /\ Callable \subseteq Tool

VARIABLES
  policy,    \* what load_harness_policy returns
  envelope, intent,
  pc,        \* where the node is
  plan,      \* DynamicPlan, or None
  round,     \* step_idx
  asked,     \* tool calls in the assistant messages
  answered,  \* tool messages
  todo,      \* calls of the current round still to be made
  failures,  \* consecutive_failures
  steps,     \* ExplorationStep of this run: what each call got
  sent,      \* forwarded_events: how many
  result,    \* ExplorationResult, or None
  decision,  \* in the task's row: the last governance decision, or None
  section,   \* in the task's row: the dynamic section without its trace
  trace,     \* in the task's row: the trace events of the dynamic section
  owned,     \* the process holds the task's lease
  answer,    \* history: the answer the last result was parsed from
  troubles

task == <<envelope, intent>>
talk == <<round, asked, answered, todo, failures, steps>>
row == <<decision, section, trace>>
vars == <<policy, task, pc, plan, talk, sent, result, row, owned, answer, troubles>>

None == [none |-> TRUE]
NoAnswer == <<>>

Init ==
  /\ policy \in RawPolicies /\ envelope \in Envelopes /\ intent \in Intents
  /\ pc = "prepare" /\ plan = None
  /\ round = 0 /\ asked = 0 /\ answered = 0 /\ todo = <<>> /\ failures = 0
  /\ steps = <<>> /\ sent = 0 /\ result = None /\ answer = NoAnswer
  /\ decision = None /\ trace = <<>>
  /\ section = [status |-> "", continuation |-> "finish", next |-> <<>>, external |-> 0]
  /\ owned = TRUE /\ troubles = 0

-----------------------------------------------------------------------------
(* Capabilities and policy *)

\* capability_registry: aliases, access to the network, execution of code.
Cap(aliases, net, code) == [aliases |-> aliases, net |-> net, code |-> code]
Registered ==
  [web_search |-> Cap({"search"}, TRUE, FALSE),
   web_fetch |-> Cap({"fetch"}, TRUE, FALSE),
   knowledge_query |-> Cap({"kag_query"}, FALSE, FALSE),
   sandbox_exec |-> Cap({"sandbox_execute"}, FALSE, TRUE),
   dynamic_trace |-> Cap({"trace_write"}, FALSE, FALSE),
   memory_sync |-> Cap({"memory_write"}, FALSE, FALSE),
   skill_admin |-> Cap({"skill_auth"}, FALSE, FALSE)]

\* get: the capabilities a name stands for, at most one.
Named(name) == {c \in DOMAIN Registered : name = c \/ name \in Registered[c].aliases}

\* resolve_names
Resolved(names) == UNION {Named(n) : n \in names}
Unknown(names) == {n \in names : Named(n) = {}}

\* _normalize_policy: what is not supported falls back to the safe value.
Effective(raw) ==
  [raw EXCEPT
    !.mode = IF @ \in {"standard", "core"} THEN @ ELSE "standard",
    !.profiles =
      [p \in DOMAIN @ |-> [@[p] EXCEPT !.net = raw.profiles[p].net = "tool-mediated-only"]]]

\* get_profile: an unknown profile allows nothing.
Profile(pol, name) ==
  IF name \in DOMAIN pol.profiles THEN pol.profiles[name]
  ELSE [tools |-> {}, net |-> FALSE]

\* _network_access_allowed
Reaches(profile, c) == profile.net \/ ~Registered[c].net

\* Requested capabilities the profile does not list, or may not reach.
Denied(profile, names) ==
  {c \in Resolved(names) : c \notin Resolved(profile.tools) \/ ~Reaches(profile, c)}

\* The risk score in hundredths; 70 is high.
High == 70
Least(a, b) == IF a < b THEN a ELSE b
Risk(env, refused) ==
  LET caps == Resolved(env.tools)
      score == 15 + (IF env.explores THEN 25 ELSE 0) + (IF env.executes THEN 25 ELSE 0)
               + Least(20, 5 * Cardinality(env.tools))
               + (IF \E c \in caps : Registered[c].net THEN 10 ELSE 0)
               + (IF \E c \in caps : Registered[c].code THEN 15 ELSE 0)
  IN  IF refused /\ score < High THEN High ELSE score

\* Mutant of Granted: what was requested is granted.
GrantedAsRequested(pol, profile, names) == Resolved(names)

\* decision.allowed_tools
Granted(pol, profile, names) ==
  {c \in Resolved(names) : pol.allow_unknown \/ c \in Resolved(profile.tools)}

\* evaluate_dynamic_request.  No request stands for the profile's tools.
DynamicRequest(raw, env) ==
  LET pol == Effective(raw)
      profile == Profile(pol, env.profile)
      refused == Unknown(env.tools) \cup Denied(profile, env.tools) # {}
      risk == Risk(env, refused)
  IN  [allowed |-> /\ pol.allow_unknown \/ ~refused
                   /\ ~(pol.mode = "core" /\ risk >= High),
       high |-> risk >= High,
       tools |-> Granted(pol, profile,
                         IF env.tools = {} THEN Resolved(profile.tools) ELSE env.tools)]

\* evaluate_tool_request: the same for a request of the static path.
ToolRequest(raw, env) ==
  LET pol == Effective(raw)
      profile == Profile(pol, env.profile)
  IN  [allowed |-> Unknown(env.tools) \cup Denied(profile, env.tools) = {},
       tools |-> Resolved(env.tools) \cap Resolved(profile.tools)]

\* SkillAuthTool.authorize does not look at the network.
SkillAllowed(raw, env) ==
  /\ Unknown(env.tools) = {}
  /\ Resolved(env.tools) \subseteq Resolved(Profile(Effective(raw), env.profile).tools)

-----------------------------------------------------------------------------
(* The plan *)

\* ensure_execution_intent: the names of old intents are mapped to the two
\* that are left.
NormalIntent(raw) ==
  CASE raw \in {"", "dynamic_only", "dynamic_then_static", "dynamic_then_static_flow"}
         -> "dynamic_flow"
    [] raw \in {"static_with_network", "static_only"} -> "static_flow"
    [] OTHER -> raw

\* prepare: under the policy of the moment.
Plan == [decision |-> DynamicRequest(policy, envelope), intent |-> NormalIntent(intent)]

\* continuation_default
Continuation(p) ==
  IF p.intent = "dynamic_then_static_flow" THEN "resume_static" ELSE "finish"

\* The tools the loop may expose.
Gateway == Server \ Excluded

\* Mutant of Offered: every tool is exposed.
OfferedAll(tools) == Gateway

\* The tools exposed: no tool granted stands for all of them.
Offered(tools) == IF tools = {} THEN Gateway ELSE Gateway \cap tools

-----------------------------------------------------------------------------
(* The final answer *)

\* The elements of seq at the positions I, in their order.
Picked(seq, I) ==
  LET picked[n \in 0 .. Len(seq)] ==
        IF n = 0 THEN <<>>
        ELSE LET before == picked[n - 1]
             IN  IF n \in I THEN Append(before, seq[n]) ELSE before
  IN  picked[Len(seq)]

\* What a line suggests, in the order of the list, and acc does not have.
Further(acc, line) ==
  Picked(Suggested, {i \in DOMAIN Suggested :
                       Suggested[i] \in line.says /\ ~Contains(acc, Suggested[i])})

\* Mutant of NextSteps: "none" does not take back what was said before it.
NextStepsKept(acc, line) == acc \o Further(acc, line)

\* A line below "Next Steps".
NextSteps(acc, line) == IF "none" \in line.says THEN <<>> ELSE acc \o Further(acc, line)

\* _parse_final_answer, line by line; of questions and references the count.
Read(acc, line) ==
  IF line.kind \in Headings THEN [acc EXCEPT !.section = line.kind]
  ELSE CASE acc.section = "next" -> [acc EXCEPT !.next = NextSteps(acc.next, line)]
         [] acc.section = "open" /\ line.kind = "bullet" -> [acc EXCEPT !.open = @ + 1]
         [] acc.section = "refs" /\ line.kind = "url" -> [acc EXCEPT !.refs = @ + 1]
         [] OTHER -> acc

Parsed(lines) ==
  LET parsed[n \in 0 .. Len(lines)] ==
        IF n = 0 THEN [section |-> "other", open |-> 0, next |-> <<>>, refs |-> 0]
        ELSE Read(parsed[n - 1], lines[n])
  IN  parsed[Len(lines)]

-----------------------------------------------------------------------------
(* Events and results *)

\* _extract_external_knowledge
Evidence(ss) == Cardinality({i \in DOMAIN ss : ss[i] = "structured"})

\* ExplorationResult, however the loop ended.
Result(ss, lines) ==
  [continuation |-> Continuation(plan), next |-> Parsed(lines).next,
   open |-> Parsed(lines).open, refs |-> Parsed(lines).refs,
   external |-> Evidence(ss)]

\* append_dynamic_trace_event, for each of the events in order
Leave(events) == trace' = trace \o events /\ UNCHANGED <<decision, section>>

\* forward_event appends the events to the row's trace and remembers them.
Emit(events) == Leave(events) /\ sent' = sent + Len(events)

\* The loop returns.
End(ss, lines) == result' = Result(ss, lines) /\ answer' = lines /\ pc' = "update"

Raised == pc' = "raised" /\ UNCHANGED <<plan, talk, sent, result, row, answer>>

\* What stays outside of the node's steps.
Around == UNCHANGED <<policy, task, owned, troubles>>

-----------------------------------------------------------------------------
(* The node *)

\* The decision is published, under the lease, and recorded.
Prepare ==
  /\ pc = "prepare" /\ Around
  /\ IF ~owned THEN Raised
     ELSE /\ plan' = Plan
          /\ decision' = Plan.decision
          /\ pc' = IF Plan.decision.allowed THEN "start" ELSE "deny"
          /\ UNCHANGED <<talk, sent, result, answer, section, trace>>

Deny ==
  /\ pc = "deny" /\ Around
  /\ section' = [status |-> "denied", continuation |-> "finish", next |-> <<>>,
                 external |-> section.external]
  /\ pc' = "returned"
  /\ UNCHANGED <<plan, talk, sent, result, answer, decision, trace>>

Start ==
  /\ pc = "start" /\ Around
  /\ UNCHANGED <<plan, talk, sent, row>>
  /\ IF Offered(plan.decision.tools) = {} THEN End(<<>>, NoAnswer)
     ELSE pc' = "ask" /\ UNCHANGED <<result, answer>>

\* The model asks for tools: one or more, whatever it was offered.
AskTools ==
  /\ pc = "ask" /\ Around
  /\ \E n \in 1 .. MaxCalls :
       /\ todo' \in [1 .. n -> Callable]
       /\ asked' = asked + n
  /\ pc' = "announce"
  /\ UNCHANGED <<plan, round, answered, failures, steps, sent, result, row, answer>>

\* The model gives its answer.
AskFinal ==
  /\ pc = "ask" /\ Around
  /\ IF ~owned THEN Raised
     ELSE /\ \E lines \in Answers : End(steps, lines)
          /\ Emit(<<"done">>)
          /\ UNCHANGED <<plan, talk>>

\* The model cannot be reached: the error goes to the result, not to the trace.
AskFails ==
  /\ pc = "ask" /\ Around
  /\ End(steps, NoAnswer)
  /\ UNCHANGED <<plan, talk, sent, row>>

\* Any other failure of a call leaves the node.
AskRaises == pc \in {"ask", "summary"} /\ Around /\ Raised

Announce ==
  /\ pc = "announce" /\ Around
  /\ IF ~owned THEN Raised
     ELSE /\ Emit(<<"tool_call_start">>)
          /\ pc' = "call"
          /\ UNCHANGED <<plan, talk, result, answer>>

\* Mutant of Counted: the count begins anew with every round.
CountedByRound(failed) == IF ~failed THEN 0 ELSE IF Len(todo) = 1 THEN 1 ELSE failures + 1

\* consecutive_failures after a call
Counted(failed) == IF failed THEN failures + 1 ELSE 0

\* call_tool: what a tool may return.  Every registered tool runs, offered or
\* not; only web results are structured.
Returns(tool) ==
  CASE tool \notin Server -> {"error"}
    [] tool \in {"web_search", "web_fetch"} -> {"error", "plain", "structured"}
    [] OTHER -> {"error", "plain"}

\* What the tool itself leaves in the row: dynamic_trace appends an event, to
\* this row or to that of another task, as its arguments say.
Noted(tool, got) ==
  {<<>>} \cup (IF tool = "dynamic_trace" /\ got = "plain" THEN {<<"noted">>} ELSE {})

\* Every call is answered by a tool message.
Answering(failed) == answered + 1

\* The end of a round: too many failures, or the next round, or the budget is used.
AfterRound(n) ==
  IF n >= 3 THEN End(steps', NoAnswer) /\ UNCHANGED round
  ELSE /\ round' = round + 1
       /\ pc' = IF round' = MaxSteps THEN "summary" ELSE "ask"
       /\ UNCHANGED <<result, answer>>

\* The tool runs; the lease is looked at again before its result is published.
CallTool ==
  /\ pc = "call" /\ Around
  /\ \E got \in Returns(Head(todo)) : \E noted \in Noted(Head(todo), got) :
     IF ~owned
     THEN pc' = "raised" /\ Leave(noted) /\ UNCHANGED <<plan, talk, sent, result, answer>>
     ELSE LET failed == got = "error"
          IN  /\ answered' = Answering(failed)
              /\ steps' = Append(steps, got)
              /\ Leave(noted \o <<"tool_result">>) /\ sent' = sent + 1
              /\ failures' = Counted(failed)
              /\ todo' = Tail(todo)
              /\ IF todo' = <<>> THEN AfterRound(failures')
                 ELSE pc' = "announce" /\ UNCHANGED <<round, result, answer>>
              /\ UNCHANGED <<plan, asked>>

\* The budget is used up: the model summarizes, or a fixed text stands in.
Summarize ==
  /\ pc = "summary" /\ Around
  /\ IF ~owned THEN Raised
     ELSE /\ \E lines \in Answers \cup {NoAnswer} : End(steps, lines)
          /\ Emit(<<"done">>)
          /\ UNCHANGED <<plan, talk>>

\* Mutant of Trace: the result's empty trace is written over the events.
TraceOfResult == <<>>

\* update_dynamic: events sent during the run stay; without any, the result's
\* empty trace is written.
Trace == IF sent > 0 THEN trace ELSE <<>>

\* ensure_dynamic_resume_overlay knows two static steps.
StaticSteps(seq) == Picked(seq, {i \in DOMAIN seq : seq[i] \in {"analyst", "coder"}})

Completed ==
  [status |-> "completed", continuation |-> result.continuation,
   next |-> StaticSteps(result.next),
   external |-> result.external]

\* The dynamic section is written under the lease.
Update ==
  /\ pc = "update" /\ Around
  /\ IF ~owned THEN Raised
     ELSE /\ section' = Completed
          /\ trace' = Trace
          /\ pc' = "returned"
          /\ UNCHANGED <<plan, talk, sent, result, answer, decision>>

NodeStep ==
  \/ Prepare \/ Deny \/ Start \/ AskTools \/ AskFinal \/ AskFails \/ AskRaises
  \/ Announce \/ CallTool \/ Summarize \/ Update

-----------------------------------------------------------------------------
(* Around the node *)

Trouble == troubles < MaxTroubles /\ troubles' = troubles + 1

LoseLease ==
  /\ Trouble /\ owned /\ pc \notin {"returned", "raised"}
  /\ owned' = FALSE
  /\ UNCHANGED <<policy, task, pc, plan, talk, sent, result, row, answer>>

\* The policy file is edited and read again.
ChangePolicy ==
  /\ Trouble
  /\ policy' \in RawPolicies \ {policy}
  /\ UNCHANGED <<task, pc, plan, talk, sent, result, row, owned, answer>>

\* The process dies before the node's checkpoint is complete; the flow is
\* recovered under a new lease and the node runs from its start, on the row.
Crash ==
  /\ Trouble /\ pc # "raised"
  /\ pc' = "prepare" /\ plan' = None
  /\ round' = 0 /\ asked' = 0 /\ answered' = 0 /\ todo' = <<>> /\ failures' = 0
  /\ steps' = <<>> /\ sent' = 0 /\ result' = None /\ answer' = NoAnswer
  /\ owned' = TRUE
  /\ UNCHANGED <<policy, task, row>>

\* The node has returned its patch or has raised.
Ended == pc \in {"returned", "raised"} /\ UNCHANGED vars

Next == NodeStep \/ LoseLease \/ ChangePolicy \/ Crash \/ Ended

Spec == Init /\ [][Next]_vars

-----------------------------------------------------------------------------
(* Properties *)

Step == {"error", "plain", "structured"}
Event == {"tool_call_start", "tool_result", "done", "noted"}

\* Every variable has its type; a round beyond the budget is never begun.
TypeOK ==
  /\ policy \in RawPolicies /\ envelope \in Envelopes /\ intent \in Intents
  /\ round \in 0 .. MaxSteps
  /\ pc \in {"prepare", "start", "ask", "announce", "call"} => round < MaxSteps
  /\ asked \in Nat /\ answered \in Nat /\ failures \in Nat /\ sent \in Nat
  /\ todo \in Seq(Tool) /\ steps \in Seq(Step)
  /\ trace \in Seq(Event)
  /\ troubles \in 0 .. MaxTroubles

\* When the model is called again, with tools or for its summary, each of its
\* earlier tool calls has its answer in the conversation, failed calls too: the
\* provider refuses a conversation with a call left open.
AnsweredBeforeAsked == pc \in {"ask", "summary"} => asked = answered /\ asked = Len(steps)

\* The model is not asked again after three failures in a row, whichever
\* rounds they were in.
StopsOnFailures ==
  pc \in {"ask", "summary"} =>
    ~\E i \in DOMAIN steps :
       /\ i + 2 = Len(steps)
       /\ \A j \in i .. i + 2 : steps[j] = "error"

\* A run of the loop is allowed by the decision in the row, and what it offers
\* the model is what that decision grants (all tools, where it grants none),
\* though the policy changes and the node is run again after a crash.  It is a
\* property of the offer: a reply that names another registered tool runs it.
OffersAsRecorded ==
  pc \in {"ask", "announce", "call", "summary", "update"} =>
    /\ decision.allowed
    /\ \A tool \in Offered(plan.decision.tools) :
         decision.tools = {} \/ tool \in decision.tools

\* No governor grants what the profile does not list, unless the policy allows
\* unknown tools; the paths agree: what a tool request allows, a skill may use,
\* and standard mode explores with it.
GovernorsAgree ==
  LET pol == Effective(policy)
      own == Resolved(Profile(pol, envelope.profile).tools)
      dynamic == DynamicRequest(policy, envelope)
      static == ToolRequest(policy, envelope)
  IN  /\ dynamic.tools \subseteq own \/ pol.allow_unknown
      /\ static.tools \subseteq own
      /\ static.allowed => SkillAllowed(policy, envelope)
      /\ static.allowed /\ pol.mode = "standard" => dynamic.allowed
      /\ pol.mode = "core" /\ dynamic.high => ~dynamic.allowed
      /\ ~static.allowed => dynamic.high

\* However the loop ends - answered, out of steps, interrupted, or stopped by
\* failures - the evidence its steps have structured reaches the row.
EvidenceKept ==
  pc = "returned" /\ section.status = "completed" =>
    section.external = Cardinality({i \in DOMAIN steps : steps[i] = "structured"})

\* A line is below the heading "Next Steps".
BelowNext(i) ==
  \E h \in 1 .. i - 1 :
    /\ answer[h].kind = "next"
    /\ \A k \in h + 1 .. i : answer[k].kind \notin Headings

\* The static steps in the row are those the answer asks for and does not take
\* back by a later "none", each once.
StepsAsAnswered ==
  pc = "returned" /\ section.status = "completed" =>
    /\ IsInjective(section.next)
    /\ ToSet(section.next) =
         {s \in {"analyst", "coder"} : \E i \in DOMAIN answer :
            /\ BelowNext(i) /\ s \in answer[i].says
            /\ ~\E j \in i .. Len(answer) : BelowNext(j) /\ "none" \in answer[j].says}

\* A run that has sent events never removes an event from the row's trace, of
\* its own or of a run before a crash.
TraceKept == [][sent > 0 /\ pc # "prepare" /\ sent' > 0 => IsPrefix(trace, trace')]_vars

=============================================================================
