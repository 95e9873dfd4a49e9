------------------------- MODULE ExplorationProofs -------------------------
(***************************************************************************)
(* Theorems about Exploration, for any policies, requests, answers and     *)
(* budgets.                                                                *)
(*                                                                         *)
(* The conversation is in balance: what the model has asked is answered or *)
(* still to be called.  The failures counted are the last calls, so three  *)
(* in a row are never followed by a further question.  A run of the loop   *)
(* starts from an empty conversation under the plan recorded in the row.   *)
(* By induction over the lines of an answer, what is read of it is what it *)
(* asks for below "Next Steps" and does not take back.                     *)
(***************************************************************************)
EXTENDS Exploration, SequenceTheorems, FiniteSetTheorems, WellFoundedInduction, TLAPS

\* What is asked is answered, or still to be called.
TalkInv ==
  /\ asked = answered + Len(todo) /\ answered = Len(steps)
  /\ pc \in {"prepare", "deny", "start", "ask", "summary"} => todo = <<>>
  /\ pc \in {"announce", "call"} => todo # <<>>

\* The call in front of the failures counted has not failed.
FailureInv ==
  /\ failures <= Len(steps)
  /\ failures < Len(steps) => steps[Len(steps) - failures] # "error"
  /\ pc \in {"prepare", "start", "ask", "summary"} => failures < 3

\* A run begins with nothing, under the decision recorded in the row.
RunInv ==
  /\ pc \in {"prepare", "deny", "start"} => todo = <<>> /\ steps = <<>>
  /\ pc \in {"start", "ask", "announce", "call", "summary", "update"} =>
       decision = plan.decision /\ plan.decision.allowed

\* The result has the evidence of the steps.
EvidenceInv ==
  /\ pc = "update" => result.external = Evidence(steps)
  /\ EvidenceKept

-----------------------------------------------------------------------------
\* The calls of a reply are a sequence of tools.
LEMMA Replies ==
  ASSUME NEW S, NEW n \in Nat, NEW t \in [1 .. n -> S]
  PROVE  t \in Seq(S) /\ Len(t) = n /\ DOMAIN t = 1 .. n
OBVIOUS

LEMMA EmitTypes ==
  ASSUME TypeOK, NEW events \in Seq(Event), Emit(events)
  PROVE  /\ section' = section /\ decision' = decision
         /\ trace' = trace \o events /\ trace' \in Seq(Event) /\ sent' \in Nat
<1>1. trace \o events \in Seq(Event)
  BY DEF TypeOK
<1>2. Len(events) \in Nat
  OBVIOUS
<1> QED BY <1>1, <1>2 DEF TypeOK, Emit, Leave

LEMMA EventSeqs ==
  /\ <<"tool_call_start">> \in Seq(Event) /\ <<"tool_result">> \in Seq(Event)
  /\ <<"done">> \in Seq(Event) /\ <<"noted">> \in Seq(Event)
BY DEF Event

\* What a call leaves in the row are events.
LEMMA NotedEvents ==
  ASSUME NEW tool, NEW got, NEW noted \in Noted(tool, got)
  PROVE  noted \in Seq(Event) /\ noted \o <<"tool_result">> \in Seq(Event)
<1>1. <<>> \in Seq(Event)
  OBVIOUS
<1>2. noted = <<>> \/ noted = <<"noted">>
  BY DEF Noted
<1>3. noted \in Seq(Event)
  BY <1>1, <1>2, EventSeqs
<1> QED BY <1>3, EventSeqs

\* A loop that returns has a result and writes it next.
LEMMA Ends ==
  ASSUME NEW ss, NEW lines, End(ss, lines)
  PROVE  pc' = "update" /\ result' = Result(ss, lines) /\ answer' = lines
BY DEF End

\* After a call comes the next call, the next round, or the end of the loop.
LEMMA CallRounds ==
  ASSUME CallTool, owned, pc = "call"
  PROVE  \/ todo' # <<>> /\ pc' = "announce" /\ round' = round
         \/ /\ todo' = <<>> /\ ~(failures' >= 3) /\ round' = round + 1
            /\ pc' = IF round' = MaxSteps THEN "summary" ELSE "ask"
         \/ todo' = <<>> /\ failures' >= 3 /\ pc' = "update" /\ round' = round
<1>1. IF todo' = <<>> THEN AfterRound(failures')
      ELSE pc' = "announce" /\ UNCHANGED <<round, result, answer>>
  BY DEF CallTool
<1> QED BY <1>1, Ends DEF AfterRound

\* What a call does to the types.
LEMMA CallTypes ==
  ASSUME TypeOK, TalkInv, pc = "call", CallTool, owned
  PROVE  /\ todo' = Tail(todo) /\ todo' \in Seq(Tool) /\ Len(todo') = Len(todo) - 1
         /\ \E got \in {"error", "plain", "structured"} :
              /\ got \in Returns(Head(todo))
              /\ steps' = Append(steps, got)
              /\ failures' = Counted(got = "error")
         /\ steps' \in Seq(Step) /\ Len(steps') = Len(steps) + 1
         /\ answered' = answered + 1 /\ asked' = asked /\ plan' = plan
         /\ section' = section /\ decision' = decision /\ sent' = sent + 1
         /\ trace' \in Seq(Event)
<1>1. todo # <<>>
  BY DEF TalkInv
<1>2. Head(todo) \in Tool /\ Tail(todo) \in Seq(Tool) /\ Len(Tail(todo)) = Len(todo) - 1
  BY <1>1 DEF TypeOK
<1>3. PICK got \in Returns(Head(todo)) : \E noted \in Noted(Head(todo), got) :
         /\ answered' = Answering(got = "error")
         /\ steps' = Append(steps, got)
         /\ Leave(noted \o <<"tool_result">>) /\ sent' = sent + 1
         /\ failures' = Counted(got = "error")
         /\ todo' = Tail(todo)
         /\ UNCHANGED <<plan, asked>>
  BY DEF CallTool
<1>4. got \in {"error", "plain", "structured"}
  BY DEF Returns
<1>5. got \in Step
  BY <1>2, <1>4 DEF Step
<1>6. steps' \in Seq(Step) /\ Len(steps') = Len(steps) + 1
  BY <1>3, <1>5 DEF TypeOK
<1>7. PICK noted \in Noted(Head(todo), got) : Leave(noted \o <<"tool_result">>)
  BY <1>3
<1>8. trace' \in Seq(Event) /\ section' = section /\ decision' = decision
  BY <1>7, NotedEvents DEF Leave, TypeOK
<1> QED BY <1>2, <1>3, <1>4, <1>6, <1>8 DEF Answering

\* Every variable keeps its type.
LEMMA TypeStep == TypeOK /\ TalkInv /\ [Next]_vars => TypeOK'
<1> SUFFICES ASSUME TypeOK, TalkInv, [Next]_vars PROVE TypeOK'
  OBVIOUS
<1> USE ExplorationParameters DEF Around, task, talk, row, NoAnswer
<1>1. CASE Prepare
  BY <1>1 DEF Prepare, Raised, TypeOK
<1>2. CASE Deny
  BY <1>2 DEF Deny, TypeOK
<1>3. CASE Start
  BY <1>3, Ends DEF Start, TypeOK
<1>4. CASE AskTools
  <2>1. PICK n \in 1 .. MaxCalls :
          /\ todo' \in [1 .. n -> Callable]
          /\ asked' = asked + n
    BY <1>4 DEF AskTools
  <2>2. todo' \in [1 .. n -> Tool]
    BY <2>1, ExplorationParameters
  <2>3. todo' \in Seq(Tool)
    BY <2>2, Replies
  <2> QED BY <1>4, <2>1, <2>3 DEF AskTools, TypeOK
<1>5. CASE AskFinal
  BY <1>5, Ends, EmitTypes, EventSeqs DEF AskFinal, Raised, TypeOK
<1>6. CASE AskFails
  BY <1>6, Ends DEF AskFails, TypeOK
<1>7. CASE AskRaises
  BY <1>7 DEF AskRaises, Raised, TypeOK
<1>8. CASE Announce
  BY <1>8, EmitTypes, EventSeqs DEF Announce, Raised, TypeOK
<1>9. CASE CallTool
  <2>1. CASE ~owned
    <3>1. PICK got \in Returns(Head(todo)) : \E noted \in Noted(Head(todo), got) : Leave(noted)
      BY <1>9, <2>1 DEF CallTool
    <3>2. trace' \in Seq(Event) /\ section' = section
      BY <3>1, NotedEvents DEF Leave, TypeOK
    <3>3. pc' = "raised" /\ UNCHANGED <<policy, envelope, intent, troubles, talk, sent>>
      BY <1>9, <2>1 DEF CallTool
    <3> QED BY <3>2, <3>3 DEF TypeOK
  <2>2. CASE owned
    <3>1. pc = "call"
      BY <1>9 DEF CallTool
    <3>2. failures' \in Nat
      BY <1>9, <2>2, <3>1, CallTypes DEF Counted, TypeOK
    <3>3. round' \in 0 .. MaxSteps /\ (pc' \in {"prepare", "start", "ask", "announce", "call"} => round' < MaxSteps)
      BY <1>9, <2>2, <3>1, CallRounds DEF TypeOK
    <3>4. UNCHANGED <<policy, envelope, intent, troubles>>
      BY <1>9 DEF CallTool
    <3>5. section' = section /\ trace' \in Seq(Event) /\ sent' \in Nat
      BY <1>9, <2>2, <3>1, CallTypes DEF TypeOK
    <3> QED BY <1>9, <2>2, <3>1, <3>2, <3>3, <3>4, <3>5, CallTypes DEF TypeOK
  <2> QED BY <2>1, <2>2
<1>10. CASE Summarize
  BY <1>10, Ends, EmitTypes, EventSeqs DEF Summarize, Raised, TypeOK
<1>11. CASE Update
  <2>1. Trace \in Seq(Event)
    BY DEF Trace, TypeOK
  <2>2. trace' \in {trace, Trace} /\ pc' \in {"returned", "raised"}
        /\ UNCHANGED <<policy, task, talk, sent, troubles>>
    BY <1>11 DEF Update, Raised
  <2> QED BY <2>1, <2>2 DEF TypeOK
<1>12. CASE LoseLease
  BY <1>12 DEF LoseLease, Trouble, TypeOK
<1>13. CASE ChangePolicy
  BY <1>13 DEF ChangePolicy, Trouble, TypeOK
<1>14. CASE Crash
  BY <1>14 DEF Crash, Trouble, TypeOK
<1>15. CASE UNCHANGED vars
  BY <1>15 DEF vars, TypeOK
<1> QED BY <1>1, <1>2, <1>3, <1>4, <1>5, <1>6, <1>7, <1>8, <1>9, <1>10, <1>11, <1>12, <1>13, <1>14, <1>15 DEF Next, NodeStep, Ended

\* The conversation stays in balance.
LEMMA TalkStep == TypeOK /\ TalkInv /\ [Next]_vars => TalkInv'
<1> SUFFICES ASSUME TypeOK, TalkInv, [Next]_vars PROVE TalkInv'
  OBVIOUS
<1> USE DEF Around, task, talk
<1>1. CASE Prepare \/ Deny \/ AskRaises
  BY <1>1 DEF Prepare, Deny, AskRaises, Raised, TalkInv
<1>2. CASE Start
  BY <1>2, Ends DEF Start, TalkInv
<1>3. CASE AskTools
  <2>1. PICK n \in 1 .. MaxCalls :
          /\ todo' \in [1 .. n -> Callable]
          /\ asked' = asked + n
    BY <1>3 DEF AskTools
  <2>2. n \in Nat /\ n > 0
    BY ExplorationParameters
  <2>3. Len(todo') = n /\ todo' \in Seq(Callable)
    BY <2>1, <2>2, Replies
  <2>4. todo' # <<>>
    BY <2>2, <2>3
  <2>5. pc = "ask" /\ pc' = "announce" /\ UNCHANGED <<answered, steps>> /\ todo = <<>>
    BY <1>3 DEF AskTools, TalkInv
  <2>6. asked = answered
    BY <2>5 DEF TalkInv, TypeOK
  <2>7. asked' = answered' + Len(todo')
    BY <2>1, <2>2, <2>3, <2>5, <2>6 DEF TypeOK
  <2> QED BY <2>4, <2>5, <2>7 DEF TalkInv
<1>4. CASE AskFinal \/ Summarize
  BY <1>4, Ends DEF AskFinal, Summarize, Raised, TalkInv
<1>5. CASE AskFails
  BY <1>5, Ends DEF AskFails, TalkInv
<1>6. CASE Announce
  BY <1>6 DEF Announce, Raised, TalkInv
<1>7. CASE CallTool
  <2>1. CASE ~owned
    BY <1>7, <2>1 DEF CallTool, Leave, TalkInv
  <2>2. CASE owned
    <3>1. pc = "call"
      BY <1>7 DEF CallTool
    <3>2. /\ Len(todo') = Len(todo) - 1 /\ Len(steps') = Len(steps) + 1
          /\ answered' = answered + 1 /\ asked' = asked
      BY <1>7, <2>2, <3>1, CallTypes
    <3>3. Len(todo) \in Nat /\ Len(steps) \in Nat
      BY DEF TypeOK
    <3>4. asked' = answered' + Len(todo') /\ answered' = Len(steps')
      BY <3>2, <3>3 DEF TalkInv, TypeOK
    <3>5. /\ pc' \in {"prepare", "deny", "start", "ask", "summary"} => todo' = <<>>
          /\ pc' \in {"announce", "call"} => todo' # <<>>
      BY <1>7, <2>2, <3>1, CallRounds
    <3> QED BY <3>4, <3>5 DEF TalkInv
  <2> QED BY <2>1, <2>2
<1>8. CASE Update
  BY <1>8 DEF Update, Raised, TalkInv
<1>9. CASE LoseLease \/ ChangePolicy
  BY <1>9 DEF LoseLease, ChangePolicy, TalkInv
<1>10. CASE Crash
  BY <1>10 DEF Crash, TalkInv
<1>11. CASE UNCHANGED vars
  BY <1>11 DEF vars, TalkInv
<1> QED BY <1>1, <1>2, <1>3, <1>4, <1>5, <1>6, <1>7, <1>8, <1>9, <1>10, <1>11 DEF Next, NodeStep, Ended

\* The failures counted stay the last calls.
LEMMA FailureStep == TypeOK /\ TalkInv /\ FailureInv /\ [Next]_vars => FailureInv'
<1> SUFFICES ASSUME TypeOK, TalkInv, FailureInv, [Next]_vars PROVE FailureInv'
  OBVIOUS
<1> USE DEF Around, task, talk
<1>1. CASE Prepare \/ Deny \/ AskRaises
  BY <1>1 DEF Prepare, Deny, AskRaises, Raised, FailureInv
<1>2. CASE Start
  BY <1>2, Ends DEF Start, FailureInv
<1>3. CASE AskTools
  BY <1>3 DEF AskTools, FailureInv
<1>4. CASE AskFinal \/ Summarize
  BY <1>4, Ends DEF AskFinal, Summarize, Raised, FailureInv
<1>5. CASE AskFails
  BY <1>5, Ends DEF AskFails, FailureInv
<1>6. CASE Announce
  BY <1>6 DEF Announce, Raised, FailureInv
<1>7. CASE CallTool
  <2>1. CASE ~owned
    BY <1>7, <2>1 DEF CallTool, Leave, FailureInv
  <2>2. CASE owned
    <3>1. pc = "call"
      BY <1>7 DEF CallTool
    <3>2. PICK got \in {"error", "plain", "structured"} :
            /\ steps' = Append(steps, got)
            /\ failures' = Counted(got = "error")
      BY <1>7, <2>2, <3>1, CallTypes
    <3>3. Len(steps) \in Nat /\ failures \in Nat /\ failures <= Len(steps)
      BY DEF TypeOK, FailureInv
    <3>4. /\ Len(steps') = Len(steps) + 1 /\ steps'[Len(steps) + 1] = got
          /\ \A i \in 1 .. Len(steps) : steps'[i] = steps[i]
      BY <3>2, <3>3 DEF TypeOK
    <3>5. pc' \in {"prepare", "start", "ask", "summary"} => failures' < 3
      <4>1. failures' \in Nat
        BY <3>2, <3>3 DEF Counted
      <4> QED BY <1>7, <2>2, <3>1, <4>1, CallRounds
    <3>6. CASE got = "error"
      <4>1. failures' = failures + 1
        BY <3>2, <3>6 DEF Counted
      <4>2. ASSUME failures' < Len(steps')
            PROVE  steps'[Len(steps') - failures'] # "error"
        <5>1. /\ failures < Len(steps) /\ Len(steps') - failures' = Len(steps) - failures
              /\ Len(steps) - failures \in 1 .. Len(steps)
          BY <3>3, <3>4, <4>1, <4>2
        <5> QED BY <3>4, <5>1 DEF FailureInv
      <4> QED BY <3>3, <3>4, <3>5, <4>1, <4>2 DEF FailureInv
    <3>7. CASE got # "error"
      <4>1. failures' = 0
        BY <3>2, <3>7 DEF Counted
      <4> QED BY <3>3, <3>4, <3>5, <3>7, <4>1 DEF FailureInv
    <3> QED BY <3>6, <3>7
  <2> QED BY <2>1, <2>2
<1>8. CASE Update
  BY <1>8 DEF Update, Raised, FailureInv
<1>9. CASE LoseLease \/ ChangePolicy
  BY <1>9 DEF LoseLease, ChangePolicy, FailureInv
<1>10. CASE Crash
  BY <1>10 DEF Crash, FailureInv
<1>11. CASE UNCHANGED vars
  BY <1>11 DEF vars, FailureInv
<1> QED BY <1>1, <1>2, <1>3, <1>4, <1>5, <1>6, <1>7, <1>8, <1>9, <1>10, <1>11 DEF Next, NodeStep, Ended

\* A run keeps to its decision.
LEMMA RunStep == TypeOK /\ TalkInv /\ RunInv /\ [Next]_vars => RunInv'
<1> SUFFICES ASSUME TypeOK, TalkInv, RunInv, [Next]_vars PROVE RunInv'
  OBVIOUS
<1> USE DEF Around, task, talk, row
<1>1. CASE Prepare
  <2>1. pc' \in {"raised", "start", "deny"} /\ UNCHANGED talk /\ todo = <<>> /\ steps = <<>>
    BY <1>1 DEF Prepare, Raised, RunInv
  <2>2. pc' = "start" => decision' = plan'.decision /\ plan'.decision.allowed
    BY <1>1 DEF Prepare, Raised
  <2>3. DOMAIN todo' = {} /\ DOMAIN steps' = {}
    BY <2>1
  <2> QED BY <2>1, <2>2, <2>3 DEF RunInv
<1>2. CASE Deny \/ AskRaises
  BY <1>2 DEF Deny, AskRaises, Raised, RunInv
<1>3. CASE Start
  BY <1>3, Ends DEF Start, RunInv
<1>4. CASE AskTools
  BY <1>4 DEF AskTools, RunInv
<1>5. CASE AskFinal \/ Summarize
  BY <1>5, Ends DEF AskFinal, Summarize, Emit, Leave, Raised, RunInv
<1>6. CASE AskFails
  BY <1>6, Ends DEF AskFails, RunInv
<1>7. CASE Announce
  BY <1>7 DEF Announce, Emit, Leave, Raised, RunInv
<1>8. CASE CallTool
  <2>1. CASE ~owned
    BY <1>8, <2>1 DEF CallTool, Leave, RunInv
  <2>2. CASE owned
    <3>1. pc = "call" /\ plan' = plan /\ decision' = decision
      BY <1>8, <2>2 DEF CallTool, Leave
    <3>2. pc' \in {"announce", "ask", "summary", "update"}
      BY <1>8, <2>2, <3>1, CallRounds
    <3> QED BY <3>1, <3>2 DEF RunInv
  <2> QED BY <2>1, <2>2
<1>9. CASE Update
  BY <1>9 DEF Update, Raised, RunInv
<1>10. CASE LoseLease \/ ChangePolicy
  BY <1>10 DEF LoseLease, ChangePolicy, RunInv
<1>11. CASE Crash
  BY <1>11 DEF Crash, RunInv
<1>12. CASE UNCHANGED vars
  BY <1>12 DEF vars, RunInv
<1> QED BY <1>1, <1>2, <1>3, <1>4, <1>5, <1>6, <1>7, <1>8, <1>9, <1>10, <1>11, <1>12 DEF Next, NodeStep, Ended

\* The evidence of a run goes from its steps to its result and to the row.
LEMMA EvidenceStep == RunInv /\ EvidenceInv /\ [Next]_vars => EvidenceInv'
<1> SUFFICES ASSUME RunInv, EvidenceInv, [Next]_vars PROVE EvidenceInv'
  OBVIOUS
<1> USE DEF Around, task, talk, row
<1>1. ASSUME NEW ss, NEW lines
      PROVE  Result(ss, lines).external = Evidence(ss)
  BY DEF Result
<1>2. EvidenceKept <=> (pc = "returned" /\ section.status = "completed"
                           => section.external = Evidence(steps))
  BY DEF EvidenceKept, Evidence
<1>3. EvidenceKept' <=> (pc' = "returned" /\ section'.status = "completed"
                            => section'.external = Evidence(steps'))
  BY DEF EvidenceKept, Evidence
<1> USE <1>2, <1>3 DEF EvidenceInv
<1>4. CASE Prepare \/ AskRaises \/ AskTools \/ Announce \/ Crash
  BY <1>4 DEF Prepare, AskRaises, AskTools, Announce, Crash, Raised
<1>5. CASE Deny
  BY <1>5 DEF Deny
<1>6. CASE Start \/ AskFails \/ AskFinal \/ Summarize
  <2>1. \/ pc' \in {"ask", "raised"}
        \/ /\ pc' = "update" /\ UNCHANGED steps
           /\ \E lines : result' = Result(steps, lines)
    BY <1>6, Ends DEF Start, AskFails, AskFinal, Summarize, Raised, RunInv
  <2> QED BY <1>1, <2>1
<1>7. CASE CallTool
  <2>1. \/ pc' \in {"raised", "announce", "ask", "summary"}
        \/ pc' = "update" /\ \E lines : result' = Result(steps', lines)
    BY <1>7, Ends DEF CallTool, AfterRound, Raised
  <2> QED BY <1>1, <2>1
<1>8. CASE Update
  BY <1>8 DEF Update, Completed, Raised
<1>9. CASE LoseLease \/ ChangePolicy
  BY <1>9 DEF LoseLease, ChangePolicy
<1>10. CASE UNCHANGED vars
  BY <1>10 DEF vars
<1> QED BY <1>4, <1>5, <1>6, <1>7, <1>8, <1>9, <1>10 DEF Next, NodeStep, Ended

\* Sequences grow at their end.
LEMMA PrefixOfConcat ==
  ASSUME NEW S, NEW s \in Seq(S), NEW e \in Seq(S)
  PROVE  IsPrefix(s, s) /\ IsPrefix(s, s \o e)
BY DEF IsPrefix

\* The trace is emptied only at the end of a run that has sent nothing.
LEMMA TraceStep ==
  TypeOK /\ [Next]_vars => (sent > 0 /\ pc # "prepare" /\ sent' > 0 => IsPrefix(trace, trace'))
<1> SUFFICES ASSUME TypeOK, [Next]_vars, sent > 0, sent' > 0
             PROVE  IsPrefix(trace, trace')
  OBVIOUS
<1> USE DEF Around, task, talk, row
<1>1. CASE trace' = trace
  BY <1>1, PrefixOfConcat DEF TypeOK
<1>2. CASE AskFinal \/ Summarize \/ Announce
  <2>1. trace' = trace \/ \E e \in Seq(Event) : trace' = trace \o e
    BY <1>2, EventSeqs DEF AskFinal, Summarize, Announce, Emit, Leave, Raised
  <2> QED BY <2>1, PrefixOfConcat DEF TypeOK
<1>3. CASE CallTool
  <2>1. \E got \in Returns(Head(todo)) : \E noted \in Noted(Head(todo), got) :
          trace' = trace \o noted \/ trace' = trace \o (noted \o <<"tool_result">>)
    BY <1>3 DEF CallTool, Leave
  <2>2. \A got : \A noted \in Noted(Head(todo), got) :
          noted \in Seq(Event) /\ noted \o <<"tool_result">> \in Seq(Event)
    BY NotedEvents
  <2> QED BY <2>1, <2>2, PrefixOfConcat DEF TypeOK
<1>4. CASE Update
  BY <1>4, <1>1 DEF Update, Raised, Trace
<1> QED
  BY <1>1, <1>2, <1>3, <1>4
     DEF Next, NodeStep, Ended, vars, Prepare, Deny, Start, AskTools, AskFails, AskRaises,
         Raised, LoseLease, ChangePolicy, Crash

\* A refused request has a high risk.
LEMMA RefusedIsHigh ==
  ASSUME NEW env \in Envelopes
  PROVE  Risk(env, TRUE) >= High
<1>1. Cardinality(env.tools) \in Nat
  BY ExplorationParameters, FS_CardinalityType
<1> DEFINE caps == Resolved(env.tools)
           few == Least(20, 5 * Cardinality(env.tools))
           explores == IF env.explores THEN 25 ELSE 0
           executes == IF env.executes THEN 25 ELSE 0
           reaches == IF \E c \in caps : Registered[c].net THEN 10 ELSE 0
           runs == IF \E c \in caps : Registered[c].code THEN 15 ELSE 0
           score == 15 + explores + executes + few + reaches + runs
<1>2. few \in Nat /\ explores \in Nat /\ executes \in Nat /\ reaches \in Nat /\ runs \in Nat
  BY <1>1 DEF Least
<1>3. Risk(env, TRUE) = IF score < High THEN High ELSE score
  BY DEF Risk
<1> HIDE DEF few, explores, executes, reaches, runs
<1>4. score \in Nat
  BY <1>2
<1> HIDE DEF score
<1>5. (IF score < High THEN High ELSE score) >= High
  BY <1>4 DEF High
<1> QED BY <1>3, <1>5

\* The paths of governance agree.
LEMMA Agreement == TypeOK => GovernorsAgree
<1> SUFFICES ASSUME TypeOK PROVE GovernorsAgree
  OBVIOUS
<1> DEFINE pol == Effective(policy)
           profile == Profile(pol, envelope.profile)
           refused == Unknown(envelope.tools) \cup Denied(profile, envelope.tools) # {}
           dynamic == DynamicRequest(policy, envelope)
           static == ToolRequest(policy, envelope)
<1>1. dynamic.tools \subseteq Resolved(profile.tools) \/ pol.allow_unknown
  BY DEF DynamicRequest, Granted
<1>2. static.tools \subseteq Resolved(profile.tools) /\ static.allowed = ~refused
  BY DEF ToolRequest
<1>3. ~refused => SkillAllowed(policy, envelope)
  BY DEF SkillAllowed, Denied
<1>4. /\ dynamic.high = (Risk(envelope, refused) >= High)
      /\ dynamic.allowed = /\ pol.allow_unknown \/ ~refused
                           /\ ~(pol.mode = "core" /\ Risk(envelope, refused) >= High)
  BY DEF DynamicRequest
<1>5. refused => dynamic.high
  <2>1. refused => refused = TRUE
    OBVIOUS
  <2> QED BY <1>4, <2>1, RefusedIsHigh DEF TypeOK
<1> HIDE DEF pol, refused
<1>6. /\ ~refused /\ pol.mode = "standard" => dynamic.allowed
      /\ pol.mode = "core" /\ dynamic.high => ~dynamic.allowed
  BY <1>4
<1> QED BY <1>1, <1>2, <1>3, <1>5, <1>6 DEF GovernorsAgree, pol, refused

-----------------------------------------------------------------------------
LEMMA Begin == Init => TypeOK /\ TalkInv /\ FailureInv /\ RunInv /\ EvidenceInv
<1> SUFFICES ASSUME Init PROVE TypeOK /\ TalkInv /\ FailureInv /\ RunInv /\ EvidenceInv
  OBVIOUS
<1>1. /\ policy \in RawPolicies /\ envelope \in Envelopes /\ intent \in Intents
      /\ pc = "prepare" /\ troubles = 0 /\ sent = 0
      /\ round = 0 /\ asked = 0 /\ answered = 0 /\ failures = 0
      /\ todo = <<>> /\ steps = <<>> /\ trace = <<>>
  BY DEF Init
<1>2. TypeOK /\ TalkInv /\ FailureInv
  BY <1>1, ExplorationParameters DEF TypeOK, TalkInv, FailureInv
<1>3. RunInv
  BY DEF Init, RunInv
<1>4. EvidenceInv
  BY DEF Init, EvidenceInv, EvidenceKept
<1> QED BY <1>2, <1>3, <1>4

\* The variables keep their types, and no round beyond the budget is begun.
THEOREM TypeCorrect == Spec => [](TypeOK /\ TalkInv)
BY Begin, TypeStep, TalkStep, PTL DEF Spec

\* The model is never called with one of its tool calls left open.
THEOREM Balanced == Spec => []AnsweredBeforeAsked
<1>1. TypeOK /\ TalkInv => AnsweredBeforeAsked
  <2> SUFFICES ASSUME TypeOK, TalkInv, pc \in {"ask", "summary"}
               PROVE  asked = answered /\ asked = Len(steps)
    BY DEF AnsweredBeforeAsked
  <2>1. todo = <<>>
    BY DEF TalkInv
  <2> QED BY <2>1 DEF TalkInv, TypeOK
<1> QED BY <1>1, TypeCorrect, PTL

\* After three failures in a row the model is not asked again.
THEOREM FailuresStop == Spec => []StopsOnFailures
<1>1. TypeOK /\ FailureInv => StopsOnFailures
  <2> SUFFICES ASSUME TypeOK, FailureInv, pc \in {"ask", "summary"},
                      NEW i \in DOMAIN steps, i + 2 = Len(steps),
                      \A j \in i .. i + 2 : steps[j] = "error"
               PROVE  FALSE
    BY DEF StopsOnFailures
  <2>1. i \in 1 .. Len(steps) /\ failures \in 0 .. 2
    BY DEF TypeOK, FailureInv
  <2>2. failures < Len(steps) /\ Len(steps) - failures \in i .. i + 2
    BY <2>1
  <2> QED BY <2>2 DEF FailureInv
<1> QED BY <1>1, Begin, FailureStep, TypeCorrect, PTL DEF Spec

\* Every run is allowed by the decision in the row and offers what it grants.
THEOREM DecisionKept == Spec => []OffersAsRecorded
<1>1. RunInv => OffersAsRecorded
  <2> SUFFICES ASSUME RunInv, pc \in {"ask", "announce", "call", "summary", "update"}
               PROVE  /\ decision.allowed
                      /\ \A tool \in Offered(plan.decision.tools) :
                           decision.tools = {} \/ tool \in decision.tools
    BY DEF OffersAsRecorded
  <2>1. decision = plan.decision /\ decision.allowed
    BY DEF RunInv
  <2> QED BY <2>1 DEF Offered
<1> QED BY <1>1, Begin, RunStep, TypeCorrect, PTL DEF Spec

\* However the loop ends, its evidence reaches the row.
THEOREM EvidenceReachesRow == Spec => []EvidenceKept
<1>1. EvidenceInv => EvidenceKept
  BY DEF EvidenceInv
<1> QED BY <1>1, Begin, RunStep, EvidenceStep, TypeCorrect, PTL DEF Spec

\* The governors agree under every policy.
THEOREM Governed == Spec => []GovernorsAgree
BY Agreement, TypeCorrect, PTL

\* A run that has sent events keeps every event before them.
THEOREM TraceGrows == Spec => TraceKept
<1>1. TypeOK /\ [Next]_vars =>
        [sent > 0 /\ pc # "prepare" /\ sent' > 0 => IsPrefix(trace, trace')]_vars
  BY TraceStep
<1> QED BY <1>1, TypeCorrect, PTL DEF Spec, TraceKept

-----------------------------------------------------------------------------
(* Induction over the length of a list *)

LEMMA LessIs ==
  \A x, y \in Nat : <<x, y>> \in OpToRel(<, Nat) <=> x < y
BY DEF OpToRel

\* A set that holds 0 and the successors of its members holds every number.
LEMMA SetInduction ==
  ASSUME NEW S, 0 \in S, \A n \in S : n \in Nat => n + 1 \in S
  PROVE  Nat \subseteq S
<1> DEFINE T == Nat \ S
<1> SUFFICES ASSUME T # {} PROVE FALSE
  OBVIOUS
<1>1. PICK x \in T : \A y \in T : ~ (<<y, x>> \in OpToRel(<, Nat))
  <2>1. T \subseteq Nat
    OBVIOUS
  <2> QED BY <2>1, NatLessThanWellFounded, WFMin
<1>2. x # 0
  OBVIOUS
<1>3. x - 1 \in Nat /\ x - 1 < x
  BY <1>2
<1>4. x - 1 \in S
  BY <1>1, <1>3, LessIs
<1>5. (x - 1) + 1 = x
  OBVIOUS
<1>6. x \in S
  BY <1>3, <1>4, <1>5
<1> QED BY <1>6

Unfolds(g, X, n, b, step) ==
  /\ g \in [0 .. n -> X] /\ g[0] = b
  /\ \A i \in 1 .. n : g[i] = step[<<g[i - 1], i>>]

\* A function over 0 .. n with a given first value and a given step exists.
LEMMA Recursion ==
  ASSUME NEW n \in Nat, NEW X, NEW b \in X, NEW step \in [X \X (1 .. n) -> X]
  PROVE  \E g : Unfolds(g, X, n, b, step)
<1> DEFINE Fits(g, k) == /\ g \in [0 .. k -> X] /\ g[0] = b
                         /\ \A i \in 1 .. k : g[i] = step[<<g[i - 1], i>>]
           K == {k \in Nat : k <= n => \E g : Fits(g, k)}
<1>1. 0 \in K
  <2>1. Fits([i \in 0 .. 0 |-> b], 0)
    OBVIOUS
  <2> QED BY <2>1
<1>2. ASSUME NEW k \in K PROVE k + 1 \in K
  <2> SUFFICES ASSUME k + 1 <= n PROVE \E g : Fits(g, k + 1)
    OBVIOUS
  <2>1. PICK g : Fits(g, k)
    OBVIOUS
  <2> DEFINE h == [i \in 0 .. (k + 1) |-> IF i = k + 1 THEN step[<<g[k], k + 1>>] ELSE g[i]]
  <2>2. g[k] \in X /\ k + 1 \in 1 .. n
    BY <2>1
  <2>3. step[<<g[k], k + 1>>] \in X
    BY <2>2
  <2>4. h \in [0 .. (k + 1) -> X]
    BY <2>1, <2>3
  <2>5. h[0] = b
    BY <2>1
  <2>6. ASSUME NEW i \in 1 .. (k + 1) PROVE h[i] = step[<<h[i - 1], i>>]
    <3>1. CASE i = k + 1
      <4>1. i - 1 = k /\ k \in 0 .. (k + 1) /\ k # k + 1
        BY <3>1
      <4>2. h[i - 1] = g[k] /\ h[i] = step[<<g[k], k + 1>>]
        BY <3>1, <4>1
      <4> QED BY <3>1, <4>2
    <3>2. CASE i \in 1 .. k
      BY <3>2, <2>1
    <3> QED BY <3>1, <3>2
  <2> QED BY <2>4, <2>5, <2>6
<1> HIDE DEF Fits
<1>3. Nat \subseteq K
  BY <1>1, <1>2, SetInduction
<1>4. PICK g : Fits(g, n)
  BY <1>3
<1> QED BY <1>4 DEF Fits, Unfolds

\* Picked is a subsequence: its elements are elements of seq at the positions
\* I, and as distinct as those of seq.
LEMMA PickedPicks ==
  ASSUME NEW S, NEW seq \in Seq(S), NEW I
  PROVE  /\ Picked(seq, I) \in Seq(S)
         /\ \A k \in DOMAIN Picked(seq, I) :
              \E i \in DOMAIN seq : i \in I /\ Picked(seq, I)[k] = seq[i]
         /\ \A i \in DOMAIN seq : i \in I =>
              \E k \in DOMAIN Picked(seq, I) : Picked(seq, I)[k] = seq[i]
         /\ IsInjective(seq) => IsInjective(Picked(seq, I))
<1> DEFINE L == Len(seq)
           body(f) == [n \in 0 .. L |->
                         IF n = 0 THEN <<>>
                         ELSE IF n \in I THEN Append(f[n - 1], seq[n]) ELSE f[n - 1]]
           p == CHOOSE f : f = body(f)
<1>1. Picked(seq, I) = p[L]
  BY DEF Picked
<1>2. L \in Nat /\ DOMAIN seq = 1 .. L
  OBVIOUS
<1>3. p = body(p)
  <2> DEFINE step == [a \in Seq(S) \X (1 .. L) |->
                        IF a[2] \in I THEN Append(a[1], seq[a[2]]) ELSE a[1]]
  <2>1. step \in [Seq(S) \X (1 .. L) -> Seq(S)]
    OBVIOUS
  <2>2. <<>> \in Seq(S)
    OBVIOUS
  <2> HIDE DEF step, L
  <2>3. PICK g : Unfolds(g, Seq(S), L, <<>>, step)
    BY <1>2, <2>1, <2>2, Recursion
  <2>4. ASSUME NEW i \in 1 .. L
        PROVE  g[i] = IF i \in I THEN Append(g[i - 1], seq[i]) ELSE g[i - 1]
    <3>1. i - 1 \in 0 .. L
      BY <1>2
    <3>2. g[i - 1] \in Seq(S)
      BY <2>3, <3>1 DEF Unfolds
    <3> QED BY <2>3, <3>2 DEF step, Unfolds
  <2>5. g = [n \in 0 .. L |-> g[n]]
    BY <2>3 DEF Unfolds
  <2>6. \A n \in 0 .. L : n # 0 => n \in 1 .. L
    BY <1>2
  <2>7. g = body(g)
    BY <2>3, <2>4, <2>5, <2>6 DEF Unfolds
  <2> QED BY <2>7
<1> HIDE DEF p, L
<1>4. p[0] = <<>>
  BY <1>2, <1>3
<1>5. ASSUME NEW n \in 1 .. L
      PROVE  p[n] = IF n \in I THEN Append(p[n - 1], seq[n]) ELSE p[n - 1]
  <2>1. n \in 0 .. L /\ n # 0
    BY <1>2
  <2>2. body(p)[n] = IF n \in I THEN Append(p[n - 1], seq[n]) ELSE p[n - 1]
    BY <2>1
  <2> QED BY <1>3, <2>2
<1> DEFINE Good(n) == /\ p[n] \in Seq(S)
                      /\ \A k \in DOMAIN p[n] : \E i \in 1 .. n : i \in I /\ p[n][k] = seq[i]
                      /\ \A i \in 1 .. n : i \in I => \E k \in DOMAIN p[n] : p[n][k] = seq[i]
                      /\ IsInjective(seq) => IsInjective(p[n])
           K == {n \in Nat : n <= L => Good(n)}
<1>6. 0 \in K
  <2>1. p[0] \in Seq(S) /\ DOMAIN p[0] = {}
    BY <1>4
  <2> QED BY <2>1 DEF IsInjective
<1>7. ASSUME NEW n \in K PROVE n + 1 \in K
  <2> SUFFICES ASSUME n + 1 <= L PROVE Good(n + 1)
    OBVIOUS
  <2>1. Good(n) /\ n + 1 \in 1 .. L /\ (n + 1) - 1 = n
    BY <1>2
  <2>2. CASE n + 1 \notin I
    <3>1. p[n + 1] = p[n]
      BY <2>1, <2>2, <1>5
    <3>2. \A i \in 1 .. (n + 1) : i \in I => i \in 1 .. n
      BY <2>1, <2>2
    <3> QED BY <2>1, <3>1, <3>2
  <2>3. CASE n + 1 \in I
    <3>1. p[n + 1] = Append(p[n], seq[n + 1])
      BY <2>1, <2>3, <1>5
    <3> DEFINE q == p[n]
               x == seq[n + 1]
    <3>2. q \in Seq(S) /\ x \in S /\ p[n + 1] = Append(q, x)
      BY <2>1, <1>2, <3>1
    <3>3. /\ p[n + 1] \in Seq(S) /\ DOMAIN p[n + 1] = 1 .. (Len(q) + 1)
          /\ p[n + 1][Len(q) + 1] = x
          /\ \A k \in 1 .. Len(q) : p[n + 1][k] = q[k]
          /\ DOMAIN q = 1 .. Len(q) /\ Len(q) \in Nat
      <4> HIDE DEF q, x
      <4> QED BY <3>2
    <3>4. \A k \in DOMAIN q : \E i \in 1 .. n : i \in I /\ q[k] = seq[i]
      BY <2>1
    <3> HIDE DEF q, x
    <3>5. ASSUME NEW k \in DOMAIN p[n + 1]
          PROVE  \E i \in 1 .. (n + 1) : i \in I /\ p[n + 1][k] = seq[i]
      <4>1. CASE k = Len(q) + 1
        BY <4>1, <3>3, <2>1, <2>3 DEF x
      <4>2. CASE k \in 1 .. Len(q)
        BY <4>2, <3>3, <3>4
      <4> QED BY <4>1, <4>2, <3>3
    <3>6. ASSUME IsInjective(seq) PROVE IsInjective(p[n + 1])
      <4>1. IsInjective(q)
        BY <3>6, <2>1 DEF q
      <4>2. \A k \in DOMAIN q : q[k] # x
        <5> SUFFICES ASSUME NEW k \in DOMAIN q, q[k] = x PROVE FALSE
          OBVIOUS
        <5>1. PICK i \in 1 .. n : i \in I /\ q[k] = seq[i]
          BY <3>4
        <5>2. i \in DOMAIN seq /\ n + 1 \in DOMAIN seq /\ i # n + 1
          BY <2>1, <1>2
        <5> QED BY <5>1, <5>2, <3>6 DEF x, IsInjective
      <4> QED BY <4>1, <4>2, <3>3 DEF IsInjective
    <3>7. ASSUME NEW i \in 1 .. (n + 1), i \in I
          PROVE  \E k \in DOMAIN p[n + 1] : p[n + 1][k] = seq[i]
      <4>1. CASE i = n + 1
        <5>1. Len(q) + 1 \in DOMAIN p[n + 1]
          BY <3>3
        <5> QED BY <4>1, <5>1, <3>3 DEF x
      <4>2. CASE i \in 1 .. n
        <5>1. PICK k \in DOMAIN q : q[k] = seq[i]
          BY <4>2, <3>7, <2>1 DEF q
        <5>2. k \in DOMAIN p[n + 1] /\ p[n + 1][k] = q[k]
          BY <3>3
        <5> QED BY <5>1, <5>2
      <4> QED BY <4>1, <4>2, <2>1
    <3> QED BY <3>3, <3>5, <3>6, <3>7
  <2> QED BY <2>2, <2>3
<1> HIDE DEF Good
<1>8. Nat \subseteq K
  BY <1>6, <1>7, SetInduction
<1>9. Good(L)
  BY <1>2, <1>8
<1> QED BY <1>1, <1>2, <1>9 DEF Good

-----------------------------------------------------------------------------
(* The final answer *)

Suggestion == ToSet(Suggested)

Accs == [section : Headings, open : Nat, next : Seq(Suggestion), refs : Nat]

LEMMA SuggestedIs ==
  /\ Suggestion = {"analyst", "coder", "evidence_collection"}
  /\ Suggested \in Seq(Suggestion) /\ IsInjective(Suggested)
<1>1. DOMAIN Suggested = 1 .. 3 /\ Suggested[1] = "analyst" /\ Suggested[2] = "coder"
      /\ Suggested[3] = "evidence_collection"
  BY DEF Suggested
<1>2. \A i \in 1 .. 3 : i = 1 \/ i = 2 \/ i = 3
  OBVIOUS
<1>3. Suggestion = {"analyst", "coder", "evidence_collection"}
  BY <1>1, <1>2 DEF Suggestion, ToSet
<1>4. IsInjective(Suggested)
  BY <1>1, <1>2 DEF IsInjective
<1>5. Suggested \in Seq(Suggestion)
  BY <1>3 DEF Suggested
<1> QED BY <1>3, <1>4, <1>5

LEMMA JoinInjective ==
  ASSUME NEW S, NEW a \in Seq(S), NEW b \in Seq(S), IsInjective(a), IsInjective(b),
         \A x \in ToSet(b) : x \notin ToSet(a)
  PROVE  /\ a \o b \in Seq(S) /\ IsInjective(a \o b)
         /\ ToSet(a \o b) = ToSet(a) \cup ToSet(b)
<1> DEFINE c == a \o b
<1>1. /\ c \in Seq(S) /\ Len(a) \in Nat /\ Len(b) \in Nat
      /\ DOMAIN a = 1 .. Len(a) /\ DOMAIN b = 1 .. Len(b)
      /\ DOMAIN c = 1 .. (Len(a) + Len(b))
      /\ \A i \in 1 .. Len(a) : c[i] = a[i]
      /\ \A i \in 1 .. (Len(a) + Len(b)) :
           i \notin 1 .. Len(a) => /\ i - Len(a) \in 1 .. Len(b)
                                   /\ c[i] = b[i - Len(a)]
      /\ \A i \in 1 .. Len(b) : /\ Len(a) + i \in 1 .. (Len(a) + Len(b))
                                /\ c[Len(a) + i] = b[i]
  OBVIOUS
<1>2. \A i \in DOMAIN a : a[i] \in ToSet(a)
  BY DEF ToSet
<1>3. \A i \in DOMAIN b : b[i] \in ToSet(b)
  BY DEF ToSet
<1> HIDE DEF c
<1>4. ASSUME NEW i \in DOMAIN c, NEW j \in DOMAIN c, c[i] = c[j] PROVE i = j
  <2>1. CASE i \in 1 .. Len(a) /\ j \in 1 .. Len(a)
    BY <1>1, <1>4, <2>1 DEF IsInjective
  <2>2. CASE i \notin 1 .. Len(a) /\ j \notin 1 .. Len(a)
    <3>0. /\ i - Len(a) \in DOMAIN b /\ j - Len(a) \in DOMAIN b
          /\ b[i - Len(a)] = b[j - Len(a)]
      BY <1>1, <1>4, <2>2
    <3>1. i - Len(a) = j - Len(a)
      BY <3>0 DEF IsInjective
    <3>2. i \in Nat /\ j \in Nat
      BY <1>1
    <3> QED BY <1>1, <3>1, <3>2
  <2>3. CASE i \in 1 .. Len(a) /\ j \notin 1 .. Len(a)
    <3>1. c[i] \in ToSet(a) /\ c[j] \in ToSet(b)
      BY <1>1, <1>2, <1>3, <2>3
    <3> QED BY <1>4, <3>1
  <2>4. CASE i \notin 1 .. Len(a) /\ j \in 1 .. Len(a)
    <3>1. c[i] \in ToSet(b) /\ c[j] \in ToSet(a)
      BY <1>1, <1>2, <1>3, <2>4
    <3> QED BY <1>4, <3>1
  <2> QED BY <2>1, <2>2, <2>3, <2>4
<1>5. ASSUME NEW x PROVE x \in ToSet(c) <=> x \in ToSet(a) \cup ToSet(b)
  <2>1. ASSUME x \in ToSet(c) PROVE x \in ToSet(a) \cup ToSet(b)
    <3>1. PICK i \in DOMAIN c : c[i] = x
      BY <2>1 DEF ToSet
    <3>2. CASE i \in 1 .. Len(a)
      BY <1>1, <1>2, <3>1, <3>2
    <3>3. CASE i \notin 1 .. Len(a)
      BY <1>1, <1>3, <3>1, <3>3
    <3> QED BY <3>2, <3>3
  <2>2. ASSUME x \in ToSet(a) PROVE x \in ToSet(c)
    BY <1>1, <2>2 DEF ToSet
  <2>3. ASSUME x \in ToSet(b) PROVE x \in ToSet(c)
    <3>1. PICK i \in DOMAIN b : b[i] = x
      BY <2>3 DEF ToSet
    <3>2. Len(a) + i \in DOMAIN c /\ c[Len(a) + i] = x
      BY <1>1, <3>1
    <3> QED BY <3>2 DEF ToSet
  <2> QED BY <2>1, <2>2, <2>3
<1> QED BY <1>1, <1>4, <1>5 DEF c, IsInjective

LEMMA PickedHas ==
  ASSUME NEW S, NEW seq \in Seq(S), NEW I, NEW i \in DOMAIN seq, i \in I
  PROVE  \E k \in DOMAIN Picked(seq, I) : Picked(seq, I)[k] = seq[i]
BY PickedPicks

\* A line adds what it suggests, once, or takes back all.
LEMMA NextStepsAre ==
  ASSUME NEW acc \in Seq(Suggestion), IsInjective(acc), NEW line \in Lines
  PROVE  /\ NextSteps(acc, line) \in Seq(Suggestion)
         /\ IsInjective(NextSteps(acc, line))
         /\ ToSet(NextSteps(acc, line)) =
              IF "none" \in line.says THEN {}
              ELSE ToSet(acc) \cup (Suggestion \cap line.says)
<1> DEFINE I == {i \in DOMAIN Suggested :
                   Suggested[i] \in line.says /\ ~Contains(acc, Suggested[i])}
           f == Picked(Suggested, I)
<1>1. f = Further(acc, line)
  BY DEF Further
<1>2. /\ f \in Seq(Suggestion) /\ IsInjective(f)
      /\ \A k \in DOMAIN f : \E i \in DOMAIN Suggested : i \in I /\ f[k] = Suggested[i]
      /\ \A i \in DOMAIN Suggested : i \in I => \E k \in DOMAIN f : f[k] = Suggested[i]
  <2> HIDE DEF I
  <2>1. f \in Seq(Suggestion) /\ IsInjective(f)
    BY SuggestedIs, PickedPicks
  <2>2. \A k \in DOMAIN f : \E i \in DOMAIN Suggested : i \in I /\ f[k] = Suggested[i]
    BY SuggestedIs, PickedPicks
  <2>3. \A i \in DOMAIN Suggested : i \in I => \E k \in DOMAIN f : f[k] = Suggested[i]
    BY SuggestedIs, PickedHas
  <2> QED BY <2>1, <2>2, <2>3
<1> HIDE DEF f
<1>3. \A x : Contains(acc, x) <=> x \in ToSet(acc)
  BY DEF Contains, ToSet
<1>4. ASSUME NEW x PROVE x \in ToSet(f) <=> x \in (Suggestion \cap line.says) \ ToSet(acc)
  <2>1. ASSUME x \in ToSet(f) PROVE x \in (Suggestion \cap line.says) \ ToSet(acc)
    <3>1. PICK k \in DOMAIN f : f[k] = x
      BY <2>1 DEF ToSet
    <3>2. PICK i \in DOMAIN Suggested : i \in I /\ f[k] = Suggested[i]
      BY <1>2
    <3> QED BY <1>3, <3>1, <3>2 DEF Suggestion, ToSet
  <2>2. ASSUME x \in (Suggestion \cap line.says) \ ToSet(acc) PROVE x \in ToSet(f)
    <3>1. PICK i \in DOMAIN Suggested : Suggested[i] = x
      BY <2>2 DEF Suggestion, ToSet
    <3>2. i \in I
      BY <1>3, <2>2, <3>1
    <3>3. PICK k \in DOMAIN f : f[k] = Suggested[i]
      BY <1>2, <3>2
    <3> QED BY <3>1, <3>3 DEF ToSet
  <2> QED BY <2>1, <2>2
<1>5. CASE "none" \in line.says
  <2>1. NextSteps(acc, line) = <<>>
    BY <1>5 DEF NextSteps
  <2> QED BY <1>5, <2>1 DEF IsInjective, ToSet
<1>6. CASE "none" \notin line.says
  <2>1. NextSteps(acc, line) = acc \o f
    BY <1>1, <1>6 DEF NextSteps
  <2>2. /\ acc \o f \in Seq(Suggestion) /\ IsInjective(acc \o f)
        /\ ToSet(acc \o f) = ToSet(acc) \cup ToSet(f)
    BY <1>2, <1>4, JoinInjective
  <2> QED BY <1>4, <1>6, <2>1, <2>2
<1> QED BY <1>5, <1>6

\* A line below "Next Steps", in lines.
Below(lines, i) ==
  \E h \in 1 .. i - 1 :
    /\ lines[h].kind = "next"
    /\ \A k \in h + 1 .. i : lines[k].kind \notin Headings

TakenBack(lines, i, n) == \E j \in i .. n : Below(lines, j) /\ "none" \in lines[j].says

\* What the first n lines ask for and do not take back.
Asked(lines, n) ==
  {s \in Suggestion : \E i \in 1 .. n :
     Below(lines, i) /\ s \in lines[i].says /\ ~TakenBack(lines, i, n)}

\* After n lines the section is "next" if the last heading is.
InNext(lines, n) ==
  \E h \in 1 .. n : /\ lines[h].kind = "next"
                    /\ \A k \in h + 1 .. n : lines[k].kind \notin Headings

LEMMA ReadIs ==
  ASSUME NEW acc \in Accs, NEW line \in Lines
  PROVE  /\ Read(acc, line) \in Accs
         /\ line.kind \in Headings => /\ Read(acc, line).section = line.kind
                                      /\ Read(acc, line).next = acc.next
         /\ line.kind \notin Headings =>
              /\ Read(acc, line).section = acc.section
              /\ Read(acc, line).next = IF acc.section = "next" THEN NextSteps(acc.next, line)
                                        ELSE acc.next
<1>1. CASE line.kind \in Headings
  <2>1. Read(acc, line) = [acc EXCEPT !.section = line.kind]
    BY <1>1 DEF Read
  <2> QED BY <1>1, <2>1 DEF Accs
<1>2. CASE line.kind \notin Headings /\ acc.section = "next"
  <2>1. Read(acc, line) = [acc EXCEPT !.next = NextSteps(acc.next, line)]
    BY <1>2 DEF Read
  <2>2. NextSteps(acc.next, line) \in Seq(Suggestion)
    <3>1. CASE "none" \in line.says
      BY <3>1 DEF NextSteps
    <3>2. CASE "none" \notin line.says
      <4>1. Further(acc.next, line) \in Seq(Suggestion)
        BY SuggestedIs, PickedPicks DEF Further
      <4>2. acc.next \in Seq(Suggestion)
        BY DEF Accs
      <4> QED BY <3>2, <4>1, <4>2 DEF NextSteps
    <3> QED BY <3>1, <3>2
  <2> QED BY <1>2, <2>1, <2>2 DEF Accs
<1>3. CASE line.kind \notin Headings /\ acc.section # "next"
  <2>1. \/ Read(acc, line) = acc
        \/ Read(acc, line) = [acc EXCEPT !.open = acc.open + 1]
        \/ Read(acc, line) = [acc EXCEPT !.refs = acc.refs + 1]
    <3>1. CASE acc.section = "open" /\ line.kind = "bullet"
      BY <1>3, <3>1 DEF Read
    <3>2. CASE acc.section = "refs" /\ line.kind = "url"
      BY <1>3, <3>2 DEF Read
    <3>3. CASE ~(acc.section = "open" /\ line.kind = "bullet")
               /\ ~(acc.section = "refs" /\ line.kind = "url")
      BY <1>3, <3>3 DEF Read
    <3> QED BY <3>1, <3>2, <3>3
  <2> QED BY <1>3, <2>1 DEF Accs
<1> QED BY <1>1, <1>2, <1>3

\* Parsed goes through the lines one by one.
LEMMA ParsedUnfolds ==
  ASSUME NEW lines \in Seq(Lines)
  PROVE  \E p : /\ Parsed(lines) = p[Len(lines)]
                /\ p[0] = [section |-> "other", open |-> 0, next |-> <<>>, refs |-> 0]
                /\ p \in [0 .. Len(lines) -> Accs]
                /\ \A n \in 1 .. Len(lines) : p[n] = Read(p[n - 1], lines[n])
<1> DEFINE L == Len(lines)
           first == [section |-> "other", open |-> 0, next |-> <<>>, refs |-> 0]
           body(f) == [n \in 0 .. L |-> IF n = 0 THEN first ELSE Read(f[n - 1], lines[n])]
           p == CHOOSE f : f = body(f)
<1>1. Parsed(lines) = p[L]
  BY DEF Parsed
<1>2. L \in Nat /\ \A n \in 1 .. L : lines[n] \in Lines
  OBVIOUS
<1>3. first \in Accs
  BY DEF Accs, Headings
<1> DEFINE move == [a \in Accs \X (1 .. L) |-> Read(a[1], lines[a[2]])]
<1>4. move \in [Accs \X (1 .. L) -> Accs]
  BY <1>2, ReadIs
<1> HIDE DEF first, L, move
<1>5. PICK g : Unfolds(g, Accs, L, first, move)
  BY <1>2, <1>3, <1>4, Recursion
<1>6. ASSUME NEW n \in 1 .. L PROVE g[n] = Read(g[n - 1], lines[n])
  <2>1. n - 1 \in 0 .. L
    BY <1>2
  <2>2. g[n - 1] \in Accs
    BY <1>5, <2>1 DEF Unfolds
  <2> QED BY <1>5, <2>2 DEF move, Unfolds
<1>7. g = [n \in 0 .. L |-> g[n]]
  BY <1>5 DEF Unfolds
<1>8. \A n \in 0 .. L : n # 0 => n \in 1 .. L
  BY <1>2
<1>9. g = body(g)
  BY <1>5, <1>6, <1>7, <1>8 DEF Unfolds
<1>10. p = body(p)
  BY <1>9
<1> HIDE DEF p
<1>11. ASSUME NEW n \in 1 .. L PROVE p[n] = Read(p[n - 1], lines[n])
  <2>1. n \in 0 .. L /\ n # 0
    BY <1>2
  <2>2. body(p)[n] = Read(p[n - 1], lines[n])
    BY <2>1
  <2> QED BY <1>10, <2>2
<1>12. p[0] = first
  BY <1>2, <1>10
<1> DEFINE K == {n \in Nat : n <= L => p[n] \in Accs}
<1>13. 0 \in K
  BY <1>3, <1>12
<1>14. ASSUME NEW n \in K PROVE n + 1 \in K
  <2> SUFFICES ASSUME n + 1 <= L PROVE p[n + 1] \in Accs
    OBVIOUS
  <2>1. p[n] \in Accs /\ n + 1 \in 1 .. L /\ (n + 1) - 1 = n
    BY <1>2
  <2>2. p[n + 1] = Read(p[n], lines[n + 1])
    BY <1>11, <2>1
  <2> QED BY <1>2, <2>1, <2>2, ReadIs
<1>15. Nat \subseteq K
  BY <1>13, <1>14, SetInduction
<1>16. \A n \in 0 .. L : p[n] \in Accs
  BY <1>2, <1>15
<1>17. p = [n \in 0 .. L |-> p[n]]
  BY <1>10
<1>18. p \in [0 .. L -> Accs]
  BY <1>16, <1>17
<1> QED BY <1>1, <1>11, <1>12, <1>18 DEF L, first


LEMMA InNextGrows ==
  ASSUME NEW lines \in Seq(Lines), NEW n \in Nat, n + 1 <= Len(lines)
  PROVE  /\ lines[n + 1].kind \in Headings =>
              (InNext(lines, n + 1) <=> lines[n + 1].kind = "next")
         /\ lines[n + 1].kind \notin Headings => (InNext(lines, n + 1) <=> InNext(lines, n))
         /\ Below(lines, n + 1) <=> lines[n + 1].kind \notin Headings /\ InNext(lines, n)
<1>0. /\ n + 1 \in 1 .. n + 1 /\ (n + 1) - 1 = n
      /\ \A h \in 1 .. n : /\ h \in 1 .. n + 1 /\ n + 1 \in h + 1 .. n + 1
                           /\ \A k \in h + 1 .. n : k \in h + 1 .. n + 1
      /\ \A h \in 1 .. n + 1 : h = n + 1 \/ h \in 1 .. n
      /\ \A h \in 1 .. n : \A k \in h + 1 .. n + 1 : k = n + 1 \/ k \in h + 1 .. n
      /\ \A k : k \notin (n + 1) + 1 .. n + 1
  OBVIOUS
<1>1. ASSUME lines[n + 1].kind \in Headings
      PROVE  InNext(lines, n + 1) <=> lines[n + 1].kind = "next"
  <2>1. ASSUME lines[n + 1].kind = "next" PROVE InNext(lines, n + 1)
    BY <1>0, <2>1 DEF InNext
  <2>2. ASSUME InNext(lines, n + 1) PROVE lines[n + 1].kind = "next"
    BY <1>0, <1>1, <2>2 DEF InNext
  <2> QED BY <2>1, <2>2
<1>2. ASSUME lines[n + 1].kind \notin Headings
      PROVE  InNext(lines, n + 1) <=> InNext(lines, n)
  <2>0. "next" \in Headings
    BY DEF Headings
  <2>1. ASSUME InNext(lines, n) PROVE InNext(lines, n + 1)
    <3>1. PICK h \in 1 .. n : /\ lines[h].kind = "next"
                              /\ \A k \in h + 1 .. n : lines[k].kind \notin Headings
      BY <2>1 DEF InNext
    <3>2. \A k \in h + 1 .. n + 1 : lines[k].kind \notin Headings
      BY <1>0, <1>2, <3>1
    <3> QED BY <1>0, <3>1, <3>2 DEF InNext
  <2>2. ASSUME InNext(lines, n + 1) PROVE InNext(lines, n)
    <3>1. PICK h \in 1 .. n + 1 : /\ lines[h].kind = "next"
                                  /\ \A k \in h + 1 .. n + 1 : lines[k].kind \notin Headings
      BY <2>2 DEF InNext
    <3>2. h \in 1 .. n
      BY <1>0, <1>2, <2>0, <3>1
    <3> QED BY <1>0, <3>1, <3>2 DEF InNext
  <2> QED BY <2>1, <2>2
<1>3. Below(lines, n + 1) <=> lines[n + 1].kind \notin Headings /\ InNext(lines, n)
  <2>1. ASSUME Below(lines, n + 1)
        PROVE  lines[n + 1].kind \notin Headings /\ InNext(lines, n)
    <3>1. PICK h \in 1 .. n : /\ lines[h].kind = "next"
                              /\ \A k \in h + 1 .. n + 1 : lines[k].kind \notin Headings
      BY <1>0, <2>1 DEF Below
    <3> QED BY <1>0, <3>1 DEF InNext
  <2>2. ASSUME lines[n + 1].kind \notin Headings, InNext(lines, n)
        PROVE  Below(lines, n + 1)
    <3>1. PICK h \in 1 .. n : /\ lines[h].kind = "next"
                              /\ \A k \in h + 1 .. n : lines[k].kind \notin Headings
      BY <2>2 DEF InNext
    <3>2. \A k \in h + 1 .. n + 1 : lines[k].kind \notin Headings
      BY <1>0, <2>2, <3>1
    <3> QED BY <1>0, <3>1, <3>2 DEF Below
  <2> QED BY <2>1, <2>2
<1> QED BY <1>1, <1>2, <1>3

\* What a further line below "Next Steps" adds, or takes back.
LEMMA AskedGrows ==
  ASSUME NEW lines \in Seq(Lines), NEW n \in Nat, n + 1 <= Len(lines)
  PROVE  /\ ~Below(lines, n + 1) => Asked(lines, n + 1) = Asked(lines, n)
         /\ Below(lines, n + 1) =>
              Asked(lines, n + 1) =
                IF "none" \in lines[n + 1].says THEN {}
                ELSE Asked(lines, n) \cup (Suggestion \cap lines[n + 1].says)
<1> DEFINE last == Below(lines, n + 1) /\ "none" \in lines[n + 1].says
<1>0. /\ n + 1 \in 1 .. n + 1
      /\ \A i \in 1 .. n : i \in 1 .. n + 1
      /\ \A i \in 1 .. n + 1 : i = n + 1 \/ i \in 1 .. n
      /\ \A i \in 1 .. n + 1 : n + 1 \in i .. n + 1
      /\ \A i \in 1 .. n + 1 : \A j \in i .. n + 1 : j = n + 1 \/ j \in i .. n
      /\ \A i \in 1 .. n + 1 : \A j \in i .. n : j \in i .. n + 1
      /\ \A j : j \notin n + 1 .. n
  OBVIOUS
<1>1. \A i \in 1 .. n + 1 : TakenBack(lines, i, n + 1) <=> TakenBack(lines, i, n) \/ last
  BY <1>0 DEF TakenBack
<1>2. ~TakenBack(lines, n + 1, n)
  BY <1>0 DEF TakenBack
<1>3. ASSUME NEW s \in Suggestion
      PROVE  s \in Asked(lines, n + 1) <=>
               /\ ~last
               /\ \/ s \in Asked(lines, n)
                  \/ Below(lines, n + 1) /\ s \in lines[n + 1].says
  <2> DEFINE asks(i) == Below(lines, i) /\ s \in lines[i].says
  <2>1. s \in Asked(lines, n) <=> \E i \in 1 .. n : asks(i) /\ ~TakenBack(lines, i, n)
    BY DEF Asked
  <2>2. s \in Asked(lines, n + 1) <=>
          \E i \in 1 .. n + 1 : asks(i) /\ ~TakenBack(lines, i, n + 1)
    BY DEF Asked
  <2>3. asks(n + 1) <=> Below(lines, n + 1) /\ s \in lines[n + 1].says
    OBVIOUS
  <2> HIDE DEF asks, last
  <2> QED BY <1>0, <1>1, <1>2, <2>1, <2>2, <2>3
<1>4. Asked(lines, n + 1) \subseteq Suggestion /\ Asked(lines, n) \subseteq Suggestion
  BY DEF Asked
<1>5. CASE ~Below(lines, n + 1)
  BY <1>3, <1>4, <1>5
<1>6. CASE Below(lines, n + 1) /\ "none" \in lines[n + 1].says
  BY <1>3, <1>4, <1>6
<1>7. CASE Below(lines, n + 1) /\ "none" \notin lines[n + 1].says
  BY <1>3, <1>4, <1>7
<1> QED BY <1>5, <1>6, <1>7

\* What is read of an answer is what it asks for.
LEMMA AnswerAsks ==
  ASSUME NEW lines \in Seq(Lines)
  PROVE  /\ Parsed(lines).next \in Seq(Suggestion)
         /\ IsInjective(Parsed(lines).next)
         /\ ToSet(Parsed(lines).next) = Asked(lines, Len(lines))
<1>1. PICK p : /\ Parsed(lines) = p[Len(lines)]
               /\ p[0] = [section |-> "other", open |-> 0, next |-> <<>>, refs |-> 0]
               /\ p \in [0 .. Len(lines) -> Accs]
               /\ \A n \in 1 .. Len(lines) : p[n] = Read(p[n - 1], lines[n])
  BY ParsedUnfolds
<1> DEFINE L == Len(lines)
           Holds(n) == /\ p[n].section = "next" <=> InNext(lines, n)
                       /\ IsInjective(p[n].next)
                       /\ ToSet(p[n].next) = Asked(lines, n)
           K == {n \in Nat : n <= L => Holds(n)}
<1>2. L \in Nat /\ \A n \in 1 .. L : lines[n] \in Lines
  OBVIOUS
<1>3. 0 \in K
  <2>1. p[0].section = "other" /\ p[0].next = <<>>
    BY <1>1
  <2>2. ~InNext(lines, 0)
    BY DEF InNext
  <2>3. Asked(lines, 0) = {}
    BY DEF Asked
  <2> QED BY <2>1, <2>2, <2>3 DEF IsInjective, ToSet
<1>4. ASSUME NEW n \in K PROVE n + 1 \in K
  <2> SUFFICES ASSUME n + 1 <= L PROVE Holds(n + 1)
    OBVIOUS
  <2> DEFINE acc == p[n]
             line == lines[n + 1]
  <2>0. n \in Nat /\ n \in 0 .. L /\ n + 1 \in 1 .. L /\ (n + 1) - 1 = n
    BY <1>2
  <2>1. acc \in Accs /\ line \in Lines /\ p[n + 1] = Read(acc, line)
    BY <1>1, <1>2, <2>0
  <2>2. /\ acc.section = "next" <=> InNext(lines, n)
        /\ IsInjective(acc.next) /\ ToSet(acc.next) = Asked(lines, n)
    BY <2>0
  <2>3. acc.next \in Seq(Suggestion)
    BY <2>1 DEF Accs
  <2>4. /\ line.kind \in Headings => (InNext(lines, n + 1) <=> line.kind = "next")
        /\ line.kind \notin Headings => (InNext(lines, n + 1) <=> InNext(lines, n))
        /\ Below(lines, n + 1) <=> line.kind \notin Headings /\ InNext(lines, n)
    BY <2>0, InNextGrows
  <2>5. /\ ~Below(lines, n + 1) => Asked(lines, n + 1) = Asked(lines, n)
        /\ Below(lines, n + 1) =>
             Asked(lines, n + 1) =
               IF "none" \in line.says THEN {}
               ELSE Asked(lines, n) \cup (Suggestion \cap line.says)
    BY <2>0, AskedGrows
  <2>6. /\ line.kind \in Headings => /\ p[n + 1].section = line.kind
                                     /\ p[n + 1].next = acc.next
        /\ line.kind \notin Headings =>
             /\ p[n + 1].section = acc.section
             /\ p[n + 1].next = IF acc.section = "next" THEN NextSteps(acc.next, line)
                                ELSE acc.next
    BY <2>1, ReadIs
  <2>7. /\ IsInjective(NextSteps(acc.next, line))
        /\ ToSet(NextSteps(acc.next, line)) =
             IF "none" \in line.says THEN {} ELSE ToSet(acc.next) \cup (Suggestion \cap line.says)
    <3> HIDE DEF acc, line
    <3> QED BY <2>1, <2>2, <2>3, NextStepsAre
  <2> HIDE DEF acc, line
  <2>8. CASE line.kind \in Headings
    BY <2>2, <2>4, <2>5, <2>6, <2>8
  <2>9. CASE line.kind \notin Headings /\ acc.section = "next"
    <3>1. p[n + 1].section = "next" /\ p[n + 1].next = NextSteps(acc.next, line)
      BY <2>6, <2>9
    <3>2. InNext(lines, n + 1) /\ Below(lines, n + 1)
      BY <2>2, <2>4, <2>9
    <3> QED BY <2>2, <2>5, <2>7, <3>1, <3>2
  <2>10. CASE line.kind \notin Headings /\ acc.section # "next"
    BY <2>2, <2>4, <2>5, <2>6, <2>10
  <2> QED BY <2>8, <2>9, <2>10
<1>5. Nat \subseteq K
  BY <1>3, <1>4, SetInduction
<1>6. L \in K /\ L <= L
  BY <1>2, <1>5
<1>7. p[L] \in Accs
  BY <1>1, <1>2
<1> QED BY <1>1, <1>6, <1>7 DEF Accs

LEMMA StaticStepsAre ==
  ASSUME NEW seq \in Seq(Suggestion), IsInjective(seq)
  PROVE  /\ IsInjective(StaticSteps(seq))
         /\ ToSet(StaticSteps(seq)) = ToSet(seq) \cap {"analyst", "coder"}
<1> DEFINE I == {i \in DOMAIN seq : seq[i] \in {"analyst", "coder"}}
           f == Picked(seq, I)
<1>1. f = StaticSteps(seq)
  BY DEF StaticSteps
<1>2. /\ IsInjective(f)
      /\ \A k \in DOMAIN f : \E i \in DOMAIN seq : i \in I /\ f[k] = seq[i]
      /\ \A i \in DOMAIN seq : i \in I => \E k \in DOMAIN f : f[k] = seq[i]
  <2> HIDE DEF I
  <2>1. IsInjective(f)
    BY PickedPicks
  <2>2. \A k \in DOMAIN f : \E i \in DOMAIN seq : i \in I /\ f[k] = seq[i]
    BY PickedPicks
  <2>3. \A i \in DOMAIN seq : i \in I => \E k \in DOMAIN f : f[k] = seq[i]
    BY PickedHas
  <2> QED BY <2>1, <2>2, <2>3
<1> HIDE DEF f
<1>3. ASSUME NEW x PROVE x \in ToSet(f) <=> x \in ToSet(seq) \cap {"analyst", "coder"}
  <2>1. ASSUME x \in ToSet(f) PROVE x \in ToSet(seq) \cap {"analyst", "coder"}
    <3>1. PICK k \in DOMAIN f : f[k] = x
      BY <2>1 DEF ToSet
    <3>2. PICK i \in DOMAIN seq : i \in I /\ f[k] = seq[i]
      BY <1>2
    <3> QED BY <3>1, <3>2 DEF ToSet
  <2>2. ASSUME x \in ToSet(seq) \cap {"analyst", "coder"} PROVE x \in ToSet(f)
    <3>1. PICK i \in DOMAIN seq : seq[i] = x
      BY <2>2 DEF ToSet
    <3>2. i \in I
      BY <2>2, <3>1
    <3>3. PICK k \in DOMAIN f : f[k] = seq[i]
      BY <1>2, <3>2
    <3> QED BY <3>1, <3>3 DEF ToSet
  <2> QED BY <2>1, <2>2
<1> QED BY <1>1, <1>2, <1>3

-----------------------------------------------------------------------------
(* The steps of the answer in the row *)

\* The result has the steps of the answer, and the row the static ones of them.
StepInv ==
  /\ answer \in Seq(Lines)
  /\ pc = "update" => result.next = Parsed(answer).next
  /\ pc = "returned" /\ section.status = "completed" =>
       section.next = StaticSteps(Parsed(answer).next)

LEMMA AnswersAreLines ==
  NoAnswer \in Seq(Lines) /\ \A lines \in Answers \cup {NoAnswer} : lines \in Seq(Lines)
<1>1. NoAnswer \in Seq(Lines)
  <2>1. \A S : <<>> \in Seq(S)
    OBVIOUS
  <2> QED BY <2>1 DEF NoAnswer
<1>2. Answers \subseteq Seq(Lines)
  BY ExplorationParameters
<1> QED BY <1>1, <1>2

LEMMA StepStep == StepInv /\ [Next]_vars => StepInv'
<1> SUFFICES ASSUME StepInv, [Next]_vars PROVE StepInv'
  OBVIOUS
<1> USE DEF Around, task, talk, row
<1>0. /\ NoAnswer \in Seq(Lines)
      /\ \A lines \in Answers \cup {NoAnswer} : lines \in Seq(Lines)
  BY AnswersAreLines
<1>1. ASSUME NEW ss, NEW lines PROVE Result(ss, lines).next = Parsed(lines).next
  BY DEF Result
<1>2. CASE Prepare
  BY <1>2 DEF Prepare, Raised, StepInv
<1>3. CASE AskRaises
  BY <1>3 DEF AskRaises, Raised, StepInv
<1>4. CASE AskTools \/ Announce
  BY <1>4 DEF AskTools, Announce, Raised, StepInv
<1>5. CASE Deny
  BY <1>5 DEF Deny, StepInv
<1>6. CASE Start \/ AskFails \/ AskFinal \/ Summarize
  <2>1. CASE pc' \in {"ask", "raised"} /\ UNCHANGED answer
    BY <2>1 DEF StepInv
  <2>2. CASE pc' = "update" /\ \E ss : \E lines \in Answers \cup {NoAnswer} :
                                 result' = Result(ss, lines) /\ answer' = lines
    BY <1>0, <1>1, <2>2 DEF StepInv
  <2>3. \/ pc' \in {"ask", "raised"} /\ UNCHANGED answer
        \/ pc' = "update" /\ \E ss : \E lines \in Answers \cup {NoAnswer} :
                               result' = Result(ss, lines) /\ answer' = lines
    BY <1>6, Ends DEF Start, AskFails, AskFinal, Summarize, Raised
  <2> QED BY <2>1, <2>2, <2>3
<1>7. CASE CallTool
  <2>1. CASE pc' \in {"raised", "announce", "ask", "summary"} /\ UNCHANGED answer
    BY <2>1 DEF StepInv
  <2>2. CASE pc' = "update" /\ result' = Result(steps', NoAnswer) /\ answer' = NoAnswer
    BY <1>0, <1>1, <2>2 DEF StepInv
  <2>3. \/ pc' \in {"raised", "announce", "ask", "summary"} /\ UNCHANGED answer
        \/ pc' = "update" /\ result' = Result(steps', NoAnswer) /\ answer' = NoAnswer
    BY <1>7, Ends DEF CallTool, AfterRound, Raised
  <2> QED BY <2>1, <2>2, <2>3
<1>8. CASE Update
  BY <1>8 DEF Update, Completed, Raised, StepInv
<1>9. CASE LoseLease \/ ChangePolicy
  BY <1>9 DEF LoseLease, ChangePolicy, StepInv
<1>10. CASE Crash
  BY <1>0, <1>10 DEF Crash, StepInv
<1>11. CASE UNCHANGED vars
  BY <1>11 DEF vars, StepInv
<1> QED BY <1>2, <1>3, <1>4, <1>5, <1>6, <1>7, <1>8, <1>9, <1>10, <1>11 DEF Next, NodeStep, Ended

\* The static steps the row holds are those the answer asks for and does not
\* take back, whatever the answer's lines.
THEOREM StepsFromAnswer == Spec => []StepsAsAnswered
<1>1. Init => StepInv
  BY AnswersAreLines DEF Init, StepInv
<1>2. StepInv => StepsAsAnswered
  <2> SUFFICES ASSUME StepInv, pc = "returned", section.status = "completed"
               PROVE  /\ IsInjective(section.next)
                      /\ ToSet(section.next) =
                           {s \in {"analyst", "coder"} : \E i \in DOMAIN answer :
                              /\ BelowNext(i) /\ s \in answer[i].says
                              /\ ~\E j \in i .. Len(answer) :
                                    BelowNext(j) /\ "none" \in answer[j].says}
    BY DEF StepsAsAnswered
  <2> DEFINE seq == Parsed(answer).next
  <2>1. answer \in Seq(Lines) /\ section.next = StaticSteps(seq)
    BY DEF StepInv
  <2>2. seq \in Seq(Suggestion) /\ IsInjective(seq) /\ ToSet(seq) = Asked(answer, Len(answer))
    BY <2>1, AnswerAsks
  <2>3. /\ IsInjective(section.next)
        /\ ToSet(section.next) = ToSet(seq) \cap {"analyst", "coder"}
    <3> HIDE DEF seq
    <3> QED BY <2>1, <2>2, StaticStepsAre
  <2>4. \A i : Below(answer, i) <=> BelowNext(i)
    BY DEF Below, BelowNext
  <2>5. {"analyst", "coder"} \subseteq Suggestion
    BY SuggestedIs
  <2>6. ASSUME NEW s \in {"analyst", "coder"}
        PROVE  s \in Asked(answer, Len(answer)) <=>
                 \E i \in DOMAIN answer :
                   /\ BelowNext(i) /\ s \in answer[i].says
                   /\ ~\E j \in i .. Len(answer) :
                         BelowNext(j) /\ "none" \in answer[j].says
    <3>1. DOMAIN answer = 1 .. Len(answer)
      BY <2>1
    <3>2. \A i : TakenBack(answer, i, Len(answer)) <=>
                   \E j \in i .. Len(answer) : BelowNext(j) /\ "none" \in answer[j].says
      BY <2>4 DEF TakenBack
    <3> QED BY <2>4, <2>5, <3>1, <3>2 DEF Asked
  <2> QED BY <2>2, <2>3, <2>6
<1> QED BY <1>1, <1>2, StepStep, PTL DEF Spec
=============================================================================
