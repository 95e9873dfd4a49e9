--------------------------- MODULE TaskFlowProofs ---------------------------
(***************************************************************************)
(* Theorems about TaskFlow, for any tasks, numbers of rounds and repairs.  *)
(*                                                                         *)
(* The list `todo' is always one of a few lists, or a queue that ends in a *)
(* decision (Shape); Place names the stage of the round that it stands     *)
(* for.  On the stages rest the invariants: BlockInv (once blocked, only   *)
(* the summarizer), Histories (what the checkpoints say of a round that is *)
(* passed again after a crash, so that its code is audited before it runs) *)
(* and RecordInv (the graph state, the record on disk and the status agree *)
(* on success).                                                            *)
(***************************************************************************)
EXTENDS TaskFlow, FiniteSetTheorems, WellFoundedInduction, TLAPS

-----------------------------------------------------------------------------
(* Lists of steps *)

\* The order of the natural numbers, as a relation.
LEMMA LessIs ==
  \A x, y \in Nat : <<x, y>> \in OpToRel(<, Nat) <=> x < y
BY DEF OpToRel

\* A set that holds 0 and the successors of its members holds every number.
LEMMA SetInduction ==
  ASSUME NEW S, 0 \in S, \A n \in S : n \in Nat => n + 1 \in S
  PROVE  Nat \subseteq S
<1> DEFINE T == Nat \ S
<1> SUFFICES ASSUME T # {} PROVE FALSE
  OBVIOUS
<1>1. PICK x \in T : \A y \in T : ~ (<<y, x>> \in OpToRel(<, Nat))
  <2>1. T \subseteq Nat
    OBVIOUS
  <2> QED BY <2>1, NatLessThanWellFounded, WFMin
<1>2. x # 0
  OBVIOUS
<1>3. x - 1 \in Nat /\ x - 1 < x
  BY <1>2
<1>4. x - 1 \in S
  BY <1>1, <1>3, LessIs
<1>5. (x - 1) + 1 = x
  OBVIOUS
<1>6. x \in S
  BY <1>3, <1>4, <1>5
<1> QED BY <1>6

Unfolds(f, X, n, b, step) ==
  /\ f \in [0 .. n -> X] /\ f[0] = b
  /\ \A i \in 1 .. n : f[i] = step[<<f[i - 1], i>>]

\* A function over 0 .. n with a given first value and a given step exists.
LEMMA Recursion ==
  ASSUME NEW n \in Nat, NEW X, NEW b \in X, NEW step \in [X \X (1 .. n) -> X]
  PROVE  \E f : Unfolds(f, X, n, b, step)
<1> DEFINE Fits(f, k) == /\ f \in [0 .. k -> X] /\ f[0] = b
                         /\ \A i \in 1 .. k : f[i] = step[<<f[i - 1], i>>]
           K == {k \in Nat : k <= n => \E f : Fits(f, k)}
<1>1. 0 \in K
  <2>1. Fits([i \in 0 .. 0 |-> b], 0)
    OBVIOUS
  <2> QED BY <2>1
<1>2. ASSUME NEW k \in K PROVE k + 1 \in K
  <2> SUFFICES ASSUME k + 1 <= n PROVE \E f : Fits(f, k + 1)
    OBVIOUS
  <2>1. PICK f : Fits(f, k)
    OBVIOUS
  <2> DEFINE h == [i \in 0 .. (k + 1) |-> IF i = k + 1 THEN step[<<f[k], k + 1>>] ELSE f[i]]
  <2>2. f[k] \in X /\ k + 1 \in 1 .. n
    BY <2>1
  <2>3. step[<<f[k], k + 1>>] \in X
    BY <2>2
  <2>4. h \in [0 .. (k + 1) -> X]
    BY <2>1, <2>3
  <2>5. h[0] = b
    BY <2>1
  <2>6. ASSUME NEW i \in 1 .. (k + 1) PROVE h[i] = step[<<h[i - 1], i>>]
    <3>1. CASE i = k + 1
      <4>1. i - 1 = k /\ k \in 0 .. (k + 1) /\ k # k + 1
        BY <3>1
      <4>2. h[i - 1] = f[k] /\ h[i] = step[<<f[k], k + 1>>]
        BY <3>1, <4>1
      <4> QED BY <3>1, <4>2
    <3>2. CASE i \in 1 .. k
      BY <3>2, <2>1
    <3> QED BY <3>1, <3>2
  <2> QED BY <2>4, <2>5, <2>6
<1> HIDE DEF Fits
<1>3. Nat \subseteq K
  BY <1>1, <1>2, SetInduction
<1>4. PICK f : Fits(f, n)
  BY <1>3
<1> QED BY <1>4 DEF Fits, Unfolds

\* Joined has the elements of the lists, and no others.
LEMMA JoinedJoins ==
  ASSUME NEW S, NEW lists \in Seq(Seq(S))
  PROVE  /\ Joined(lists) \in Seq(S)
         /\ \A i \in DOMAIN lists : \A j \in DOMAIN lists[i] :
              \E k \in DOMAIN Joined(lists) : Joined(lists)[k] = lists[i][j]
<1> DEFINE L == Len(lists)
           body(f) == [i \in 0 .. L |-> IF i = 0 THEN <<>> ELSE f[i - 1] \o lists[i]]
           p == CHOOSE f : f = body(f)
<1>1. Joined(lists) = p[L]
  BY DEF Joined
<1>2. L \in Nat /\ DOMAIN lists = 1 .. L /\ \A i \in 1 .. L : lists[i] \in Seq(S)
  OBVIOUS
<1>3. p = body(p)
  <2> DEFINE step == [a \in Seq(S) \X (1 .. L) |-> a[1] \o lists[a[2]]]
  <2>1. step \in [Seq(S) \X (1 .. L) -> Seq(S)]
    BY <1>2
  <2>2. <<>> \in Seq(S)
    OBVIOUS
  <2> HIDE DEF step, L
  <2>3. PICK h : Unfolds(h, Seq(S), L, <<>>, step)
    BY <1>2, <2>1, <2>2, Recursion
  <2>4. ASSUME NEW i \in 1 .. L
        PROVE  h[i] = h[i - 1] \o lists[i]
    <3>1. i - 1 \in 0 .. L
      BY <1>2
    <3>2. h[i - 1] \in Seq(S)
      BY <2>3, <3>1 DEF Unfolds
    <3> QED BY <2>3, <3>2 DEF step, Unfolds
  <2>5. h = [n \in 0 .. L |-> h[n]]
    BY <2>3 DEF Unfolds
  <2>6. \A n \in 0 .. L : n # 0 => n \in 1 .. L
    BY <1>2
  <2>7. h = body(h)
    BY <2>3, <2>4, <2>5, <2>6 DEF Unfolds
  <2> QED BY <2>7
<1> HIDE DEF p, L
<1>4. p[0] = <<>>
  BY <1>2, <1>3
<1>5. ASSUME NEW n \in 1 .. L PROVE p[n] = p[n - 1] \o lists[n]
  <2>1. n \in 0 .. L /\ n # 0
    BY <1>2
  <2>2. body(p)[n] = p[n - 1] \o lists[n]
    BY <2>1
  <2> QED BY <1>3, <2>2
<1> DEFINE Good(n) == /\ p[n] \in Seq(S)
                      /\ \A i \in 1 .. n : \A j \in DOMAIN lists[i] :
                           \E k \in DOMAIN p[n] : p[n][k] = lists[i][j]
           K == {n \in Nat : n <= L => Good(n)}
<1>6. 0 \in K
  <2>1. p[0] \in Seq(S) /\ 1 .. 0 = {}
    BY <1>4
  <2> QED BY <2>1
<1>7. ASSUME NEW n \in K PROVE n + 1 \in K
  <2> SUFFICES ASSUME n + 1 <= L PROVE Good(n + 1)
    OBVIOUS
  <2> DEFINE q == p[n]
             l == lists[n + 1]
  <2>1. Good(n) /\ n + 1 \in 1 .. L /\ (n + 1) - 1 = n /\ n \in Nat
    BY <1>2
  <2>2. p[n + 1] = q \o l /\ q \in Seq(S) /\ l \in Seq(S)
    BY <2>1, <1>2, <1>5
  <2>3. \A i \in 1 .. n : \A j \in DOMAIN lists[i] : \E k \in DOMAIN q : q[k] = lists[i][j]
    BY <2>1
  <2> HIDE DEF q
  <2>4. /\ p[n + 1] \in Seq(S)
        /\ DOMAIN p[n + 1] = 1 .. (Len(q) + Len(l)) /\ DOMAIN q = 1 .. Len(q)
        /\ DOMAIN l = 1 .. Len(l) /\ Len(q) \in Nat /\ Len(l) \in Nat
        /\ \A k \in 1 .. Len(q) : p[n + 1][k] = q[k]
        /\ \A k \in 1 .. Len(l) : p[n + 1][Len(q) + k] = l[k]
    <3> HIDE DEF l
    <3> QED BY <2>2
  <2>5. ASSUME NEW i \in 1 .. (n + 1), NEW j \in DOMAIN lists[i]
        PROVE  \E k \in DOMAIN p[n + 1] : p[n + 1][k] = lists[i][j]
    <3>1. CASE i \in 1 .. n
      <4>1. PICK k \in DOMAIN q : q[k] = lists[i][j]
        BY <3>1, <2>3
      <4>2. k \in DOMAIN p[n + 1] /\ p[n + 1][k] = q[k]
        BY <2>4
      <4> QED BY <4>1, <4>2
    <3>2. CASE i = n + 1
      <4>1. j \in 1 .. Len(l) /\ lists[i][j] = l[j]
        BY <3>2, <2>4
      <4> HIDE DEF l
      <4>2. Len(q) + j \in DOMAIN p[n + 1]
        BY <4>1, <2>4
      <4>3. p[n + 1][Len(q) + j] = lists[i][j]
        BY <4>1, <2>4
      <4> QED BY <4>2, <4>3
    <3> QED BY <3>1, <3>2, <2>1
  <2> QED BY <2>4, <2>5
<1> HIDE DEF Good
<1>8. Nat \subseteq K
  BY <1>6, <1>7, SetInduction
<1>9. Good(L)
  BY <1>2, <1>8
<1> QED BY <1>1, <1>2, <1>9 DEF Good

\* A list of steps of S that ends in the step e.
Queue(S, e, q) ==
  /\ q \in Seq(S \cup {e}) /\ q # <<>> /\ q[Len(q)] = e
  /\ \A i \in 1 .. Len(q) - 1 : q[i] \in S

\* Putting the end on a list makes a queue.
LEMMA QueueMade ==
  ASSUME NEW S, NEW e, NEW s \in Seq(S)
  PROVE  /\ Queue(S, e, s \o <<e>>)
         /\ \A i \in DOMAIN (s \o <<e>>) :
              (s \o <<e>>)[i] = e \/ \E j \in DOMAIN s : s[j] = (s \o <<e>>)[i]
         /\ \A j \in DOMAIN s :
              \E i \in DOMAIN (s \o <<e>>) : (s \o <<e>>)[i] = s[j]
<1> DEFINE q == s \o <<e>>
<1>1. /\ q \in Seq(S \cup {e}) /\ Len(q) = Len(s) + 1 /\ q[Len(s) + 1] = e
      /\ DOMAIN s = 1 .. Len(s) /\ Len(s) \in Nat /\ DOMAIN q = 1 .. (Len(s) + 1)
      /\ \A i \in 1 .. Len(s) : q[i] = s[i] /\ s[i] \in S
  OBVIOUS
<1> HIDE DEF q
<1>2. q # <<>>
  BY <1>1
<1>3. Queue(S, e, q)
  BY <1>1, <1>2 DEF Queue
<1>4. \A i \in DOMAIN q : q[i] = e \/ \E j \in DOMAIN s : s[j] = q[i]
  BY <1>1
<1>5. \A j \in DOMAIN s : \E i \in DOMAIN q : q[i] = s[j]
  BY <1>1
<1> QED BY <1>3, <1>4, <1>5 DEF q

\* The head of a queue is its end or a member of it.
LEMMA QueueHead ==
  ASSUME NEW S, NEW e, NEW q, Queue(S, e, q)
  PROVE  (Head(q) = e /\ Tail(q) = <<>>) \/ Head(q) \in S
<1>1. /\ q \in Seq(S \cup {e}) /\ q # <<>> /\ q[Len(q)] = e
      /\ Len(q) \in Nat /\ Len(q) >= 1 /\ \A i \in 1 .. Len(q) - 1 : q[i] \in S
  BY DEF Queue
<1>2. CASE Len(q) = 1
  <2>1. q = <<e>>
    BY <1>1, <1>2
  <2> QED BY <2>1
<1>3. CASE Len(q) > 1
  BY <1>1, <1>3
<1> QED BY <1>1, <1>2, <1>3

\* Nothing of a list but its head is lost, and nothing but s comes in.
Kept(q, r) == \A i \in DOMAIN q : q[i] = Head(q) \/ \E j \in DOMAIN r : r[j] = q[i]
Added(q, s, r) ==
  \A j \in DOMAIN r : (\E i \in DOMAIN q : q[i] = r[j]) \/ (\E i \in DOMAIN s : s[i] = r[j])

\* Taking the head and putting some steps in its place leaves a queue.
LEMMA QueueMoves ==
  ASSUME NEW S, NEW e, NEW q, Queue(S, e, q), Head(q) # e, NEW s, s \in Seq(S),
         NEW r, r = s \o Tail(q)
  PROVE  Queue(S, e, r) /\ Kept(q, r) /\ Added(q, s, r)
<1>1. /\ q \in Seq(S \cup {e}) /\ q # <<>> /\ q[Len(q)] = e /\ DOMAIN q = 1 .. Len(q)
      /\ Len(q) \in Nat /\ Len(q) >= 1 /\ \A i \in 1 .. Len(q) - 1 : q[i] \in S
  BY DEF Queue
<1>2. CASE Len(q) = 1
  <2>1. Head(q) = e
    BY <1>1, <1>2
  <2> QED BY <2>1
<1>3. CASE Len(q) > 1
  <2> DEFINE u == Tail(q)
  <2>1. /\ Head(q) = q[1] /\ 1 \in 1 .. Len(q) - 1
        /\ u \in Seq(S \cup {e}) /\ Len(u) = Len(q) - 1 /\ \A i \in 1 .. Len(u) : u[i] = q[i + 1]
    BY <1>1, <1>3
  <2>2. s \in Seq(S \cup {e}) /\ DOMAIN s = 1 .. Len(s) /\ Len(s) \in Nat
    OBVIOUS
  <2> DEFINE T == S \cup {e}
  <2>20. s \in Seq(T) /\ u \in Seq(T)
    BY <2>1, <2>2
  <2> HIDE DEF u, T
  <2>21. r = s \o u
    BY DEF u
  <2> DEFINE v == s \o u
  <2>22. /\ v \in Seq(T) /\ Len(v) = Len(s) + Len(u) /\ DOMAIN v = 1 .. Len(v)
         /\ \A i \in 1 .. Len(s) : v[i] = s[i]
         /\ \A i \in 1 .. Len(u) : v[Len(s) + i] = u[i]
    BY <2>20
  <2>23. r = v
    BY <2>21
  <2> HIDE DEF v
  <2>3. /\ r \in Seq(T) /\ Len(r) = Len(s) + Len(u) /\ DOMAIN r = 1 .. Len(r)
        /\ \A i \in 1 .. Len(s) : r[i] = s[i]
        /\ \A i \in 1 .. Len(u) : r[Len(s) + i] = u[i]
    BY <2>22, <2>23
  <2>4. ASSUME NEW j \in 1 .. Len(r), j > Len(s)
        PROVE  (j - Len(s)) + 1 \in 1 .. Len(q) /\ r[j] = q[(j - Len(s)) + 1]
    <3> DEFINE m == j - Len(s)
    <3>1. m \in 1 .. Len(u) /\ Len(s) + m = j /\ m + 1 \in 1 .. Len(q)
      BY <2>4, <2>3, <2>2, <2>1, <1>1
    <3> HIDE DEF m
    <3>2. r[j] = u[m] /\ u[m] = q[m + 1]
      BY <3>1, <2>3, <2>1
    <3> QED BY <3>1, <3>2 DEF m
  <2>5. r # <<>> /\ r[Len(r)] = e
    <3>1. Len(r) \in 1 .. Len(r) /\ Len(r) > Len(s) /\ (Len(r) - Len(s)) + 1 = Len(q)
      BY <2>1, <2>2, <2>3, <1>1, <1>3
    <3> QED BY <3>1, <2>4, <1>1, <2>3
  <2>6. ASSUME NEW j \in 1 .. Len(r) - 1 PROVE r[j] \in S
    <3>1. CASE j \in 1 .. Len(s)
      BY <3>1, <2>3, <2>2
    <3>2. CASE j > Len(s)
      <4>1. (j - Len(s)) + 1 \in 1 .. Len(q) - 1
        BY <3>2, <2>1, <2>2, <2>3, <1>1
      <4>2. r[j] = q[(j - Len(s)) + 1]
        BY <3>2, <2>4, <2>3, <2>2, <2>1, <1>1
      <4> QED BY <4>1, <4>2, <1>1
    <3> QED BY <3>1, <3>2, <2>2, <2>3
  <2>7. Queue(S, e, r)
    BY <2>3, <2>5, <2>6 DEF Queue, T
  <2>8. ASSUME NEW i \in DOMAIN q, q[i] # Head(q) PROVE \E j \in DOMAIN r : r[j] = q[i]
    <3>1. i - 1 \in 1 .. Len(u) /\ (i - 1) + 1 = i
      BY <2>8, <2>1, <1>1
    <3>2. Len(s) + (i - 1) \in DOMAIN r /\ r[Len(s) + (i - 1)] = u[i - 1] /\ u[i - 1] = q[i]
      BY <3>1, <2>1, <2>2, <2>3, <1>1
    <3> QED BY <3>2
  <2>9. ASSUME NEW j \in DOMAIN r
        PROVE  (\E i \in DOMAIN q : q[i] = r[j]) \/ (\E i \in DOMAIN s : s[i] = r[j])
    <3>1. CASE j \in 1 .. Len(s)
      BY <3>1, <2>3, <2>2
    <3>2. CASE j > Len(s)
      BY <3>2, <2>4, <2>3, <1>1
    <3> QED BY <3>1, <3>2, <2>2, <2>3
  <2> QED BY <2>7, <2>8, <2>9 DEF Kept, Added
<1>4. Len(q) = 1 \/ Len(q) > 1
  BY <1>1
<1> QED BY <1>2, <1>3, <1>4

-----------------------------------------------------------------------------
(* The steps of a flow *)

RefreshSet ==
  {<<"data_inspector", "material_refresh">>, <<"kag_retriever", "material_refresh">>,
   <<"context_builder", "material_refresh">>}

\* What may stand before each decision on the way to the auditor.
Compiling == RefreshSet \cup {<<"evidence_compiler", "dynamic_resume">>}
Fetching == {<<"data_inspector", "">>, <<"kag_retriever", "">>, <<"context_builder", "">>}
Gathering ==
  RefreshSet \cup {<<"static_evidence", "">>, <<"evidence_compiler", "static_evidence">>,
                   <<"if", "refreshed">>, <<"analyst", "material_refresh">>,
                   <<"coder", "">>}

\* Where the flow is: what it has still to do.
ToPrepare == Queue(Compiling, <<"if", "prepare">>, todo)
ToFetch == Queue(Fetching, <<"if", "analyst">>, todo)
ToAnalyse == << <<"analyst", "">>, <<"if", "plan">> >>
ToPlan == << <<"if", "plan">> >>
ToGather == Queue(Gathering, <<"if", "coder">>, todo)
ToCode == << <<"coder", "">>, <<"auditor", "">>, <<"if", "debugger">> >>
ToAudit == << <<"auditor", "">>, <<"if", "debugger">> >>
ToJudge == << <<"if", "debugger">> >>
ToDebug == << <<"debugger", "">>, <<"auditor", "post_debug">>, <<"if", "executor">> >>
ToReaudit == << <<"auditor", "post_debug">>, <<"if", "executor">> >>
ToChoose == << <<"if", "executor">> >>
ToExecute == << <<"executor", "">>, <<"if", "verified">> >>
ToVerify == << <<"if", "verified">> >>
ToRepair == << <<"debugger", "post_exec">>, <<"auditor", "post_exec">>,
               <<"executor", "retry">>, <<"skill_harvester", "">>, <<"if", "round">> >>
ToRecheck == << <<"auditor", "post_exec">>, <<"executor", "retry">>,
                <<"skill_harvester", "">>, <<"if", "round">> >>
ToRetry == << <<"executor", "retry">>, <<"skill_harvester", "">>, <<"if", "round">> >>
ToHarvest == << <<"skill_harvester", "">>, <<"if", "round">> >>
ToClose == << <<"if", "round">> >>
ToExplore == << <<"dynamic", "">>, <<"if", "resumed">> >>
ToReturn == << <<"if", "resumed">> >>
ToConclude == << <<"verdict", "flow">> >>
ToGiveUp == << <<"verdict", "blocked">> >>

Ends == {Blocked, ToGiveUp, Failure, Lost, <<>>}

Forms ==
  {NewRound, ToAnalyse, ToPlan, ToCode, ToAudit, ToJudge, ToDebug, ToReaudit, ToChoose,
   ToExecute, ToVerify, ToRepair, ToRecheck, ToRetry, ToHarvest, ToClose, ToExplore,
   ToReturn, Ending, ToConclude} \cup Ends

Shape == todo \in Forms \/ ToPrepare \/ ToFetch \/ ToGather

\* Facts of pairs and of short lists.
LEMMA Pairs ==
  \A a, b, c, d : /\ (<<a, b>> = <<c, d>> <=> a = c /\ b = d)
                  /\ <<a, b>>[1] = a /\ <<a, b>>[2] = b
OBVIOUS

LEMMA ConcatIs ==
  ASSUME NEW S, NEW s \in Seq(S), NEW t \in Seq(S), NEW u \in Seq(S),
         Len(u) = Len(s) + Len(t),
         \A i \in 1 .. Len(u) : u[i] = IF i <= Len(s) THEN s[i] ELSE t[i - Len(s)]
  PROVE  s \o t = u
<1> DEFINE v == s \o t
<1>1. /\ v \in Seq(S) /\ Len(v) = Len(s) + Len(t)
      /\ \A i \in 1 .. Len(s) : v[i] = s[i]
      /\ \A i \in 1 .. Len(t) : v[Len(s) + i] = t[i]
      /\ Len(s) \in Nat /\ Len(t) \in Nat
  OBVIOUS
<1> HIDE DEF v
<1>2. ASSUME NEW i \in 1 .. Len(u) PROVE v[i] = u[i]
  <2>1. CASE i <= Len(s)
    BY <2>1, <1>1
  <2>2. CASE ~(i <= Len(s))
    <3> DEFINE k == i - Len(s)
    <3>1. k \in 1 .. Len(t) /\ i = Len(s) + k
      BY <2>2, <1>1
    <3>2. v[Len(s) + k] = t[k] /\ u[i] = t[k]
      BY <3>1, <2>2, <1>1
    <3> QED BY <3>1, <3>2
  <2> QED BY <2>1, <2>2
<1>3. v = [i \in 1 .. Len(u) |-> v[i]] /\ u = [i \in 1 .. Len(u) |-> u[i]]
  BY <1>1
<1> QED BY <1>2, <1>3 DEF v

LEMMA Lists ==
  ASSUME NEW a, NEW b, NEW c, NEW d, NEW e
  PROVE  /\ <<a>> # <<>> /\ Head(<<a>>) = a /\ Tail(<<a>>) = <<>> /\ <<a>> \o <<>> = <<a>>
         /\ <<a, b>> # <<>> /\ Head(<<a, b>>) = a /\ Tail(<<a, b>>) = <<b>>
         /\ <<a, b>> \o <<>> = <<a, b>>
         /\ <<a, b, c>> # <<>> /\ Head(<<a, b, c>>) = a /\ Tail(<<a, b, c>>) = <<b, c>>
         /\ <<a, b, c>> \o <<>> = <<a, b, c>>
         /\ <<a, b, c, d>> # <<>> /\ Head(<<a, b, c, d>>) = a
         /\ Tail(<<a, b, c, d>>) = <<b, c, d>>
         /\ <<a, b, c, d, e>> # <<>> /\ Head(<<a, b, c, d, e>>) = a
         /\ Tail(<<a, b, c, d, e>>) = <<b, c, d, e>>
         /\ <<a, b, c, d, e>> \o <<>> = <<a, b, c, d, e>>
         /\ <<>> \o <<>> = <<>> /\ <<>> \o <<a>> = <<a>> /\ <<>> \o <<a, b>> = <<a, b>>
         /\ <<>> \o <<a, b, c>> = <<a, b, c>> /\ <<>> \o <<a, b, c, d>> = <<a, b, c, d>>
<1>1. /\ <<a>> # <<>> /\ Head(<<a>>) = a /\ Tail(<<a>>) = <<>> /\ <<a>> \o <<>> = <<a>>
      /\ <<a, b>> # <<>> /\ Head(<<a, b>>) = a /\ Tail(<<a, b>>) = <<b>>
  OBVIOUS
<1>2. <<a, b>> \o <<>> = <<a, b>>
  OBVIOUS
<1>3. /\ <<a, b, c>> # <<>> /\ Head(<<a, b, c>>) = a /\ Tail(<<a, b, c>>) = <<b, c>>
  OBVIOUS
<1>4. <<a, b, c>> \o <<>> = <<a, b, c>>
  OBVIOUS
<1>5. /\ <<a, b, c, d>> # <<>> /\ Head(<<a, b, c, d>>) = a
      /\ Tail(<<a, b, c, d>>) = <<b, c, d>>
  OBVIOUS
<1>6. /\ <<a, b, c, d, e>> # <<>> /\ Head(<<a, b, c, d, e>>) = a
      /\ Tail(<<a, b, c, d, e>>) = <<b, c, d, e>>
  OBVIOUS
<1>7. <<a, b, c, d, e>> \o <<>> = <<a, b, c, d, e>>
  OBVIOUS
<1>8. /\ <<>> \o <<>> = <<>> /\ <<>> \o <<a>> = <<a>> /\ <<>> \o <<a, b>> = <<a, b>>
      /\ <<>> \o <<a, b, c>> = <<a, b, c>>
  OBVIOUS
<1>13. <<>> \o <<a, b, c, d>> = <<a, b, c, d>>
  OBVIOUS
<1> QED BY <1>1, <1>2, <1>3, <1>4, <1>5, <1>6, <1>7, <1>8, <1>13

LEMMA OneAndTwo ==
  ASSUME NEW a, NEW b, NEW c
  PROVE  <<a>> \o <<b, c>> = <<a, b, c>>
<1> DEFINE S == {a, b, c}
           s == <<a>>
           t == <<b, c>>
           u == <<a, b, c>>
<1>1. \A i \in 1 .. 3 : u[i] = IF i <= 1 THEN s[i] ELSE t[i - 1]
  OBVIOUS
<1>2. Len(s) = 1 /\ Len(t) = 2 /\ Len(u) = 3 /\ 1 + 2 = 3
  OBVIOUS
<1>3. s \in Seq(S) /\ t \in Seq(S) /\ u \in Seq(S)
  OBVIOUS
<1>4. Len(u) = Len(s) + Len(t)
  BY <1>2
<1>5. \A i \in 1 .. Len(u) : u[i] = IF i <= Len(s) THEN s[i] ELSE t[i - Len(s)]
  BY <1>1, <1>2
<1> HIDE DEF s, t, u, S
<1>6. s \o t = u
  BY <1>3, <1>4, <1>5, ConcatIs
<1> QED BY <1>6 DEF s, t, u

LEMMA TwoAndOne ==
  ASSUME NEW a, NEW b, NEW c
  PROVE  <<a, b>> \o <<c>> = <<a, b, c>>
<1> DEFINE S == {a, b, c}
           s == <<a, b>>
           t == <<c>>
           u == <<a, b, c>>
<1>1. \A i \in 1 .. 3 : u[i] = IF i <= 2 THEN s[i] ELSE t[i - 2]
  OBVIOUS
<1>2. Len(s) = 2 /\ Len(t) = 1 /\ Len(u) = 3 /\ 2 + 1 = 3
  OBVIOUS
<1>3. s \in Seq(S) /\ t \in Seq(S) /\ u \in Seq(S)
  OBVIOUS
<1>4. Len(u) = Len(s) + Len(t)
  BY <1>2
<1>5. \A i \in 1 .. Len(u) : u[i] = IF i <= Len(s) THEN s[i] ELSE t[i - Len(s)]
  BY <1>1, <1>2
<1> HIDE DEF s, t, u, S
<1>6. s \o t = u
  BY <1>3, <1>4, <1>5, ConcatIs
<1> QED BY <1>6 DEF s, t, u

LEMMA ThreeAndTwo ==
  ASSUME NEW a, NEW b, NEW c, NEW d, NEW e
  PROVE  <<a, b, c>> \o <<d, e>> = <<a, b, c, d, e>>
<1> DEFINE S == {a, b, c, d, e}
           s == <<a, b, c>>
           t == <<d, e>>
           u == <<a, b, c, d, e>>
<1>1. \A i \in 1 .. 5 : u[i] = IF i <= 3 THEN s[i] ELSE t[i - 3]
  OBVIOUS
<1>2. Len(s) = 3 /\ Len(t) = 2 /\ Len(u) = 5 /\ 3 + 2 = 5
  OBVIOUS
<1>3. s \in Seq(S) /\ t \in Seq(S) /\ u \in Seq(S)
  OBVIOUS
<1>4. Len(u) = Len(s) + Len(t)
  BY <1>2
<1>5. \A i \in 1 .. Len(u) : u[i] = IF i <= Len(s) THEN s[i] ELSE t[i - Len(s)]
  BY <1>1, <1>2
<1> HIDE DEF s, t, u, S
<1>6. s \o t = u
  BY <1>3, <1>4, <1>5, ConcatIs
<1> QED BY <1>6 DEF s, t, u

LEMMA NothingAndSome ==
  /\ \A a : <<>> \o <<a>> = <<a>>
  /\ \A a, b : <<>> \o <<a, b>> = <<a, b>>
OBVIOUS

\* What a list of steps begins with and what is left after it.
Begins(q, node, tag, rest) ==
  /\ q # <<>> /\ Head(q) = <<node, tag>> /\ Head(q)[1] = node /\ Head(q)[2] = tag
  /\ Tail(q) = rest

LEMMA BeginsOne ==
  ASSUME NEW n, NEW t PROVE Begins(<< <<n, t>> >>, n, t, <<>>)
BY Pairs, Lists DEF Begins

LEMMA BeginsMore ==
  ASSUME NEW n, NEW t, NEW b, NEW c, NEW d, NEW e
  PROVE  /\ Begins(<< <<n, t>>, b>>, n, t, <<b>>)
         /\ Begins(<< <<n, t>>, b, c>>, n, t, <<b, c>>)
         /\ Begins(<< <<n, t>>, b, c, d>>, n, t, <<b, c, d>>)
         /\ Begins(<< <<n, t>>, b, c, d, e>>, n, t, <<b, c, d, e>>)
<1> DEFINE a == <<n, t>>
<1>1. a[1] = n /\ a[2] = t
  OBVIOUS
<1> HIDE DEF a
<1>2. Head(<<a, b>>) = a /\ Tail(<<a, b>>) = <<b>> /\ <<a, b>> # <<>>
  BY Lists
<1>3. Head(<<a, b, c>>) = a /\ Tail(<<a, b, c>>) = <<b, c>> /\ <<a, b, c>> # <<>>
  BY Lists
<1>4. /\ Head(<<a, b, c, d>>) = a /\ Tail(<<a, b, c, d>>) = <<b, c, d>>
      /\ <<a, b, c, d>> # <<>>
  BY Lists
<1>5. /\ Head(<<a, b, c, d, e>>) = a /\ Tail(<<a, b, c, d, e>>) = <<b, c, d, e>>
      /\ <<a, b, c, d, e>> # <<>>
  BY Lists
<1> QED BY <1>1, <1>2, <1>3, <1>4, <1>5 DEF Begins, a

\* The first step of every list of Forms, and the list after it.
LEMMA Table ==
  /\ Begins(NewRound, "if", "overlay", <<>>)
  /\ Begins(ToAnalyse, "analyst", "", ToPlan)
  /\ Begins(ToPlan, "if", "plan", <<>>)
  /\ Begins(ToCode, "coder", "", ToAudit)
  /\ Begins(ToAudit, "auditor", "", ToJudge)
  /\ Begins(ToJudge, "if", "debugger", <<>>)
  /\ Begins(ToDebug, "debugger", "", ToReaudit)
  /\ Begins(ToReaudit, "auditor", "post_debug", ToChoose)
  /\ Begins(ToChoose, "if", "executor", <<>>)
  /\ Begins(ToExecute, "executor", "", ToVerify)
  /\ Begins(ToVerify, "if", "verified", <<>>)
  /\ Begins(ToRepair, "debugger", "post_exec", ToRecheck)
  /\ Begins(ToRecheck, "auditor", "post_exec", ToRetry)
  /\ Begins(ToRetry, "executor", "retry", ToHarvest)
  /\ Begins(ToHarvest, "skill_harvester", "", ToClose)
  /\ Begins(ToClose, "if", "round", <<>>)
  /\ Begins(ToExplore, "dynamic", "", ToReturn)
  /\ Begins(ToReturn, "if", "resumed", <<>>)
  /\ Begins(Ending, "summarizer", "", ToConclude)
  /\ Begins(ToConclude, "verdict", "flow", <<>>)
  /\ Begins(Blocked, "summarizer", "", ToGiveUp)
  /\ Begins(ToGiveUp, "verdict", "blocked", <<>>)
  /\ Begins(Failure, "verdict", "error", <<>>)
  /\ Begins(Lost, "verdict", "lost", <<>>)
<1>1. Begins(NewRound, "if", "overlay", <<>>)
  BY BeginsOne DEF NewRound
<1>2. Begins(ToAnalyse, "analyst", "", ToPlan)
  BY BeginsMore DEF ToAnalyse, ToPlan
<1>3. Begins(ToPlan, "if", "plan", <<>>)
  BY BeginsOne DEF ToPlan
<1>4. Begins(ToCode, "coder", "", ToAudit)
  BY BeginsMore DEF ToCode, ToAudit
<1>5. Begins(ToAudit, "auditor", "", ToJudge)
  BY BeginsMore DEF ToAudit, ToJudge
<1>6. Begins(ToJudge, "if", "debugger", <<>>)
  BY BeginsOne DEF ToJudge
<1>7. Begins(ToDebug, "debugger", "", ToReaudit)
  BY BeginsMore DEF ToDebug, ToReaudit
<1>8. Begins(ToReaudit, "auditor", "post_debug", ToChoose)
  BY BeginsMore DEF ToReaudit, ToChoose
<1>9. Begins(ToChoose, "if", "executor", <<>>)
  BY BeginsOne DEF ToChoose
<1>10. Begins(ToExecute, "executor", "", ToVerify)
  BY BeginsMore DEF ToExecute, ToVerify
<1>11. Begins(ToVerify, "if", "verified", <<>>)
  BY BeginsOne DEF ToVerify
<1>12. Begins(ToRepair, "debugger", "post_exec", ToRecheck)
  BY BeginsMore DEF ToRepair, ToRecheck
<1>13. Begins(ToRecheck, "auditor", "post_exec", ToRetry)
  BY BeginsMore DEF ToRecheck, ToRetry
<1>14. Begins(ToRetry, "executor", "retry", ToHarvest)
  BY BeginsMore DEF ToRetry, ToHarvest
<1>15. Begins(ToHarvest, "skill_harvester", "", ToClose)
  BY BeginsMore DEF ToHarvest, ToClose
<1>16. Begins(ToClose, "if", "round", <<>>)
  BY BeginsOne DEF ToClose
<1>17. Begins(ToExplore, "dynamic", "", ToReturn)
  BY BeginsMore DEF ToExplore, ToReturn
<1>18. Begins(ToReturn, "if", "resumed", <<>>)
  BY BeginsOne DEF ToReturn
<1>19. Begins(Ending, "summarizer", "", ToConclude)
  BY BeginsMore DEF Ending, ToConclude
<1>20. Begins(ToConclude, "verdict", "flow", <<>>)
  BY BeginsOne DEF ToConclude
<1>21. Begins(Blocked, "summarizer", "", ToGiveUp)
  BY BeginsMore DEF Blocked, ToGiveUp
<1>22. Begins(ToGiveUp, "verdict", "blocked", <<>>)
  BY BeginsOne DEF ToGiveUp
<1>23. Begins(Failure, "verdict", "error", <<>>)
  BY BeginsOne DEF Failure
<1>24. Begins(Lost, "verdict", "lost", <<>>)
  BY BeginsOne DEF Lost
<1> QED BY <1>1, <1>2, <1>3, <1>4, <1>5, <1>6, <1>7, <1>8, <1>9, <1>10, <1>11, <1>12, <1>13, <1>14, <1>15, <1>16, <1>17, <1>18, <1>19, <1>20, <1>21, <1>22, <1>23, <1>24

\* A node's rest of the list stays as it is when nothing is put before it.
LEMMA NothingBefore ==
  \A q \in {ToPlan, ToAudit, ToJudge, ToReaudit, ToChoose, ToVerify, ToRecheck, ToRetry,
            ToHarvest, ToClose, ToReturn, ToConclude, ToGiveUp} : <<>> \o q = q
<1>1. <<>> \o ToPlan = ToPlan
  BY Lists DEF ToPlan
<1>2. <<>> \o ToAudit = ToAudit
  BY Lists DEF ToAudit
<1>3. <<>> \o ToJudge = ToJudge
  BY Lists DEF ToJudge
<1>4. <<>> \o ToReaudit = ToReaudit
  BY Lists DEF ToReaudit
<1>5. <<>> \o ToChoose = ToChoose
  BY Lists DEF ToChoose
<1>6. <<>> \o ToVerify = ToVerify
  BY Lists DEF ToVerify
<1>7. <<>> \o ToRecheck = ToRecheck
  BY Lists DEF ToRecheck
<1>8. <<>> \o ToRetry = ToRetry
  BY Lists DEF ToRetry
<1>9. <<>> \o ToHarvest = ToHarvest
  BY Lists DEF ToHarvest
<1>10. <<>> \o ToClose = ToClose
  BY Lists DEF ToClose
<1>11. <<>> \o ToReturn = ToReturn
  BY Lists DEF ToReturn
<1>12. <<>> \o ToConclude = ToConclude
  BY Lists DEF ToConclude
<1>13. <<>> \o ToGiveUp = ToGiveUp
  BY Lists DEF ToGiveUp
<1> QED BY <1>1, <1>2, <1>3, <1>4, <1>5, <1>6, <1>7, <1>8, <1>9, <1>10, <1>11, <1>12, <1>13

\* Where the flow is when its next step is <<n, t>>.
Where(n, t) ==
  /\ n = "if" =>
       \/ t = "overlay" /\ todo = NewRound
       \/ t = "prepare" /\ ToPrepare /\ Tail(todo) = <<>>
       \/ t = "analyst" /\ ToFetch /\ Tail(todo) = <<>>
       \/ t = "plan" /\ todo = ToPlan
       \/ t = "refreshed" /\ ToGather
       \/ t = "coder" /\ ToGather /\ Tail(todo) = <<>>
       \/ t = "debugger" /\ todo = ToJudge
       \/ t = "executor" /\ todo = ToChoose
       \/ t = "verified" /\ todo = ToVerify
       \/ t = "round" /\ todo = ToClose
       \/ t = "resumed" /\ todo = ToReturn
  /\ n = "verdict" =>
       \/ t = "flow" /\ todo = ToConclude
       \/ t = "blocked" /\ todo = ToGiveUp
       \/ t = "error" /\ todo = Failure
       \/ t = "lost" /\ todo = Lost
  /\ n = "analyst" => \/ t = "" /\ todo = ToAnalyse
                      \/ t = "material_refresh" /\ ToGather
  /\ n = "static_evidence" => t = "" /\ ToGather
  /\ n = "evidence_compiler" => \/ t = "dynamic_resume" /\ ToPrepare
                                \/ t = "static_evidence" /\ ToGather
  /\ n \in {"data_inspector", "kag_retriever", "context_builder"} =>
       \/ t = "" /\ ToFetch
       \/ t = "material_refresh" /\ (ToPrepare \/ ToGather)
  /\ n = "coder" => t = "" /\ (todo = ToCode \/ ToGather)
  /\ n = "auditor" => \/ t = "" /\ todo = ToAudit
                      \/ t = "post_debug" /\ todo = ToReaudit
                      \/ t = "post_exec" /\ todo = ToRecheck
  /\ n = "debugger" => \/ t = "" /\ todo = ToDebug
                       \/ t = "post_exec" /\ todo = ToRepair
  /\ n = "executor" => \/ t = "" /\ todo = ToExecute
                       \/ t = "retry" /\ todo = ToRetry
  /\ n = "skill_harvester" => t = "" /\ todo = ToHarvest
  /\ n = "dynamic" => t = "" /\ todo = ToExplore
  /\ n = "summarizer" => t = "" /\ (todo = Ending \/ todo = Blocked)
  /\ n \in {"if", "verdict", "analyst", "static_evidence", "evidence_compiler",
            "data_inspector", "kag_retriever", "context_builder", "coder", "auditor",
            "debugger", "executor", "skill_harvester", "dynamic", "summarizer"}

\* Every list begins with a step that may stand there.
LEMMA HeadIs ==
  ASSUME todo # <<>>, NEW n, NEW t, Head(todo) = <<n, t>>
  PROVE  Begins(todo, n, t, Tail(todo))
BY Pairs DEF Begins

\* The flow is at a step of its list, and where that step stands.
Placed == \E n, t : Begins(todo, n, t, Tail(todo)) /\ Where(n, t)

LEMMA PlacedAt ==
  ASSUME NEW n, NEW t, Begins(todo, n, t, Tail(todo)), Where(n, t)
  PROVE  Placed
BY DEF Placed

LEMMA Heads ==
  ASSUME Shape, todo # <<>>
  PROVE  Placed
<1>1. CASE todo \in Forms
  <2>1. CASE todo = NewRound
    <3>1. Begins(todo, "if", "overlay", Tail(todo))
      BY <2>1, Table DEF Begins
    <3>2. Where("if", "overlay")
      BY <2>1 DEF Where
    <3> QED BY <3>1, <3>2, PlacedAt
  <2>2. CASE todo = ToAnalyse
    <3>1. Begins(todo, "analyst", "", Tail(todo))
      BY <2>2, Table DEF Begins
    <3>2. Where("analyst", "")
      BY <2>2 DEF Where
    <3> QED BY <3>1, <3>2, PlacedAt
  <2>3. CASE todo = ToPlan
    <3>1. Begins(todo, "if", "plan", Tail(todo))
      BY <2>3, Table DEF Begins
    <3>2. Where("if", "plan")
      BY <2>3 DEF Where
    <3> QED BY <3>1, <3>2, PlacedAt
  <2>4. CASE todo = ToCode
    <3>1. Begins(todo, "coder", "", Tail(todo))
      BY <2>4, Table DEF Begins
    <3>2. Where("coder", "")
      BY <2>4 DEF Where
    <3> QED BY <3>1, <3>2, PlacedAt
  <2>5. CASE todo = ToAudit
    <3>1. Begins(todo, "auditor", "", Tail(todo))
      BY <2>5, Table DEF Begins
    <3>2. Where("auditor", "")
      BY <2>5 DEF Where
    <3> QED BY <3>1, <3>2, PlacedAt
  <2>6. CASE todo = ToJudge
    <3>1. Begins(todo, "if", "debugger", Tail(todo))
      BY <2>6, Table DEF Begins
    <3>2. Where("if", "debugger")
      BY <2>6 DEF Where
    <3> QED BY <3>1, <3>2, PlacedAt
  <2>7. CASE todo = ToDebug
    <3>1. Begins(todo, "debugger", "", Tail(todo))
      BY <2>7, Table DEF Begins
    <3>2. Where("debugger", "")
      BY <2>7 DEF Where
    <3> QED BY <3>1, <3>2, PlacedAt
  <2>8. CASE todo = ToReaudit
    <3>1. Begins(todo, "auditor", "post_debug", Tail(todo))
      BY <2>8, Table DEF Begins
    <3>2. Where("auditor", "post_debug")
      BY <2>8 DEF Where
    <3> QED BY <3>1, <3>2, PlacedAt
  <2>9. CASE todo = ToChoose
    <3>1. Begins(todo, "if", "executor", Tail(todo))
      BY <2>9, Table DEF Begins
    <3>2. Where("if", "executor")
      BY <2>9 DEF Where
    <3> QED BY <3>1, <3>2, PlacedAt
  <2>10. CASE todo = ToExecute
    <3>1. Begins(todo, "executor", "", Tail(todo))
      BY <2>10, Table DEF Begins
    <3>2. Where("executor", "")
      BY <2>10 DEF Where
    <3> QED BY <3>1, <3>2, PlacedAt
  <2>11. CASE todo = ToVerify
    <3>1. Begins(todo, "if", "verified", Tail(todo))
      BY <2>11, Table DEF Begins
    <3>2. Where("if", "verified")
      BY <2>11 DEF Where
    <3> QED BY <3>1, <3>2, PlacedAt
  <2>12. CASE todo = ToRepair
    <3>1. Begins(todo, "debugger", "post_exec", Tail(todo))
      BY <2>12, Table DEF Begins
    <3>2. Where("debugger", "post_exec")
      BY <2>12 DEF Where
    <3> QED BY <3>1, <3>2, PlacedAt
  <2>13. CASE todo = ToRecheck
    <3>1. Begins(todo, "auditor", "post_exec", Tail(todo))
      BY <2>13, Table DEF Begins
    <3>2. Where("auditor", "post_exec")
      BY <2>13 DEF Where
    <3> QED BY <3>1, <3>2, PlacedAt
  <2>14. CASE todo = ToRetry
    <3>1. Begins(todo, "executor", "retry", Tail(todo))
      BY <2>14, Table DEF Begins
    <3>2. Where("executor", "retry")
      BY <2>14 DEF Where
    <3> QED BY <3>1, <3>2, PlacedAt
  <2>15. CASE todo = ToHarvest
    <3>1. Begins(todo, "skill_harvester", "", Tail(todo))
      BY <2>15, Table DEF Begins
    <3>2. Where("skill_harvester", "")
      BY <2>15 DEF Where
    <3> QED BY <3>1, <3>2, PlacedAt
  <2>16. CASE todo = ToClose
    <3>1. Begins(todo, "if", "round", Tail(todo))
      BY <2>16, Table DEF Begins
    <3>2. Where("if", "round")
      BY <2>16 DEF Where
    <3> QED BY <3>1, <3>2, PlacedAt
  <2>17. CASE todo = ToExplore
    <3>1. Begins(todo, "dynamic", "", Tail(todo))
      BY <2>17, Table DEF Begins
    <3>2. Where("dynamic", "")
      BY <2>17 DEF Where
    <3> QED BY <3>1, <3>2, PlacedAt
  <2>18. CASE todo = ToReturn
    <3>1. Begins(todo, "if", "resumed", Tail(todo))
      BY <2>18, Table DEF Begins
    <3>2. Where("if", "resumed")
      BY <2>18 DEF Where
    <3> QED BY <3>1, <3>2, PlacedAt
  <2>19. CASE todo = Ending
    <3>1. Begins(todo, "summarizer", "", Tail(todo))
      BY <2>19, Table DEF Begins
    <3>2. Where("summarizer", "")
      BY <2>19 DEF Where
    <3> QED BY <3>1, <3>2, PlacedAt
  <2>20. CASE todo = ToConclude
    <3>1. Begins(todo, "verdict", "flow", Tail(todo))
      BY <2>20, Table DEF Begins
    <3>2. Where("verdict", "flow")
      BY <2>20 DEF Where
    <3> QED BY <3>1, <3>2, PlacedAt
  <2>21. CASE todo = Blocked
    <3>1. Begins(todo, "summarizer", "", Tail(todo))
      BY <2>21, Table DEF Begins
    <3>2. Where("summarizer", "")
      BY <2>21 DEF Where
    <3> QED BY <3>1, <3>2, PlacedAt
  <2>22. CASE todo = ToGiveUp
    <3>1. Begins(todo, "verdict", "blocked", Tail(todo))
      BY <2>22, Table DEF Begins
    <3>2. Where("verdict", "blocked")
      BY <2>22 DEF Where
    <3> QED BY <3>1, <3>2, PlacedAt
  <2>23. CASE todo = Failure
    <3>1. Begins(todo, "verdict", "error", Tail(todo))
      BY <2>23, Table DEF Begins
    <3>2. Where("verdict", "error")
      BY <2>23 DEF Where
    <3> QED BY <3>1, <3>2, PlacedAt
  <2>24. CASE todo = Lost
    <3>1. Begins(todo, "verdict", "lost", Tail(todo))
      BY <2>24, Table DEF Begins
    <3>2. Where("verdict", "lost")
      BY <2>24 DEF Where
    <3> QED BY <3>1, <3>2, PlacedAt
  <2> QED BY <1>1, <2>1, <2>2, <2>3, <2>4, <2>5, <2>6, <2>7, <2>8, <2>9, <2>10, <2>11, <2>12, <2>13, <2>14, <2>15, <2>16, <2>17, <2>18, <2>19, <2>20, <2>21, <2>22, <2>23, <2>24 DEF Forms, Ends
<1> DEFINE none == <<>>
<1>2. none \in Seq(Compiling) /\ none \in Seq(Fetching) /\ none \in Seq(Gathering)
  OBVIOUS
<1> HIDE DEF none
<1>3. CASE ToPrepare
  <2>1. \/ Head(todo) = <<"if", "prepare">> /\ Tail(todo) = <<>>
        \/ Head(todo) \in Compiling
    BY <1>3, QueueHead DEF ToPrepare
  <2>2. CASE Head(todo) = <<"if", "prepare">> /\ Tail(todo) = <<>>
    <3>1. Begins(todo, "if", "prepare", Tail(todo))
      BY <2>2, HeadIs
    <3>2. Where("if", "prepare")
      BY <1>3, <2>2 DEF Where
    <3> QED BY <3>1, <3>2, PlacedAt
  <2>3. CASE Head(todo) = <<"data_inspector", "material_refresh">>
    <3>1. Begins(todo, "data_inspector", "material_refresh", Tail(todo))
      BY <2>3, HeadIs
    <3>2. Where("data_inspector", "material_refresh")
      BY <1>3 DEF Where
    <3> QED BY <3>1, <3>2, PlacedAt
  <2>4. CASE Head(todo) = <<"kag_retriever", "material_refresh">>
    <3>1. Begins(todo, "kag_retriever", "material_refresh", Tail(todo))
      BY <2>4, HeadIs
    <3>2. Where("kag_retriever", "material_refresh")
      BY <1>3 DEF Where
    <3> QED BY <3>1, <3>2, PlacedAt
  <2>5. CASE Head(todo) = <<"context_builder", "material_refresh">>
    <3>1. Begins(todo, "context_builder", "material_refresh", Tail(todo))
      BY <2>5, HeadIs
    <3>2. Where("context_builder", "material_refresh")
      BY <1>3 DEF Where
    <3> QED BY <3>1, <3>2, PlacedAt
  <2>6. CASE Head(todo) = <<"evidence_compiler", "dynamic_resume">>
    <3>1. Begins(todo, "evidence_compiler", "dynamic_resume", Tail(todo))
      BY <2>6, HeadIs
    <3>2. Where("evidence_compiler", "dynamic_resume")
      BY <1>3 DEF Where
    <3> QED BY <3>1, <3>2, PlacedAt
  <2> QED BY <2>1, <2>2, <2>3, <2>4, <2>5, <2>6 DEF Compiling, RefreshSet
<1>4. CASE ToFetch
  <2>1. \/ Head(todo) = <<"if", "analyst">> /\ Tail(todo) = <<>>
        \/ Head(todo) \in Fetching
    BY <1>4, QueueHead DEF ToFetch
  <2>2. CASE Head(todo) = <<"if", "analyst">> /\ Tail(todo) = <<>>
    <3>1. Begins(todo, "if", "analyst", Tail(todo))
      BY <2>2, HeadIs
    <3>2. Where("if", "analyst")
      BY <1>4, <2>2 DEF Where
    <3> QED BY <3>1, <3>2, PlacedAt
  <2>3. CASE Head(todo) = <<"data_inspector", "">>
    <3>1. Begins(todo, "data_inspector", "", Tail(todo))
      BY <2>3, HeadIs
    <3>2. Where("data_inspector", "")
      BY <1>4 DEF Where
    <3> QED BY <3>1, <3>2, PlacedAt
  <2>4. CASE Head(todo) = <<"kag_retriever", "">>
    <3>1. Begins(todo, "kag_retriever", "", Tail(todo))
      BY <2>4, HeadIs
    <3>2. Where("kag_retriever", "")
      BY <1>4 DEF Where
    <3> QED BY <3>1, <3>2, PlacedAt
  <2>5. CASE Head(todo) = <<"context_builder", "">>
    <3>1. Begins(todo, "context_builder", "", Tail(todo))
      BY <2>5, HeadIs
    <3>2. Where("context_builder", "")
      BY <1>4 DEF Where
    <3> QED BY <3>1, <3>2, PlacedAt
  <2> QED BY <2>1, <2>2, <2>3, <2>4, <2>5 DEF Fetching, RefreshSet
<1>5. CASE ToGather
  <2>1. \/ Head(todo) = <<"if", "coder">> /\ Tail(todo) = <<>>
        \/ Head(todo) \in Gathering
    BY <1>5, QueueHead DEF ToGather
  <2>2. CASE Head(todo) = <<"if", "coder">> /\ Tail(todo) = <<>>
    <3>1. Begins(todo, "if", "coder", Tail(todo))
      BY <2>2, HeadIs
    <3>2. Where("if", "coder")
      BY <1>5, <2>2 DEF Where
    <3> QED BY <3>1, <3>2, PlacedAt
  <2>3. CASE Head(todo) = <<"data_inspector", "material_refresh">>
    <3>1. Begins(todo, "data_inspector", "material_refresh", Tail(todo))
      BY <2>3, HeadIs
    <3>2. Where("data_inspector", "material_refresh")
      BY <1>5 DEF Where
    <3> QED BY <3>1, <3>2, PlacedAt
  <2>4. CASE Head(todo) = <<"kag_retriever", "material_refresh">>
    <3>1. Begins(todo, "kag_retriever", "material_refresh", Tail(todo))
      BY <2>4, HeadIs
    <3>2. Where("kag_retriever", "material_refresh")
      BY <1>5 DEF Where
    <3> QED BY <3>1, <3>2, PlacedAt
  <2>5. CASE Head(todo) = <<"context_builder", "material_refresh">>
    <3>1. Begins(todo, "context_builder", "material_refresh", Tail(todo))
      BY <2>5, HeadIs
    <3>2. Where("context_builder", "material_refresh")
      BY <1>5 DEF Where
    <3> QED BY <3>1, <3>2, PlacedAt
  <2>6. CASE Head(todo) = <<"static_evidence", "">>
    <3>1. Begins(todo, "static_evidence", "", Tail(todo))
      BY <2>6, HeadIs
    <3>2. Where("static_evidence", "")
      BY <1>5 DEF Where
    <3> QED BY <3>1, <3>2, PlacedAt
  <2>7. CASE Head(todo) = <<"evidence_compiler", "static_evidence">>
    <3>1. Begins(todo, "evidence_compiler", "static_evidence", Tail(todo))
      BY <2>7, HeadIs
    <3>2. Where("evidence_compiler", "static_evidence")
      BY <1>5 DEF Where
    <3> QED BY <3>1, <3>2, PlacedAt
  <2>8. CASE Head(todo) = <<"if", "refreshed">>
    <3>1. Begins(todo, "if", "refreshed", Tail(todo))
      BY <2>8, HeadIs
    <3>2. Where("if", "refreshed")
      BY <1>5 DEF Where
    <3> QED BY <3>1, <3>2, PlacedAt
  <2>9. CASE Head(todo) = <<"analyst", "material_refresh">>
    <3>1. Begins(todo, "analyst", "material_refresh", Tail(todo))
      BY <2>9, HeadIs
    <3>2. Where("analyst", "material_refresh")
      BY <1>5 DEF Where
    <3> QED BY <3>1, <3>2, PlacedAt
  <2>10. CASE Head(todo) = <<"coder", "">>
    <3>1. Begins(todo, "coder", "", Tail(todo))
      BY <2>10, HeadIs
    <3>2. Where("coder", "")
      BY <1>5 DEF Where
    <3> QED BY <3>1, <3>2, PlacedAt
  <2> QED BY <2>1, <2>2, <2>3, <2>4, <2>5, <2>6, <2>7, <2>8, <2>9, <2>10 DEF Gathering, RefreshSet
<1> QED BY <1>1, <1>3, <1>4, <1>5 DEF Shape

-----------------------------------------------------------------------------
(* The types *)

Fields == {"next_actions", "retry_count", "audit_result", "execution_record", "blocked",
           "dynamic_status", "dynamic_continuation", "dynamic_resume_overlay",
           "final_response", "round_output", "material_refresh_actions",
           "compiled_evidence_sources", "force_analyst"}

\* The fields of a patch, or of the graph state, that the flow's steps depend on.
Fits(p) ==
  /\ "next_actions" \in DOMAIN p => IsList(p.next_actions)
  /\ "material_refresh_actions" \in DOMAIN p => IsList(p.material_refresh_actions)
  /\ "dynamic_resume_overlay" \in DOMAIN p => p.dynamic_resume_overlay \in scenario.overlays

Saved(c) == c.state \in {"running", "completed", "failed"} /\ Storable(c.output) /\ Fits(c.output)

\* The type invariant, with the types of what patches and checkpoints hold.
TypeInv ==
  /\ scenario \in Scenarios
  /\ round \in 0 .. MaxRounds - 1
  /\ doing \in {"idle", "running", "returned"}
  /\ doing # "idle" => IsNode
  /\ doing # "returned" => patch = NoPatch
  /\ DOMAIN g = Fields
  /\ Fits(g) /\ Fits(patch)
  /\ overlay \in scenario.overlays
  /\ coded \in BOOLEAN /\ dyn \in BOOLEAN /\ audited \in BOOLEAN /\ verified \in BOOLEAN
  /\ \A k \in DOMAIN ckpt : Saved(ckpt[k])
  /\ code \in {"none", "safe", "unsafe"}
  /\ record \in {"none", "ok", "bad"}
  /\ status \in Unfinished \cup Settled
  /\ crashes \in 0 .. scenario.crashes

\* What FlowParameters says of the scenario at hand.
LEMMA Scenario ==
  ASSUME scenario \in Scenarios
  PROVE  /\ scenario.stored \in BOOLEAN /\ scenario.crashes \in Nat
         /\ \A actions \in scenario.routes \cup scenario.refreshes \cup scenario.entries :
              IsList(actions)
         /\ \A o \in scenario.overlays : IsOverlay(o)
         /\ <<>> \in scenario.entries /\ NoOverlay \in scenario.overlays
BY FlowParameters

\* The fields of a fresh and of an updated graph state.
LEMMA FreshIs ==
  ASSUME NEW entry, NEW resume
  PROVE  /\ DOMAIN Fresh(entry, resume) = Fields
         /\ Fresh(entry, resume).next_actions = entry
         /\ Fresh(entry, resume).execution_record = "none"
         /\ Fresh(entry, resume).blocked = FALSE
         /\ Fresh(entry, resume).dynamic_status = "none"
         /\ Fresh(entry, resume).dynamic_continuation = "finish"
         /\ Fresh(entry, resume).dynamic_resume_overlay = resume
         /\ Fresh(entry, resume).round_output = "stop"
         /\ Fresh(entry, resume).material_refresh_actions = <<>>
         /\ Fresh(entry, resume).force_analyst = FALSE
BY DEF Fresh, Fields

LEMMA UpdateIs ==
  ASSUME NEW state, NEW p
  PROVE  /\ DOMAIN Update(state, p) = Fields
         /\ Update(state, p).next_actions =
              IF "next_actions" \in DOMAIN p THEN p.next_actions ELSE state.next_actions
         /\ Update(state, p).execution_record =
              IF "execution_record" \in DOMAIN p THEN p.execution_record
                                                 ELSE state.execution_record
         /\ Update(state, p).blocked =
              IF "blocked" \in DOMAIN p THEN p.blocked ELSE state.blocked
         /\ Update(state, p).dynamic_status =
              IF "dynamic_status" \in DOMAIN p THEN p.dynamic_status ELSE state.dynamic_status
         /\ Update(state, p).dynamic_continuation =
              IF "dynamic_continuation" \in DOMAIN p THEN p.dynamic_continuation
                                                     ELSE state.dynamic_continuation
         /\ Update(state, p).dynamic_resume_overlay =
              IF "dynamic_resume_overlay" \in DOMAIN p THEN p.dynamic_resume_overlay
                                                       ELSE state.dynamic_resume_overlay
         /\ Update(state, p).round_output =
              IF "round_output" \in DOMAIN p THEN p.round_output ELSE state.round_output
         /\ Update(state, p).material_refresh_actions =
              IF "material_refresh_actions" \in DOMAIN p THEN p.material_refresh_actions
                                                         ELSE state.material_refresh_actions
         /\ Update(state, p).force_analyst = state.force_analyst
BY DEF Update, Fields

\* What a replay gives back.
LEMMA ReplayedIs ==
  ASSUME NEW s
  PROVE  LET p == Checkpoint(s).output
             r == Replayed(s)
         IN  /\ DOMAIN r = DOMAIN Defaults
             /\ r.next_actions = IF "next_actions" \in DOMAIN p THEN p.next_actions ELSE <<>>
             /\ r.execution_record =
                  IF "execution_record" \in DOMAIN p THEN p.execution_record ELSE "none"
             /\ r.blocked = IF "blocked" \in DOMAIN p THEN p.blocked ELSE FALSE
             /\ r.dynamic_status =
                  IF "dynamic_status" \in DOMAIN p THEN p.dynamic_status ELSE "none"
             /\ r.dynamic_continuation =
                  IF "dynamic_continuation" \in DOMAIN p THEN p.dynamic_continuation ELSE "finish"
             /\ r.dynamic_resume_overlay =
                  IF "dynamic_resume_overlay" \in DOMAIN p THEN p.dynamic_resume_overlay
                                                           ELSE NoOverlay
<1> DEFINE p == Checkpoint(s).output
<1>1. Replayed(s) = [f \in DOMAIN Defaults |-> IF f \in DOMAIN p THEN p[f] ELSE Defaults[f]]
  BY DEF Replayed
<1> HIDE DEF p
<1> QED BY <1>1 DEF Defaults, p

LEMMA DefaultFields ==
  /\ DOMAIN Defaults =
       {"next_actions", "retry_count", "audit_result", "execution_record", "blocked",
        "dynamic_status", "dynamic_continuation", "dynamic_resume_overlay", "final_response"}
  /\ "round_output" \notin DOMAIN Defaults
  /\ "material_refresh_actions" \notin DOMAIN Defaults
BY DEF Defaults

LEMMA NothingFits ==
  Fits(NoPatch) /\ Storable(NoPatch) /\ DOMAIN NoPatch = {}
<1>1. DOMAIN NoPatch = {}
  BY DEF NoPatch
<1> QED BY <1>1 DEF Fits, Storable

Entry(state, output) == [state |-> state, output |-> output]

\* What the checkpoints are after one has been set.
LEMMA CheckpointSet ==
  ASSUME NEW s, NEW state, NEW output, SetCheckpoint(s, state, output)
  PROVE  /\ ~Stored => ckpt' = ckpt
         /\ Stored => /\ DOMAIN ckpt' = DOMAIN ckpt \cup {Key(s)}
                      /\ ckpt'[Key(s)] = Entry(state, output)
                      /\ \A k \in DOMAIN ckpt : k # Key(s) => ckpt'[k] = ckpt[k]
         /\ \A k \in DOMAIN ckpt' :
              \/ k \in DOMAIN ckpt /\ ckpt'[k] = ckpt[k]
              \/ Stored /\ k = Key(s) /\ ckpt'[k] = Entry(state, output)
<1> DEFINE key == Key(s)
           entry == Entry(state, output)
<1>1. CASE Stored
  <2>1. ckpt' = [k \in DOMAIN ckpt \cup {key} |-> IF k = key THEN entry ELSE ckpt[k]]
    BY <1>1 DEF SetCheckpoint, Entry
  <2> HIDE DEF key, entry
  <2>2. /\ DOMAIN ckpt' = DOMAIN ckpt \cup {key}
        /\ ckpt'[key] = entry
        /\ \A k \in DOMAIN ckpt : k # key => ckpt'[k] = ckpt[k]
    BY <2>1
  <2>3. \A k \in DOMAIN ckpt' :
              \/ k \in DOMAIN ckpt /\ ckpt'[k] = ckpt[k]
              \/ Stored /\ k = key /\ ckpt'[k] = entry
    BY <2>2, <1>1
  <2> QED BY <2>2, <2>3, <1>1 DEF key, entry
<1>2. CASE ~Stored
  BY <1>2 DEF SetCheckpoint
<1> QED BY <1>1, <1>2

LEMMA EntryIs ==
  ASSUME NEW state, NEW output
  PROVE  Entry(state, output).state = state /\ Entry(state, output).output = output
BY DEF Entry

LEMMA OutputFits ==
  ASSUME TypeInv, NEW s
  PROVE  Fits(Checkpoint(s).output) /\ Storable(Checkpoint(s).output)
<1>1. CASE Key(s) \in DOMAIN ckpt
  BY <1>1 DEF Checkpoint, TypeInv, Saved
<1>2. CASE Key(s) \notin DOMAIN ckpt
  BY <1>2, NothingFits DEF Checkpoint, NoCheckpoint
<1> QED BY <1>1, <1>2

LEMMA SavedAfter ==
  ASSUME TypeInv, scenario' = scenario, NEW s, NEW state \in {"running", "completed", "failed"},
         NEW output, Stored => Storable(output), Fits(output), SetCheckpoint(s, state, output)
  PROVE  \A k \in DOMAIN ckpt' : Saved(ckpt[k])'
<1>1. \A k \in DOMAIN ckpt :
        ckpt[k].state \in {"running", "completed", "failed"}
        /\ Storable(ckpt[k].output) /\ Fits(ckpt[k].output)
  BY DEF TypeInv, Saved
<1>2. \A k \in DOMAIN ckpt' :
        \/ k \in DOMAIN ckpt /\ ckpt'[k] = ckpt[k]
        \/ Stored /\ k = Key(s) /\ ckpt'[k] = Entry(state, output)
  BY CheckpointSet
<1> TAKE k \in DOMAIN ckpt'
<1>3. \/ k \in DOMAIN ckpt /\ ckpt'[k] = ckpt[k]
      \/ Stored /\ k = Key(s) /\ ckpt'[k] = Entry(state, output)
  BY <1>2
<1>4. Saved(ckpt'[k])
  BY <1>1, <1>3, EntryIs DEF Saved
<1> QED BY <1>4 DEF Saved, Fits, Storable

LEMMA FitsAfter ==
  ASSUME scenario' = scenario, NEW p
  PROVE  Fits(p) <=> Fits(p)'
BY DEF Fits

LEMMA ListIs ==
  ASSUME NEW q, IsList(q)
  PROVE  Len(q) \in Nat /\ DOMAIN q = 1 .. Len(q)
BY DEF IsList

LEMMA ShortLists ==
  IsList(<<>>) /\ \A a : IsList(<<a>>)
<1>1. IsList(<<>>)
  <2> DEFINE none == <<>>
  <2>1. \A S : none \in Seq(S)
    OBVIOUS
  <2> QED BY <2>1 DEF IsList
<1>2. ASSUME NEW a PROVE IsList(<<a>>)
  <2>1. Elements(<<a>>) = {a}
    BY DEF Elements
  <2> QED BY <2>1 DEF IsList
<1> QED BY <1>1, <1>2

\* The coders of an overlay are a list of coders, empty if there are none.
LEMMA CodersFit ==
  ASSUME NEW next, IsList(next)
  PROVE  /\ IsList(Coders(next))
         /\ \A i \in DOMAIN Coders(next) : Coders(next)[i] = "coder"
         /\ "coder" \in Elements(Coders(next)) <=> "coder" \in Elements(next)
<1> DEFINE J == {j \in DOMAIN next : next[j] = "coder"}
<1>1. IsFiniteSet(J)
  <2>1. DOMAIN next = 1 .. Len(next) /\ Len(next) \in Nat
    BY DEF IsList
  <2>2. IsFiniteSet(1 .. Len(next))
    BY <2>1, FS_Interval
  <2> QED BY <2>1, <2>2, FS_Subset
<1>2. Cardinality(J) \in Nat
  BY <1>1, FS_CardinalityType
<1>3. Cardinality(J) = 0 <=> J = {}
  BY <1>1, FS_EmptySet
<1>4. Coders(next) = [i \in 1 .. Cardinality(J) |-> "coder"]
  BY DEF Coders
<1>5. J = {} <=> "coder" \notin Elements(next)
  BY DEF Elements
<1> HIDE DEF J
<1> DEFINE n == Cardinality(J)
           c == Coders(next)
<1>6. c = [i \in 1 .. n |-> "coder"] /\ n \in Nat
  BY <1>2, <1>4
<1>7. n = 0 <=> "coder" \notin Elements(next)
  BY <1>3, <1>5
<1> HIDE DEF n, c
<1>8. IsList(c) /\ DOMAIN c = 1 .. n /\ \A i \in 1 .. n : c[i] = "coder"
  <2> DEFINE name == "coder"
  <2>1. c = [i \in 1 .. n |-> name]
    BY <1>6
  <2> HIDE DEF name
  <2>2. c \in Seq(Elements(c)) /\ DOMAIN c = 1 .. n /\ \A i \in 1 .. n : c[i] = name
    BY <1>6, <2>1 DEF Elements
  <2> QED BY <2>2 DEF IsList, name
<1>9. "coder" \in Elements(c) <=> n # 0
  <2>1. n # 0 => 1 \in DOMAIN c /\ c[1] = "coder"
    BY <1>6, <1>8
  <2>2. n = 0 => DOMAIN c = {}
    BY <1>8
  <2> QED BY <2>1, <2>2 DEF Elements
<1> QED BY <1>7, <1>8, <1>9 DEF c

\* What applying a patch does to the graph state.
LEMMA Applies ==
  ASSUME DOMAIN g = Fields, NEW s, NEW p, Apply(s, p)
  PROVE  /\ DOMAIN g' = Fields
         /\ g'.next_actions =
              IF "next_actions" \in DOMAIN p THEN p.next_actions ELSE g.next_actions
         /\ g'.execution_record =
              IF "execution_record" \in DOMAIN p THEN p.execution_record ELSE g.execution_record
         /\ g'.blocked = IF "blocked" \in DOMAIN p THEN p.blocked ELSE g.blocked
         /\ g'.dynamic_status =
              IF "dynamic_status" \in DOMAIN p THEN p.dynamic_status ELSE g.dynamic_status
         /\ g'.dynamic_continuation =
              IF "dynamic_continuation" \in DOMAIN p THEN p.dynamic_continuation
                                                     ELSE g.dynamic_continuation
         /\ g'.dynamic_resume_overlay =
              IF "dynamic_resume_overlay" \in DOMAIN p THEN p.dynamic_resume_overlay
                                                       ELSE g.dynamic_resume_overlay
         /\ g'.round_output =
              IF "round_output" \in DOMAIN p THEN p.round_output
              ELSE IF s[1] = "executor" THEN "stop" ELSE g.round_output
         /\ g'.material_refresh_actions =
              IF "material_refresh_actions" \in DOMAIN p THEN p.material_refresh_actions
                                                         ELSE g.material_refresh_actions
         /\ g'.force_analyst =
              IF s[1] = "evidence_compiler"
                THEN g.force_analyst \/ g'.material_refresh_actions # <<>> ELSE g.force_analyst
         /\ IF Blocks(s) /\ g'.blocked
              THEN todo' = Blocked
              ELSE todo' = (IF s[1] = "evidence_compiler"
                              THEN Joined([i \in DOMAIN g'.material_refresh_actions |->
                                             RefreshSteps(g'.material_refresh_actions[i])])
                              ELSE <<>>) \o Tail(todo)
         /\ coded' = (coded \/ s[1] = "coder")
         /\ round' = round /\ overlay' = overlay /\ dyn' = dyn
<1> DEFINE before == IF s[1] = "executor" THEN [g EXCEPT !.round_output = "stop"] ELSE g
           after == Update(before, p)
<1>1. /\ g' = IF s[1] = "evidence_compiler"
            THEN [after EXCEPT
                   !.compiled_evidence_sources = @ \cup {s[2]},
                   !.force_analyst = @ \/ after.material_refresh_actions # <<>>]
            ELSE after
      /\ IF Blocks(s) /\ after.blocked THEN todo' = Blocked
                                       ELSE Then(Inserted(s, after))
      /\ coded' = (coded \/ s[1] = "coder")
      /\ round' = round /\ overlay' = overlay /\ dyn' = dyn
  BY DEF Apply
<1>2. /\ before.next_actions = g.next_actions
      /\ before.execution_record = g.execution_record
      /\ before.blocked = g.blocked
      /\ before.dynamic_status = g.dynamic_status
      /\ before.dynamic_continuation = g.dynamic_continuation
      /\ before.dynamic_resume_overlay = g.dynamic_resume_overlay
      /\ before.round_output = IF s[1] = "executor" THEN "stop" ELSE g.round_output
      /\ before.material_refresh_actions = g.material_refresh_actions
      /\ before.force_analyst = g.force_analyst
  BY DEF Fields
<1> HIDE DEF before
<1>3. /\ DOMAIN after = Fields
      /\ after.next_actions =
           IF "next_actions" \in DOMAIN p THEN p.next_actions ELSE before.next_actions
      /\ after.execution_record =
           IF "execution_record" \in DOMAIN p THEN p.execution_record
                                              ELSE before.execution_record
      /\ after.blocked = IF "blocked" \in DOMAIN p THEN p.blocked ELSE before.blocked
      /\ after.dynamic_status =
           IF "dynamic_status" \in DOMAIN p THEN p.dynamic_status ELSE before.dynamic_status
      /\ after.dynamic_continuation =
           IF "dynamic_continuation" \in DOMAIN p THEN p.dynamic_continuation
                                                  ELSE before.dynamic_continuation
      /\ after.dynamic_resume_overlay =
           IF "dynamic_resume_overlay" \in DOMAIN p THEN p.dynamic_resume_overlay
                                                    ELSE before.dynamic_resume_overlay
      /\ after.round_output =
           IF "round_output" \in DOMAIN p THEN p.round_output ELSE before.round_output
      /\ after.material_refresh_actions =
           IF "material_refresh_actions" \in DOMAIN p THEN p.material_refresh_actions
                                                      ELSE before.material_refresh_actions
      /\ after.force_analyst = before.force_analyst
  BY UpdateIs
<1> HIDE DEF after
<1>4. /\ DOMAIN g' = Fields
      /\ g'.next_actions = after.next_actions
      /\ g'.execution_record = after.execution_record
      /\ g'.blocked = after.blocked
      /\ g'.dynamic_status = after.dynamic_status
      /\ g'.dynamic_continuation = after.dynamic_continuation
      /\ g'.dynamic_resume_overlay = after.dynamic_resume_overlay
      /\ g'.round_output = after.round_output
      /\ g'.material_refresh_actions = after.material_refresh_actions
      /\ g'.force_analyst =
           IF s[1] = "evidence_compiler"
             THEN after.force_analyst \/ after.material_refresh_actions # <<>>
             ELSE after.force_analyst
  BY <1>1, <1>3 DEF Fields
<1>5. IF Blocks(s) /\ g'.blocked
        THEN todo' = Blocked
        ELSE todo' = (IF s[1] = "evidence_compiler"
                        THEN Joined([i \in DOMAIN g'.material_refresh_actions |->
                                       RefreshSteps(g'.material_refresh_actions[i])])
                        ELSE <<>>) \o Tail(todo)
  BY <1>1, <1>4 DEF Then, Inserted
<1>6. /\ g'.next_actions =
              IF "next_actions" \in DOMAIN p THEN p.next_actions ELSE g.next_actions
      /\ g'.execution_record =
              IF "execution_record" \in DOMAIN p THEN p.execution_record ELSE g.execution_record
      /\ g'.blocked = IF "blocked" \in DOMAIN p THEN p.blocked ELSE g.blocked
      /\ g'.dynamic_status =
              IF "dynamic_status" \in DOMAIN p THEN p.dynamic_status ELSE g.dynamic_status
      /\ g'.dynamic_continuation =
              IF "dynamic_continuation" \in DOMAIN p THEN p.dynamic_continuation
                                                     ELSE g.dynamic_continuation
  BY <1>2, <1>3, <1>4
<1>7. /\ g'.dynamic_resume_overlay =
              IF "dynamic_resume_overlay" \in DOMAIN p THEN p.dynamic_resume_overlay
                                                       ELSE g.dynamic_resume_overlay
      /\ g'.round_output =
              IF "round_output" \in DOMAIN p THEN p.round_output
              ELSE IF s[1] = "executor" THEN "stop" ELSE g.round_output
      /\ g'.material_refresh_actions =
              IF "material_refresh_actions" \in DOMAIN p THEN p.material_refresh_actions
                                                         ELSE g.material_refresh_actions
      /\ g'.force_analyst =
              IF s[1] = "evidence_compiler"
                THEN g.force_analyst \/ g'.material_refresh_actions # <<>> ELSE g.force_analyst
  BY <1>2, <1>3, <1>4
<1> QED BY <1>1, <1>4, <1>5, <1>6, <1>7

\* A node returns a patch and leaves the flow as it is.
LEMMA NodeReturns ==
  ASSUME TypeInv, NodeStep, scenario' = scenario
  PROVE  /\ doing = "running" /\ doing' = "returned"
         /\ round' = round /\ todo' = todo /\ g' = g /\ overlay' = overlay
         /\ coded' = coded /\ dyn' = dyn /\ ckpt' = ckpt /\ crashes' = crashes
         /\ Fits(patch)'
         /\ code' \in {"none", "safe", "unsafe"} /\ record' \in {"none", "ok", "bad"}
         /\ audited' \in BOOLEAN /\ verified' \in BOOLEAN
         /\ status' \in Unfinished \cup Settled
<1> DEFINE Typed == /\ code' \in {"none", "safe", "unsafe"} /\ record' \in {"none", "ok", "bad"}
                    /\ audited' \in BOOLEAN /\ verified' \in BOOLEAN
                    /\ status' \in Unfinished \cup Settled
           Framed == /\ doing = "running" /\ doing' = "returned"
                     /\ round' = round /\ todo' = todo /\ g' = g /\ overlay' = overlay
                     /\ coded' = coded /\ dyn' = dyn /\ ckpt' = ckpt /\ crashes' = crashes
<1> USE Scenario, ShortLists
<1>1. CASE Analyst
  <2>1. PICK route \in scenario.routes : Return([next_actions |-> route])
    BY <1>1 DEF Analyst
  <2>2. Fits(patch)'
    BY <2>1 DEF Return, Fits, TypeInv
  <2>3. Typed /\ Framed
    BY <1>1, <2>1 DEF Analyst, Runs, Return, NoWrite, disk, Working, TypeInv, Unfinished
  <2> QED BY <2>2, <2>3
<1>2. CASE StaticEvidence
  <2>1. PICK blocked \in BOOLEAN :
          Return(IF blocked THEN [blocked |-> TRUE, next_actions |-> <<"coder">>]
                            ELSE [next_actions |-> <<"coder">>])
    BY <1>2 DEF StaticEvidence
  <2>2. Fits(patch)'
    <3>1. CASE blocked
      BY <2>1, <3>1 DEF Return, Fits
    <3>2. CASE ~blocked
      BY <2>1, <3>2 DEF Return, Fits
    <3> QED BY <3>1, <3>2
  <2>3. Typed /\ Framed
    BY <1>2, <2>1 DEF StaticEvidence, Runs, Return, NoWrite, disk, Working, TypeInv, Unfinished
  <2> QED BY <2>2, <2>3
<1>3. CASE EvidenceCompiler
  <2>1. CASE \E r \in scenario.refreshes : Return([material_refresh_actions |-> r])
    <3>1. PICK r \in scenario.refreshes : Return([material_refresh_actions |-> r])
      BY <2>1
    <3>2. Fits(patch)'
      BY <3>1 DEF Return, Fits, TypeInv
    <3>3. Typed /\ Framed
      BY <1>3, <3>1 DEF EvidenceCompiler, Runs, Return, NoWrite, disk, TypeInv
    <3> QED BY <3>2, <3>3
  <2>2. CASE Return(NoPatch)
    <3>1. patch' = NoPatch
      BY <2>2 DEF Return
    <3>2. Fits(patch)'
      BY <3>1, NothingFits DEF Fits
    <3>3. Typed /\ Framed
      BY <1>3, <2>2 DEF EvidenceCompiler, Runs, Return, NoWrite, disk, TypeInv
    <3> QED BY <3>2, <3>3
  <2> QED BY <1>3, <2>1, <2>2 DEF EvidenceCompiler
<1>4. ASSUME Return([blocked |-> TRUE, next_actions |-> <<"wait_for_human">>])
      PROVE  Fits(patch)'
  BY <1>4 DEF Return, Fits
<1>5. ASSUME NEW name, Return([next_actions |-> <<name>>])
      PROVE  Fits(patch)'
  BY <1>5 DEF Return, Fits
<1>6. CASE DataInspector
  <2>1. Fits(patch)'
    <3>1. CASE PrepareBlocked
      BY <3>1, <1>4 DEF PrepareBlocked
    <3>2. CASE Return([blocked |-> FALSE])
      BY <3>2 DEF Return, Fits
    <3> QED BY <1>6, <3>1, <3>2 DEF DataInspector
  <2>2. Typed /\ Framed
    BY <1>6 DEF DataInspector, PrepareBlocked, Runs, Return, NoWrite, disk, Working, TypeInv,
      Unfinished, Settled
  <2> QED BY <2>1, <2>2
<1>7. CASE KagRetriever
  <2>1. Fits(patch)'
    BY <1>7, <1>4, <1>5 DEF KagRetriever, PrepareBlocked
  <2>2. Typed /\ Framed
    BY <1>7 DEF KagRetriever, PrepareBlocked, Runs, Return, NoWrite, disk, Working, TypeInv,
      Unfinished, Settled
  <2> QED BY <2>1, <2>2
<1>8. CASE ContextBuilder
  <2>1. Fits(patch)'
    BY <1>8, <1>5 DEF ContextBuilder
  <2>2. Typed /\ Framed
    BY <1>8 DEF ContextBuilder, Runs, Return, NoWrite, disk, TypeInv
  <2> QED BY <2>1, <2>2
<1>9. CASE CoderNode
  <2>1. Fits(patch)'
    BY <1>9, <1>5 DEF CoderNode
  <2>2. Typed /\ Framed
    BY <1>9 DEF CoderNode, Runs, Return, WriteCode, Working, TypeInv, Unfinished
  <2> QED BY <2>1, <2>2
<1>10. CASE CoderNoContext
  <2>1. Fits(patch)'
    BY <1>10, <1>5 DEF CoderNoContext
  <2>2. Typed /\ Framed
    BY <1>10 DEF CoderNoContext, Runs, Return, NoWrite, disk, Working, TypeInv, Unfinished
  <2> QED BY <2>1, <2>2
<1>11. CASE DebuggerNode
  <2>1. Return([next_actions |-> <<"auditor">>, retry_count |-> g.retry_count + 1])
    BY <1>11 DEF DebuggerNode
  <2>2. Fits(patch)'
    BY <2>1 DEF Return, Fits
  <2>3. Typed /\ Framed
    BY <1>11 DEF DebuggerNode, Runs, Return, WriteCode, Working, TypeInv, Unfinished
  <2> QED BY <2>2, <2>3
<1>12. ASSUME NEW result, NEW name,
              Return([audit_result |-> result, next_actions |-> <<name>>])
       PROVE  Fits(patch)'
  BY <1>12 DEF Return, Fits
<1>13. CASE AuditorNoCode
  <2>1. Fits(patch)'
    BY <1>13, <1>12 DEF AuditorNoCode
  <2>2. Typed /\ Framed
    BY <1>13 DEF AuditorNoCode, Runs, Return, NoWrite, disk, Working, TypeInv, Unfinished
  <2> QED BY <2>1, <2>2
<1>14. CASE AuditorSafe
  <2>1. Fits(patch)'
    BY <1>14, <1>12 DEF AuditorSafe
  <2>2. Typed /\ Framed
    BY <1>14 DEF AuditorSafe, Runs, Return, Working, TypeInv, Unfinished
  <2> QED BY <2>1, <2>2
<1>15. CASE AuditorRepair
  <2>1. Fits(patch)'
    BY <1>15, <1>12 DEF AuditorRepair
  <2>2. Typed /\ Framed
    BY <1>15 DEF AuditorRepair, Runs, Return, Working, TypeInv, Unfinished
  <2> QED BY <2>1, <2>2
<1>16. CASE AuditorGivesUp
  <2>1. Fits(patch)'
    BY <1>16, <1>12 DEF AuditorGivesUp
  <2>2. Typed /\ Framed
    BY <1>16 DEF AuditorGivesUp, Runs, Return, TypeInv, Settled
  <2> QED BY <2>1, <2>2
<1>17. ASSUME NEW r, NEW out, ReturnRecord(r, out)
       PROVE  Fits(patch)' /\ doing' = "returned" /\ round' = round /\ todo' = todo
              /\ g' = g /\ overlay' = overlay /\ coded' = coded /\ dyn' = dyn
              /\ ckpt' = ckpt /\ crashes' = crashes
  <2>1. CASE Return([execution_record |-> r, round_output |-> out])
    BY <2>1 DEF Return, Fits
  <2>2. CASE Return([execution_record |-> r])
    BY <2>2 DEF Return, Fits
  <2> QED BY <1>17, <2>1, <2>2 DEF ReturnRecord
<1>18. CASE ExecutorNoCode
  <2>1. ReturnRecord("none", "stop")
    BY <1>18 DEF ExecutorNoCode
  <2>2. Typed /\ doing = "running"
    BY <1>18 DEF ExecutorNoCode, Runs, NoWrite, disk, TypeInv
  <2> QED BY <2>1, <2>2, <1>17
<1>19. CASE Executor
  <2>1. PICK multi \in BOOLEAN :
          ReturnRecord(record', IF ~verified' THEN "verification_failed"
                                ELSE IF multi THEN "again" ELSE "stop")
    BY <1>19 DEF Executor
  <2>2. Typed /\ doing = "running"
    BY <1>19 DEF Executor, Runs, Working, TypeInv, Unfinished
  <2> DEFINE out == IF ~verified' THEN "verification_failed"
                    ELSE IF multi THEN "again" ELSE "stop"
             r == record'
  <2>3. ReturnRecord(r, out)
    BY <2>1
  <2> HIDE DEF out, r
  <2>4. Fits(patch)' /\ Framed
    BY <2>3, <2>2, <1>17
  <2> QED BY <2>2, <2>4
<1>20. CASE SkillHarvester
  <2>1. patch' = NoPatch
    BY <1>20 DEF SkillHarvester, Return
  <2>2. Fits(patch)'
    BY <2>1, NothingFits DEF Fits
  <2>3. Typed /\ Framed
    BY <1>20 DEF SkillHarvester, Runs, Return, NoWrite, disk, Working, TypeInv, Unfinished
  <2> QED BY <2>2, <2>3
<1>21. CASE Summarizer
  <2>1. PICK r \in {"answer", "gap"} : Return([final_response |-> r])
    BY <1>21 DEF Summarizer
  <2>2. Fits(patch)'
    BY <2>1 DEF Return, Fits
  <2>3. Typed /\ Framed
    BY <1>21, <2>1 DEF Summarizer, Runs, Return, NoWrite, disk, Working, TypeInv, Unfinished
  <2> QED BY <2>2, <2>3
<1>22. CASE Dynamic
  <2>1. Typed /\ Framed
    BY <1>22 DEF Dynamic, Runs, Return, NoWrite, disk, TypeInv
  <2>2. Fits(patch)'
    <3>1. CASE \E result \in {"denied", "unavailable"} :
                 Return([dynamic_status |-> result, dynamic_continuation |-> "finish"])
      BY <3>1 DEF Return, Fits
    <3>2. CASE \E o \in scenario.overlays : Return(Explored(o))
      <4>1. PICK o \in scenario.overlays : Return(Explored(o))
        BY <3>2
      <4> QED BY <4>1 DEF Return, Explored, Fits
    <3> QED BY <1>22, <3>1, <3>2 DEF Dynamic
  <2> QED BY <2>1, <2>2
<1>23. \/ Analyst \/ StaticEvidence \/ EvidenceCompiler \/ DataInspector
       \/ KagRetriever \/ ContextBuilder \/ CoderNode \/ CoderNoContext \/ DebuggerNode
       \/ AuditorNoCode \/ AuditorSafe \/ AuditorRepair \/ AuditorGivesUp
       \/ ExecutorNoCode \/ Executor \/ SkillHarvester \/ Summarizer \/ Dynamic
  BY DEF NodeStep
<1> QED BY <1>1, <1>2, <1>3, <1>6, <1>7, <1>8, <1>9, <1>10, <1>11, <1>13, <1>14, <1>15, <1>16,
  <1>18, <1>19, <1>20, <1>21, <1>22, <1>23

\* What an applied patch leaves of the types.
LEMMA FitsApplied ==
  ASSUME TypeInv, NEW s, NEW p, Fits(p), Apply(s, p), scenario' = scenario
  PROVE  /\ DOMAIN g' = Fields /\ Fits(g)' /\ round' = round /\ overlay' = overlay
         /\ coded' \in BOOLEAN /\ dyn' = dyn
<1>1. DOMAIN g = Fields /\ Fits(g) /\ coded \in BOOLEAN
  BY DEF TypeInv
<1>2. /\ DOMAIN g' = Fields
      /\ g'.next_actions =
              IF "next_actions" \in DOMAIN p THEN p.next_actions ELSE g.next_actions
      /\ g'.dynamic_resume_overlay =
              IF "dynamic_resume_overlay" \in DOMAIN p THEN p.dynamic_resume_overlay
                                                       ELSE g.dynamic_resume_overlay
      /\ g'.material_refresh_actions =
              IF "material_refresh_actions" \in DOMAIN p THEN p.material_refresh_actions
                                                         ELSE g.material_refresh_actions
      /\ coded' = (coded \/ s[1] = "coder")
      /\ round' = round /\ overlay' = overlay /\ dyn' = dyn
  BY <1>1, Applies
<1>3. Fits(g)'
  BY <1>1, <1>2 DEF Fits, Fields
<1> QED BY <1>1, <1>2, <1>3

LEMMA ReplayFits ==
  ASSUME TypeInv, NEW s
  PROVE  Fits(Replayed(s))
<1> DEFINE p == Checkpoint(s).output
           r == Replayed(s)
<1>1. Fits(p)
  BY OutputFits
<1>2. /\ DOMAIN r = DOMAIN Defaults
      /\ r.next_actions = IF "next_actions" \in DOMAIN p THEN p.next_actions ELSE <<>>
      /\ r.dynamic_resume_overlay =
           IF "dynamic_resume_overlay" \in DOMAIN p THEN p.dynamic_resume_overlay ELSE NoOverlay
  BY ReplayedIs
<1>3. NoOverlay \in scenario.overlays
  BY Scenario DEF TypeInv
<1> HIDE DEF p, r
<1>4. Fits(r)
  BY <1>1, <1>2, <1>3, DefaultFields, ShortLists DEF Fits
<1> QED BY <1>4 DEF r

LEMMA FreshFits ==
  ASSUME NEW entry, NEW resume, IsList(entry), resume \in scenario.overlays
  PROVE  DOMAIN Fresh(entry, resume) = Fields /\ Fits(Fresh(entry, resume))
<1> DEFINE f == Fresh(entry, resume)
<1>1. /\ DOMAIN f = Fields /\ f.next_actions = entry /\ f.dynamic_resume_overlay = resume
      /\ f.material_refresh_actions = <<>>
  BY DEF Fresh, Fields
<1> HIDE DEF f
<1>2. IsList(f.material_refresh_actions)
  BY <1>1, ShortLists
<1>3. Fits(f)
  BY <1>1, <1>2 DEF Fits
<1> QED BY <1>1, <1>3 DEF f

\* What the decisions change.
Deciding ==
  /\ todo # <<>> /\ Head(todo)[1] = "if"
  /\ doing' = doing /\ patch' = patch /\ ckpt' = ckpt /\ status' = status /\ crashes' = crashes
  /\ code' = code /\ audited' = audited /\ record' = record /\ verified' = verified

\* What every decision leaves as it is.
LEMMA Decisions ==
  ASSUME Decide
  PROVE  Deciding
<1>1. \A x : Decides(x) => Deciding
  BY Pairs DEF Decides, At, Deciding, disk
<1> QED BY <1>1 DEF Decide, DecideOverlay, DecidePreparation, DecideAnalyst, DecidePlan,
  DecideRefreshed, DecideCoder, DecideDebugger, DecideExecutor, DecideVerified, DecideRound,
  DecideResumed

LEMMA DecideTyped ==
  ASSUME TypeInv, Decide, scenario' = scenario
  PROVE  /\ round' \in 0 .. MaxRounds - 1 /\ DOMAIN g' = Fields /\ Fits(g)'
         /\ overlay' \in scenario.overlays
         /\ coded' \in BOOLEAN /\ dyn' \in BOOLEAN
<1>1. /\ round \in 0 .. MaxRounds - 1 /\ DOMAIN g = Fields /\ Fits(g)
      /\ overlay \in scenario.overlays /\ coded \in BOOLEAN /\ dyn \in BOOLEAN
      /\ MaxRounds \in Nat /\ NoOverlay \in scenario.overlays
      /\ \A o \in scenario.overlays : IsList(o.next)
  BY FlowParameters, Scenario DEF TypeInv, IsOverlay
<1>2. g' = g => DOMAIN g' = Fields /\ Fits(g)'
  BY <1>1 DEF Fits
<1>3. CASE DecideOverlay
  <2>1. g.dynamic_resume_overlay \in scenario.overlays
    BY <1>1 DEF Fits, Fields
  <2> QED BY <1>1, <1>2, <1>3, <2>1 DEF DecideOverlay
<1>4. CASE DecidePreparation
  BY <1>1, <1>2, <1>4 DEF DecidePreparation
<1>5. CASE DecideAnalyst
  <2>1. CASE g' = g
    BY <1>1, <1>2, <1>5, <2>1 DEF DecideAnalyst
  <2>2. CASE g' = [g EXCEPT !.next_actions = Coders(overlay.next)]
    <3> DEFINE c == Coders(overlay.next)
    <3>1. IsList(c)
      BY <1>1, CodersFit
    <3> HIDE DEF c
    <3>2. DOMAIN g' = Fields /\ g'.next_actions = c
          /\ g'.material_refresh_actions = g.material_refresh_actions
          /\ g'.dynamic_resume_overlay = g.dynamic_resume_overlay
      BY <2>2, <1>1 DEF c, Fields
    <3>3. Fits(g)'
      BY <3>1, <3>2, <1>1 DEF Fits, Fields
    <3> QED BY <1>1, <1>5, <3>2, <3>3 DEF DecideAnalyst
  <2> QED BY <1>5, <2>1, <2>2 DEF DecideAnalyst
<1>6. CASE DecidePlan
  <2>1. dyn' \in BOOLEAN
    BY <1>6 DEF DecidePlan
  <2> QED BY <1>1, <1>2, <1>6, <2>1 DEF DecidePlan
<1>7. CASE DecideRefreshed
  BY <1>1, <1>2, <1>7 DEF DecideRefreshed
<1>8. CASE DecideCoder
  BY <1>1, <1>2, <1>8 DEF DecideCoder
<1>9. CASE DecideDebugger
  BY <1>1, <1>2, <1>9 DEF DecideDebugger
<1>10. CASE DecideExecutor
  <2>1. CASE g' = g
    BY <1>1, <1>2, <1>10, <2>1 DEF DecideExecutor
  <2>2. CASE g' = [g EXCEPT !.round_output = IF dyn THEN "dynamic" ELSE "stop"]
    <3>1. DOMAIN g' = Fields /\ g'.next_actions = g.next_actions
          /\ g'.material_refresh_actions = g.material_refresh_actions
          /\ g'.dynamic_resume_overlay = g.dynamic_resume_overlay
      BY <2>2, <1>1 DEF Fields
    <3>2. Fits(g)'
      BY <3>1, <1>1 DEF Fits, Fields
    <3> QED BY <1>1, <1>10, <3>1, <3>2 DEF DecideExecutor
  <2> QED BY <1>10, <2>1, <2>2 DEF DecideExecutor
<1>11. CASE DecideVerified
  BY <1>1, <1>2, <1>11 DEF DecideVerified
<1>12. NextRound => round' \in 0 .. MaxRounds - 1
  BY <1>1 DEF NextRound
<1>13. CASE DecideRound
  BY <1>1, <1>2, <1>12, <1>13 DEF DecideRound
<1>14. CASE DecideResumed
  BY <1>1, <1>2, <1>12, <1>14 DEF DecideResumed
<1> QED BY <1>3, <1>4, <1>5, <1>6, <1>7, <1>8, <1>9, <1>10, <1>11, <1>13, <1>14 DEF Decide

LEMMA TypeInit ==
  ASSUME Init PROVE TypeInv
<1>1. PICK entry \in scenario.entries, o \in scenario.overlays : g = Fresh(entry, o)
  BY DEF Init
<1>2. scenario \in Scenarios
  BY DEF Init
<1>3. DOMAIN g = Fields /\ Fits(g)
  BY <1>1, <1>2, FreshFits, Scenario
<1>4. DOMAIN ckpt = {}
  BY DEF Init
<1>5. Fits(patch)
  BY NothingFits DEF Init
<1>6. 0 \in 0 .. MaxRounds - 1 /\ 0 \in 0 .. scenario.crashes /\ NoOverlay \in scenario.overlays
  BY <1>2, FlowParameters, Scenario
<1>7. /\ round = 0 /\ doing = "idle" /\ patch = NoPatch /\ overlay = NoOverlay
      /\ coded = FALSE /\ dyn = FALSE /\ code = "none" /\ audited = FALSE
      /\ record = "none" /\ verified = FALSE /\ status = "pending" /\ crashes = 0
  BY DEF Init
<1> QED BY <1>2, <1>3, <1>4, <1>5, <1>6, <1>7 DEF TypeInv, Unfinished

LEMMA TypeStep ==
  ASSUME TypeInv, [Next]_vars
  PROVE  TypeInv'
<1>0. /\ scenario \in Scenarios /\ round \in 0 .. MaxRounds - 1
      /\ doing \in {"idle", "running", "returned"}
      /\ doing # "idle" => IsNode
      /\ doing # "returned" => patch = NoPatch
      /\ DOMAIN g = Fields /\ Fits(g) /\ Fits(patch)
      /\ overlay \in scenario.overlays
      /\ coded \in BOOLEAN /\ dyn \in BOOLEAN /\ audited \in BOOLEAN /\ verified \in BOOLEAN
      /\ \A k \in DOMAIN ckpt : Saved(ckpt[k])
      /\ code \in {"none", "safe", "unsafe"} /\ record \in {"none", "ok", "bad"}
      /\ status \in Unfinished \cup Settled /\ crashes \in 0 .. scenario.crashes
  BY DEF TypeInv
<1>1. scenario' = scenario
  BY DEF Next, FlowStep, Ended, vars
<1>2. /\ NoOverlay \in scenario.overlays /\ scenario.crashes \in Nat
      /\ MaxRounds \in Nat /\ MaxRounds # 0
  BY <1>0, Scenario, FlowParameters
<1>3. ckpt' = ckpt => \A k \in DOMAIN ckpt' : Saved(ckpt[k])'
  BY <1>0, <1>1 DEF Saved, Fits, Storable
<1>4. patch' = patch => Fits(patch)'
  BY <1>0, <1>1 DEF Fits
<1>5. g' = g => DOMAIN g' = Fields /\ Fits(g)'
  BY <1>0, <1>1 DEF Fits
<1>6. patch' = NoPatch => Fits(patch)'
  BY NothingFits DEF Fits
<1>7. disk' = disk => code' = code /\ audited' = audited /\ record' = record /\ verified' = verified
  BY DEF disk
<1>8. Head(todo)[1] \in {"if", "verdict"} => ~IsNode
  BY DEF IsNode
<1>9. CASE Decide
  <2>1. Deciding
    BY <1>9, Decisions
  <2>2. /\ round' \in 0 .. MaxRounds - 1 /\ DOMAIN g' = Fields /\ Fits(g)'
        /\ overlay' \in scenario.overlays
        /\ coded' \in BOOLEAN /\ dyn' \in BOOLEAN
    BY <1>1, <1>9, DecideTyped
  <2>3. doing = "idle"
    BY <2>1, <1>0, <1>8 DEF Deciding
  <2> QED BY <2>1, <2>2, <2>3, <1>0, <1>1, <1>3, <1>4 DEF Deciding, TypeInv
<1>10. CASE Replay
  <2>1. Apply(Head(todo), Replayed(Head(todo)))
    BY <1>10 DEF Replay
  <2>2. Fits(Replayed(Head(todo)))
    BY ReplayFits
  <2>3. /\ DOMAIN g' = Fields /\ Fits(g)' /\ round' = round /\ overlay' = overlay
        /\ coded' \in BOOLEAN /\ dyn' = dyn
    BY <2>1, <2>2, <1>1, FitsApplied
  <2>4. /\ doing = "idle" /\ doing' = doing /\ patch' = patch /\ ckpt' = ckpt /\ disk' = disk
        /\ status' = status /\ crashes' = crashes
    BY <1>10 DEF Replay
  <2> QED BY <2>3, <2>4, <1>0, <1>1, <1>3, <1>4, <1>7 DEF TypeInv
<1>11. CASE Begin
  <2>1. SetCheckpoint(Head(todo), "running", Checkpoint(Head(todo)).output)
    BY <1>11 DEF Begin
  <2>2. \A k \in DOMAIN ckpt' : Saved(ckpt[k])'
    BY <2>1, <1>1, OutputFits, SavedAfter
  <2>3. /\ doing = "idle" /\ doing' = "running" /\ IsNode /\ todo' = todo
        /\ patch' = patch /\ g' = g
        /\ round' = round /\ overlay' = overlay /\ coded' = coded /\ dyn' = dyn
        /\ disk' = disk /\ status' = status /\ crashes' = crashes
    BY <1>11 DEF Begin
  <2>4. IsNode'
    BY <2>3 DEF IsNode
  <2> QED BY <2>2, <2>3, <2>4, <1>0, <1>1, <1>4, <1>5, <1>7 DEF TypeInv
<1>12. CASE NodeStep
  <2>1. /\ doing = "running" /\ doing' = "returned"
        /\ round' = round /\ todo' = todo /\ g' = g /\ overlay' = overlay
        /\ coded' = coded /\ dyn' = dyn /\ ckpt' = ckpt /\ crashes' = crashes
        /\ Fits(patch)'
        /\ code' \in {"none", "safe", "unsafe"} /\ record' \in {"none", "ok", "bad"}
        /\ audited' \in BOOLEAN /\ verified' \in BOOLEAN
        /\ status' \in Unfinished \cup Settled
    BY <1>1, <1>12, NodeReturns
  <2>2. IsNode'
    BY <2>1, <1>0 DEF IsNode
  <2> QED BY <2>1, <2>2, <1>0, <1>1, <1>3, <1>5 DEF TypeInv, Unfinished, Settled
<1>13. CASE Complete
  <2>1. /\ Stored => Storable(patch)
        /\ SetCheckpoint(Head(todo), "completed", patch)
        /\ Apply(Head(todo), patch)
        /\ doing' = "idle" /\ patch' = NoPatch
        /\ disk' = disk /\ status' = status /\ crashes' = crashes
    BY <1>13 DEF Complete
  <2>2. \A k \in DOMAIN ckpt' : Saved(ckpt[k])'
    BY <2>1, <1>0, <1>1, SavedAfter
  <2>3. /\ DOMAIN g' = Fields /\ Fits(g)' /\ round' = round /\ overlay' = overlay
        /\ coded' \in BOOLEAN /\ dyn' = dyn
    BY <2>1, <1>0, <1>1, FitsApplied
  <2> QED BY <2>1, <2>2, <2>3, <1>0, <1>1, <1>6, <1>7 DEF TypeInv
<1>14. ASSUME NEW ending, FlowStops(ending),
              \A k \in DOMAIN ckpt' : Saved(ckpt[k])', status' \in Unfinished \cup Settled
       PROVE  TypeInv'
  <2>1. /\ doing' = "idle" /\ patch' = NoPatch /\ round' = round /\ g' = g
        /\ overlay' = overlay /\ coded' = coded /\ dyn' = dyn /\ disk' = disk
        /\ crashes' = crashes
    BY <1>14 DEF FlowStops
  <2> QED BY <2>1, <1>14, <1>0, <1>1, <1>5, <1>6, <1>7 DEF TypeInv, Unfinished, Settled
<1>15. CASE Reject
  <2>1. FlowStops(Failure) /\ ckpt' = ckpt /\ status' = status
    BY <1>15 DEF Reject
  <2> QED BY <2>1, <1>0, <1>3, <1>14
<1>16. SetCheckpoint(Head(todo), "failed", Checkpoint(Head(todo)).output)
         => \A k \in DOMAIN ckpt' : Saved(ckpt[k])'
  BY <1>1, OutputFits, SavedAfter
<1>17. CASE Raise
  <2>1. /\ SetCheckpoint(Head(todo), "failed", Checkpoint(Head(todo)).output)
        /\ status' \in Unfinished \cup Settled
        /\ FlowStops(Failure)
    BY <1>17, <1>0 DEF Raise, Unfinished
  <2> QED BY <2>1, <1>14, <1>16
<1>18. CASE LoseLease
  <2>1. FlowStops(Lost)
    BY <1>18 DEF LoseLease
  <2>2. \A k \in DOMAIN ckpt' : Saved(ckpt[k])'
    BY <1>18, <1>3, <1>16 DEF LoseLease
  <2>3. status' \in Unfinished \cup Settled
    BY <1>18, <1>0 DEF LoseLease, Unfinished
  <2> QED BY <2>1, <2>2, <2>3, <1>14
<1>19. ASSUME round' = round, doing' = doing, patch' = patch, g' = g, overlay' = overlay,
              coded' = coded, dyn' = dyn, ckpt' = ckpt, disk' = disk, crashes' = crashes,
              status' \in Unfinished \cup Settled, doing = "idle"
       PROVE  TypeInv'
  BY <1>19, <1>0, <1>1, <1>3, <1>4, <1>5, <1>7 DEF TypeInv, Unfinished, Settled
<1>20. CASE WriteVerdict
  <2>1. doing = "idle"
    BY <1>20, <1>0, <1>8 DEF WriteVerdict, AtNode
  <2>2. Verdict(Head(todo)[2]) \in Settled
    BY DEF Verdict, FlowVerdict, Settled
  <2> QED BY <1>20, <2>1, <2>2, <1>19 DEF WriteVerdict
<1>21. CASE VerdictRaises
  <2>1. doing = "idle"
    BY <1>21, <1>0, <1>8 DEF VerdictRaises, AtNode
  <2> QED BY <1>21, <2>1, <1>0, <1>19 DEF VerdictRaises
<1>22. CASE Crash
  <2>1. DOMAIN g' = Fields /\ Fits(g)'
    <3> DEFINE f == Fresh(<<>>, NoOverlay)
    <3>1. DOMAIN f = Fields /\ Fits(f) /\ g' = f
      BY <1>22, <1>2, FreshFits, ShortLists DEF Crash
    <3> HIDE DEF f
    <3> QED BY <3>1, <1>1 DEF Fits
  <2>2. crashes' \in 0 .. scenario.crashes
    BY <1>22, <1>0, <1>2 DEF Crash
  <2>3. round' \in 0 .. MaxRounds - 1
    BY <1>22, <1>2 DEF Crash
  <2> QED BY <1>22, <2>1, <2>2, <2>3, <1>0, <1>1, <1>2, <1>3, <1>6, <1>7 DEF Crash, TypeInv
<1>23. CASE UNCHANGED vars
  <2>1. /\ memory' = memory /\ ckpt' = ckpt /\ disk' = disk /\ status' = status
        /\ crashes' = crashes
    BY <1>23 DEF vars
  <2>2. /\ round' = round /\ todo' = todo /\ doing' = doing /\ patch' = patch /\ g' = g
        /\ overlay' = overlay /\ coded' = coded /\ dyn' = dyn
    BY <2>1 DEF memory
  <2>3. IsNode' = IsNode
    BY <2>2 DEF IsNode
  <2> QED BY <2>1, <2>2, <2>3, <1>0, <1>1, <1>3, <1>4, <1>5, <1>7 DEF TypeInv, Unfinished, Settled
<1> QED BY <1>9, <1>10, <1>11, <1>12, <1>13, <1>15, <1>17, <1>18, <1>20, <1>21, <1>22, <1>23
  DEF Next, FlowStep, Ended

\* The variables have their types.
THEOREM TypeCorrect == Spec => []TypeOK
<1>1. Spec => []TypeInv
  <2>1. Init => TypeInv
    BY TypeInit
  <2>2. TypeInv /\ [Next]_vars => TypeInv'
    BY TypeStep
  <2> QED BY <2>1, <2>2, PTL DEF Spec
<1>2. TypeInv => TypeOK
  <2> HAVE TypeInv
  <2>1. DOMAIN g = DOMAIN Fresh(<<>>, NoOverlay)
    BY FreshIs DEF TypeInv
  <2>2. \A k \in DOMAIN ckpt :
          ckpt[k].state \in {"running", "completed", "failed"} /\ Storable(ckpt[k].output)
    BY DEF TypeInv, Saved
  <2> QED BY <2>1, <2>2 DEF TypeInv, TypeOK
<1> QED BY <1>1, <1>2, PTL

-----------------------------------------------------------------------------
(* The stage of a round that a list of steps belongs to *)

IsStage(q, s) ==
  \/ s = "start" /\ q = NewRound
  \/ s = "analyse" /\ q = ToAnalyse
  \/ s = "plan" /\ q = ToPlan
  \/ s = "code" /\ q = ToCode
  \/ s = "audit" /\ q = ToAudit
  \/ s = "judge" /\ q = ToJudge
  \/ s = "debug" /\ q = ToDebug
  \/ s = "reaudit" /\ q = ToReaudit
  \/ s = "choose" /\ q = ToChoose
  \/ s = "execute" /\ q = ToExecute
  \/ s = "verify" /\ q = ToVerify
  \/ s = "repair" /\ q = ToRepair
  \/ s = "recheck" /\ q = ToRecheck
  \/ s = "retry" /\ q = ToRetry
  \/ s = "harvest" /\ q = ToHarvest
  \/ s = "close" /\ q = ToClose
  \/ s = "explore" /\ q = ToExplore
  \/ s = "return" /\ q = ToReturn
  \/ s = "end" /\ q = Ending
  \/ s = "conclude" /\ q = ToConclude
  \/ s = "blocked" /\ q = Blocked
  \/ s = "giveup" /\ q = ToGiveUp
  \/ s = "failure" /\ q = Failure
  \/ s = "lost" /\ q = Lost
  \/ s = "prepare" /\ Queue(Compiling, <<"if", "prepare">>, q)
  \/ s = "fetch" /\ Queue(Fetching, <<"if", "analyst">>, q)
  \/ s = "gather" /\ Queue(Gathering, <<"if", "coder">>, q)
  \/ s = "over" /\ q = <<>>

Stage(q) == CHOOSE s : IsStage(q, s)
Place == Stage(todo)

\* How a stage shows in the list: by its last step, the next decision or the
\* verdict, and by its first.
Last(q) == q[Len(q)]
ByLast(q, node, tag) == q # <<>> /\ Last(q)[1] = node /\ Last(q)[2] = tag
ByHead(q, node, tag) == Head(q)[1] = node /\ Head(q)[2] = tag

LEMMA LastIs ==
  /\ \A a : <<a>> # <<>> /\ Last(<<a>>) = a
  /\ \A a, b : <<a, b>> # <<>> /\ Last(<<a, b>>) = b
  /\ \A a, b, c : <<a, b, c>> # <<>> /\ Last(<<a, b, c>>) = c
  /\ \A a, b, c, d : <<a, b, c, d>> # <<>> /\ Last(<<a, b, c, d>>) = d
  /\ \A a, b, c, d, e : <<a, b, c, d, e>> # <<>> /\ Last(<<a, b, c, d, e>>) = e
BY DEF Last

LEMMA LastMore ==
  ASSUME NEW a, NEW b, NEW c, NEW d, NEW n, NEW t
  PROVE  /\ ByLast(<< <<n, t>> >>, n, t)
         /\ ByLast(<<a, <<n, t>> >>, n, t)
         /\ ByLast(<<a, b, <<n, t>> >>, n, t)
         /\ ByLast(<<a, b, c, d, <<n, t>> >>, n, t)
<1> DEFINE e == <<n, t>>
<1>1. e[1] = n /\ e[2] = t
  OBVIOUS
<1> HIDE DEF e
<1>2. Last(<<e>>) = e /\ <<e>> # <<>>
  BY LastIs
<1>3. Last(<<a, e>>) = e /\ <<a, e>> # <<>>
  BY LastIs
<1>4. Last(<<a, b, e>>) = e /\ <<a, b, e>> # <<>>
  BY LastIs
<1>5. Last(<<a, b, c, d, e>>) = e /\ <<a, b, c, d, e>> # <<>>
  BY LastIs
<1> QED BY <1>1, <1>2, <1>3, <1>4, <1>5 DEF ByLast, e

LEMMA LastFour ==
  ASSUME NEW a, NEW b, NEW c, NEW n, NEW t
  PROVE  ByLast(<<a, b, c, <<n, t>> >>, n, t)
<1> DEFINE e == <<n, t>>
<1>1. e[1] = n /\ e[2] = t
  OBVIOUS
<1> HIDE DEF e
<1>2. Last(<<a, b, c, e>>) = e /\ <<a, b, c, e>> # <<>>
  BY LastIs
<1> QED BY <1>1, <1>2 DEF ByLast, e

\* The lists are told apart by their last step, then by their first one.
LEMMA Lasts ==
  /\ ByLast(NewRound, "if", "overlay")
  /\ ByLast(ToAnalyse, "if", "plan")
  /\ ByLast(ToPlan, "if", "plan")
  /\ ByLast(ToCode, "if", "debugger")
  /\ ByLast(ToAudit, "if", "debugger")
  /\ ByLast(ToJudge, "if", "debugger")
  /\ ByLast(ToDebug, "if", "executor")
  /\ ByLast(ToReaudit, "if", "executor")
  /\ ByLast(ToChoose, "if", "executor")
  /\ ByLast(ToExecute, "if", "verified")
  /\ ByLast(ToVerify, "if", "verified")
  /\ ByLast(ToRepair, "if", "round")
  /\ ByLast(ToRecheck, "if", "round")
  /\ ByLast(ToRetry, "if", "round")
  /\ ByLast(ToHarvest, "if", "round")
  /\ ByLast(ToClose, "if", "round")
  /\ ByLast(ToExplore, "if", "resumed")
  /\ ByLast(ToReturn, "if", "resumed")
  /\ ByLast(Ending, "verdict", "flow")
  /\ ByLast(ToConclude, "verdict", "flow")
  /\ ByLast(Blocked, "verdict", "blocked")
  /\ ByLast(ToGiveUp, "verdict", "blocked")
  /\ ByLast(Failure, "verdict", "error")
  /\ ByLast(Lost, "verdict", "lost")
<1>1. ByLast(NewRound, "if", "overlay")
  BY LastMore DEF NewRound
<1>2. ByLast(ToAnalyse, "if", "plan")
  BY LastMore DEF ToAnalyse
<1>3. ByLast(ToPlan, "if", "plan")
  BY LastMore DEF ToPlan
<1>4. ByLast(ToCode, "if", "debugger")
  BY LastMore DEF ToCode
<1>5. ByLast(ToAudit, "if", "debugger")
  BY LastMore DEF ToAudit
<1>6. ByLast(ToJudge, "if", "debugger")
  BY LastMore DEF ToJudge
<1>7. ByLast(ToDebug, "if", "executor")
  BY LastMore DEF ToDebug
<1>8. ByLast(ToReaudit, "if", "executor")
  BY LastMore DEF ToReaudit
<1>9. ByLast(ToChoose, "if", "executor")
  BY LastMore DEF ToChoose
<1>10. ByLast(ToExecute, "if", "verified")
  BY LastMore DEF ToExecute
<1>11. ByLast(ToVerify, "if", "verified")
  BY LastMore DEF ToVerify
<1>12. ByLast(ToRepair, "if", "round")
  BY LastMore DEF ToRepair
<1>13. ByLast(ToRecheck, "if", "round")
  BY LastFour DEF ToRecheck
<1>14. ByLast(ToRetry, "if", "round")
  BY LastMore DEF ToRetry
<1>15. ByLast(ToHarvest, "if", "round")
  BY LastMore DEF ToHarvest
<1>16. ByLast(ToClose, "if", "round")
  BY LastMore DEF ToClose
<1>17. ByLast(ToExplore, "if", "resumed")
  BY LastMore DEF ToExplore
<1>18. ByLast(ToReturn, "if", "resumed")
  BY LastMore DEF ToReturn
<1>19. ByLast(Ending, "verdict", "flow")
  BY LastMore DEF Ending
<1>20. ByLast(ToConclude, "verdict", "flow")
  BY LastMore DEF ToConclude
<1>21. ByLast(Blocked, "verdict", "blocked")
  BY LastMore DEF Blocked
<1>22. ByLast(ToGiveUp, "verdict", "blocked")
  BY LastMore DEF ToGiveUp
<1>23. ByLast(Failure, "verdict", "error")
  BY LastMore DEF Failure
<1>24. ByLast(Lost, "verdict", "lost")
  BY LastMore DEF Lost
<1> QED BY <1>1, <1>2, <1>3, <1>4, <1>5, <1>6, <1>7, <1>8, <1>9, <1>10, <1>11, <1>12, <1>13, <1>14, <1>15, <1>16, <1>17, <1>18, <1>19, <1>20, <1>21, <1>22, <1>23, <1>24

LEMMA Marks ==
  ASSUME NEW q, NEW s, IsStage(q, s)
  PROVE  /\ s = "over" <=> q = <<>>
         /\ s = "start" => ByLast(q, "if", "overlay") /\ ByHead(q, "if", "overlay")
         /\ s = "analyse" => ByLast(q, "if", "plan") /\ ByHead(q, "analyst", "")
         /\ s = "plan" => ByLast(q, "if", "plan") /\ ByHead(q, "if", "plan")
         /\ s = "code" => ByLast(q, "if", "debugger") /\ ByHead(q, "coder", "")
         /\ s = "audit" => ByLast(q, "if", "debugger") /\ ByHead(q, "auditor", "")
         /\ s = "judge" => ByLast(q, "if", "debugger") /\ ByHead(q, "if", "debugger")
         /\ s = "debug" => ByLast(q, "if", "executor") /\ ByHead(q, "debugger", "")
         /\ s = "reaudit" => ByLast(q, "if", "executor") /\ ByHead(q, "auditor", "post_debug")
         /\ s = "choose" => ByLast(q, "if", "executor") /\ ByHead(q, "if", "executor")
         /\ s = "execute" => ByLast(q, "if", "verified") /\ ByHead(q, "executor", "")
         /\ s = "verify" => ByLast(q, "if", "verified") /\ ByHead(q, "if", "verified")
         /\ s = "repair" => ByLast(q, "if", "round") /\ ByHead(q, "debugger", "post_exec")
         /\ s = "recheck" => ByLast(q, "if", "round") /\ ByHead(q, "auditor", "post_exec")
         /\ s = "retry" => ByLast(q, "if", "round") /\ ByHead(q, "executor", "retry")
         /\ s = "harvest" => ByLast(q, "if", "round") /\ ByHead(q, "skill_harvester", "")
         /\ s = "close" => ByLast(q, "if", "round") /\ ByHead(q, "if", "round")
         /\ s = "explore" => ByLast(q, "if", "resumed") /\ ByHead(q, "dynamic", "")
         /\ s = "return" => ByLast(q, "if", "resumed") /\ ByHead(q, "if", "resumed")
         /\ s = "end" => ByLast(q, "verdict", "flow") /\ ByHead(q, "summarizer", "")
         /\ s = "conclude" => ByLast(q, "verdict", "flow") /\ ByHead(q, "verdict", "flow")
         /\ s = "blocked" => ByLast(q, "verdict", "blocked") /\ ByHead(q, "summarizer", "")
         /\ s = "giveup" => ByLast(q, "verdict", "blocked") /\ ByHead(q, "verdict", "blocked")
         /\ s = "failure" => ByLast(q, "verdict", "error") /\ ByHead(q, "verdict", "error")
         /\ s = "lost" => ByLast(q, "verdict", "lost") /\ ByHead(q, "verdict", "lost")
         /\ s = "prepare" => ByLast(q, "if", "prepare")
         /\ s = "fetch" => ByLast(q, "if", "analyst")
         /\ s = "gather" => ByLast(q, "if", "coder")
<1>1. CASE s = "start" /\ q = NewRound
  <2>1. ByLast(q, "if", "overlay")
    BY <1>1, Lasts
  <2>2. ByHead(q, "if", "overlay")
    BY <1>1, Table DEF ByHead, Begins
  <2> QED BY <1>1, <2>1, <2>2 DEF ByLast
<1>2. CASE s = "analyse" /\ q = ToAnalyse
  <2>1. ByLast(q, "if", "plan")
    BY <1>2, Lasts
  <2>2. ByHead(q, "analyst", "")
    BY <1>2, Table DEF ByHead, Begins
  <2> QED BY <1>2, <2>1, <2>2 DEF ByLast
<1>3. CASE s = "plan" /\ q = ToPlan
  <2>1. ByLast(q, "if", "plan")
    BY <1>3, Lasts
  <2>2. ByHead(q, "if", "plan")
    BY <1>3, Table DEF ByHead, Begins
  <2> QED BY <1>3, <2>1, <2>2 DEF ByLast
<1>4. CASE s = "code" /\ q = ToCode
  <2>1. ByLast(q, "if", "debugger")
    BY <1>4, Lasts
  <2>2. ByHead(q, "coder", "")
    BY <1>4, Table DEF ByHead, Begins
  <2> QED BY <1>4, <2>1, <2>2 DEF ByLast
<1>5. CASE s = "audit" /\ q = ToAudit
  <2>1. ByLast(q, "if", "debugger")
    BY <1>5, Lasts
  <2>2. ByHead(q, "auditor", "")
    BY <1>5, Table DEF ByHead, Begins
  <2> QED BY <1>5, <2>1, <2>2 DEF ByLast
<1>6. CASE s = "judge" /\ q = ToJudge
  <2>1. ByLast(q, "if", "debugger")
    BY <1>6, Lasts
  <2>2. ByHead(q, "if", "debugger")
    BY <1>6, Table DEF ByHead, Begins
  <2> QED BY <1>6, <2>1, <2>2 DEF ByLast
<1>7. CASE s = "debug" /\ q = ToDebug
  <2>1. ByLast(q, "if", "executor")
    BY <1>7, Lasts
  <2>2. ByHead(q, "debugger", "")
    BY <1>7, Table DEF ByHead, Begins
  <2> QED BY <1>7, <2>1, <2>2 DEF ByLast
<1>8. CASE s = "reaudit" /\ q = ToReaudit
  <2>1. ByLast(q, "if", "executor")
    BY <1>8, Lasts
  <2>2. ByHead(q, "auditor", "post_debug")
    BY <1>8, Table DEF ByHead, Begins
  <2> QED BY <1>8, <2>1, <2>2 DEF ByLast
<1>9. CASE s = "choose" /\ q = ToChoose
  <2>1. ByLast(q, "if", "executor")
    BY <1>9, Lasts
  <2>2. ByHead(q, "if", "executor")
    BY <1>9, Table DEF ByHead, Begins
  <2> QED BY <1>9, <2>1, <2>2 DEF ByLast
<1>10. CASE s = "execute" /\ q = ToExecute
  <2>1. ByLast(q, "if", "verified")
    BY <1>10, Lasts
  <2>2. ByHead(q, "executor", "")
    BY <1>10, Table DEF ByHead, Begins
  <2> QED BY <1>10, <2>1, <2>2 DEF ByLast
<1>11. CASE s = "verify" /\ q = ToVerify
  <2>1. ByLast(q, "if", "verified")
    BY <1>11, Lasts
  <2>2. ByHead(q, "if", "verified")
    BY <1>11, Table DEF ByHead, Begins
  <2> QED BY <1>11, <2>1, <2>2 DEF ByLast
<1>12. CASE s = "repair" /\ q = ToRepair
  <2>1. ByLast(q, "if", "round")
    BY <1>12, Lasts
  <2>2. ByHead(q, "debugger", "post_exec")
    BY <1>12, Table DEF ByHead, Begins
  <2> QED BY <1>12, <2>1, <2>2 DEF ByLast
<1>13. CASE s = "recheck" /\ q = ToRecheck
  <2>1. ByLast(q, "if", "round")
    BY <1>13, Lasts
  <2>2. ByHead(q, "auditor", "post_exec")
    BY <1>13, Table DEF ByHead, Begins
  <2> QED BY <1>13, <2>1, <2>2 DEF ByLast
<1>14. CASE s = "retry" /\ q = ToRetry
  <2>1. ByLast(q, "if", "round")
    BY <1>14, Lasts
  <2>2. ByHead(q, "executor", "retry")
    BY <1>14, Table DEF ByHead, Begins
  <2> QED BY <1>14, <2>1, <2>2 DEF ByLast
<1>15. CASE s = "harvest" /\ q = ToHarvest
  <2>1. ByLast(q, "if", "round")
    BY <1>15, Lasts
  <2>2. ByHead(q, "skill_harvester", "")
    BY <1>15, Table DEF ByHead, Begins
  <2> QED BY <1>15, <2>1, <2>2 DEF ByLast
<1>16. CASE s = "close" /\ q = ToClose
  <2>1. ByLast(q, "if", "round")
    BY <1>16, Lasts
  <2>2. ByHead(q, "if", "round")
    BY <1>16, Table DEF ByHead, Begins
  <2> QED BY <1>16, <2>1, <2>2 DEF ByLast
<1>17. CASE s = "explore" /\ q = ToExplore
  <2>1. ByLast(q, "if", "resumed")
    BY <1>17, Lasts
  <2>2. ByHead(q, "dynamic", "")
    BY <1>17, Table DEF ByHead, Begins
  <2> QED BY <1>17, <2>1, <2>2 DEF ByLast
<1>18. CASE s = "return" /\ q = ToReturn
  <2>1. ByLast(q, "if", "resumed")
    BY <1>18, Lasts
  <2>2. ByHead(q, "if", "resumed")
    BY <1>18, Table DEF ByHead, Begins
  <2> QED BY <1>18, <2>1, <2>2 DEF ByLast
<1>19. CASE s = "end" /\ q = Ending
  <2>1. ByLast(q, "verdict", "flow")
    BY <1>19, Lasts
  <2>2. ByHead(q, "summarizer", "")
    BY <1>19, Table DEF ByHead, Begins
  <2> QED BY <1>19, <2>1, <2>2 DEF ByLast
<1>20. CASE s = "conclude" /\ q = ToConclude
  <2>1. ByLast(q, "verdict", "flow")
    BY <1>20, Lasts
  <2>2. ByHead(q, "verdict", "flow")
    BY <1>20, Table DEF ByHead, Begins
  <2> QED BY <1>20, <2>1, <2>2 DEF ByLast
<1>21. CASE s = "blocked" /\ q = Blocked
  <2>1. ByLast(q, "verdict", "blocked")
    BY <1>21, Lasts
  <2>2. ByHead(q, "summarizer", "")
    BY <1>21, Table DEF ByHead, Begins
  <2> QED BY <1>21, <2>1, <2>2 DEF ByLast
<1>22. CASE s = "giveup" /\ q = ToGiveUp
  <2>1. ByLast(q, "verdict", "blocked")
    BY <1>22, Lasts
  <2>2. ByHead(q, "verdict", "blocked")
    BY <1>22, Table DEF ByHead, Begins
  <2> QED BY <1>22, <2>1, <2>2 DEF ByLast
<1>23. CASE s = "failure" /\ q = Failure
  <2>1. ByLast(q, "verdict", "error")
    BY <1>23, Lasts
  <2>2. ByHead(q, "verdict", "error")
    BY <1>23, Table DEF ByHead, Begins
  <2> QED BY <1>23, <2>1, <2>2 DEF ByLast
<1>24. CASE s = "lost" /\ q = Lost
  <2>1. ByLast(q, "verdict", "lost")
    BY <1>24, Lasts
  <2>2. ByHead(q, "verdict", "lost")
    BY <1>24, Table DEF ByHead, Begins
  <2> QED BY <1>24, <2>1, <2>2 DEF ByLast
<1>25. CASE s = "prepare" /\ Queue(Compiling, <<"if", "prepare">>, q)
  <2>1. ByLast(q, "if", "prepare")
    BY <1>25, Pairs DEF ByLast, Queue, Last
  <2> QED BY <1>25, <2>1 DEF ByLast
<1>26. CASE s = "fetch" /\ Queue(Fetching, <<"if", "analyst">>, q)
  <2>1. ByLast(q, "if", "analyst")
    BY <1>26, Pairs DEF ByLast, Queue, Last
  <2> QED BY <1>26, <2>1 DEF ByLast
<1>27. CASE s = "gather" /\ Queue(Gathering, <<"if", "coder">>, q)
  <2>1. ByLast(q, "if", "coder")
    BY <1>27, Pairs DEF ByLast, Queue, Last
  <2> QED BY <1>27, <2>1 DEF ByLast
<1>28. CASE s = "over" /\ q = <<>>
  BY <1>28
<1> QED BY <1>1, <1>2, <1>3, <1>4, <1>5, <1>6, <1>7, <1>8, <1>9, <1>10, <1>11, <1>12, <1>13, <1>14, <1>15, <1>16, <1>17, <1>18, <1>19, <1>20, <1>21, <1>22, <1>23, <1>24, <1>25, <1>26, <1>27, <1>28 DEF IsStage

Stages ==
  {"start", "analyse", "plan", "code", "audit", "judge", "debug",
   "reaudit", "choose", "execute", "verify", "repair", "recheck", "retry",
   "harvest", "close", "explore", "return", "end", "conclude", "blocked",
   "giveup", "failure", "lost", "prepare", "fetch", "gather", "over"}

\* A list stands for one stage only.
LEMMA StageUnique ==
  ASSUME NEW q, NEW s, NEW r, IsStage(q, s), IsStage(q, r)
  PROVE  s = r
<1>1. s \in Stages /\ r \in Stages
  BY DEF IsStage, Stages
<1>2. CASE s = "start"
  BY <1>1, <1>2, Marks DEF Stages, ByLast, ByHead
<1>3. CASE s = "analyse"
  BY <1>1, <1>3, Marks DEF Stages, ByLast, ByHead
<1>4. CASE s = "plan"
  BY <1>1, <1>4, Marks DEF Stages, ByLast, ByHead
<1>5. CASE s = "code"
  BY <1>1, <1>5, Marks DEF Stages, ByLast, ByHead
<1>6. CASE s = "audit"
  BY <1>1, <1>6, Marks DEF Stages, ByLast, ByHead
<1>7. CASE s = "judge"
  BY <1>1, <1>7, Marks DEF Stages, ByLast, ByHead
<1>8. CASE s = "debug"
  BY <1>1, <1>8, Marks DEF Stages, ByLast, ByHead
<1>9. CASE s = "reaudit"
  BY <1>1, <1>9, Marks DEF Stages, ByLast, ByHead
<1>10. CASE s = "choose"
  BY <1>1, <1>10, Marks DEF Stages, ByLast, ByHead
<1>11. CASE s = "execute"
  BY <1>1, <1>11, Marks DEF Stages, ByLast, ByHead
<1>12. CASE s = "verify"
  BY <1>1, <1>12, Marks DEF Stages, ByLast, ByHead
<1>13. CASE s = "repair"
  BY <1>1, <1>13, Marks DEF Stages, ByLast, ByHead
<1>14. CASE s = "recheck"
  BY <1>1, <1>14, Marks DEF Stages, ByLast, ByHead
<1>15. CASE s = "retry"
  BY <1>1, <1>15, Marks DEF Stages, ByLast, ByHead
<1>16. CASE s = "harvest"
  BY <1>1, <1>16, Marks DEF Stages, ByLast, ByHead
<1>17. CASE s = "close"
  BY <1>1, <1>17, Marks DEF Stages, ByLast, ByHead
<1>18. CASE s = "explore"
  BY <1>1, <1>18, Marks DEF Stages, ByLast, ByHead
<1>19. CASE s = "return"
  BY <1>1, <1>19, Marks DEF Stages, ByLast, ByHead
<1>20. CASE s = "end"
  BY <1>1, <1>20, Marks DEF Stages, ByLast, ByHead
<1>21. CASE s = "conclude"
  BY <1>1, <1>21, Marks DEF Stages, ByLast, ByHead
<1>22. CASE s = "blocked"
  BY <1>1, <1>22, Marks DEF Stages, ByLast, ByHead
<1>23. CASE s = "giveup"
  BY <1>1, <1>23, Marks DEF Stages, ByLast, ByHead
<1>24. CASE s = "failure"
  BY <1>1, <1>24, Marks DEF Stages, ByLast, ByHead
<1>25. CASE s = "lost"
  BY <1>1, <1>25, Marks DEF Stages, ByLast, ByHead
<1>26. CASE s = "prepare"
  BY <1>1, <1>26, Marks DEF Stages, ByLast, ByHead
<1>27. CASE s = "fetch"
  BY <1>1, <1>27, Marks DEF Stages, ByLast, ByHead
<1>28. CASE s = "gather"
  BY <1>1, <1>28, Marks DEF Stages, ByLast, ByHead
<1>29. CASE s = "over"
  BY <1>1, <1>29, Marks DEF Stages, ByLast, ByHead
<1> QED BY <1>1, <1>2, <1>3, <1>4, <1>5, <1>6, <1>7, <1>8, <1>9, <1>10, <1>11, <1>12, <1>13, <1>14, <1>15, <1>16, <1>17, <1>18, <1>19, <1>20, <1>21, <1>22, <1>23, <1>24, <1>25, <1>26, <1>27, <1>28, <1>29 DEF Stages

LEMMA StageIs ==
  ASSUME NEW q, NEW s, IsStage(q, s)
  PROVE  Stage(q) = s
BY StageUnique DEF Stage

LEMMA StageHas ==
  ASSUME NEW q, NEW s, IsStage(q, s)
  PROVE  IsStage(q, Stage(q))
BY DEF Stage

LEMMA Staged ==
  ASSUME Shape
  PROVE  IsStage(todo, Place) /\ Place \in Stages
<1>1. \E s : IsStage(todo, s)
  BY DEF Shape, Forms, Ends, IsStage, ToPrepare, ToFetch, ToGather
<1>2. IsStage(todo, Place)
  BY <1>1 DEF Place, Stage
<1> QED BY <1>2 DEF IsStage, Stages

LEMMA Shaped ==
  ASSUME NEW s, IsStage(todo', s)
  PROVE  Shape' /\ Place' = s
<1>1. Shape'
  BY DEF Shape, Forms, Ends, IsStage, ToPrepare, ToFetch, ToGather
<1>2. Place' = s
  BY StageIs DEF Place
<1> QED BY <1>1, <1>2

LEMMA StageOf ==
  /\ todo = NewRound => Place = "start"
  /\ todo = ToAnalyse => Place = "analyse"
  /\ todo = ToPlan => Place = "plan"
  /\ todo = ToCode => Place = "code"
  /\ todo = ToAudit => Place = "audit"
  /\ todo = ToJudge => Place = "judge"
  /\ todo = ToDebug => Place = "debug"
  /\ todo = ToReaudit => Place = "reaudit"
  /\ todo = ToChoose => Place = "choose"
  /\ todo = ToExecute => Place = "execute"
  /\ todo = ToVerify => Place = "verify"
  /\ todo = ToRepair => Place = "repair"
  /\ todo = ToRecheck => Place = "recheck"
  /\ todo = ToRetry => Place = "retry"
  /\ todo = ToHarvest => Place = "harvest"
  /\ todo = ToClose => Place = "close"
  /\ todo = ToExplore => Place = "explore"
  /\ todo = ToReturn => Place = "return"
  /\ todo = Ending => Place = "end"
  /\ todo = ToConclude => Place = "conclude"
  /\ todo = Blocked => Place = "blocked"
  /\ todo = ToGiveUp => Place = "giveup"
  /\ todo = Failure => Place = "failure"
  /\ todo = Lost => Place = "lost"
  /\ ToPrepare => Place = "prepare"
  /\ ToFetch => Place = "fetch"
  /\ ToGather => Place = "gather"
<1>1. todo = NewRound => Place = "start"
  BY StageIs DEF Place, IsStage
<1>2. todo = ToAnalyse => Place = "analyse"
  BY StageIs DEF Place, IsStage
<1>3. todo = ToPlan => Place = "plan"
  BY StageIs DEF Place, IsStage
<1>4. todo = ToCode => Place = "code"
  BY StageIs DEF Place, IsStage
<1>5. todo = ToAudit => Place = "audit"
  BY StageIs DEF Place, IsStage
<1>6. todo = ToJudge => Place = "judge"
  BY StageIs DEF Place, IsStage
<1>7. todo = ToDebug => Place = "debug"
  BY StageIs DEF Place, IsStage
<1>8. todo = ToReaudit => Place = "reaudit"
  BY StageIs DEF Place, IsStage
<1>9. todo = ToChoose => Place = "choose"
  BY StageIs DEF Place, IsStage
<1>10. todo = ToExecute => Place = "execute"
  BY StageIs DEF Place, IsStage
<1>11. todo = ToVerify => Place = "verify"
  BY StageIs DEF Place, IsStage
<1>12. todo = ToRepair => Place = "repair"
  BY StageIs DEF Place, IsStage
<1>13. todo = ToRecheck => Place = "recheck"
  BY StageIs DEF Place, IsStage
<1>14. todo = ToRetry => Place = "retry"
  BY StageIs DEF Place, IsStage
<1>15. todo = ToHarvest => Place = "harvest"
  BY StageIs DEF Place, IsStage
<1>16. todo = ToClose => Place = "close"
  BY StageIs DEF Place, IsStage
<1>17. todo = ToExplore => Place = "explore"
  BY StageIs DEF Place, IsStage
<1>18. todo = ToReturn => Place = "return"
  BY StageIs DEF Place, IsStage
<1>19. todo = Ending => Place = "end"
  BY StageIs DEF Place, IsStage
<1>20. todo = ToConclude => Place = "conclude"
  BY StageIs DEF Place, IsStage
<1>21. todo = Blocked => Place = "blocked"
  BY StageIs DEF Place, IsStage
<1>22. todo = ToGiveUp => Place = "giveup"
  BY StageIs DEF Place, IsStage
<1>23. todo = Failure => Place = "failure"
  BY StageIs DEF Place, IsStage
<1>24. todo = Lost => Place = "lost"
  BY StageIs DEF Place, IsStage
<1>25. ToPrepare => Place = "prepare"
  BY StageIs DEF Place, IsStage, ToPrepare
<1>26. ToFetch => Place = "fetch"
  BY StageIs DEF Place, IsStage, ToFetch
<1>27. ToGather => Place = "gather"
  BY StageIs DEF Place, IsStage, ToGather
<1> QED BY <1>1, <1>2, <1>3, <1>4, <1>5, <1>6, <1>7, <1>8, <1>9, <1>10, <1>11, <1>12, <1>13, <1>14, <1>15, <1>16, <1>17, <1>18, <1>19, <1>20, <1>21, <1>22, <1>23, <1>24, <1>25, <1>26, <1>27

\* The list of a stage, and its first step.
LEMMA ListAt ==
  ASSUME Shape
  PROVE
  /\ Place = "start" => todo = NewRound
  /\ Place = "analyse" => todo = ToAnalyse
  /\ Place = "plan" => todo = ToPlan
  /\ Place = "code" => todo = ToCode
  /\ Place = "audit" => todo = ToAudit
  /\ Place = "judge" => todo = ToJudge
  /\ Place = "debug" => todo = ToDebug
  /\ Place = "reaudit" => todo = ToReaudit
  /\ Place = "choose" => todo = ToChoose
  /\ Place = "execute" => todo = ToExecute
  /\ Place = "verify" => todo = ToVerify
  /\ Place = "repair" => todo = ToRepair
  /\ Place = "recheck" => todo = ToRecheck
  /\ Place = "retry" => todo = ToRetry
  /\ Place = "harvest" => todo = ToHarvest
  /\ Place = "close" => todo = ToClose
  /\ Place = "explore" => todo = ToExplore
  /\ Place = "return" => todo = ToReturn
  /\ Place = "end" => todo = Ending
  /\ Place = "conclude" => todo = ToConclude
  /\ Place = "blocked" => todo = Blocked
  /\ Place = "giveup" => todo = ToGiveUp
  /\ Place = "failure" => todo = Failure
  /\ Place = "lost" => todo = Lost
  /\ Place = "prepare" => ToPrepare
  /\ Place = "fetch" => ToFetch
  /\ Place = "gather" => ToGather
  /\ Place = "over" <=> todo = <<>>
<1>1. Place = "start" => todo = NewRound
  BY Staged DEF IsStage
<1>2. Place = "analyse" => todo = ToAnalyse
  BY Staged DEF IsStage
<1>3. Place = "plan" => todo = ToPlan
  BY Staged DEF IsStage
<1>4. Place = "code" => todo = ToCode
  BY Staged DEF IsStage
<1>5. Place = "audit" => todo = ToAudit
  BY Staged DEF IsStage
<1>6. Place = "judge" => todo = ToJudge
  BY Staged DEF IsStage
<1>7. Place = "debug" => todo = ToDebug
  BY Staged DEF IsStage
<1>8. Place = "reaudit" => todo = ToReaudit
  BY Staged DEF IsStage
<1>9. Place = "choose" => todo = ToChoose
  BY Staged DEF IsStage
<1>10. Place = "execute" => todo = ToExecute
  BY Staged DEF IsStage
<1>11. Place = "verify" => todo = ToVerify
  BY Staged DEF IsStage
<1>12. Place = "repair" => todo = ToRepair
  BY Staged DEF IsStage
<1>13. Place = "recheck" => todo = ToRecheck
  BY Staged DEF IsStage
<1>14. Place = "retry" => todo = ToRetry
  BY Staged DEF IsStage
<1>15. Place = "harvest" => todo = ToHarvest
  BY Staged DEF IsStage
<1>16. Place = "close" => todo = ToClose
  BY Staged DEF IsStage
<1>17. Place = "explore" => todo = ToExplore
  BY Staged DEF IsStage
<1>18. Place = "return" => todo = ToReturn
  BY Staged DEF IsStage
<1>19. Place = "end" => todo = Ending
  BY Staged DEF IsStage
<1>20. Place = "conclude" => todo = ToConclude
  BY Staged DEF IsStage
<1>21. Place = "blocked" => todo = Blocked
  BY Staged DEF IsStage
<1>22. Place = "giveup" => todo = ToGiveUp
  BY Staged DEF IsStage
<1>23. Place = "failure" => todo = Failure
  BY Staged DEF IsStage
<1>24. Place = "lost" => todo = Lost
  BY Staged DEF IsStage
<1>25. Place = "prepare" => ToPrepare
  BY Staged DEF IsStage, ToPrepare
<1>26. Place = "fetch" => ToFetch
  BY Staged DEF IsStage, ToFetch
<1>27. Place = "gather" => ToGather
  BY Staged DEF IsStage, ToGather
<1>28. Place = "over" <=> todo = <<>>
  BY Staged, Marks
<1> QED BY <1>1, <1>2, <1>3, <1>4, <1>5, <1>6, <1>7, <1>8, <1>9, <1>10, <1>11, <1>12, <1>13, <1>14, <1>15, <1>16, <1>17, <1>18, <1>19, <1>20, <1>21, <1>22, <1>23, <1>24, <1>25, <1>26, <1>27, <1>28

\* The stage of the flow when its next step is <<n, t>>.
Stands(n, t) ==
  /\ n = "if" =>
       \/ t = "overlay" /\ Place = "start"
       \/ t = "prepare" /\ Place = "prepare"
       \/ t = "analyst" /\ Place = "fetch"
       \/ t = "plan" /\ Place = "plan"
       \/ t \in {"refreshed", "coder"} /\ Place = "gather"
       \/ t = "debugger" /\ Place = "judge"
       \/ t = "executor" /\ Place = "choose"
       \/ t = "verified" /\ Place = "verify"
       \/ t = "round" /\ Place = "close"
       \/ t = "resumed" /\ Place = "return"
  /\ n = "verdict" =>
       \/ t = "flow" /\ Place = "conclude"
       \/ t = "blocked" /\ Place = "giveup"
       \/ t = "error" /\ Place = "failure"
       \/ t = "lost" /\ Place = "lost"
  /\ n = "analyst" => \/ t = "" /\ Place = "analyse"
                      \/ t = "material_refresh" /\ Place = "gather"
  /\ n = "static_evidence" => t = "" /\ Place = "gather"
  /\ n = "evidence_compiler" => \/ t = "dynamic_resume" /\ Place = "prepare"
                                \/ t = "static_evidence" /\ Place = "gather"
  /\ n \in {"data_inspector", "kag_retriever", "context_builder"} =>
       \/ t = "" /\ Place = "fetch"
       \/ t = "material_refresh" /\ Place \in {"prepare", "gather"}
  /\ n = "coder" => t = "" /\ Place \in {"code", "gather"}
  /\ n = "auditor" => \/ t = "" /\ Place = "audit"
                      \/ t = "post_debug" /\ Place = "reaudit"
                      \/ t = "post_exec" /\ Place = "recheck"
  /\ n = "debugger" => \/ t = "" /\ Place = "debug"
                       \/ t = "post_exec" /\ Place = "repair"
  /\ n = "executor" => \/ t = "" /\ Place = "execute"
                       \/ t = "retry" /\ Place = "retry"
  /\ n = "skill_harvester" => t = "" /\ Place = "harvest"
  /\ n = "dynamic" => t = "" /\ Place = "explore"
  /\ n = "summarizer" => t = "" /\ Place \in {"end", "blocked"}
  /\ n \in {"if", "verdict", "analyst", "static_evidence", "evidence_compiler",
            "data_inspector", "kag_retriever", "context_builder", "coder", "auditor",
            "debugger", "executor", "skill_harvester", "dynamic", "summarizer"}

Node == Head(todo)[1]
Tag == Head(todo)[2]

\* The step at hand stands at the stage of its list.
LEMMA HeadStands ==
  ASSUME Shape, todo # <<>>
  PROVE  Head(todo) = <<Node, Tag>> /\ Stands(Node, Tag) /\ Where(Node, Tag)
<1>1. PICK n, t : Begins(todo, n, t, Tail(todo)) /\ Where(n, t)
  BY Heads DEF Placed
<1>2. n = Node /\ t = Tag /\ Head(todo) = <<n, t>>
  BY <1>1 DEF Begins, Node, Tag
<1>3. Stands(n, t)
  <2>1. n = "if" =>
          \/ t = "overlay" /\ Place = "start"
          \/ t = "prepare" /\ Place = "prepare"
          \/ t = "analyst" /\ Place = "fetch"
          \/ t = "plan" /\ Place = "plan"
          \/ t \in {"refreshed", "coder"} /\ Place = "gather"
          \/ t = "debugger" /\ Place = "judge"
          \/ t = "executor" /\ Place = "choose"
          \/ t = "verified" /\ Place = "verify"
          \/ t = "round" /\ Place = "close"
          \/ t = "resumed" /\ Place = "return"
    BY <1>1, StageOf DEF Where
  <2>2. n = "verdict" =>
          \/ t = "flow" /\ Place = "conclude"
          \/ t = "blocked" /\ Place = "giveup"
          \/ t = "error" /\ Place = "failure"
          \/ t = "lost" /\ Place = "lost"
    BY <1>1, StageOf DEF Where
  <2>3. n = "analyst" => \/ t = "" /\ Place = "analyse"
                         \/ t = "material_refresh" /\ Place = "gather"
    BY <1>1, StageOf DEF Where
  <2>4. n = "static_evidence" => t = "" /\ Place = "gather"
    BY <1>1, StageOf DEF Where
  <2>5. n = "evidence_compiler" => \/ t = "dynamic_resume" /\ Place = "prepare"
                                   \/ t = "static_evidence" /\ Place = "gather"
    BY <1>1, StageOf DEF Where
  <2>6. n \in {"data_inspector", "kag_retriever", "context_builder"} =>
          \/ t = "" /\ Place = "fetch"
          \/ t = "material_refresh" /\ Place \in {"prepare", "gather"}
    BY <1>1, StageOf DEF Where
  <2>7. n = "coder" => t = "" /\ Place \in {"code", "gather"}
    BY <1>1, StageOf DEF Where
  <2>8. n = "auditor" => \/ t = "" /\ Place = "audit"
                         \/ t = "post_debug" /\ Place = "reaudit"
                         \/ t = "post_exec" /\ Place = "recheck"
    BY <1>1, StageOf DEF Where
  <2>9. n = "debugger" => \/ t = "" /\ Place = "debug"
                          \/ t = "post_exec" /\ Place = "repair"
    BY <1>1, StageOf DEF Where
  <2>10. n = "executor" => \/ t = "" /\ Place = "execute"
                           \/ t = "retry" /\ Place = "retry"
    BY <1>1, StageOf DEF Where
  <2>11. n = "skill_harvester" => t = "" /\ Place = "harvest"
    BY <1>1, StageOf DEF Where
  <2>12. n = "dynamic" => t = "" /\ Place = "explore"
    BY <1>1, StageOf DEF Where
  <2>13. n = "summarizer" => t = "" /\ Place \in {"end", "blocked"}
    BY <1>1, StageOf DEF Where
  <2>14. n \in {"if", "verdict", "analyst", "static_evidence", "evidence_compiler",
                "data_inspector", "kag_retriever", "context_builder", "coder", "auditor",
                "debugger", "executor", "skill_harvester", "dynamic", "summarizer"}
    BY <1>1, StageOf DEF Where
  <2> QED BY <2>1, <2>2, <2>3, <2>4, <2>5, <2>6, <2>7, <2>8, <2>9, <2>10, <2>11, <2>12, <2>13, <2>14 DEF Stands
<1> QED BY <1>1, <1>2, <1>3

-----------------------------------------------------------------------------
(* What a step of the flow makes of the list *)

LEMMA QueueIn ==
  ASSUME NEW S, NEW e, NEW s \in Seq(S)
  PROVE  /\ Queue(S, e, (s \o <<e>>) \o <<>>) /\ (s \o <<e>>) \o <<>> = s \o <<e>>
<1> DEFINE q == s \o <<e>>
<1>1. Queue(S, e, q)
  BY QueueMade
<1>2. q \in Seq(S \cup {e})
  BY <1>1 DEF Queue
<1> HIDE DEF q
<1>3. q \o <<>> = q
  BY <1>2
<1> QED BY <1>1, <1>3 DEF q

LEMMA OneOf ==
  ASSUME NEW S, NEW a \in S
  PROVE  <<a>> \in Seq(S)
OBVIOUS

LEMMA TwoOf ==
  ASSUME NEW S, NEW a \in S, NEW b \in S
  PROVE  <<a, b>> \in Seq(S)
OBVIOUS

LEMMA NoneOf ==
  ASSUME NEW S PROVE <<>> \in Seq(S)
OBVIOUS

LEMMA BothOf ==
  ASSUME NEW S, NEW s \in Seq(S), NEW t \in Seq(S)
  PROVE  s \o t \in Seq(S)
OBVIOUS

\* The steps that an action stands for, at each of the three queues.
LEMMA PreparationSteps ==
  ASSUME NEW a
  PROVE  PrepareSteps(a) \in Seq(Fetching)
<1> DEFINE d == <<"data_inspector", "">>
           k == <<"kag_retriever", "">>
           c == <<"context_builder", "">>
           S == Fetching
<1>1. d \in S /\ k \in S /\ c \in S
  BY DEF Fetching
<1>2. \/ PrepareSteps(a) = <<>> \/ PrepareSteps(a) = <<d>> \/ PrepareSteps(a) = <<k, c>>
  BY DEF PrepareSteps
<1> HIDE DEF d, k, c, S
<1>3. <<>> \in Seq(S) /\ <<d>> \in Seq(S) /\ <<k, c>> \in Seq(S)
  BY <1>1, NoneOf, OneOf, TwoOf
<1> QED BY <1>2, <1>3 DEF S

LEMMA RefreshingSteps ==
  ASSUME NEW a
  PROVE  RefreshSteps(a) \in Seq(RefreshSet)
<1> DEFINE d == <<"data_inspector", "material_refresh">>
           k == <<"kag_retriever", "material_refresh">>
           c == <<"context_builder", "material_refresh">>
           S == RefreshSet
<1>1. d \in S /\ k \in S /\ c \in S
  BY DEF RefreshSet
<1>2. \/ RefreshSteps(a) = <<>> \/ RefreshSteps(a) = <<d>> \/ RefreshSteps(a) = <<c>>
      \/ RefreshSteps(a) = <<k, c>>
  BY DEF RefreshSteps
<1> HIDE DEF d, k, c, S
<1>3. <<>> \in Seq(S) /\ <<d>> \in Seq(S) /\ <<c>> \in Seq(S) /\ <<k, c>> \in Seq(S)
  BY <1>1, NoneOf, OneOf, TwoOf
<1> QED BY <1>2, <1>3 DEF S

CodeStep == <<"coder", "">>

\* A step for the coder is still to come.
CoderAhead == \E i \in DOMAIN todo : todo[i] = CodeStep

LEMMA PlanningSteps ==
  ASSUME NEW a
  PROVE  /\ PlanSteps(a) \in Seq(Gathering)
         /\ ~(a = "coder" /\ "coder" \notin overlay.skip)
              => PlanSteps(a) \in Seq(Gathering \ {CodeStep})
         /\ a = "coder" /\ "coder" \notin overlay.skip
              => PlanSteps(a) = <<CodeStep>>
<1> DEFINE e == <<"static_evidence", "">>
           m == <<"evidence_compiler", "static_evidence">>
           f == <<"if", "refreshed">>
           c == CodeStep
           S == Gathering
           T == Gathering \ {CodeStep}
<1>1. /\ e \in S /\ m \in S /\ f \in S /\ c \in S
      /\ e # c /\ m # c /\ f # c
  BY Pairs DEF Gathering, CodeStep
<1>2. e \in T /\ m \in T /\ f \in T
  BY <1>1
<1>3. Compile("static_evidence") = <<>> \/ Compile("static_evidence") = <<m>>
  BY DEF Compile
<1>4. \/ PlanSteps(a) = (<<e>> \o Compile("static_evidence")) \o <<f>> /\ a # "coder"
      \/ PlanSteps(a) = <<>> /\ (a = "coder" => "coder" \in overlay.skip)
      \/ PlanSteps(a) = <<c>> /\ a = "coder" /\ "coder" \notin overlay.skip
  BY DEF PlanSteps, Coder, CodeStep
<1> DEFINE x == Compile("static_evidence")
<1> HIDE DEF e, m, f, c, S, T, x
<1>5. x \in Seq(T)
  BY <1>2, <1>3, NoneOf, OneOf DEF x
<1>6. <<e>> \in Seq(T) /\ <<f>> \in Seq(T)
  BY <1>2, OneOf
<1>7. (<<e>> \o x) \o <<f>> \in Seq(T)
  <2>1. <<e>> \o x \in Seq(T)
    BY <1>5, <1>6, BothOf
  <2> QED BY <1>6, <2>1, BothOf
<1>8. <<>> \in Seq(T) /\ <<>> \in Seq(S) /\ <<c>> \in Seq(S)
  BY <1>1, NoneOf, OneOf
<1>9. \A q : q \in Seq(T) => q \in Seq(S)
  <2>1. T \subseteq S
    BY DEF T, S
  <2> QED BY <2>1
<1>10. CASE PlanSteps(a) = (<<e>> \o x) \o <<f>> /\ a # "coder"
  BY <1>7, <1>9, <1>10 DEF S, T
<1>11. CASE PlanSteps(a) = <<>> /\ (a = "coder" => "coder" \in overlay.skip)
  BY <1>8, <1>11 DEF S, T
<1>12. CASE PlanSteps(a) = <<c>> /\ a = "coder" /\ "coder" \notin overlay.skip
  BY <1>8, <1>12 DEF S, T, c
<1> QED BY <1>4, <1>10, <1>11, <1>12 DEF x

\* A function over a list's places.
Over(f, D) == f = [i \in D |-> f[i]]

\* The lists that a list of actions stands for, one after the other.
LEMMA JoinedIn ==
  ASSUME NEW S, NEW actions, IsList(actions), NEW f, Over(f, DOMAIN actions),
         \A i \in DOMAIN actions : f[i] \in Seq(S)
  PROVE  /\ Joined(f) \in Seq(S)
         /\ \A i \in DOMAIN actions : \A j \in DOMAIN f[i] :
              \E k \in DOMAIN Joined(f) : Joined(f)[k] = f[i][j]
<1>1. DOMAIN actions = 1 .. Len(actions) /\ Len(actions) \in Nat
  BY ListIs
<1>2. DOMAIN f = DOMAIN actions
  BY DEF Over
<1>3. f \in Seq(Seq(S))
  <2> DEFINE n == Len(actions)
             U == Seq(S)
  <2>1. n \in Nat /\ f = [i \in 1 .. n |-> f[i]] /\ \A i \in 1 .. n : f[i] \in U
    BY <1>1 DEF Over
  <2> HIDE DEF n, U
  <2>2. f \in Seq(U)
    BY <2>1
  <2> QED BY <2>2 DEF U
<1> QED BY <1>2, <1>3, JoinedJoins

LEMMA NodeAt ==
  ASSUME Shape, NEW n, NEW t, todo # <<>>, Head(todo) = <<n, t>>
  PROVE  Node = n /\ Tag = t /\ Stands(n, t) /\ Where(n, t)
<1>1. Node = n /\ Tag = t
  BY Pairs DEF Node, Tag
<1> QED BY <1>1, HeadStands

LEMMA HeadIsNot ==
  ASSUME NEW a, NEW b, Head(todo) = <<a, b>>, NEW c, NEW d, a # c \/ b # d
  PROVE  Head(todo) # <<c, d>>
BY Pairs

LEMMA NothingAfter ==
  /\ ToAnalyse \o <<>> = ToAnalyse /\ ToPlan \o <<>> = ToPlan
  /\ ToCode \o <<>> = ToCode /\ ToAudit \o <<>> = ToAudit
  /\ ToDebug \o <<>> = ToDebug /\ ToChoose \o <<>> = ToChoose
  /\ ToExecute \o <<>> = ToExecute /\ ToHarvest \o <<>> = ToHarvest
  /\ ToRepair \o <<>> = ToRepair
<1>1. /\ \A a : <<a>> \o <<>> = <<a>>
      /\ \A a, b : <<a, b>> \o <<>> = <<a, b>>
      /\ \A a, b, c : <<a, b, c>> \o <<>> = <<a, b, c>>
      /\ \A a, b, c, d, e : <<a, b, c, d, e>> \o <<>> = <<a, b, c, d, e>>
  BY Lists
<1>2. ToAnalyse \o <<>> = ToAnalyse
  BY <1>1 DEF ToAnalyse
<1>3. ToPlan \o <<>> = ToPlan
  BY <1>1 DEF ToPlan
<1>4. ToCode \o <<>> = ToCode
  BY <1>1 DEF ToCode
<1>5. ToAudit \o <<>> = ToAudit
  BY <1>1 DEF ToAudit
<1>6. ToDebug \o <<>> = ToDebug
  BY <1>1 DEF ToDebug
<1>7. ToChoose \o <<>> = ToChoose
  BY <1>1 DEF ToChoose
<1>8. ToExecute \o <<>> = ToExecute
  BY <1>1 DEF ToExecute
<1>9. ToHarvest \o <<>> = ToHarvest
  BY <1>1 DEF ToHarvest
<1>10. ToRepair \o <<>> = ToRepair
  BY <1>1 DEF ToRepair
<1> QED BY <1>2, <1>3, <1>4, <1>5, <1>6, <1>7, <1>8, <1>9, <1>10

\* The decisions, each with the stage it is taken at and the one it leads to.
LEMMA OverlayMoves ==
  ASSUME Shape, DecideOverlay
  PROVE  Place = "start" /\ Shape' /\ Place' = "prepare"
<1>1. todo # <<>> /\ Head(todo) = <<"if", "overlay">>
  BY DEF DecideOverlay, Decides, At
<1>2. Place = "start" /\ todo = NewRound
  <2>1. Stands("if", "overlay")
    BY <1>1, NodeAt
  <2>2. Place = "start"
    BY <2>1 DEF Stands
  <2> QED BY <2>2, ListAt
<1> DEFINE m == <<"evidence_compiler", "dynamic_resume">>
           s == IF g.dynamic_resume_overlay.go THEN Compile("dynamic_resume") ELSE <<>>
           e == <<"if", "prepare">>
           S == Compiling
<1>3. s = <<>> \/ s = <<m>>
  BY DEF Compile
<1>4. m \in S
  BY DEF Compiling
<1>5. todo' = (s \o <<e>>) \o Tail(todo) /\ Tail(todo) = <<>>
  BY <1>2, Table DEF DecideOverlay, Then, Begins
<1> HIDE DEF m, s, e, S
<1>6. s \in Seq(S)
  BY <1>3, <1>4, NoneOf, OneOf
<1>7. Queue(S, e, todo')
  BY <1>5, <1>6, QueueIn
<1>8. IsStage(todo', "prepare")
  BY <1>7 DEF IsStage, S, e
<1> QED BY <1>2, <1>8, Shaped

LEMMA PreparationMoves ==
  ASSUME TypeInv, Shape, DecidePreparation
  PROVE  Place = "prepare" /\ Shape' /\ Place' = "fetch"
<1>1. todo # <<>> /\ Head(todo) = <<"if", "prepare">>
  BY DEF DecidePreparation, Decides, At
<1>2. Place = "prepare" /\ Tail(todo) = <<>>
  <2>1. Stands("if", "prepare") /\ Where("if", "prepare")
    BY <1>1, NodeAt
  <2> QED BY <2>1 DEF Stands, Where
<1> DEFINE a == g.next_actions
           f == [i \in DOMAIN a |-> PrepareSteps(a[i])]
           s == Joined(f)
           e == <<"if", "analyst">>
           S == Fetching
<1>3. IsList(a)
  BY DEF TypeInv, Fits, Fields
<1>4. todo' = (s \o <<e>>) \o <<>>
  BY <1>2 DEF DecidePreparation, Then
<1>5. Over(f, DOMAIN a) /\ \A i \in DOMAIN a : f[i] \in Seq(S)
  BY PreparationSteps DEF Over
<1> HIDE DEF a, f, e, S
<1>6. s \in Seq(S)
  BY <1>3, <1>5, JoinedIn
<1> HIDE DEF s
<1>7. Queue(S, e, todo')
  BY <1>4, <1>6, QueueIn
<1>8. IsStage(todo', "fetch")
  BY <1>7 DEF IsStage, S, e
<1> QED BY <1>2, <1>8, Shaped

\* The analyst runs in a round with this overlay.
AnalystAsked ==
  /\ "analyst" \notin overlay.skip
  /\ ~overlay.go \/ "analyst" \in Elements(overlay.next) \/ g.force_analyst

LEMMA AnalystMoves ==
  ASSUME Shape, DecideAnalyst
  PROVE  /\ Place = "fetch" /\ Shape'
         /\ AnalystAsked => Place' = "analyse" /\ g' = g
         /\ ~AnalystAsked => /\ Place' = "plan"
                             /\ g' = [g EXCEPT !.next_actions = Coders(overlay.next)]
<1>1. todo # <<>> /\ Head(todo) = <<"if", "analyst">>
  BY DEF DecideAnalyst, Decides, At
<1>2. Place = "fetch" /\ Tail(todo) = <<>>
  <2>1. Stands("if", "analyst") /\ Where("if", "analyst")
    BY <1>1, NodeAt
  <2> QED BY <2>1 DEF Stands, Where
<1>3. CASE AnalystAsked
  <2>1. todo' = ToAnalyse \o <<>> /\ g' = g
    BY <1>2, <1>3 DEF DecideAnalyst, AnalystAsked, Then, ToAnalyse
  <2>2. todo' = ToAnalyse
    BY <2>1, NothingAfter
  <2> QED BY <1>2, <1>3, <2>1, <2>2, Shaped DEF IsStage
<1>4. CASE ~AnalystAsked
  <2>1. todo' = ToPlan \o <<>> /\ g' = [g EXCEPT !.next_actions = Coders(overlay.next)]
    BY <1>2, <1>4 DEF DecideAnalyst, AnalystAsked, Then, ToPlan
  <2>2. todo' = ToPlan
    BY <2>1, NothingAfter
  <2> QED BY <1>2, <1>4, <2>1, <2>2, Shaped DEF IsStage
<1> QED BY <1>3, <1>4

LEMMA PlanMoves ==
  ASSUME TypeInv, Shape, DecidePlan
  PROVE  /\ Place = "plan" /\ Shape' /\ Place' = "gather"
         /\ CoderAhead' <=> "coder" \in Elements(g.next_actions) /\ "coder" \notin overlay.skip
<1>1. todo # <<>> /\ Head(todo) = <<"if", "plan">>
  BY DEF DecidePlan, Decides, At
<1>2. Place = "plan" /\ todo = ToPlan /\ Tail(todo) = <<>>
  <2>1. Stands("if", "plan")
    BY <1>1, NodeAt
  <2>2. Place = "plan"
    BY <2>1 DEF Stands
  <2>3. todo = ToPlan
    BY <2>2, ListAt
  <2> QED BY <2>2, <2>3, Table DEF Begins
<1> DEFINE a == g.next_actions
           f == [i \in DOMAIN a |-> PlanSteps(a[i])]
           s == Joined(f)
           e == <<"if", "coder">>
           S == Gathering
           T == Gathering \ {CodeStep}
           Wanted == "coder" \in Elements(a) /\ "coder" \notin overlay.skip
<1>3. IsList(a)
  BY DEF TypeInv, Fits, Fields
<1>4. todo' = (s \o <<e>>) \o <<>>
  BY <1>2 DEF DecidePlan, Then
<1>5. Over(f, DOMAIN a) /\ \A i \in DOMAIN a : f[i] \in Seq(S)
  BY PlanningSteps DEF Over
<1>6. ~Wanted => \A i \in DOMAIN a : f[i] \in Seq(T)
  BY PlanningSteps DEF Elements
<1>7. Wanted => \E i \in DOMAIN a : f[i] = <<CodeStep>>
  BY PlanningSteps DEF Elements
<1>8. e # CodeStep
  BY Pairs DEF CodeStep
<1>9. CodeStep \notin T
  OBVIOUS
<1> HIDE DEF a, f, e, S, T, Wanted
<1>10. s \in Seq(S) /\ \A i \in DOMAIN a : \A j \in DOMAIN f[i] :
                         \E k \in DOMAIN s : s[k] = f[i][j]
  BY <1>3, <1>5, JoinedIn
<1>11. ~Wanted => s \in Seq(T)
  BY <1>3, <1>5, <1>6, JoinedIn
<1> HIDE DEF s
<1>12. Queue(S, e, todo') /\ todo' = s \o <<e>>
  BY <1>4, <1>10, QueueIn
<1>13. /\ \A i \in DOMAIN todo' : todo'[i] = e \/ \E j \in DOMAIN s : s[j] = todo'[i]
       /\ \A j \in DOMAIN s : \E i \in DOMAIN todo' : todo'[i] = s[j]
  BY <1>10, <1>12, QueueMade
<1>14. ~Wanted => ~CoderAhead'
  <2> HAVE ~Wanted
  <2>1. \A j \in DOMAIN s : s[j] \in T
    BY <1>11
  <2> QED BY <2>1, <1>8, <1>9, <1>13 DEF CoderAhead
<1>15. Wanted => CoderAhead'
  <2> HAVE Wanted
  <2>1. PICK i \in DOMAIN a : f[i] = <<CodeStep>>
    BY <1>7
  <2>2. 1 \in DOMAIN f[i] /\ f[i][1] = CodeStep
    BY <2>1
  <2>3. PICK k \in DOMAIN s : s[k] = CodeStep
    BY <2>2, <1>10
  <2> QED BY <2>3, <1>13 DEF CoderAhead
<1>16. IsStage(todo', "gather")
  BY <1>12 DEF IsStage, S, e
<1> QED BY <1>2, <1>14, <1>15, <1>16, Shaped DEF Wanted, a

\* At the stage of gathering material and code.
LEMMA GatherMoves ==
  ASSUME Shape, Place = "gather", NEW s \in Seq(Gathering), todo' = s \o Tail(todo),
         Head(todo) # <<"if", "coder">>
  PROVE  /\ Shape' /\ Place' = "gather"
         /\ CoderAhead => CoderAhead' \/ Head(todo) = CodeStep
         /\ CoderAhead' => CoderAhead \/ \E i \in DOMAIN s : s[i] = CodeStep
<1> DEFINE e == <<"if", "coder">>
           S == Gathering
<1>1. Queue(S, e, todo)
  BY ListAt DEF ToGather
<1> DEFINE r == s \o Tail(todo)
<1>a. s \in Seq(S) /\ Head(todo) # e /\ todo' = r
  OBVIOUS
<1> HIDE DEF e, S, r
<1>b. r = s \o Tail(todo)
  BY DEF r
<1>2. Queue(S, e, r) /\ Kept(todo, r) /\ Added(todo, s, r)
  BY <1>1, <1>a, <1>b, QueueMoves
<1>3. IsStage(todo', "gather")
  BY <1>2, <1>a DEF IsStage, S, e
<1>4. CoderAhead => CoderAhead' \/ Head(todo) = CodeStep
  BY <1>2, <1>a DEF CoderAhead, Kept
<1>5. CoderAhead' => CoderAhead \/ \E i \in DOMAIN s : s[i] = CodeStep
  BY <1>2, <1>a DEF CoderAhead, Added
<1> QED BY <1>3, <1>4, <1>5, Shaped

LEMMA CoderSteps ==
  /\ Coder \in Seq(Gathering)
  /\ "coder" \in overlay.skip => Coder = <<>>
  /\ "coder" \notin overlay.skip => Coder = <<CodeStep>>
<1>1. CodeStep \in Gathering
  BY DEF CodeStep, Gathering
<1>2. Coder = IF "coder" \in overlay.skip THEN <<>> ELSE <<CodeStep>>
  BY DEF Coder, CodeStep
<1> QED BY <1>1, <1>2, NoneOf, OneOf

LEMMA RefreshedMoves ==
  ASSUME Shape, DecideRefreshed
  PROVE  /\ Place = "gather" /\ Shape' /\ Place' = "gather"
         /\ CoderAhead => CoderAhead'
         /\ CoderAhead' => CoderAhead \/ (g.force_analyst /\ "coder" \notin overlay.skip)
<1>1. todo # <<>> /\ Head(todo) = <<"if", "refreshed">>
  BY DEF DecideRefreshed, Decides, At
<1>2. Place = "gather"
  <2>1. Stands("if", "refreshed")
    BY <1>1, NodeAt
  <2> QED BY <2>1 DEF Stands
<1> DEFINE r == <<"analyst", "material_refresh">>
           s == IF g.force_analyst THEN <<r>> \o Coder ELSE <<>>
<1>3. todo' = s \o Tail(todo)
  BY DEF DecideRefreshed, Then
<1>4. r \in Gathering /\ r # CodeStep
  BY Pairs DEF Gathering, CodeStep
<1>5. Head(todo) # <<"if", "coder">> /\ Head(todo) # CodeStep
  BY <1>1, HeadIsNot DEF CodeStep
<1> DEFINE S == Gathering
           T == {r}
           c == Coder
<1>6. r \in S
  BY <1>4
<1>7. c \in Seq(S)
  BY CoderSteps
<1>8. "coder" \in overlay.skip => c = <<>>
  BY CoderSteps
<1> HIDE DEF r, S, T, c
<1>9. s \in Seq(S)
  BY <1>6, <1>7, OneOf, BothOf, NoneOf DEF c
<1>10. (\E i \in DOMAIN s : s[i] = CodeStep) => g.force_analyst /\ "coder" \notin overlay.skip
  <2>1. CASE ~g.force_analyst
    BY <2>1
  <2>2. CASE g.force_analyst /\ "coder" \in overlay.skip
    <3>1. s = <<r>>
      <4>1. s = <<r>> \o <<>>
        BY <2>2, <1>8 DEF c
      <4>2. \A a : <<a>> \o <<>> = <<a>>
        BY Lists
      <4> QED BY <4>1, <4>2
    <3> QED BY <3>1, <1>4
  <2> QED BY <2>1, <2>2
<1> HIDE DEF s
<1>11. /\ Shape' /\ Place' = "gather"
       /\ CoderAhead => CoderAhead' \/ Head(todo) = CodeStep
       /\ CoderAhead' => CoderAhead \/ \E i \in DOMAIN s : s[i] = CodeStep
  BY <1>2, <1>3, <1>5, <1>9, GatherMoves DEF S
<1> QED BY <1>2, <1>5, <1>10, <1>11

\* On the way to the coder, or to the auditor without one.
CoderForced == overlay.go /\ "analyst" \notin overlay.skip /\ ~coded

LEMMA CoderMoves ==
  ASSUME Shape, DecideCoder
  PROVE  /\ Place = "gather" /\ ~CoderAhead /\ Shape'
         /\ CoderForced /\ "coder" \notin overlay.skip => Place' = "code"
         /\ ~(CoderForced /\ "coder" \notin overlay.skip) => Place' = "audit"
<1>1. todo # <<>> /\ Head(todo) = <<"if", "coder">>
  BY DEF DecideCoder, Decides, At
<1>2. Place = "gather" /\ Tail(todo) = <<>>
  <2>1. Stands("if", "coder") /\ Where("if", "coder")
    BY <1>1, NodeAt
  <2> QED BY <2>1 DEF Stands, Where
<1>3. ~CoderAhead
  <2> DEFINE e == <<"if", "coder">>
  <2>1. Queue(Gathering, e, todo) /\ e # CodeStep
    BY <1>2, ListAt, Pairs DEF ToGather, CodeStep
  <2> HIDE DEF e
  <2>2. todo \in Seq(Gathering \cup {e}) /\ Tail(todo) = <<>> /\ todo # <<>> /\ Head(todo) = e
    BY <1>1, <1>2, <2>1 DEF Queue, e
  <2> DEFINE U == Gathering \cup {e}
             q == todo
  <2>3. q \in Seq(U) /\ q # <<>> /\ Tail(q) = <<>> /\ Head(q) = e
    BY <2>2
  <2> HIDE DEF U, q
  <2>4. Len(Tail(q)) = Len(q) - 1 /\ Len(q) \in Nat /\ DOMAIN q = 1 .. Len(q) /\ q[1] = Head(q)
    BY <2>3
  <2> DEFINE w == Tail(q)
  <2>7. w = <<>> /\ Len(w) = Len(q) - 1
    BY <2>3, <2>4
  <2> HIDE DEF w
  <2>6. Len(w) = 0
    BY <2>7
  <2> DEFINE n == Len(q)
  <2>8. n \in Nat /\ n - 1 = 0
    BY <2>4, <2>6, <2>7
  <2> HIDE DEF n
  <2>9. n = 1
    BY <2>8
  <2>5. Len(q) = 1
    BY <2>9 DEF n
  <2> QED BY <2>1, <2>3, <2>4, <2>5 DEF CoderAhead, q
<1> DEFINE a == <<"auditor", "">>
           j == <<"if", "debugger">>
           c == CodeStep
<1>4. todo' = ((IF CoderForced THEN Coder ELSE <<>>) \o <<a, j>>) \o <<>>
  BY <1>2 DEF DecideCoder, CoderForced, Then
<1>5. ToAudit = <<a, j>> /\ ToCode = <<c, a, j>>
  BY DEF ToAudit, ToCode, CodeStep
<1> HIDE DEF a, j, c
<1>6. <<c>> \o <<a, j>> = <<c, a, j>> /\ <<>> \o <<a, j>> = <<a, j>>
  BY OneAndTwo, NothingAndSome
<1>7. CASE CoderForced /\ "coder" \notin overlay.skip
  <2>1. Coder = <<c>>
    BY <1>7, CoderSteps DEF c
  <2>2. todo' = ToCode
    BY <2>1, <1>4, <1>5, <1>6, <1>7, NothingAfter
  <2> QED BY <1>2, <1>3, <1>7, <2>2, Shaped DEF IsStage
<1>8. CASE ~(CoderForced /\ "coder" \notin overlay.skip)
  <2>1. CoderForced => Coder = <<>>
    BY <1>8, CoderSteps
  <2>2. todo' = ToAudit
    BY <2>1, <1>4, <1>5, <1>6, NothingAfter
  <2> QED BY <1>2, <1>3, <1>8, <2>2, Shaped DEF IsStage
<1> QED BY <1>7, <1>8

LEMMA DebuggerMoves ==
  ASSUME Shape, DecideDebugger
  PROVE  /\ Place = "judge" /\ Shape'
         /\ g.next_actions = <<"debugger">> => Place' = "debug"
         /\ g.next_actions # <<"debugger">> => Place' = "choose"
<1>1. todo # <<>> /\ Head(todo) = <<"if", "debugger">>
  BY DEF DecideDebugger, Decides, At
<1>2. Place = "judge" /\ Tail(todo) = <<>>
  <2>1. Stands("if", "debugger")
    BY <1>1, NodeAt
  <2>2. Place = "judge"
    BY <2>1 DEF Stands
  <2>3. todo = ToJudge
    BY <2>2, ListAt
  <2> QED BY <2>2, <2>3, Table DEF Begins
<1> DEFINE d == <<"debugger", "">>
           a == <<"auditor", "post_debug">>
           x == <<"if", "executor">>
           asked == g.next_actions = <<"debugger">>
<1>3. todo' = ((IF asked THEN <<d, a>> ELSE <<>>) \o <<x>>) \o <<>>
  BY <1>2 DEF DecideDebugger, Then
<1>4. ToDebug = <<d, a, x>> /\ ToChoose = <<x>>
  BY DEF ToDebug, ToChoose
<1> HIDE DEF d, a, x, asked
<1>5. <<d, a>> \o <<x>> = <<d, a, x>> /\ <<>> \o <<x>> = <<x>>
  BY TwoAndOne, NothingAndSome
<1>6. CASE asked
  <2>1. todo' = ToDebug
    BY <1>3, <1>4, <1>5, <1>6, NothingAfter
  <2> QED BY <1>2, <1>6, <2>1, Shaped DEF IsStage, asked
<1>7. CASE ~asked
  <2>1. todo' = ToChoose
    BY <1>3, <1>4, <1>5, <1>7, NothingAfter
  <2> QED BY <1>2, <1>7, <2>1, Shaped DEF IsStage, asked
<1> QED BY <1>6, <1>7

LEMMA ExecutorMoves ==
  ASSUME Shape, DecideExecutor
  PROVE  /\ Place = "choose" /\ Shape'
         /\ coded /\ ~dyn => Place' = "execute" /\ g' = g
         /\ ~(coded /\ ~dyn) =>
              /\ Place' = "harvest"
              /\ g' = [g EXCEPT !.round_output = IF dyn THEN "dynamic" ELSE "stop"]
<1>1. todo # <<>> /\ Head(todo) = <<"if", "executor">>
  BY DEF DecideExecutor, Decides, At
<1>2. Place = "choose" /\ Tail(todo) = <<>>
  <2>1. Stands("if", "executor")
    BY <1>1, NodeAt
  <2>2. Place = "choose"
    BY <2>1 DEF Stands
  <2>3. todo = ToChoose
    BY <2>2, ListAt
  <2> QED BY <2>2, <2>3, Table DEF Begins
<1>3. CASE coded /\ ~dyn
  <2>1. todo' = ToExecute \o <<>> /\ g' = g
    BY <1>2, <1>3 DEF DecideExecutor, Then, ToExecute
  <2>2. todo' = ToExecute
    BY <2>1, NothingAfter
  <2> QED BY <1>2, <1>3, <2>1, <2>2, Shaped DEF IsStage
<1>4. CASE ~(coded /\ ~dyn)
  <2>1. todo' = ToHarvest \o <<>>
        /\ g' = [g EXCEPT !.round_output = IF dyn THEN "dynamic" ELSE "stop"]
    BY <1>2, <1>4 DEF DecideExecutor, Then, ToHarvest
  <2>2. todo' = ToHarvest
    BY <2>1, NothingAfter
  <2> QED BY <1>2, <1>4, <2>1, <2>2, Shaped DEF IsStage
<1> QED BY <1>3, <1>4

LEMMA VerifiedMoves ==
  ASSUME Shape, DecideVerified
  PROVE  /\ Place = "verify" /\ Shape'
         /\ g.round_output = "verification_failed" => Place' = "repair"
         /\ g.round_output # "verification_failed" => Place' = "harvest"
<1>1. todo # <<>> /\ Head(todo) = <<"if", "verified">>
  BY DEF DecideVerified, Decides, At
<1>2. Place = "verify" /\ Tail(todo) = <<>>
  <2>1. Stands("if", "verified")
    BY <1>1, NodeAt
  <2>2. Place = "verify"
    BY <2>1 DEF Stands
  <2>3. todo = ToVerify
    BY <2>2, ListAt
  <2> QED BY <2>2, <2>3, Table DEF Begins
<1> DEFINE d == <<"debugger", "post_exec">>
           a == <<"auditor", "post_exec">>
           e == <<"executor", "retry">>
           h == <<"skill_harvester", "">>
           x == <<"if", "round">>
           failed == g.round_output = "verification_failed"
<1>3. todo' = ((IF failed THEN <<d, a, e>> ELSE <<>>) \o <<h, x>>) \o <<>>
  BY <1>2 DEF DecideVerified, Then
<1>4. ToRepair = <<d, a, e, h, x>> /\ ToHarvest = <<h, x>>
  BY DEF ToRepair, ToHarvest
<1> HIDE DEF d, a, e, h, x, failed
<1>5. <<d, a, e>> \o <<h, x>> = <<d, a, e, h, x>> /\ <<>> \o <<h, x>> = <<h, x>>
  BY ThreeAndTwo, NothingAndSome
<1>6. CASE failed
  <2>1. todo' = ToRepair
    BY <1>3, <1>4, <1>5, <1>6, NothingAfter
  <2> QED BY <1>2, <1>6, <2>1, Shaped DEF IsStage, failed
<1>7. CASE ~failed
  <2>1. todo' = ToHarvest
    BY <1>3, <1>4, <1>5, <1>7, NothingAfter
  <2> QED BY <1>2, <1>7, <2>1, Shaped DEF IsStage, failed
<1> QED BY <1>6, <1>7

\* The end of an iteration: the next one, if there may be one.
LEMMA RoundMoves ==
  ASSUME NextRound
  PROVE  /\ Shape'
         /\ round + 1 < MaxRounds => Place' = "start" /\ round' = round + 1
         /\ ~(round + 1 < MaxRounds) => Place' = "end" /\ round' = round
<1>1. CASE round + 1 < MaxRounds
  BY <1>1, Shaped DEF NextRound, IsStage
<1>2. CASE ~(round + 1 < MaxRounds)
  BY <1>2, Shaped DEF NextRound, IsStage
<1> QED BY <1>1, <1>2

LEMMA CloseMoves ==
  ASSUME Shape, DecideRound
  PROVE  /\ Place = "close"
         /\ \/ g.round_output = "again" /\ NextRound
            \/ g.round_output = "dynamic" /\ Shape' /\ Place' = "explore" /\ round' = round
            \/ Shape' /\ Place' = "end" /\ round' = round
<1>1. todo # <<>> /\ Head(todo) = <<"if", "round">>
  BY DEF DecideRound, Decides, At
<1>2. Place = "close"
  <2>1. Stands("if", "round")
    BY <1>1, NodeAt
  <2> QED BY <2>1 DEF Stands
<1>3. \/ g.round_output = "again" /\ NextRound
      \/ g.round_output = "dynamic" /\ todo' = ToExplore /\ round' = round
      \/ todo' = Ending /\ round' = round
  BY DEF DecideRound, ToExplore
<1> QED BY <1>2, <1>3, Shaped DEF IsStage

LEMMA ReturnMoves ==
  ASSUME Shape, DecideResumed
  PROVE  /\ Place = "return"
         /\ \/ g.dynamic_continuation = "resume_static" /\ NextRound
            \/ g.dynamic_continuation # "resume_static" /\ Shape' /\ Place' = "end"
               /\ round' = round
<1>1. todo # <<>> /\ Head(todo) = <<"if", "resumed">>
  BY DEF DecideResumed, Decides, At
<1>2. Place = "return"
  <2>1. Stands("if", "resumed")
    BY <1>1, NodeAt
  <2> QED BY <2>1 DEF Stands
<1> QED BY <1>2, Shaped DEF DecideResumed, IsStage

\* What an applied patch makes of the list: the node is taken off it, and a
\* compiler puts refreshes in its place; or the flow is blocked.
Advances ==
  /\ Place \in {"prepare", "fetch", "gather"} => Place' = Place
  /\ Place = "analyse" => Place' = "plan"
  /\ Place = "code" => Place' = "audit"
  /\ Place = "audit" => Place' = "judge"
  /\ Place = "debug" => Place' = "reaudit"
  /\ Place = "reaudit" => Place' = "choose"
  /\ Place = "execute" => Place' = "verify"
  /\ Place = "repair" => Place' = "recheck"
  /\ Place = "recheck" => Place' = "retry"
  /\ Place = "retry" => Place' = "harvest"
  /\ Place = "harvest" => Place' = "close"
  /\ Place = "explore" => Place' = "return"
  /\ Place = "end" => Place' = "conclude"
  /\ Place = "blocked" => Place' = "giveup"

NodeStages ==
  {"prepare", "fetch", "analyse", "gather", "code", "audit", "debug", "reaudit", "execute",
   "repair", "recheck", "retry", "harvest", "explore", "end", "blocked"}

\* A node and the stages it can stand at.
LEMMA NodePlace ==
  ASSUME Shape, IsNode
  PROVE  /\ todo # <<>> /\ Head(todo) = <<Node, Tag>> /\ Stands(Node, Tag) /\ Where(Node, Tag)
         /\ Node \notin {"if", "verdict"} /\ Place \in NodeStages
<1>1. todo # <<>> /\ Node \notin {"if", "verdict"}
  BY DEF IsNode, Node
<1>2. Head(todo) = <<Node, Tag>> /\ Stands(Node, Tag) /\ Where(Node, Tag)
  BY <1>1, HeadStands
<1>3. Place \in NodeStages
  BY <1>1, <1>2 DEF Stands, NodeStages
<1> QED BY <1>1, <1>2, <1>3

\* The compilers' refreshes for what they have asked for.
LEMMA InsertedSteps ==
  ASSUME NEW asked, IsList(asked)
  PROVE  Joined([i \in DOMAIN asked |-> RefreshSteps(asked[i])]) \in Seq(RefreshSet)
<1> DEFINE f == [i \in DOMAIN asked |-> RefreshSteps(asked[i])]
           S == RefreshSet
<1>1. Over(f, DOMAIN asked) /\ \A i \in DOMAIN asked : f[i] \in Seq(S)
  BY RefreshingSteps DEF Over
<1> HIDE DEF f, S
<1>2. Joined(f) \in Seq(S)
  BY <1>1, JoinedIn
<1> QED BY <1>2 DEF f, S

LEMMA QueueStays ==
  ASSUME NEW S, NEW e, NEW q, Queue(S, e, q), Head(q) # e, NEW R, R \subseteq S, NEW s, s \in Seq(R)
  PROVE  Queue(S, e, s \o Tail(q))
<1>1. s \in Seq(S)
  OBVIOUS
<1> DEFINE r == s \o Tail(q)
<1>2. r = s \o Tail(q)
  OBVIOUS
<1> HIDE DEF r
<1>3. Queue(S, e, r)
  BY <1>1, <1>2, QueueMoves
<1> QED BY <1>3 DEF r

\* An applied patch, by the stages between which it moves the flow.
LEMMA ApplyMoves ==
  ASSUME TypeInv, Shape, IsNode, NEW p, Apply(Head(todo), p), Fits(p)
  PROVE  /\ Shape'
         /\ \/ Place' = "blocked" /\ g'.blocked
               /\ Node \in {"data_inspector", "kag_retriever", "static_evidence"}
            \/ /\ Advances
               /\ ~(g'.blocked /\ Node \in {"data_inspector", "kag_retriever", "static_evidence"})
               /\ Place = "gather" => /\ CoderAhead => CoderAhead' \/ Node = "coder"
                                      /\ CoderAhead' => CoderAhead
<1>1. /\ todo # <<>> /\ Head(todo) = <<Node, Tag>> /\ Stands(Node, Tag)
      /\ Node \notin {"if", "verdict"} /\ Place \in NodeStages
  BY NodePlace
<1> DEFINE asked == g'.material_refresh_actions
           ins == IF Node = "evidence_compiler"
                    THEN Joined([i \in DOMAIN asked |-> RefreshSteps(asked[i])])
                    ELSE <<>>
           halt == Blocks(Head(todo)) /\ g'.blocked
<1>2. /\ DOMAIN g' = Fields
      /\ g'.material_refresh_actions =
           IF "material_refresh_actions" \in DOMAIN p THEN p.material_refresh_actions
                                                      ELSE g.material_refresh_actions
      /\ halt => todo' = Blocked
      /\ ~halt => todo' = ins \o Tail(todo)
  <2>1. DOMAIN g = Fields
    BY DEF TypeInv
  <2> QED BY <2>1, Applies DEF Node
<1>3. halt <=> g'.blocked /\ Node \in {"data_inspector", "kag_retriever", "static_evidence"}
  BY DEF Blocks, Node
<1>4. CASE halt
  <2>1. IsStage(todo', "blocked")
    BY <1>2, <1>4 DEF IsStage
  <2> QED BY <2>1, <1>3, <1>4, Shaped
<1>5. IsList(asked)
  BY <1>2 DEF TypeInv, Fits, Fields
<1> HIDE DEF asked
<1>6. ins \in Seq(RefreshSet)
  <2>1. CASE Node = "evidence_compiler"
    BY <2>1, <1>5, InsertedSteps
  <2>2. CASE Node # "evidence_compiler"
    BY <2>2, NoneOf
  <2> QED BY <2>1, <2>2
<1>7. Node # "evidence_compiler" => ins = <<>>
  OBVIOUS
<1> HIDE DEF ins, halt
<1>8. \A x : Head(todo) # <<"if", x>>
  BY <1>1, Pairs
<1>9. CASE ~halt /\ Place = "prepare"
  <2> DEFINE e == <<"if", "prepare">>
             r == ins \o Tail(todo)
  <2>1. Queue(Compiling, e, todo) /\ Head(todo) # e
    BY <1>8, <1>9, ListAt DEF ToPrepare
  <2>2. RefreshSet \subseteq Compiling
    BY DEF Compiling
  <2> HIDE DEF e
  <2>3. Queue(Compiling, e, r)
    BY <2>1, <2>2, <1>6, QueueStays
  <2>4. IsStage(todo', "prepare")
    BY <2>3, <1>2, <1>9 DEF IsStage, e
  <2>5. Shape' /\ Place' = "prepare"
    BY <2>4, Shaped
  <2> QED BY <2>5, <1>3, <1>9 DEF Advances
<1>10. Place = "fetch" => Node # "evidence_compiler"
  BY <1>1 DEF Stands
<1>11. CASE ~halt /\ Place = "fetch"
  <2> DEFINE e == <<"if", "analyst">>
             r == ins \o Tail(todo)
  <2>1. Queue(Fetching, e, todo) /\ Head(todo) # e
    BY <1>8, <1>11, ListAt DEF ToFetch
  <2>2. ins \in Seq({}) /\ {} \subseteq Fetching
    BY <1>7, <1>10, <1>11, NoneOf
  <2> HIDE DEF e
  <2>3. Queue(Fetching, e, r)
    BY <2>1, <2>2, QueueStays
  <2>4. IsStage(todo', "fetch")
    BY <2>3, <1>2, <1>11 DEF IsStage, e
  <2>5. Shape' /\ Place' = "fetch"
    BY <2>4, Shaped
  <2> QED BY <2>5, <1>3, <1>11 DEF Advances
<1>12. CASE ~halt /\ Place = "gather"
  <2>1. RefreshSet \subseteq Gathering /\ CodeStep \notin RefreshSet
    BY Pairs DEF Gathering, RefreshSet, CodeStep
  <2>2. ins \in Seq(Gathering)
    BY <2>1, <1>6
  <2>3. ~ \E i \in DOMAIN ins : ins[i] = CodeStep
    <3>1. \A i \in DOMAIN ins : ins[i] \in RefreshSet
      BY <1>6
    <3> QED BY <3>1, <2>1
  <2>4. /\ Shape' /\ Place' = "gather"
        /\ CoderAhead => CoderAhead' \/ Head(todo) = CodeStep
        /\ CoderAhead' => CoderAhead \/ \E i \in DOMAIN ins : ins[i] = CodeStep
    BY <2>2, <1>2, <1>8, <1>12, GatherMoves
  <2>5. Head(todo) = CodeStep => Node = "coder"
    BY Pairs DEF CodeStep, Node
  <2> QED BY <2>3, <2>4, <2>5, <1>3, <1>12 DEF Advances
<1>13. CASE ~halt /\ Place \notin {"prepare", "fetch", "gather"}
  <2>1. Node # "evidence_compiler"
    BY <1>1, <1>13 DEF Stands
  <2>2. todo' = <<>> \o Tail(todo)
    BY <2>1, <1>2, <1>7, <1>13
  <2>3. CASE Place = "analyse"
    <3>1. Tail(todo) = ToPlan
      BY <2>3, ListAt, Table DEF Begins
    <3>2. todo' = ToPlan
      BY <3>1, <2>2, NothingBefore
    <3>3. Shape' /\ Place' = "plan"
      BY <3>2, Shaped DEF IsStage
    <3> QED BY <3>3, <1>3, <1>13, <2>3 DEF Advances
  <2>4. CASE Place = "code"
    <3>1. Tail(todo) = ToAudit
      BY <2>4, ListAt, Table DEF Begins
    <3>2. todo' = ToAudit
      BY <3>1, <2>2, NothingBefore
    <3>3. Shape' /\ Place' = "audit"
      BY <3>2, Shaped DEF IsStage
    <3> QED BY <3>3, <1>3, <1>13, <2>4 DEF Advances
  <2>5. CASE Place = "audit"
    <3>1. Tail(todo) = ToJudge
      BY <2>5, ListAt, Table DEF Begins
    <3>2. todo' = ToJudge
      BY <3>1, <2>2, NothingBefore
    <3>3. Shape' /\ Place' = "judge"
      BY <3>2, Shaped DEF IsStage
    <3> QED BY <3>3, <1>3, <1>13, <2>5 DEF Advances
  <2>6. CASE Place = "debug"
    <3>1. Tail(todo) = ToReaudit
      BY <2>6, ListAt, Table DEF Begins
    <3>2. todo' = ToReaudit
      BY <3>1, <2>2, NothingBefore
    <3>3. Shape' /\ Place' = "reaudit"
      BY <3>2, Shaped DEF IsStage
    <3> QED BY <3>3, <1>3, <1>13, <2>6 DEF Advances
  <2>7. CASE Place = "reaudit"
    <3>1. Tail(todo) = ToChoose
      BY <2>7, ListAt, Table DEF Begins
    <3>2. todo' = ToChoose
      BY <3>1, <2>2, NothingBefore
    <3>3. Shape' /\ Place' = "choose"
      BY <3>2, Shaped DEF IsStage
    <3> QED BY <3>3, <1>3, <1>13, <2>7 DEF Advances
  <2>8. CASE Place = "execute"
    <3>1. Tail(todo) = ToVerify
      BY <2>8, ListAt, Table DEF Begins
    <3>2. todo' = ToVerify
      BY <3>1, <2>2, NothingBefore
    <3>3. Shape' /\ Place' = "verify"
      BY <3>2, Shaped DEF IsStage
    <3> QED BY <3>3, <1>3, <1>13, <2>8 DEF Advances
  <2>9. CASE Place = "repair"
    <3>1. Tail(todo) = ToRecheck
      BY <2>9, ListAt, Table DEF Begins
    <3>2. todo' = ToRecheck
      BY <3>1, <2>2, NothingBefore
    <3>3. Shape' /\ Place' = "recheck"
      BY <3>2, Shaped DEF IsStage
    <3> QED BY <3>3, <1>3, <1>13, <2>9 DEF Advances
  <2>10. CASE Place = "recheck"
    <3>1. Tail(todo) = ToRetry
      BY <2>10, ListAt, Table DEF Begins
    <3>2. todo' = ToRetry
      BY <3>1, <2>2, NothingBefore
    <3>3. Shape' /\ Place' = "retry"
      BY <3>2, Shaped DEF IsStage
    <3> QED BY <3>3, <1>3, <1>13, <2>10 DEF Advances
  <2>11. CASE Place = "retry"
    <3>1. Tail(todo) = ToHarvest
      BY <2>11, ListAt, Table DEF Begins
    <3>2. todo' = ToHarvest
      BY <3>1, <2>2, NothingBefore
    <3>3. Shape' /\ Place' = "harvest"
      BY <3>2, Shaped DEF IsStage
    <3> QED BY <3>3, <1>3, <1>13, <2>11 DEF Advances
  <2>12. CASE Place = "harvest"
    <3>1. Tail(todo) = ToClose
      BY <2>12, ListAt, Table DEF Begins
    <3>2. todo' = ToClose
      BY <3>1, <2>2, NothingBefore
    <3>3. Shape' /\ Place' = "close"
      BY <3>2, Shaped DEF IsStage
    <3> QED BY <3>3, <1>3, <1>13, <2>12 DEF Advances
  <2>13. CASE Place = "explore"
    <3>1. Tail(todo) = ToReturn
      BY <2>13, ListAt, Table DEF Begins
    <3>2. todo' = ToReturn
      BY <3>1, <2>2, NothingBefore
    <3>3. Shape' /\ Place' = "return"
      BY <3>2, Shaped DEF IsStage
    <3> QED BY <3>3, <1>3, <1>13, <2>13 DEF Advances
  <2>14. CASE Place = "end"
    <3>1. Tail(todo) = ToConclude
      BY <2>14, ListAt, Table DEF Begins
    <3>2. todo' = ToConclude
      BY <3>1, <2>2, NothingBefore
    <3>3. Shape' /\ Place' = "conclude"
      BY <3>2, Shaped DEF IsStage
    <3> QED BY <3>3, <1>3, <1>13, <2>14 DEF Advances
  <2>15. CASE Place = "blocked"
    <3>1. Tail(todo) = ToGiveUp
      BY <2>15, ListAt, Table DEF Begins
    <3>2. todo' = ToGiveUp
      BY <3>1, <2>2, NothingBefore
    <3>3. Shape' /\ Place' = "giveup"
      BY <3>2, Shaped DEF IsStage
    <3> QED BY <3>3, <1>3, <1>13, <2>15 DEF Advances
  <2> QED BY <1>1, <1>3, <1>13, <2>3, <2>4, <2>5, <2>6, <2>7, <2>8, <2>9, <2>10, <2>11, <2>12, <2>13, <2>14, <2>15 DEF NodeStages
<1> QED BY <1>4, <1>9, <1>11, <1>12, <1>13

\* What the steps other than decisions and applied patches make of the list.
LEMMA FlowMoves ==
  ASSUME Shape
  PROVE  /\ NodeStep => todo' = todo
         /\ \A ending : FlowStops(ending) /\ ending = Failure => Shape' /\ Place' = "failure"
         /\ \A ending : FlowStops(ending) /\ ending = Lost => Shape' /\ Place' = "lost"
         /\ WriteVerdict => Shape' /\ Place' = "over"
         /\ VerdictRaises => Shape' /\ Place' = "failure"
         /\ Crash => Shape' /\ Place' \in {"start", "over"}
         /\ todo' = todo => Shape' /\ Place' = Place
<1>1. IsStage(Failure, "failure") /\ IsStage(Lost, "lost") /\ IsStage(<<>>, "over")
      /\ IsStage(NewRound, "start")
  BY DEF IsStage
<1>2. \A ending : FlowStops(ending) => todo' = ending
  BY DEF FlowStops
<1>3. (todo' = Failure => Shape' /\ Place' = "failure")
      /\ (todo' = Lost => Shape' /\ Place' = "lost")
      /\ (todo' = <<>> => Shape' /\ Place' = "over")
      /\ (todo' = NewRound => Shape' /\ Place' = "start")
  BY <1>1, Shaped
<1>4. todo' = todo => Shape' /\ Place' = Place
  BY Staged, Shaped
<1>5. NodeStep => todo' = todo
  BY DEF NodeStep, Analyst, StaticEvidence, EvidenceCompiler, DataInspector, PrepareBlocked,
    KagRetriever, ContextBuilder, CoderNode, CoderNoContext, DebuggerNode, AuditorNoCode,
    AuditorSafe, AuditorRepair, AuditorGivesUp, ExecutorNoCode, Executor, ReturnRecord,
    SkillHarvester, Summarizer, Dynamic, Return
<1>6. (WriteVerdict => todo' = <<>>) /\ (VerdictRaises => todo' = Failure)
      /\ (Crash => todo' = NewRound \/ todo' = <<>>)
  BY DEF WriteVerdict, VerdictRaises, Crash
<1> QED BY <1>2, <1>3, <1>4, <1>5, <1>6

Inv == TypeInv /\ Shape

LEMMA InvInit ==
  ASSUME Init PROVE Inv /\ Place = "start"
<1>1. IsStage(todo, "start")
  BY DEF Init, IsStage
<1>2. Shape
  BY DEF Init, Shape, Forms
<1>3. Place = "start"
  BY <1>1, StageIs DEF Place
<1> QED BY <1>2, <1>3, TypeInit DEF Inv

LEMMA InvStep ==
  ASSUME Inv, [Next]_vars
  PROVE  Inv'
<1>1. TypeInv /\ Shape
  BY DEF Inv
<1>2. TypeInv'
  BY <1>1, TypeStep
<1>3. CASE Decide
  BY <1>1, <1>3, OverlayMoves, PreparationMoves, AnalystMoves, PlanMoves, RefreshedMoves,
    CoderMoves, DebuggerMoves, ExecutorMoves, VerifiedMoves, CloseMoves, ReturnMoves, RoundMoves,
    <1>2 DEF Decide, Inv
<1>4. CASE Replay
  <2>1. IsNode /\ Apply(Head(todo), Replayed(Head(todo)))
    BY <1>4 DEF Replay
  <2>2. Fits(Replayed(Head(todo)))
    BY <1>1, ReplayFits
  <2>3. Shape'
    BY <2>1, <2>2, <1>1, ApplyMoves
  <2> QED BY <2>3, <1>2 DEF Inv
<1>5. CASE Complete
  <2>1. IsNode /\ Apply(Head(todo), patch) /\ Fits(patch)
    BY <1>1, <1>5 DEF Complete, TypeInv
  <2>2. Shape'
    BY <2>1, <1>1, ApplyMoves
  <2> QED BY <2>2, <1>2 DEF Inv
<1>6. CASE Begin
  BY <1>1, <1>2, <1>6, FlowMoves DEF Begin, Inv
<1>7. CASE NodeStep
  BY <1>1, <1>2, <1>7, FlowMoves DEF Inv
<1>8. CASE Reject \/ Raise
  BY <1>1, <1>2, <1>8, FlowMoves DEF Reject, Raise, Inv
<1>9. CASE LoseLease
  BY <1>1, <1>2, <1>9, FlowMoves DEF LoseLease, Inv
<1>10. CASE WriteVerdict \/ VerdictRaises \/ Crash
  BY <1>1, <1>2, <1>10, FlowMoves DEF Inv
<1>11. CASE UNCHANGED vars
  BY <1>1, <1>2, <1>11, FlowMoves DEF vars, memory, Inv
<1> QED BY <1>3, <1>4, <1>5, <1>6, <1>7, <1>8, <1>9, <1>10, <1>11 DEF Next, FlowStep, Ended

-----------------------------------------------------------------------------
(* Once something is blocked the flow only summarizes *)

Blockers == {"data_inspector", "kag_retriever", "static_evidence"}

SaysBlocked(p) == "blocked" \in DOMAIN p /\ p.blocked

\* The flow has left the rounds when "blocked" is set, and only the nodes it
\* looks at after set it.
BlockInv ==
  /\ g.blocked => Place \in {"blocked", "giveup", "failure", "lost", "over"}
  /\ doing = "returned" /\ SaysBlocked(patch) => Node \in Blockers
  /\ \A k \in DOMAIN ckpt : SaysBlocked(ckpt[k].output) => k[1][1] \in Blockers

\* Only the nodes of Blockers return a patch that blocks.
LEMMA ReturnsBlocked ==
  ASSUME Inv, NodeStep
  PROVE  /\ SaysBlocked(patch') => Node \in Blockers
         /\ doing' = "returned" /\ todo' = todo /\ g' = g /\ ckpt' = ckpt
<1>0. doing' = "returned" /\ todo' = todo /\ g' = g /\ ckpt' = ckpt
  BY DEF NodeStep, Analyst, StaticEvidence, EvidenceCompiler, DataInspector, PrepareBlocked,
    KagRetriever, ContextBuilder, CoderNode, CoderNoContext, DebuggerNode, AuditorNoCode,
    AuditorSafe, AuditorRepair, AuditorGivesUp, ExecutorNoCode, Executor, ReturnRecord,
    SkillHarvester, Summarizer, Dynamic, Return
<1>1. CASE StaticEvidence \/ DataInspector \/ KagRetriever
  BY <1>0, <1>1 DEF StaticEvidence, DataInspector, KagRetriever, Runs, AtNode, Node, Blockers
<1>2. ~SaysBlocked(NoPatch)
  BY NothingFits DEF SaysBlocked
<1>3. CASE Analyst \/ ContextBuilder \/ CoderNode \/ CoderNoContext
  <2>1. \E route : patch' = [next_actions |-> route]
    BY <1>3 DEF Analyst, ContextBuilder, CoderNode, CoderNoContext, Return
  <2> QED BY <2>1, <1>0 DEF SaysBlocked
<1>4. CASE EvidenceCompiler
  <2>1. patch' = NoPatch \/ \E r : patch' = [material_refresh_actions |-> r]
    BY <1>4 DEF EvidenceCompiler, Return
  <2> QED BY <2>1, <1>0, <1>2 DEF SaysBlocked
<1>5. CASE DebuggerNode
  <2>1. patch' = [next_actions |-> <<"auditor">>, retry_count |-> g.retry_count + 1]
    BY <1>5 DEF DebuggerNode, Return
  <2>2. DOMAIN patch' = {"next_actions", "retry_count"}
    BY <2>1
  <2> QED BY <2>2, <1>0 DEF SaysBlocked
<1>6. CASE AuditorNoCode \/ AuditorSafe \/ AuditorRepair \/ AuditorGivesUp
  <2>1. \E r, a : patch' = [audit_result |-> r, next_actions |-> a]
    BY <1>6 DEF AuditorNoCode, AuditorSafe, AuditorRepair, AuditorGivesUp, Return
  <2> QED BY <2>1, <1>0 DEF SaysBlocked
<1>7. CASE ExecutorNoCode \/ Executor
  <2>1. \E r, out : patch' = [execution_record |-> r, round_output |-> out]
                    \/ patch' = [execution_record |-> r]
    <3>1. \A r, out : ReturnRecord(r, out) =>
             patch' = [execution_record |-> r, round_output |-> out]
             \/ patch' = [execution_record |-> r]
      BY DEF ReturnRecord, Return
    <3>2. \E r, out : ReturnRecord(r, out)
      BY <1>7 DEF ExecutorNoCode, Executor
    <3> QED BY <3>1, <3>2
  <2> QED BY <2>1, <1>0 DEF SaysBlocked
<1>8. CASE SkillHarvester
  BY <1>0, <1>2, <1>8 DEF SkillHarvester, Return
<1>9. CASE Summarizer
  <2>1. \E r : patch' = [final_response |-> r]
    BY <1>9 DEF Summarizer, Return
  <2> QED BY <2>1, <1>0 DEF SaysBlocked
<1>10. CASE Dynamic
  <2>1. \/ \E r : patch' = [dynamic_status |-> r, dynamic_continuation |-> "finish"]
        \/ \E o : patch' = Explored(o)
    BY <1>10 DEF Dynamic, Return
  <2>2. \A o : "blocked" \notin DOMAIN Explored(o)
    BY DEF Explored
  <2> QED BY <2>1, <2>2, <1>0 DEF SaysBlocked
<1> QED BY <1>1, <1>3, <1>4, <1>5, <1>6, <1>7, <1>8, <1>9, <1>10 DEF NodeStep

\* A patch that blocks leads to the summary.
LEMMA BlockedApplied ==
  ASSUME Inv, BlockInv, IsNode, NEW p, Fits(p), Apply(Head(todo), p),
         SaysBlocked(p) => Node \in Blockers
  PROVE  g'.blocked => Place' \in {"blocked", "giveup", "failure", "lost", "over"}
<1>1. DOMAIN g = Fields /\ TypeInv /\ Shape
  BY DEF Inv, TypeInv
<1>2. g'.blocked = IF "blocked" \in DOMAIN p THEN p.blocked ELSE g.blocked
  BY <1>1, Applies
<1>3. \/ Place' = "blocked"
      \/ Advances /\ ~(g'.blocked /\ Node \in Blockers)
  BY <1>1, ApplyMoves DEF Blockers
<1>4. CASE Place' = "blocked"
  BY <1>4
<1>5. CASE Advances /\ ~(g'.blocked /\ Node \in Blockers)
  <2> HAVE g'.blocked
  <2>1. ~SaysBlocked(p) /\ g.blocked
    BY <1>2, <1>5 DEF SaysBlocked
  <2>2. Place \in {"blocked", "giveup", "failure", "lost", "over"} /\ Place \in NodeStages
    BY <1>1, <2>1, NodePlace DEF BlockInv
  <2> QED BY <1>5, <2>2 DEF Advances, NodeStages
<1> QED BY <1>3, <1>4, <1>5

LEMMA BlockedSaved ==
  ASSUME BlockInv, NEW state, NEW output, SetCheckpoint(Head(todo), state, output),
         SaysBlocked(output) => Node \in Blockers
  PROVE  \A k \in DOMAIN ckpt' : SaysBlocked(ckpt'[k].output) => k[1][1] \in Blockers
<1>1. \A k \in DOMAIN ckpt' :
        \/ k \in DOMAIN ckpt /\ ckpt'[k] = ckpt[k]
        \/ Stored /\ k = Key(Head(todo)) /\ ckpt'[k] = Entry(state, output)
  BY CheckpointSet
<1>2. Key(Head(todo))[1][1] = Node
  BY Pairs DEF Key, Node
<1> QED BY <1>1, <1>2, EntryIs DEF BlockInv

LEMMA BlockedOutput ==
  ASSUME BlockInv
  PROVE  SaysBlocked(Checkpoint(Head(todo)).output) => Node \in Blockers
<1>1. Key(Head(todo))[1][1] = Node
  BY Pairs DEF Key, Node
<1>2. CASE Key(Head(todo)) \in DOMAIN ckpt
  BY <1>1, <1>2 DEF BlockInv, Checkpoint
<1>3. CASE Key(Head(todo)) \notin DOMAIN ckpt
  BY <1>3, NothingFits DEF Checkpoint, NoCheckpoint, SaysBlocked
<1> QED BY <1>2, <1>3

LEMMA BlockStep ==
  ASSUME Inv, BlockInv, [Next]_vars
  PROVE  BlockInv'
<1> DEFINE Late == {"blocked", "giveup", "failure", "lost", "over"}
<1>0. /\ TypeInv /\ Shape /\ DOMAIN g = Fields
      /\ g.blocked => Place \in Late
      /\ doing = "returned" /\ SaysBlocked(patch) => Node \in Blockers
      /\ \A k \in DOMAIN ckpt : SaysBlocked(ckpt[k].output) => k[1][1] \in Blockers
      /\ doing # "returned" => patch = NoPatch
  BY DEF Inv, TypeInv, BlockInv
<1>1. ckpt' = ckpt => \A k \in DOMAIN ckpt' : SaysBlocked(ckpt'[k].output) => k[1][1] \in Blockers
  BY <1>0
<1>2. ~SaysBlocked(NoPatch)
  BY NothingFits DEF SaysBlocked
<1>3. \A q : /\ SetCheckpoint(Head(todo), q, Checkpoint(Head(todo)).output)
               => \A k \in DOMAIN ckpt' : SaysBlocked(ckpt'[k].output) => k[1][1] \in Blockers
  BY BlockedSaved, BlockedOutput
<1>4. todo' = todo => Node' = Node /\ Place' = Place
  BY DEF Node, Place
<1>5. CASE Decide
  <2>1. Deciding
    BY <1>5, Decisions
  <2>2. Place \notin Late
    <3>1. Head(todo) = <<Node, Tag>> /\ Stands(Node, Tag) /\ Node = "if"
      BY <2>1, <1>0, HeadStands DEF Deciding, Node
    <3> QED BY <3>1 DEF Stands
  <2>3. g'.blocked = g.blocked
    BY <1>0, <1>5 DEF Decide, DecideOverlay, DecidePreparation, DecideAnalyst, DecidePlan,
      DecideRefreshed, DecideCoder, DecideDebugger, DecideExecutor, DecideVerified, DecideRound,
      DecideResumed, Fields
  <2>4. doing # "returned"
    BY <2>1, <1>0 DEF Deciding, TypeInv, IsNode
  <2> QED BY <2>1, <2>2, <2>3, <2>4, <1>0, <1>1 DEF Deciding, BlockInv
<1>6. CASE Replay
  <2>1. IsNode /\ Apply(Head(todo), Replayed(Head(todo))) /\ doing = "idle" /\ doing' = doing
        /\ ckpt' = ckpt
    BY <1>6 DEF Replay
  <2>2. Fits(Replayed(Head(todo)))
    BY <1>0, ReplayFits
  <2>3. SaysBlocked(Replayed(Head(todo))) => SaysBlocked(Checkpoint(Head(todo)).output)
    BY ReplayedIs DEF SaysBlocked
  <2>4. SaysBlocked(Replayed(Head(todo))) => Node \in Blockers
    BY <2>3, BlockedOutput
  <2>5. g'.blocked => Place' \in Late
    BY <2>1, <2>2, <2>4, BlockedApplied
  <2> QED BY <2>1, <2>5, <1>1 DEF BlockInv
<1>7. CASE Complete
  <2>1. /\ IsNode /\ Apply(Head(todo), patch) /\ Fits(patch) /\ doing = "returned"
        /\ doing' = "idle" /\ SetCheckpoint(Head(todo), "completed", patch)
    BY <1>0, <1>7 DEF Complete, TypeInv
  <2>2. SaysBlocked(patch) => Node \in Blockers
    BY <2>1, <1>0
  <2>3. g'.blocked => Place' \in Late
    BY <2>1, <2>2, BlockedApplied
  <2>4. \A k \in DOMAIN ckpt' : SaysBlocked(ckpt'[k].output) => k[1][1] \in Blockers
    BY <2>1, <2>2, BlockedSaved
  <2> QED BY <2>1, <2>3, <2>4 DEF BlockInv
<1>8. CASE Begin
  <2>1. /\ SetCheckpoint(Head(todo), "running", Checkpoint(Head(todo)).output)
        /\ todo' = todo /\ g' = g /\ doing' = "running"
    BY <1>8 DEF Begin
  <2> QED BY <2>1, <1>0, <1>3, <1>4 DEF BlockInv
<1>9. CASE NodeStep
  <2>1. /\ SaysBlocked(patch') => Node \in Blockers
        /\ doing' = "returned" /\ todo' = todo /\ g' = g /\ ckpt' = ckpt
    BY <1>9, ReturnsBlocked
  <2> QED BY <2>1, <1>0, <1>1, <1>4 DEF BlockInv
<1>10. ASSUME NEW ending \in {Failure, Lost}, FlowStops(ending),
              \A k \in DOMAIN ckpt' : SaysBlocked(ckpt'[k].output) => k[1][1] \in Blockers
       PROVE  BlockInv'
  <2>1. Place' \in Late
    BY <1>0, <1>10, FlowMoves
  <2>2. doing' = "idle" /\ g' = g
    BY <1>10 DEF FlowStops
  <2> QED BY <2>1, <2>2, <1>10 DEF BlockInv
<1>11. CASE Reject
  <2>1. FlowStops(Failure) /\ ckpt' = ckpt
    BY <1>11 DEF Reject
  <2> QED BY <2>1, <1>1, <1>10
<1>12. CASE Raise
  <2>1. FlowStops(Failure) /\ SetCheckpoint(Head(todo), "failed", Checkpoint(Head(todo)).output)
    BY <1>12 DEF Raise
  <2> QED BY <2>1, <1>3, <1>10
<1>13. CASE LoseLease
  <2>1. FlowStops(Lost)
        /\ (ckpt' = ckpt \/ SetCheckpoint(Head(todo), "failed", Checkpoint(Head(todo)).output))
    BY <1>13 DEF LoseLease
  <2> QED BY <2>1, <1>1, <1>3, <1>10
<1>14. CASE WriteVerdict \/ VerdictRaises
  <2>1. Place' \in Late
    BY <1>0, <1>14, FlowMoves
  <2>2. /\ doing' = doing /\ g' = g /\ ckpt' = ckpt /\ ~IsNode
    BY <1>14 DEF WriteVerdict, VerdictRaises, AtNode, IsNode
  <2>3. doing # "returned"
    BY <2>2, <1>0 DEF TypeInv
  <2> QED BY <2>1, <2>2, <2>3, <1>1 DEF BlockInv
<1>15. CASE Crash
  <2>1. g'.blocked = FALSE /\ doing' = "idle" /\ ckpt' = ckpt
    BY <1>15 DEF Crash, Fresh
  <2> QED BY <2>1, <1>1 DEF BlockInv
<1>16. CASE UNCHANGED vars
  <2>1. todo' = todo /\ g' = g /\ doing' = doing /\ patch' = patch /\ ckpt' = ckpt
    BY <1>16 DEF vars, memory
  <2> QED BY <2>1, <1>0, <1>1, <1>4 DEF BlockInv
<1> QED BY <1>5, <1>6, <1>7, <1>8, <1>9, <1>11, <1>12, <1>13, <1>14, <1>15, <1>16
  DEF Next, FlowStep, Ended

\* Once a preparation or the evidence is blocked nothing but the summarizer
\* runs: no code is written, audited or run on material known to be missing.
THEOREM NothingRunsBlocked == Spec => BlockedRunsNothing
<1>1. Init => Inv /\ BlockInv
  <2> HAVE Init
  <2>1. g.blocked = FALSE
    BY DEF Init, Fresh
  <2>2. doing = "idle" /\ DOMAIN ckpt = {}
    BY DEF Init
  <2> QED BY <2>1, <2>2, InvInit DEF BlockInv
<1>2. Inv /\ BlockInv /\ [Next]_vars => (Inv /\ BlockInv)'
  BY InvStep, BlockStep
<1>3. Inv /\ BlockInv /\ [Next]_vars
        => [doing = "idle" /\ doing' = "running" /\ g.blocked => AtNode("summarizer")]_vars
  <2> SUFFICES ASSUME Inv, BlockInv, Next, doing = "idle", doing' = "running", g.blocked
               PROVE  AtNode("summarizer")
    OBVIOUS
  <2>1. IsNode
    <3>1. ~Decide /\ ~NodeStep /\ ~Complete
      BY Decisions, ReturnsBlocked DEF Deciding, Complete
    <3>2. Begin
      BY <3>1 DEF Next, FlowStep, Ended, vars, memory, Replay, Reject, Raise, LoseLease, FlowStops,
        WriteVerdict, VerdictRaises, Crash
    <3> QED BY <3>2 DEF Begin
  <2>2. Place \in NodeStages /\ Stands(Node, Tag) /\ Node \notin {"if", "verdict"}
    BY <2>1, NodePlace DEF Inv
  <2>3. Place = "blocked"
    BY <2>2 DEF BlockInv, NodeStages
  <2>4. Node = "summarizer"
    BY <2>2, <2>3 DEF Stands
  <2> QED BY <2>1, <2>4 DEF IsNode, AtNode, Node
<1>4. Spec => []Inv /\ []BlockInv
  BY <1>1, <1>2, PTL DEF Spec
<1> QED BY <1>3, <1>4, PTL DEF Spec, BlockedRunsNothing

-----------------------------------------------------------------------------
(* What the checkpoints say of the rounds *)

\* The name of the checkpoint of the step at hand is <<<<Node, Tag>>, Turn>>.
Turn == IF Node \in PerRound THEN round ELSE 0

\* The numbers of rounds, and which of two rounds is the earlier one.
Numbers == Nat
Earlier(q, r) == q \in Nat /\ r \in Nat /\ q < r
Later(q) == q # 0

Begun(n, t, q) == << <<n, t>>, q>> \in DOMAIN ckpt
Done(n, t, q) == Begun(n, t, q) /\ ckpt[<< <<n, t>>, q>>].state = "completed"
Output(n, t, q) == ckpt[<< <<n, t>>, q>>].output

\* What a replay makes of a field.
Value(p, f) == IF f \in DOMAIN p THEN p[f] ELSE Defaults[f]

\* The analyst's plan and the auditor's request of a round that has them.
Plan(q) == Value(Output("analyst", "", q), "next_actions")
Request(q) == Value(Output("auditor", "", q), "next_actions")
GoesDynamic(q) == Done("analyst", "", q) /\ "dynamic" \in Elements(Plan(q))

\* The overlay that a round has whenever it is passed again.
Chosen(o) == IF o.go THEN o ELSE NoOverlay
OverlayOf(q) ==
  IF q = 0 THEN NoOverlay
           ELSE Chosen(Value(Output("dynamic", "", 0), "dynamic_resume_overlay"))
Again == Later(round) \/ crashes # 0

\* What a round does under an overlay: whether the analyst runs, the plan, and
\* whether the coder runs.
AnalystRuns(o) == "analyst" \notin o.skip /\ (~o.go \/ "analyst" \in Elements(o.next))
PlanOf(q, o) == IF AnalystRuns(o) THEN Plan(q) ELSE Coders(o.next)
Wanted(q, o) == "coder" \notin o.skip /\ "coder" \in Elements(PlanOf(q, o))
Forced(o) == o.go /\ "analyst" \notin o.skip /\ "coder" \notin o.skip
CoderRuns(q, o) == Forced(o) \/ Wanted(q, o)

\* The stages of a round.
Opening == {"prepare", "fetch"}
Planned == {"gather", "code", "audit", "judge", "debug", "reaudit", "choose", "execute",
            "verify", "harvest", "close", "explore", "return"}
InRound == Opening \cup {"analyse", "plan"} \cup Planned
Checked == {"choose", "execute", "verify", "harvest", "close", "explore", "return"}

\* A step being run has a checkpoint, and it is not completed.
Marked == doing # "idle" => Begun(Node, Tag, Turn) /\ ~Done(Node, Tag, Turn)

\* What the nodes return.
Returns ==
  /\ code = "none" => record = "none"
  /\ doing = "returned" =>
       /\ Node \in {"analyst", "auditor"} => "next_actions" \in DOMAIN patch
       /\ Node = "auditor" =>
            /\ code = "none" \/ audited
            /\ "audit_result" \in DOMAIN patch
            /\ patch.audit_result = "None" <=> code = "none"
       /\ Node = "dynamic" =>
            /\ "dynamic_continuation" \in DOMAIN patch
            /\ patch.dynamic_continuation = "resume_static"
                 => "dynamic_resume_overlay" \in DOMAIN patch
       /\ Node = "executor" =>
            "execution_record" \in DOMAIN patch /\ patch.execution_record = record
       /\ Node # "executor" => "execution_record" \notin DOMAIN patch

\* With checkpoints nothing asks for refreshed material, another iteration or
\* a repair after the run: those patches cannot be stored.
Storing ==
  /\ ~g.force_analyst /\ g.material_refresh_actions = <<>>
  /\ g.round_output \in {"stop", "dynamic"}
  /\ Place \notin {"repair", "recheck", "retry"}
  /\ Place \in {"execute", "verify"} => ~dyn
  /\ Place = "verify" => g.round_output = "stop"
  /\ Place \in {"harvest", "close"} /\ g.round_output = "dynamic" => dyn
  /\ Place \in {"explore", "return"} => dyn

\* The overlay of a round that is passed again is that of its first pass.
Overlaid ==
  /\ Later(round) => Done("dynamic", "", 0)
  /\ \A k \in DOMAIN ckpt : Later(k[2]) => Done("dynamic", "", 0)
  /\ Place = "start" /\ Again => Chosen(g.dynamic_resume_overlay) = OverlayOf(round)
  /\ Place \in InRound /\ Again => overlay = OverlayOf(round)
  /\ Place = "return" =>
       /\ Done("dynamic", "", 0)
       /\ g.dynamic_continuation = "resume_static" =>
            g.dynamic_resume_overlay
              = Value(Output("dynamic", "", 0), "dynamic_resume_overlay")

\* The plan of a round is that of its checkpoint.
Planning ==
  /\ \A q : Later(q) /\ Begun("analyst", "", q) => AnalystRuns(OverlayOf(q))
  /\ Place \in {"start"} \cup Opening /\ ~Again => ~Begun("analyst", "", 0)
  /\ Place \in {"plan"} \cup Planned /\ Begun("analyst", "", round) => AnalystRuns(overlay)
  /\ Place = "analyse" => AnalystRuns(overlay)
  /\ Place \in {"plan"} \cup Planned /\ AnalystRuns(overlay) => Done("analyst", "", round)
  /\ Place = "plan" => g.next_actions = PlanOf(round, overlay)
  /\ Place \in Planned => (dyn <=> "dynamic" \in Elements(PlanOf(round, overlay)))

\* A round that is passed again and never has a coder.
Coderless(q) ==
  /\ Later(q) \/ crashes # 0
  /\ ~CoderRuns(q, OverlayOf(q))
  /\ AnalystRuns(OverlayOf(q)) => Done("analyst", "", q)

\* A round with an audit has its coder's code or never has a coder.
Coding ==
  /\ Place \in Planned /\ coded => Done("coder", "", round)
  /\ Place = "gather" => /\ CoderAhead => Wanted(round, overlay)
                         /\ Wanted(round, overlay) => coded \/ CoderAhead
  /\ Place = "code" => Forced(overlay)
  /\ Place = "audit" /\ ~coded => ~CoderRuns(round, overlay)
  /\ ~Again =>
       /\ Place \in {"start", "analyse", "plan"} \cup Opening => code = "none"
       /\ Place \in {"gather", "code", "audit"} /\ code # "none"
            => coded \/ (Node = "coder" /\ doing = "returned")
  /\ \A q : Done("auditor", "", q) => Done("coder", "", q) \/ Coderless(q)

\* A round whose code has been repaired is audited again.
Repaired(q) == Begun("debugger", "", q) => Done("auditor", "post_debug", q)

Auditing ==
  /\ \A q :
       /\ Begun("debugger", "", q) => Done("auditor", "", q) /\ Request(q) = <<"debugger">>
       /\ Done("auditor", "post_debug", q) => Done("debugger", "", q)
  /\ Place \in {"judge", "debug", "reaudit"} \cup Checked => Done("auditor", "", round)
  /\ Place = "judge" => g.next_actions = Request(round)
  /\ Place = "debug" => Request(round) = <<"debugger">>
  /\ Place = "reaudit" => Done("debugger", "", round)
  /\ Place \in Checked => Repaired(round)

\* The rounds before this one went to the dynamic path with audited code.
Rounds ==
  /\ \A q : Earlier(q, round) => Done("auditor", "", q) /\ Repaired(q) /\ GoesDynamic(q)
  /\ \A k \in DOMAIN ckpt : \A q : Earlier(q, k[2]) => GoesDynamic(q)
  /\ crashes = 0 => \A k \in DOMAIN ckpt : ~Earlier(round, k[2])

\* Code that no auditor has seen belongs to a round that still has its audit
\* before it.
Unaudited ==
  code = "none" \/ audited
    \/ \E q \in Numbers :
         \/ Begun("coder", "", q) /\ ~Done("auditor", "", q)
         \/ Begun("debugger", "", q) /\ ~Done("auditor", "post_debug", q)

\* A node that runs changes nothing but the disk, the status and its patch.
LEMMA NodeRuns ==
  ASSUME NodeStep
  PROVE  doing = "running" /\ round' = round /\ overlay' = overlay /\ coded' = coded /\ dyn' = dyn
         /\ crashes' = crashes /\ doing' = "returned" /\ todo' = todo /\ g' = g /\ ckpt' = ckpt
BY DEF NodeStep, Analyst, StaticEvidence, EvidenceCompiler, DataInspector, PrepareBlocked,
    KagRetriever, ContextBuilder, CoderNode, CoderNoContext, DebuggerNode, AuditorNoCode,
    AuditorSafe, AuditorRepair, AuditorGivesUp, ExecutorNoCode, Executor, ReturnRecord,
    SkillHarvester, Summarizer, Dynamic, Return, Runs

\* Names of checkpoints.
LEMMA Names ==
  \A a, b, c, n, t, q : << <<a, b>>, c>> = << <<n, t>>, q>> <=> a = n /\ b = t /\ c = q
BY Pairs

LEMMA NameIs ==
  ASSUME Shape, todo # <<>>
  PROVE  Key(Head(todo)) = << <<Node, Tag>>, Turn>>
<1>1. Head(todo) = <<Node, Tag>>
  BY HeadStands
<1> QED BY <1>1 DEF Key, Turn, Node

LEMMA HistoryStays ==
  ASSUME ckpt' = ckpt
  PROVE  \A n, t, q : /\ Begun(n, t, q)' <=> Begun(n, t, q)
                      /\ Done(n, t, q)' <=> Done(n, t, q)
                      /\ Output(n, t, q)' = Output(n, t, q)
BY DEF Begun, Done, Output

\* What a written checkpoint changes.
LEMMA Writes ==
  ASSUME Shape, todo # <<>>, Stored, NEW state, NEW output,
         SetCheckpoint(Head(todo), state, output)
  PROVE  /\ \A n, t, q : n = Node /\ t = Tag /\ q = Turn =>
              /\ Begun(n, t, q)'
              /\ Done(n, t, q)' <=> state = "completed"
              /\ Output(n, t, q)' = output
         /\ \A n, t, q : ~(n = Node /\ t = Tag /\ q = Turn) =>
              /\ Begun(n, t, q)' <=> Begun(n, t, q)
              /\ Done(n, t, q)' <=> Done(n, t, q)
              /\ Begun(n, t, q) => Output(n, t, q)' = Output(n, t, q)
         /\ \A k \in DOMAIN ckpt' : k \in DOMAIN ckpt \/ k[2] = Turn
<1> DEFINE name == Key(Head(todo))
           entry == Entry(state, output)
<1>1. name = << <<Node, Tag>>, Turn>>
  BY NameIs
<1>2. \A n, t, q : << <<n, t>>, q>> = name <=> n = Node /\ t = Tag /\ q = Turn
  BY <1>1, Names
<1>3. name[2] = Turn
  BY <1>1
<1>4. /\ DOMAIN ckpt' = DOMAIN ckpt \cup {name}
      /\ ckpt'[name] = entry
      /\ \A k \in DOMAIN ckpt : k # name => ckpt'[k] = ckpt[k]
  BY CheckpointSet
<1>5. entry.state = state /\ entry.output = output
  BY EntryIs
<1> HIDE DEF name, entry
<1>6. ASSUME NEW n, NEW t, NEW q, n = Node, t = Tag, q = Turn
      PROVE  /\ Begun(n, t, q)'
             /\ Done(n, t, q)' <=> state = "completed"
             /\ Output(n, t, q)' = output
  <2>1. << <<n, t>>, q>> = name
    BY <1>2, <1>6
  <2> QED BY <2>1, <1>4, <1>5 DEF Begun, Done, Output
<1>7. ASSUME NEW n, NEW t, NEW q, ~(n = Node /\ t = Tag /\ q = Turn)
      PROVE  /\ Begun(n, t, q)' <=> Begun(n, t, q)
             /\ Done(n, t, q)' <=> Done(n, t, q)
             /\ Begun(n, t, q) => Output(n, t, q)' = Output(n, t, q)
  <2> DEFINE k == << <<n, t>>, q>>
  <2>1. k # name
    BY <1>2, <1>7
  <2>2. /\ Begun(n, t, q) <=> k \in DOMAIN ckpt
        /\ Begun(n, t, q)' <=> k \in DOMAIN ckpt'
        /\ Done(n, t, q) <=> k \in DOMAIN ckpt /\ ckpt[k].state = "completed"
        /\ Done(n, t, q)' <=> k \in DOMAIN ckpt' /\ ckpt'[k].state = "completed"
        /\ Output(n, t, q) = ckpt[k].output /\ Output(n, t, q)' = ckpt'[k].output
    BY DEF Begun, Done, Output
  <2> HIDE DEF k
  <2> QED BY <2>1, <2>2, <1>4
<1>8. \A k \in DOMAIN ckpt' : k \in DOMAIN ckpt \/ k[2] = Turn
  BY <1>3, <1>4
<1> QED BY <1>6, <1>7, <1>8

\* Checkpoints only grow: what has begun stays so, what is completed keeps its
\* output, and only Begin and Complete add to them.
Growth ==
  /\ \A n, t, q : Begun(n, t, q) => Begun(n, t, q)'
  /\ \A n, t, q : Done(n, t, q) => Done(n, t, q)' /\ Output(n, t, q)' = Output(n, t, q)
  /\ \A n, t, q : Begun(n, t, q)' /\ ~Begun(n, t, q)
       => Begin /\ n = Node /\ t = Tag /\ q = Turn
  /\ \A n, t, q : Done(n, t, q)' /\ ~Done(n, t, q)
       => Complete /\ n = Node /\ t = Tag /\ q = Turn /\ Output(n, t, q)' = patch
  /\ \A k \in DOMAIN ckpt' : k \in DOMAIN ckpt \/ (Begin /\ k[2] = Turn)
  /\ \A n, t, q : Done(n, t, q) => Begun(n, t, q)

\* Growth from what a write changes.
LEMMA WrittenGrowth ==
  ASSUME Shape, todo # <<>>, Stored, NEW state, NEW output,
         SetCheckpoint(Head(todo), state, output),
         ~Done(Node, Tag, Turn), Begin \/ Begun(Node, Tag, Turn),
         state = "completed" => Complete /\ output = patch
  PROVE  Growth
<1>1. /\ \A n, t, q : n = Node /\ t = Tag /\ q = Turn =>
              /\ Begun(n, t, q)'
              /\ Done(n, t, q)' <=> state = "completed"
              /\ Output(n, t, q)' = output
      /\ \A n, t, q : ~(n = Node /\ t = Tag /\ q = Turn) =>
              /\ Begun(n, t, q)' <=> Begun(n, t, q)
              /\ Done(n, t, q)' <=> Done(n, t, q)
              /\ Begun(n, t, q) => Output(n, t, q)' = Output(n, t, q)
      /\ \A k \in DOMAIN ckpt' : k \in DOMAIN ckpt \/ k[2] = Turn
  BY Writes
<1>2. \A n, t, q : Done(n, t, q) => Begun(n, t, q)
  BY DEF Done
<1>3. \A n, t, q : Begun(n, t, q) => Begun(n, t, q)'
  BY <1>1
<1>4. \A n, t, q : Done(n, t, q) => Done(n, t, q)' /\ Output(n, t, q)' = Output(n, t, q)
  BY <1>1, <1>2
<1>5. \A n, t, q : Begun(n, t, q)' /\ ~Begun(n, t, q)
       => Begin /\ n = Node /\ t = Tag /\ q = Turn
  BY <1>1
<1>6. \A n, t, q : Done(n, t, q)' /\ ~Done(n, t, q)
       => Complete /\ n = Node /\ t = Tag /\ q = Turn /\ Output(n, t, q)' = patch
  BY <1>1
<1>7. \A k \in DOMAIN ckpt' : k \in DOMAIN ckpt \/ (Begin /\ k[2] = Turn)
  <2>1. Begun(Node, Tag, Turn) => DOMAIN ckpt' = DOMAIN ckpt
    <3>1. DOMAIN ckpt' = DOMAIN ckpt \cup {Key(Head(todo))}
      BY CheckpointSet
    <3>2. Key(Head(todo)) = << <<Node, Tag>>, Turn>>
      BY NameIs
    <3> QED BY <3>1, <3>2 DEF Begun
  <2> QED BY <1>1, <2>1
<1> QED BY <1>2, <1>3, <1>4, <1>5, <1>6, <1>7 DEF Growth

\* Every step of the flow lets the checkpoints grow.
LEMMA GrowthOf ==
  ASSUME Inv, Marked, Stored, [Next]_vars
  PROVE  Growth /\ Marked'
<1>1. TypeInv /\ Shape
  BY DEF Inv
<1>2. \A n, t, q : Done(n, t, q) => Begun(n, t, q)
  BY DEF Done
<1>3. ASSUME ckpt' = ckpt PROVE Growth
  BY <1>2, <1>3, HistoryStays DEF Growth
<1>4. ASSUME doing' = "idle" PROVE Marked'
  BY <1>4 DEF Marked
<1>5. ASSUME ckpt' = ckpt, todo' = todo, round' = round, doing # "idle" PROVE Marked'
  <2>1. Node' = Node /\ Tag' = Tag /\ Turn' = Turn
    BY <1>5 DEF Node, Tag, Turn
  <2> QED BY <2>1, <1>5, HistoryStays DEF Marked
<1>6. ASSUME NEW n, NEW t, NEW q, Completed(Head(todo)), n = Node, t = Tag, q = Turn, todo # <<>>
      PROVE  Done(n, t, q) /\ Output(n, t, q) = Checkpoint(Head(todo)).output
  <2>1. Key(Head(todo)) = << <<n, t>>, q>>
    BY <1>1, <1>6, NameIs
  <2>2. Key(Head(todo)) \in DOMAIN ckpt
    BY <1>6 DEF Completed, Checkpoint, NoCheckpoint
  <2> QED BY <2>1, <2>2, <1>6 DEF Completed, Checkpoint, Done, Begun, Output
<1>7. ASSUME NEW n, NEW t, NEW q, ~Completed(Head(todo)), n = Node, t = Tag, q = Turn, todo # <<>>
      PROVE  ~Done(n, t, q)
  <2>1. Key(Head(todo)) = << <<n, t>>, q>>
    BY <1>1, <1>7, NameIs
  <2> QED BY <2>1, <1>7 DEF Completed, Checkpoint, Done, Begun, Output
<1>8. CASE Begin
  <2>1. IsNode /\ doing = "idle" /\ ~Completed(Head(todo)) /\ doing' = "running"
        /\ todo' = todo /\ round' = round /\ todo # <<>>
        /\ SetCheckpoint(Head(todo), "running", Checkpoint(Head(todo)).output)
    BY <1>8 DEF Begin, IsNode
  <2>2. ~Done(Node, Tag, Turn)
    BY <2>1, <1>7
  <2>3. Growth
    BY <1>1, <1>8, <2>1, <2>2, WrittenGrowth
  <2>4. Node' = Node /\ Tag' = Tag /\ Turn' = Turn
    BY <2>1 DEF Node, Tag, Turn
  <2>5. \A n, t, q : n = Node /\ t = Tag /\ q = Turn => Begun(n, t, q)' /\ ~Done(n, t, q)'
    BY <1>1, <2>1, Writes
  <2> QED BY <2>3, <2>4, <2>5 DEF Marked
<1>9. ASSUME doing # "idle", NEW state, state # "completed",
             SetCheckpoint(Head(todo), state, Checkpoint(Head(todo)).output)
      PROVE  Growth
  <2>1. Begun(Node, Tag, Turn) /\ ~Done(Node, Tag, Turn) /\ todo # <<>>
    BY <1>1, <1>9 DEF Marked, TypeInv, IsNode
  <2> QED BY <1>1, <1>9, <2>1, WrittenGrowth
<1>10. CASE Complete
  <2>1. doing = "returned" /\ SetCheckpoint(Head(todo), "completed", patch) /\ doing' = "idle"
    BY <1>10 DEF Complete
  <2>2. Begun(Node, Tag, Turn) /\ ~Done(Node, Tag, Turn) /\ todo # <<>>
    BY <1>1, <2>1 DEF Marked, TypeInv, IsNode
  <2>3. Growth
    BY <1>1, <1>10, <2>1, <2>2, WrittenGrowth
  <2> QED BY <2>1, <2>3, <1>4
<1>11. CASE Decide
  <2>1. Deciding
    BY <1>11, Decisions
  <2>2. doing = "idle" /\ ckpt' = ckpt /\ doing' = doing
    BY <1>1, <2>1 DEF Deciding, TypeInv, IsNode
  <2> QED BY <2>2, <1>3, <1>4
<1>12. CASE Replay
  BY <1>3, <1>4, <1>12 DEF Replay
<1>13. CASE NodeStep
  <2>1. doing = "running" /\ doing' = "returned" /\ round' = round /\ todo' = todo /\ ckpt' = ckpt
    BY <1>13, NodeRuns
  <2> QED BY <2>1, <1>3, <1>5
<1>14. CASE Reject
  BY <1>3, <1>4, <1>14 DEF Reject, FlowStops
<1>15. CASE Raise
  BY <1>4, <1>9, <1>15 DEF Raise, FlowStops
<1>16. CASE LoseLease
  <2>1. doing' = "idle"
    BY <1>16 DEF LoseLease, FlowStops
  <2>2. \/ ckpt' = ckpt
        \/ doing # "idle" /\ SetCheckpoint(Head(todo), "failed", Checkpoint(Head(todo)).output)
    BY <1>16 DEF LoseLease, Runs
  <2> QED BY <2>1, <2>2, <1>3, <1>4, <1>9
<1>17. CASE WriteVerdict \/ VerdictRaises
  <2>1. doing = "idle" /\ ckpt' = ckpt /\ doing' = doing
    BY <1>1, <1>17 DEF WriteVerdict, VerdictRaises, TypeInv, AtNode, IsNode
  <2> QED BY <2>1, <1>3, <1>4
<1>18. CASE Crash
  BY <1>3, <1>4, <1>18 DEF Crash
<1>19. CASE UNCHANGED vars
  BY <1>3, <1>4, <1>5, <1>19 DEF vars, memory
<1> QED BY <1>8, <1>10, <1>11, <1>12, <1>13, <1>14, <1>15, <1>16, <1>17, <1>18, <1>19
  DEF Next, FlowStep, Ended
-----------------------------------------------------------------------------
(* What a node returns and what a passed node leaves *)

\* Returns, of the patch that a node has just returned.
Gives ==
  /\ code' = "none" => record' = "none"
  /\ Node \in {"analyst", "auditor"} => "next_actions" \in DOMAIN patch'
  /\ Node = "auditor" =>
       /\ code' = "none" \/ audited'
       /\ "audit_result" \in DOMAIN patch'
       /\ patch'.audit_result = "None" <=> code' = "none"
  /\ Node = "dynamic" =>
       /\ "dynamic_continuation" \in DOMAIN patch'
       /\ patch'.dynamic_continuation = "resume_static"
            => "dynamic_resume_overlay" \in DOMAIN patch'
  /\ Node = "executor" =>
       "execution_record" \in DOMAIN patch' /\ patch'.execution_record = record'
  /\ Node # "executor" => "execution_record" \notin DOMAIN patch'

LEMMA NodeGives ==
  ASSUME NodeStep, code = "none" => record = "none"
  PROVE  Gives
<1>1. CASE Analyst
  <2>1. Node = "analyst" /\ code' = code /\ record' = record
        /\ \E route : patch' = [next_actions |-> route]
    BY <1>1 DEF Analyst, Runs, AtNode, Node, Return, NoWrite, disk
  <2> QED BY <2>1 DEF Gives
<1>2. CASE ContextBuilder \/ CoderNoContext
  <2>1. Node \in {"context_builder", "coder"} /\ code' = code /\ record' = record
        /\ \E route : patch' = [next_actions |-> route]
    BY <1>2 DEF ContextBuilder, CoderNoContext, Runs, AtNode, Node, Return, NoWrite, disk
  <2> QED BY <2>1 DEF Gives
<1>3. CASE CoderNode
  <2>1. Node = "coder" /\ code' # "none" /\ \E route : patch' = [next_actions |-> route]
    BY <1>3 DEF CoderNode, WriteCode, Runs, AtNode, Node, Return
  <2> QED BY <2>1 DEF Gives
<1>4. CASE DebuggerNode
  <2>1. Node = "debugger" /\ code' # "none"
        /\ patch' = [next_actions |-> <<"auditor">>, retry_count |-> g.retry_count + 1]
    BY <1>4 DEF DebuggerNode, WriteCode, Runs, AtNode, Node, Return
  <2>2. DOMAIN patch' = {"next_actions", "retry_count"}
    BY <2>1
  <2> QED BY <2>1, <2>2 DEF Gives
<1>5. CASE StaticEvidence
  <2>1. Node = "static_evidence" /\ code' = code /\ record' = record
        /\ \/ \E b, a : patch' = [blocked |-> b, next_actions |-> a]
           \/ \E a : patch' = [next_actions |-> a]
    BY <1>5 DEF StaticEvidence, Runs, AtNode, Node, Return, NoWrite, disk
  <2>2. "execution_record" \notin DOMAIN patch'
    BY <2>1
  <2> QED BY <2>1, <2>2 DEF Gives
<1>6. CASE EvidenceCompiler \/ SkillHarvester
  <2>1. Node \in {"evidence_compiler", "skill_harvester"} /\ code' = code /\ record' = record
        /\ (patch' = NoPatch \/ \E r : patch' = [material_refresh_actions |-> r])
    BY <1>6 DEF EvidenceCompiler, SkillHarvester, Runs, AtNode, Node, Return, NoWrite, disk
  <2>2. "execution_record" \notin DOMAIN patch'
    BY <2>1, NothingFits
  <2> QED BY <2>1, <2>2 DEF Gives
<1>7. CASE DataInspector \/ KagRetriever
  <2>1. Node \in {"data_inspector", "kag_retriever"} /\ code' = code /\ record' = record
        /\ \/ \E b, a : patch' = [blocked |-> b, next_actions |-> a]
           \/ \E b : patch' = [blocked |-> b]
           \/ \E a : patch' = [next_actions |-> a]
    BY <1>7 DEF DataInspector, KagRetriever, PrepareBlocked, Runs, AtNode, Node, Return, NoWrite,
      disk
  <2>2. "execution_record" \notin DOMAIN patch'
    BY <2>1
  <2> QED BY <2>1, <2>2 DEF Gives
<1>8. CASE AuditorNoCode
  <2>1. Node = "auditor" /\ code = "none" /\ code' = code /\ record' = record
        /\ \E a : patch' = [audit_result |-> "None", next_actions |-> a]
    BY <1>8 DEF AuditorNoCode, Runs, AtNode, Node, Return, NoWrite, disk
  <2>2. patch'.audit_result = "None" /\ DOMAIN patch' = {"audit_result", "next_actions"}
    BY <2>1
  <2> QED BY <2>1, <2>2 DEF Gives
<1>9. CASE AuditorSafe \/ AuditorRepair \/ AuditorGivesUp
  <2>1. Node = "auditor" /\ code # "none" /\ code' = code /\ record' = record /\ audited'
        /\ \E a : patch' = [audit_result |-> "given", next_actions |-> a]
    BY <1>9 DEF AuditorSafe, AuditorRepair, AuditorGivesUp, Runs, AtNode, Node, Return
  <2>2. patch'.audit_result = "given" /\ DOMAIN patch' = {"audit_result", "next_actions"}
    BY <2>1
  <2> QED BY <2>1, <2>2 DEF Gives
<1>10. CASE ExecutorNoCode \/ Executor
  <2>1. /\ Node = "executor" /\ code' = code
        /\ code' = "none" => record' = "none"
    BY <1>10 DEF ExecutorNoCode, Executor, Runs, AtNode, Node, NoWrite, disk
  <2>2. \E out : \/ patch' = [execution_record |-> record', round_output |-> out]
                 \/ patch' = [execution_record |-> record']
    <3>1. \A r, out : ReturnRecord(r, out) =>
             patch' = [execution_record |-> r, round_output |-> out]
             \/ patch' = [execution_record |-> r]
      BY DEF ReturnRecord, Return
    <3>2. \E out : ReturnRecord(record', out)
      BY <1>10 DEF ExecutorNoCode, Executor, NoWrite, disk
    <3> QED BY <3>1, <3>2
  <2>3. "execution_record" \in DOMAIN patch' /\ patch'.execution_record = record'
    BY <2>2
  <2> QED BY <2>1, <2>3 DEF Gives
<1>11. CASE Summarizer
  <2>1. Node = "summarizer" /\ code' = code /\ record' = record
        /\ \E r : patch' = [final_response |-> r]
    BY <1>11 DEF Summarizer, Runs, AtNode, Node, Return, NoWrite, disk
  <2>2. "execution_record" \notin DOMAIN patch'
    BY <2>1
  <2> QED BY <2>1, <2>2 DEF Gives
<1>12. CASE Dynamic
  <2>1. /\ Node = "dynamic" /\ code' = code /\ record' = record
        /\ \/ \E r : patch' = [dynamic_status |-> r, dynamic_continuation |-> "finish"]
           \/ \E o : patch' = Explored(o)
    BY <1>12 DEF Dynamic, Runs, AtNode, Node, Return, NoWrite, disk
  <2>2. CASE \E r : patch' = [dynamic_status |-> r, dynamic_continuation |-> "finish"]
    <3>1. DOMAIN patch' = {"dynamic_status", "dynamic_continuation"}
          /\ patch'.dynamic_continuation = "finish"
      BY <2>2
    <3> QED BY <2>1, <3>1 DEF Gives
  <2>3. CASE \E o : patch' = Explored(o)
    <3>1. DOMAIN patch' = {"dynamic_status", "dynamic_resume_overlay", "dynamic_continuation"}
      BY <2>3 DEF Explored
    <3> QED BY <2>1, <3>1 DEF Gives
  <2> QED BY <2>1, <2>2, <2>3
<1> QED BY <1>1, <1>2, <1>3, <1>4, <1>5, <1>6, <1>7, <1>8, <1>9, <1>10, <1>11, <1>12 DEF NodeStep

\* Only the nodes write the code, its audit and the record.
LEMMA DiskStays ==
  ASSUME Inv, [Next]_vars, ~NodeStep
  PROVE  /\ code' = code /\ audited' = audited /\ record' = record
         /\ doing' = "returned" => UNCHANGED vars
<1>1. doing # "idle" => IsNode
  BY DEF Inv, TypeInv
<1>2. CASE Decide
  <2>1. Deciding
    BY <1>2, Decisions
  <2> QED BY <1>1, <2>1 DEF Deciding, IsNode
<1>3. CASE Replay \/ Begin \/ Complete
  BY <1>3 DEF Replay, Begin, Complete, disk
<1>4. CASE Reject \/ Raise \/ LoseLease
  BY <1>4 DEF Reject, Raise, LoseLease, FlowStops, disk
<1>5. CASE WriteVerdict \/ VerdictRaises
  BY <1>1, <1>5 DEF WriteVerdict, VerdictRaises, AtNode, IsNode, disk
<1>6. CASE Crash
  BY <1>6 DEF Crash, disk
<1>7. CASE UNCHANGED vars
  BY <1>7 DEF vars, disk
<1> QED BY <1>2, <1>3, <1>4, <1>5, <1>6, <1>7 DEF Next, FlowStep, Ended

LEMMA ReturnsStep ==
  ASSUME Inv, Returns, [Next]_vars
  PROVE  Returns'
<1>1. CASE NodeStep
  <2>1. Gives
    BY <1>1, NodeGives DEF Returns
  <2>2. Node' = Node
    BY <1>1, NodeRuns DEF Node
  <2> QED BY <2>1, <2>2 DEF Gives, Returns
<1>2. CASE ~NodeStep /\ doing' # "returned"
  BY <1>2, DiskStays DEF Returns
<1>3. CASE ~NodeStep /\ doing' = "returned"
  <2>1. UNCHANGED vars
    BY <1>3, DiskStays
  <2>2. Node' = Node /\ doing' = doing /\ patch' = patch /\ code' = code /\ audited' = audited
        /\ record' = record
    BY <2>1 DEF vars, memory, disk, Node
  <2> QED BY <2>2 DEF Returns
<1> QED BY <1>1, <1>2, <1>3

\* A node is passed when its patch is applied, fresh or replayed.
Passing == Replay \/ Complete

\* What a passed node leaves, with checkpoints.
LEMMA Passes ==
  ASSUME Inv, Marked, Returns, Stored, Passing, [Next]_vars
  PROVE  /\ IsNode /\ todo # <<>> /\ Stands(Node, Tag) /\ Place \in NodeStages
         /\ Node \notin {"if", "verdict"}
         /\ \/ Place' = "blocked" /\ Node \in Blockers
            \/ /\ Advances
               /\ Place = "gather" => /\ CoderAhead => CoderAhead' \/ Node = "coder"
                                      /\ CoderAhead' => CoderAhead
         /\ round' = round /\ overlay' = overlay /\ dyn' = dyn /\ crashes' = crashes
         /\ coded' = (coded \/ Node = "coder")
         /\ status' = status /\ doing' = "idle"
         /\ g'.material_refresh_actions = g.material_refresh_actions
         /\ g.material_refresh_actions = <<>> => (g'.force_analyst <=> g.force_analyst)
         /\ g'.round_output = IF Node = "executor" THEN "stop" ELSE g.round_output
         /\ \A n, t, q : n = Node /\ t = Tag /\ q = Turn =>
              /\ Done(n, t, q)'
              /\ n \in {"analyst", "auditor"} =>
                   g'.next_actions = Value(Output(n, t, q), "next_actions")'
              /\ Replay \/ n = "executor" =>
                   g'.execution_record = Value(Output(n, t, q), "execution_record")'
              /\ n = "dynamic" /\ g'.dynamic_continuation = "resume_static" =>
                   g'.dynamic_resume_overlay = Value(Output(n, t, q), "dynamic_resume_overlay")'
         /\ Complete => doing = "returned"
         /\ Complete /\ Node # "executor" => g'.execution_record = g.execution_record
         /\ Complete /\ Node = "auditor" => code # "none" /\ audited
<1>1. TypeInv /\ Shape /\ DOMAIN g = Fields
  BY DEF Inv, TypeInv
<1> DEFINE p == IF Replay THEN Replayed(Head(todo)) ELSE patch
<1>2. /\ IsNode /\ Apply(Head(todo), p) /\ Fits(p) /\ doing' = "idle" /\ crashes' = crashes
      /\ status' = status /\ todo # <<>>
      /\ Complete => doing = "returned"
      /\ Replay => doing = "idle" /\ Completed(Head(todo)) /\ ckpt' = ckpt
      /\ ~Replay => Complete /\ Storable(patch) /\ SetCheckpoint(Head(todo), "completed", patch)
  <2>1. CASE Replay
    BY <1>1, <2>1, ReplayFits DEF Replay, IsNode, Complete
  <2>2. CASE ~Replay
    BY <1>1, <2>2 DEF Passing, Complete, TypeInv, IsNode
  <2> QED BY <2>1, <2>2
<1>3. Replay => ~Complete
  BY <1>2
<1>4. DOMAIN p \subseteq DOMAIN Defaults
  <2>1. CASE Replay
    BY <2>1, ReplayedIs
  <2>2. CASE ~Replay
    BY <1>2, <2>2 DEF Storable
  <2> QED BY <2>1, <2>2
<1>5. "round_output" \notin DOMAIN p /\ "material_refresh_actions" \notin DOMAIN p
  BY <1>4, DefaultFields
<1>6. Stands(Node, Tag) /\ Place \in NodeStages /\ Node \notin {"if", "verdict"}
  BY <1>1, <1>2, NodePlace
<1>7. ASSUME NEW n, NEW t, NEW q, n = Node, t = Tag, q = Turn
      PROVE  /\ Done(n, t, q)'
             /\ Replay => Output(n, t, q)' = Checkpoint(Head(todo)).output
             /\ ~Replay => Output(n, t, q)' = patch
  <2>1. CASE Replay
    <3>1. Key(Head(todo)) = << <<n, t>>, q>>
      BY <1>1, <1>2, <1>7, NameIs
    <3>2. Key(Head(todo)) \in DOMAIN ckpt
      BY <1>2, <2>1 DEF Completed, Checkpoint, NoCheckpoint
    <3>3. Done(n, t, q) /\ Output(n, t, q) = Checkpoint(Head(todo)).output
      BY <3>1, <3>2, <1>2, <2>1 DEF Completed, Checkpoint, Done, Begun, Output
    <3> QED BY <3>3, <1>2, <2>1, HistoryStays
  <2>2. CASE ~Replay
    BY <1>1, <1>2, <1>7, <2>2, Writes
  <2> QED BY <2>1, <2>2
<1>9. /\ round' = round /\ overlay' = overlay /\ dyn' = dyn
      /\ coded' = (coded \/ Node = "coder")
  BY <1>2 DEF Apply, Node
<1>10. \/ Place' = "blocked" /\ Node \in Blockers
       \/ /\ Advances
          /\ Place = "gather" => /\ CoderAhead => CoderAhead' \/ Node = "coder"
                                 /\ CoderAhead' => CoderAhead
  BY <1>1, <1>2, ApplyMoves DEF Blockers
<1>11. /\ g'.next_actions = IF "next_actions" \in DOMAIN p THEN p.next_actions ELSE g.next_actions
       /\ g'.execution_record =
            IF "execution_record" \in DOMAIN p THEN p.execution_record ELSE g.execution_record
       /\ g'.dynamic_continuation =
            IF "dynamic_continuation" \in DOMAIN p THEN p.dynamic_continuation
                                                   ELSE g.dynamic_continuation
       /\ g'.dynamic_resume_overlay =
            IF "dynamic_resume_overlay" \in DOMAIN p THEN p.dynamic_resume_overlay
                                                     ELSE g.dynamic_resume_overlay
       /\ g'.round_output = IF Node = "executor" THEN "stop" ELSE g.round_output
       /\ g'.material_refresh_actions = g.material_refresh_actions
       /\ g.material_refresh_actions = <<>> => (g'.force_analyst <=> g.force_analyst)
  <2>1. Apply(Head(todo), p) /\ DOMAIN g = Fields
        /\ "round_output" \notin DOMAIN p /\ "material_refresh_actions" \notin DOMAIN p
    BY <1>1, <1>2, <1>5
  <2>2. Node = Head(todo)[1]
    BY DEF Node
  <2> DEFINE s == Head(todo)
  <2> HIDE DEF p
  <2>3. g'.force_analyst = IF s[1] = "evidence_compiler"
                            THEN g.force_analyst \/ g'.material_refresh_actions # <<>>
                            ELSE g.force_analyst
    BY <2>1, Applies
  <2>4. g'.material_refresh_actions = g.material_refresh_actions
    BY <2>1, Applies
  <2>5. g'.round_output = IF Node = "executor" THEN "stop" ELSE g.round_output
    BY <2>1, <2>2, Applies
  <2>6. g.material_refresh_actions = <<>> => (g'.force_analyst <=> g.force_analyst)
    BY <2>3, <2>4
  <2>7. /\ g'.next_actions = IF "next_actions" \in DOMAIN p THEN p.next_actions ELSE g.next_actions
        /\ g'.execution_record =
            IF "execution_record" \in DOMAIN p THEN p.execution_record ELSE g.execution_record
        /\ g'.dynamic_continuation =
            IF "dynamic_continuation" \in DOMAIN p THEN p.dynamic_continuation
                                                   ELSE g.dynamic_continuation
        /\ g'.dynamic_resume_overlay =
            IF "dynamic_resume_overlay" \in DOMAIN p THEN p.dynamic_resume_overlay
                                                     ELSE g.dynamic_resume_overlay
    BY <2>1, Applies
  <2> QED BY <2>4, <2>5, <2>6, <2>7
<1>12. ASSUME NEW n, NEW t, NEW q, n = Node, t = Tag, q = Turn
       PROVE  /\ n \in {"analyst", "auditor"} =>
                   g'.next_actions = Value(Output(n, t, q), "next_actions")'
              /\ Replay \/ n = "executor" =>
                   g'.execution_record = Value(Output(n, t, q), "execution_record")'
              /\ n = "dynamic" /\ g'.dynamic_continuation = "resume_static" =>
                   g'.dynamic_resume_overlay = Value(Output(n, t, q), "dynamic_resume_overlay")'
  <2>1. CASE Replay
    <3> DEFINE out == Checkpoint(Head(todo)).output
    <3>1. Output(n, t, q)' = out
      BY <1>7, <1>12, <2>1
    <3>2. /\ DOMAIN p = DOMAIN Defaults
          /\ p.next_actions = IF "next_actions" \in DOMAIN out THEN out.next_actions ELSE <<>>
          /\ p.execution_record =
               IF "execution_record" \in DOMAIN out THEN out.execution_record ELSE "none"
          /\ p.dynamic_resume_overlay =
               IF "dynamic_resume_overlay" \in DOMAIN out THEN out.dynamic_resume_overlay
                                                          ELSE NoOverlay
      BY <2>1, ReplayedIs
    <3>3. /\ Defaults.next_actions = <<>> /\ Defaults.execution_record = "none"
          /\ Defaults.dynamic_resume_overlay = NoOverlay
      BY DEF Defaults
    <3> HIDE DEF out
    <3> QED BY <3>1, <3>2, <3>3, <1>11, DefaultFields DEF Value
  <2>2. CASE ~Replay
    <3>1. Output(n, t, q)' = patch /\ p = patch /\ doing = "returned"
      BY <1>2, <1>7, <1>12, <2>2
    <3>2. n = "executor" =>
            g'.execution_record = Value(Output(n, t, q), "execution_record")'
      BY <3>1, <1>11, <1>12 DEF Returns, Value
    <3>3. n \in {"analyst", "auditor"} =>
            g'.next_actions = Value(Output(n, t, q), "next_actions")'
      BY <3>1, <1>11, <1>12 DEF Returns, Value
    <3>4. n = "dynamic" /\ g'.dynamic_continuation = "resume_static" =>
            g'.dynamic_resume_overlay = Value(Output(n, t, q), "dynamic_resume_overlay")'
      BY <3>1, <1>11, <1>12 DEF Returns, Value
    <3> QED BY <2>2, <3>2, <3>3, <3>4
  <2> QED BY <2>1, <2>2
<1>13. Complete /\ Node # "executor" => g'.execution_record = g.execution_record
  BY <1>2, <1>3, <1>11 DEF Returns
<1>14. Complete /\ Node = "auditor" => code # "none" /\ audited
  BY <1>2, <1>3 DEF Returns, Storable
<1> HIDE DEF p
<1> QED BY <1>2, <1>6, <1>7, <1>9, <1>10, <1>11, <1>12, <1>13, <1>14
-----------------------------------------------------------------------------
(* The kinds of steps *)

\* A decision, by the stages between which it is taken.
Decision ==
  \/ /\ Place = "start" /\ Place' = "prepare"
     /\ overlay' = Chosen(g.dynamic_resume_overlay)
     /\ g' = g /\ round' = round /\ coded' = coded /\ dyn' = dyn
  \/ /\ Place = "prepare" /\ Place' = "fetch"
     /\ g' = g /\ round' = round /\ overlay' = overlay /\ coded' = coded /\ dyn' = dyn
  \/ /\ Place = "fetch" /\ AnalystAsked /\ Place' = "analyse"
     /\ g' = g /\ round' = round /\ overlay' = overlay /\ coded' = coded /\ dyn' = dyn
  \/ /\ Place = "fetch" /\ ~AnalystAsked /\ Place' = "plan"
     /\ g'.next_actions = Coders(overlay.next) /\ g'.round_output = g.round_output
     /\ round' = round /\ overlay' = overlay /\ coded' = coded /\ dyn' = dyn
  \/ /\ Place = "plan" /\ Place' = "gather"
     /\ CoderAhead' <=> "coder" \in Elements(g.next_actions) /\ "coder" \notin overlay.skip
     /\ ~coded' /\ (dyn' <=> "dynamic" \in Elements(g.next_actions))
     /\ g' = g /\ round' = round /\ overlay' = overlay
  \/ /\ Place = "gather" /\ Place' = "gather"
     /\ CoderAhead => CoderAhead'
     /\ CoderAhead' => CoderAhead \/ (g.force_analyst /\ "coder" \notin overlay.skip)
     /\ g' = g /\ round' = round /\ overlay' = overlay /\ coded' = coded /\ dyn' = dyn
  \/ /\ Place = "gather" /\ ~CoderAhead
     /\ Place' = IF Forced(overlay) /\ ~coded THEN "code" ELSE "audit"
     /\ g' = g /\ round' = round /\ overlay' = overlay /\ coded' = coded /\ dyn' = dyn
  \/ /\ Place = "judge"
     /\ Place' = IF g.next_actions = <<"debugger">> THEN "debug" ELSE "choose"
     /\ g' = g /\ round' = round /\ overlay' = overlay /\ coded' = coded /\ dyn' = dyn
  \/ /\ Place = "choose" /\ coded /\ ~dyn /\ Place' = "execute"
     /\ g' = g /\ round' = round /\ overlay' = overlay /\ coded' = coded /\ dyn' = dyn
  \/ /\ Place = "choose" /\ Place' = "harvest"
     /\ g'.round_output = (IF dyn THEN "dynamic" ELSE "stop") /\ g'.next_actions = g.next_actions
     /\ round' = round /\ overlay' = overlay /\ coded' = coded /\ dyn' = dyn
  \/ /\ Place = "verify"
     /\ Place' = IF g.round_output = "verification_failed" THEN "repair" ELSE "harvest"
     /\ g' = g /\ round' = round /\ overlay' = overlay /\ coded' = coded /\ dyn' = dyn
  \/ /\ Place = "close"
     /\ \/ g.round_output = "again" /\ Place' = "start" /\ round' = round + 1
        \/ g.round_output = "dynamic" /\ Place' = "explore" /\ round' = round
        \/ Place' = "end" /\ round' = round
     /\ g' = g /\ overlay' = overlay /\ coded' = coded /\ dyn' = dyn
  \/ /\ Place = "return"
     /\ \/ /\ g.dynamic_continuation = "resume_static"
           /\ Place' = "start" /\ round' = round + 1
        \/ Place' = "end" /\ round' = round
     /\ g' = g /\ overlay' = overlay /\ coded' = coded /\ dyn' = dyn

\* Every decision is one of Decision, and what it leaves as it is.
LEMMA Decided ==
  ASSUME Inv, Decide
  PROVE  /\ Decision /\ Place' # "over"
         /\ g'.material_refresh_actions = g.material_refresh_actions
         /\ g'.force_analyst = g.force_analyst
         /\ g'.dynamic_resume_overlay = g.dynamic_resume_overlay
         /\ g'.dynamic_continuation = g.dynamic_continuation
         /\ g'.execution_record = g.execution_record
         /\ crashes' = crashes /\ status' = status /\ ckpt' = ckpt
         /\ code' = code /\ audited' = audited /\ record' = record
         /\ doing = "idle" /\ doing' = "idle"
<1>0. TypeInv /\ Shape /\ DOMAIN g = Fields
  BY DEF Inv, TypeInv
<1>1. Deciding
  BY Decisions
<1>2. doing = "idle" /\ doing' = "idle"
  BY <1>0, <1>1 DEF Deciding, TypeInv, IsNode
<1> DEFINE Rest == /\ g'.material_refresh_actions = g.material_refresh_actions
                   /\ g'.force_analyst = g.force_analyst
                   /\ g'.dynamic_resume_overlay = g.dynamic_resume_overlay
                   /\ g'.dynamic_continuation = g.dynamic_continuation
                   /\ g'.execution_record = g.execution_record
<1>3. g' = g => Rest
  OBVIOUS
<1>4. \A x : g' = [g EXCEPT !.next_actions = x]
        => Rest /\ g'.next_actions = x /\ g'.round_output = g.round_output
  BY <1>0 DEF Fields
<1>5. \A x : g' = [g EXCEPT !.round_output = x]
        => Rest /\ g'.round_output = x /\ g'.next_actions = g.next_actions
  BY <1>0 DEF Fields
<1> SUFFICES Decision /\ Rest
  <2>1. Decision => Place' # "over"
    BY DEF Decision
  <2> QED BY <1>1, <1>2, <2>1 DEF Rest, Deciding
<1> HIDE DEF Rest
<1>6. CASE DecideOverlay
  BY <1>0, <1>3, <1>6, OverlayMoves DEF DecideOverlay, Decision, Chosen
<1>7. CASE DecidePreparation
  BY <1>0, <1>3, <1>7, PreparationMoves DEF DecidePreparation, Decision
<1>8. CASE DecideAnalyst
  <2>1. round' = round /\ overlay' = overlay /\ coded' = coded /\ dyn' = dyn
    BY <1>8 DEF DecideAnalyst
  <2> QED BY <1>0, <1>3, <1>4, <1>8, <2>1, AnalystMoves DEF Decision
<1>9. CASE DecidePlan
  <2>1. /\ round' = round /\ overlay' = overlay /\ g' = g /\ ~coded'
        /\ dyn' <=> "dynamic" \in Elements(g.next_actions)
    BY <1>9 DEF DecidePlan
  <2> QED BY <1>0, <1>3, <1>9, <2>1, PlanMoves DEF Decision
<1>10. CASE DecideRefreshed
  BY <1>0, <1>3, <1>10, RefreshedMoves DEF DecideRefreshed, Decision
<1>11. CASE DecideCoder
  BY <1>0, <1>3, <1>11, CoderMoves DEF DecideCoder, Decision, CoderForced, Forced
<1>12. CASE DecideDebugger
  BY <1>0, <1>3, <1>12, DebuggerMoves DEF DecideDebugger, Decision
<1>13. CASE DecideExecutor
  <2>1. round' = round /\ overlay' = overlay /\ coded' = coded /\ dyn' = dyn
    BY <1>13 DEF DecideExecutor
  <2> QED BY <1>0, <1>3, <1>5, <1>13, <2>1, ExecutorMoves DEF Decision
<1>14. CASE DecideVerified
  BY <1>0, <1>3, <1>14, VerifiedMoves DEF DecideVerified, Decision
<1>15. CASE DecideRound
  <2>1. g' = g /\ overlay' = overlay /\ coded' = coded /\ dyn' = dyn
    BY <1>15 DEF DecideRound
  <2> QED BY <1>0, <1>3, <1>15, <2>1, CloseMoves, RoundMoves DEF Decision
<1>16. CASE DecideResumed
  <2>1. g' = g /\ overlay' = overlay /\ coded' = coded /\ dyn' = dyn
    BY <1>16 DEF DecideResumed
  <2> QED BY <1>0, <1>3, <1>16, <2>1, ReturnMoves, RoundMoves DEF Decision
<1> QED BY <1>6, <1>7, <1>8, <1>9, <1>10, <1>11, <1>12, <1>13, <1>14, <1>15, <1>16 DEF Decide

\* Steps that leave the flow where it is, that end it, and a restart.
Staying ==
  /\ Begin \/ NodeStep \/ UNCHANGED vars
  /\ todo' = todo /\ Place' = Place /\ Node' = Node /\ (CoderAhead' <=> CoderAhead)
  /\ g' = g /\ round' = round /\ overlay' = overlay /\ coded' = coded /\ dyn' = dyn
  /\ crashes' = crashes

Leaving ==
  /\ Place' \in {"failure", "lost", "over"}
  /\ g' = g /\ round' = round /\ crashes' = crashes /\ doing' = "idle"

Restarting ==
  /\ todo # <<>>
  /\ Place' \in {"start", "over"}
  /\ g' = Fresh(<<>>, NoOverlay) /\ round' = 0 /\ crashes' # 0 /\ doing' = "idle"
  /\ status' = status /\ ckpt' = ckpt

\* Every step is of one of the five kinds.
LEMMA Kinds ==
  ASSUME Inv, [Next]_vars
  PROVE  /\ Decide \/ Passing \/ Staying \/ Leaving \/ Restarting
         /\ Begin => Staying /\ IsNode /\ Stands(Node, Tag) /\ Place \in NodeStages
         /\ NodeStep => Staying /\ IsNode /\ Stands(Node, Tag) /\ Place \in NodeStages
         /\ scenario' = scenario
<1>0. TypeInv /\ Shape
  BY DEF Inv
<1>1. scenario' = scenario
  BY DEF Next, FlowStep, Ended, vars
<1>2. ASSUME todo' = todo, g' = g, round' = round, overlay' = overlay, coded' = coded, dyn' = dyn,
             crashes' = crashes, Begin \/ NodeStep \/ UNCHANGED vars
      PROVE  Staying
  BY <1>0, <1>2, FlowMoves DEF Staying, Node, CoderAhead
<1>3. ASSUME Begin PROVE Staying /\ IsNode /\ Stands(Node, Tag) /\ Place \in NodeStages
  <2>1. Staying /\ IsNode
    BY <1>2, <1>3 DEF Begin
  <2> QED BY <1>0, <2>1, NodePlace
<1>4. ASSUME NodeStep PROVE Staying /\ IsNode /\ Stands(Node, Tag) /\ Place \in NodeStages
  <2>1. Staying
    BY <1>2, <1>4, NodeRuns
  <2>2. IsNode
    BY <1>0, <1>4, NodeRuns DEF TypeInv
  <2> QED BY <1>0, <2>1, <2>2, NodePlace
<1>5. CASE Reject \/ Raise \/ LoseLease
  <2>1. (FlowStops(Failure) \/ FlowStops(Lost)) /\ crashes' = crashes
    BY <1>5 DEF Reject, Raise, LoseLease, FlowStops
  <2> QED BY <1>0, <1>1, <1>3, <1>4, <2>1, FlowMoves DEF Leaving, FlowStops
<1>6. CASE WriteVerdict \/ VerdictRaises
  <2>1. g' = g /\ round' = round /\ crashes' = crashes /\ doing' = doing /\ doing = "idle"
    BY <1>0, <1>6 DEF WriteVerdict, VerdictRaises, AtNode, IsNode, TypeInv
  <2> QED BY <1>0, <1>1, <1>3, <1>4, <1>6, <2>1, FlowMoves DEF Leaving
<1>7. CASE Crash
  <2>1. crashes' # 0
    BY <1>0, <1>7, <1>1, Scenario DEF Crash, TypeInv
  <2> QED BY <1>0, <1>1, <1>3, <1>4, <1>7, <2>1, FlowMoves DEF Crash, Restarting
<1>8. CASE UNCHANGED vars
  BY <1>1, <1>2, <1>3, <1>4, <1>8 DEF vars, memory
<1> QED BY <1>1, <1>3, <1>4, <1>5, <1>6, <1>7, <1>8 DEF Next, FlowStep, Ended, Passing
-----------------------------------------------------------------------------
(* With checkpoints, code that runs has been audited *)

\* What the flow keeps to when it has checkpoints.
Histories ==
  /\ Marked /\ Storing /\ Overlaid /\ Planning /\ Coding /\ Auditing /\ Rounds /\ Unaudited

\* The node that runs at a stage, and the number in its name.
LEMMA NodesAt ==
  ASSUME Stands(Node, Tag), Node \notin {"if", "verdict"}
  PROVE  /\ Place \in {"prepare", "fetch"} =>
              Node \in {"evidence_compiler", "data_inspector", "kag_retriever", "context_builder"}
         /\ Place = "analyse" => Node = "analyst" /\ Tag = "" /\ Turn = round
         /\ Place = "gather" =>
              /\ Node \in {"evidence_compiler", "data_inspector", "kag_retriever",
                           "context_builder", "static_evidence", "analyst", "coder"}
              /\ Node = "analyst" => Tag # ""
              /\ Node = "coder" => Tag = "" /\ Turn = round
         /\ Place = "code" => Node = "coder" /\ Tag = "" /\ Turn = round
         /\ Place = "audit" => Node = "auditor" /\ Tag = "" /\ Turn = round
         /\ Place = "debug" => Node = "debugger" /\ Tag = "" /\ Turn = round
         /\ Place = "reaudit" => Node = "auditor" /\ Tag = "post_debug" /\ Turn = round
         /\ Place = "execute" => Node = "executor" /\ Tag = "" /\ Turn = round
         /\ Place = "harvest" => Node = "skill_harvester" /\ Tag = "" /\ Turn = round
         /\ Place = "explore" => Node = "dynamic" /\ Tag = "" /\ Turn = 0
         /\ Place \in {"end", "blocked"} => Node = "summarizer" /\ Tag = "" /\ Turn = 0
<1>1. /\ Place \in {"prepare", "fetch"} =>
              Node \in {"evidence_compiler", "data_inspector", "kag_retriever", "context_builder"}
      /\ Place = "analyse" => Node = "analyst" /\ Tag = ""
      /\ Place = "gather" =>
              /\ Node \in {"evidence_compiler", "data_inspector", "kag_retriever",
                           "context_builder", "static_evidence", "analyst", "coder"}
              /\ Node = "analyst" => Tag # ""
              /\ Node = "coder" => Tag = ""
  BY DEF Stands
<1>2. /\ Place = "code" => Node = "coder" /\ Tag = ""
      /\ Place = "audit" => Node = "auditor" /\ Tag = ""
      /\ Place = "debug" => Node = "debugger" /\ Tag = ""
      /\ Place = "reaudit" => Node = "auditor" /\ Tag = "post_debug"
  BY DEF Stands
<1>3. /\ Place = "execute" => Node = "executor" /\ Tag = ""
      /\ Place = "harvest" => Node = "skill_harvester" /\ Tag = ""
      /\ Place = "explore" => Node = "dynamic" /\ Tag = ""
      /\ Place \in {"end", "blocked"} => Node = "summarizer" /\ Tag = ""
  BY DEF Stands
<1>4. /\ Node \in {"analyst", "coder", "auditor", "debugger", "executor", "skill_harvester"}
           => Turn = round
      /\ Node \in {"dynamic", "summarizer"} => Turn = 0
  BY DEF Turn, PerRound
<1> QED BY <1>1, <1>2, <1>3, <1>4

LEMMA StoringStep ==
  ASSUME Inv, Returns, Stored, Marked, Storing, [Next]_vars
  PROVE  Storing'
<1>1. CASE Decide
  BY <1>1, Decided DEF Decision, Storing
<1>2. CASE Passing
  <2>1. /\ Stands(Node, Tag) /\ Place \in NodeStages /\ Node \notin {"if", "verdict"}
        /\ Place' = "blocked" \/ Advances
        /\ dyn' = dyn
        /\ g'.material_refresh_actions = g.material_refresh_actions
        /\ g.material_refresh_actions = <<>> => (g'.force_analyst <=> g.force_analyst)
        /\ g'.round_output = IF Node = "executor" THEN "stop" ELSE g.round_output
    BY <1>2, Passes
  <2>2. /\ Place = "execute" => Node = "executor"
        /\ Place = "harvest" => Node # "executor"
    BY <2>1, NodesAt
  <2> QED BY <2>1, <2>2 DEF Storing, Advances, NodeStages
<1>3. CASE Staying
  BY <1>3 DEF Staying, Storing
<1>4. CASE Leaving
  BY <1>4 DEF Leaving, Storing
<1>5. CASE Restarting
  BY <1>5 DEF Restarting, Storing, Fresh
<1> QED BY <1>1, <1>2, <1>3, <1>4, <1>5, Kinds

\* Plans, requests and the dynamic path's overlay do not change once written.
LEMMA Fixed ==
  ASSUME Growth, NEW q
  PROVE  /\ Done("analyst", "", q) => Plan(q)' = Plan(q)
         /\ Done("auditor", "", q) => Request(q)' = Request(q)
         /\ GoesDynamic(q) => GoesDynamic(q)'
         /\ q = 0 \/ Done("dynamic", "", 0) => OverlayOf(q)' = OverlayOf(q)
         /\ \A o : (AnalystRuns(o) => Done("analyst", "", q)) => PlanOf(q, o)' = PlanOf(q, o)
<1>1. Done("analyst", "", q) => Plan(q)' = Plan(q) /\ Done("analyst", "", q)'
  BY DEF Growth, Plan, Value
<1>2. Done("auditor", "", q) => Request(q)' = Request(q)
  BY DEF Growth, Request, Value
<1>3. GoesDynamic(q) => GoesDynamic(q)'
  BY <1>1 DEF GoesDynamic
<1>4. q = 0 \/ Done("dynamic", "", 0) => OverlayOf(q)' = OverlayOf(q)
  BY DEF Growth, OverlayOf, Value
<1>5. \A o : (AnalystRuns(o) => Done("analyst", "", q)) => PlanOf(q, o)' = PlanOf(q, o)
  BY <1>1 DEF PlanOf
<1> QED BY <1>1, <1>2, <1>3, <1>4, <1>5

\* The order of the rounds.
LEMMA RoundIs ==
  ASSUME Inv
  PROVE  /\ round \in Numbers /\ Later(round + 1) /\ round + 1 \in Numbers
         /\ Turn = 0 \/ Turn = round
         /\ \A q : Earlier(q, round + 1) => q = round \/ Earlier(q, round)
         /\ \A q : Earlier(round + 1, q) => Earlier(round, q)
         /\ Earlier(round, round + 1) /\ ~Earlier(round, round)
         /\ \A q \in Numbers : q = round \/ Earlier(q, round) \/ Earlier(round, q)
<1>1. round \in Nat
  BY FlowParameters DEF Inv, TypeInv
<1>2. /\ round \in Numbers /\ Later(round + 1) /\ round + 1 \in Numbers
      /\ \A q : Earlier(q, round + 1) => q = round \/ Earlier(q, round)
      /\ Earlier(round, round + 1) /\ ~Earlier(round, round)
      /\ \A q \in Numbers : q = round \/ Earlier(q, round) \/ Earlier(round, q)
  BY <1>1 DEF Numbers, Earlier, Later
<1>3. \A q : Earlier(round + 1, q) => Earlier(round, q)
  <2>1. \A q \in Nat : round + 1 < q => round < q
    BY <1>1
  <2> QED BY <1>1, <2>1 DEF Earlier
<1>4. Turn = 0 \/ Turn = round
  BY DEF Turn
<1> QED BY <1>2, <1>3, <1>4

LEMMA NothingEarlier == \A q : ~Earlier(q, 0)
BY DEF Earlier

LEMMA OverlaidStep ==
  ASSUME Inv, Returns, Stored, Marked, Storing, Overlaid, [Next]_vars
  PROVE  Overlaid'
<1>0. Growth
  BY GrowthOf
<1>1. Later(round + 1) /\ (Turn = 0 \/ Turn = round)
  BY RoundIs
<1>2. Done("dynamic", "", 0) => Done("dynamic", "", 0)'
      /\ Output("dynamic", "", 0)' = Output("dynamic", "", 0)
  BY <1>0 DEF Growth
<1>3. \A q : q = 0 \/ Done("dynamic", "", 0) => OverlayOf(q)' = OverlayOf(q)
  BY <1>0, Fixed
<1>a. /\ Later(round) => Done("dynamic", "", 0)
      /\ \A k \in DOMAIN ckpt : Later(k[2]) => Done("dynamic", "", 0)
      /\ Place = "start" /\ Again => Chosen(g.dynamic_resume_overlay) = OverlayOf(round)
      /\ Place \in InRound /\ Again => overlay = OverlayOf(round)
  BY DEF Overlaid
<1>b. Place = "return" =>
       /\ Done("dynamic", "", 0)
       /\ g.dynamic_continuation = "resume_static" =>
            g.dynamic_resume_overlay
              = Value(Output("dynamic", "", 0), "dynamic_resume_overlay")
  BY DEF Overlaid
<1>c. round = 0 \/ Done("dynamic", "", 0)
  BY DEF Overlaid, Later
<1>4. \A k \in DOMAIN ckpt' : Later(k[2]) => Done("dynamic", "", 0)'
  <2> SUFFICES ASSUME NEW k \in DOMAIN ckpt', Later(k[2]) PROVE Done("dynamic", "", 0)'
    OBVIOUS
  <2>1. k \in DOMAIN ckpt \/ k[2] = Turn
    BY <1>0 DEF Growth
  <2>2. k[2] = Turn => Later(round)
    BY <1>1 DEF Later
  <2> QED BY <1>2, <1>a, <2>1, <2>2
<1>5. Chosen(NoOverlay) = NoOverlay
  BY DEF Chosen
<1>6. CASE Decide
  <2>1. /\ Decision /\ crashes' = crashes
        /\ g'.dynamic_resume_overlay = g.dynamic_resume_overlay
    BY <1>6, Decided
  <2>2. g.round_output # "again"
    BY DEF Storing
  <2>3. Place' # "return"
    BY <2>1 DEF Decision
  <2>4. round' = round \/ (Place = "return" /\ Place' = "start" /\ round' = round + 1
                            /\ g.dynamic_continuation = "resume_static")
    BY <2>1, <2>2 DEF Decision
  <2>5. Later(round') => Done("dynamic", "", 0)
    BY <2>4, <1>a, <1>b
  <2>6. Place' = "start" =>
          /\ Later(round')
          /\ g.dynamic_resume_overlay
               = Value(Output("dynamic", "", 0), "dynamic_resume_overlay")
    <3>1. Place' = "start" => Place = "return" /\ round' = round + 1
                              /\ g.dynamic_continuation = "resume_static"
      BY <2>1, <2>2 DEF Decision
    <3> QED BY <1>1, <1>b, <3>1
  <2>7. Place' = "start" => Chosen(g'.dynamic_resume_overlay) = OverlayOf(round)'
    <3> HAVE Place' = "start"
    <3>1. Output("dynamic", "", 0)' = Output("dynamic", "", 0)
      BY <1>2, <2>5, <2>6
    <3> QED BY <2>1, <2>6, <3>1 DEF OverlayOf, Value, Later
  <2>8. Place' \in InRound /\ Again' => overlay' = OverlayOf(round)'
    <3> HAVE Place' \in InRound /\ Again'
    <3>1. /\ round' = round /\ Again
          /\ \/ Place = "start" /\ overlay' = Chosen(g.dynamic_resume_overlay)
             \/ Place \in InRound /\ overlay' = overlay
      BY <2>1, <2>2 DEF Decision, InRound, Planned, Opening, Again
    <3>2. overlay' = OverlayOf(round)
      <4>1. Place = "start" => Chosen(g.dynamic_resume_overlay) = OverlayOf(round)
        BY <3>1 DEF Overlaid
      <4>2. Place \in InRound => overlay = OverlayOf(round)
        BY <3>1 DEF Overlaid
      <4> QED BY <3>1, <4>1, <4>2
    <3> QED BY <1>3, <1>c, <3>1, <3>2
  <2> QED BY <1>2, <1>4, <2>3, <2>5, <2>7, <2>8 DEF Overlaid
<1>7. CASE Passing
  <2>1. /\ Stands(Node, Tag) /\ Place \in NodeStages /\ Node \notin {"if", "verdict"}
        /\ Place' = "blocked" \/ Advances
        /\ round' = round /\ overlay' = overlay /\ crashes' = crashes
    BY <1>7, Passes
  <2>2. Place' # "start"
    BY <2>1 DEF Advances, NodeStages
  <2>3. Place' \in InRound => Place \in InRound
    BY <2>1 DEF Storing, Advances, NodeStages, InRound, Planned, Opening
  <2>4. Place' = "return" => Place = "explore"
    BY <2>1 DEF Advances, NodeStages
  <2>5. Place' = "return" =>
          /\ Done("dynamic", "", 0)'
          /\ g'.dynamic_continuation = "resume_static" =>
               g'.dynamic_resume_overlay
                 = Value(Output("dynamic", "", 0), "dynamic_resume_overlay")'
    <3>1. Place = "explore" => Node = "dynamic" /\ Tag = "" /\ Turn = 0
      BY <2>1, NodesAt
    <3> QED BY <1>7, <2>4, <3>1, Passes
  <2>7. OverlayOf(round)' = OverlayOf(round)
    BY <1>3, <1>c, <2>1
  <2> QED BY <1>2, <1>4, <2>1, <2>2, <2>3, <2>5, <2>7 DEF Overlaid, Again
<1>8. CASE Staying
  <2>2. OverlayOf(round)' = OverlayOf(round)
    BY <1>3, <1>c, <1>8 DEF Staying
  <2> QED BY <1>2, <1>4, <1>8, <2>2 DEF Overlaid, Staying, Again, Value
<1>9. CASE Leaving
  BY <1>2, <1>4, <1>9 DEF Overlaid, Leaving, InRound, Planned, Opening
<1>10. CASE Restarting
  <2>1. OverlayOf(round)' = NoOverlay
    BY <1>10 DEF Restarting, OverlayOf
  <2>2. g'.dynamic_resume_overlay = NoOverlay
    BY <1>10 DEF Restarting, Fresh
  <2>3. Place' \in {"start", "over"} /\ round' = 0
    BY <1>10 DEF Restarting
  <2> QED BY <1>4, <1>5, <2>1, <2>2, <2>3 DEF Overlaid, InRound, Planned, Opening, Later
<1> QED BY <1>6, <1>7, <1>8, <1>9, <1>10, Kinds

\* What a step of the flow is, and what it does to the checkpoints.
LEMMA Steps ==
  ASSUME Inv, Marked, Stored, [Next]_vars
  PROVE  /\ \/ Decide
            \/ Passing
            \/ Staying /\ ~Passing
            \/ Leaving /\ ~Passing
            \/ Restarting
         /\ Growth
         /\ ~Begin => \A n, t, q : Begun(n, t, q)' <=> Begun(n, t, q)
         /\ ~Complete => \A n, t, q : Done(n, t, q)' <=> Done(n, t, q)
         /\ Decide \/ Passing \/ Leaving \/ Restarting => ~Begin
         /\ Decide \/ Restarting => ckpt' = ckpt
         /\ Begin => /\ Staying /\ ~Passing /\ Stands(Node, Tag) /\ Place \in NodeStages
                     /\ Node \notin {"if", "verdict"}
<1>1. Growth
  BY GrowthOf
<1>2. /\ Decide \/ Passing \/ Staying \/ Leaving \/ Restarting
      /\ Begin => Staying /\ IsNode /\ Stands(Node, Tag) /\ Place \in NodeStages
  BY Kinds
<1>3. ~Begin => \A n, t, q : Begun(n, t, q)' <=> Begun(n, t, q)
  BY <1>1 DEF Growth
<1>4. ~Complete => \A n, t, q : Done(n, t, q)' <=> Done(n, t, q)
  BY <1>1 DEF Growth
<1>5. Begin => doing' = "running" /\ ~Completed(Head(todo)) /\ doing = "idle"
  BY DEF Begin
<1>6. Decide => ckpt' = ckpt /\ doing' = "idle"
  BY Decided
<1>7. Begin => ~Passing
  BY <1>5 DEF Passing, Replay, Complete
<1>8. Begin => Node \notin {"if", "verdict"}
  BY DEF Begin, IsNode, Node
<1>9. Restarting => ckpt' = ckpt /\ doing' = "idle"
  BY DEF Restarting
<1>10. Leaving => doing' = "idle"
  BY DEF Leaving
<1> QED BY <1>1, <1>2, <1>3, <1>4, <1>5, <1>6, <1>7, <1>8, <1>9, <1>10

LEMMA OverlayFixed ==
  ASSUME Inv, Growth, Overlaid, NEW q, NEW n, NEW t, q = 0 \/ q = round \/ Begun(n, t, q)
  PROVE  OverlayOf(q)' = OverlayOf(q)
<1>2. q = round /\ Later(q) => Done("dynamic", "", 0)
  BY DEF Overlaid
<1>3. Begun(n, t, q) /\ Later(q) => Done("dynamic", "", 0)
  <2>1. \A k \in DOMAIN ckpt : Later(k[2]) => Done("dynamic", "", 0)
    BY DEF Overlaid
  <2> QED BY <2>1 DEF Begun
<1>1. q = 0 \/ Later(q)
  BY DEF Later
<1> QED BY <1>1, <1>2, <1>3, Fixed

\* What begins, at which stage, and of which round.
New(n, t, q) == Begun(n, t, q)' /\ ~Begun(n, t, q)

LEMMA BeginsAt ==
  ASSUME Inv, Marked, Stored, [Next]_vars
  PROVE  /\ \A n, t, q : New(n, t, q) => Begin /\ Staying /\ n = Node /\ t = Tag /\ q = Turn
         /\ \A q : New("analyst", "", q) => Place = "analyse" /\ q = round
         /\ \A t, q : New("coder", t, q) => Place \in {"code", "gather"} /\ t = "" /\ q = round
         /\ \A q : New("auditor", "", q) => Place = "audit" /\ q = round
         /\ \A q : New("auditor", "post_debug", q) => Place = "reaudit" /\ q = round
         /\ \A q : New("debugger", "", q) => Place = "debug" /\ q = round
         /\ \A q : New("executor", "", q) => Place = "execute" /\ q = round
         /\ \A q : New("skill_harvester", "", q) => Place = "harvest" /\ q = round
         /\ \A q : New("summarizer", "", q) => Place \in {"end", "blocked"}
<1>1. \A n, t, q : New(n, t, q) => Begin /\ Staying /\ n = Node /\ t = Tag /\ q = Turn
  BY Steps DEF New, Growth
<1>2. Begin => Stands(Node, Tag)
  BY Steps
<1>3. \A n, t, q : New(n, t, q) => Stands(n, t)
  BY <1>1, <1>2
<1>4. \A n, t, q : New(n, t, q) /\ n \in PerRound => q = round
  BY <1>1 DEF Turn
<1>5. \A q : New("analyst", "", q) => Place = "analyse" /\ q = round
  <2>1. Stands("analyst", "") => Place = "analyse"
    BY DEF Stands
  <2>2. "analyst" \in PerRound
    BY DEF PerRound
  <2> QED BY <1>3, <1>4, <2>1, <2>2
<1>6. \A q : New("auditor", "", q) => Place = "audit" /\ q = round
  <2>1. Stands("auditor", "") => Place = "audit"
    BY DEF Stands
  <2>2. "auditor" \in PerRound
    BY DEF PerRound
  <2> QED BY <1>3, <1>4, <2>1, <2>2
<1>7. \A q : New("auditor", "post_debug", q) => Place = "reaudit" /\ q = round
  <2>1. Stands("auditor", "post_debug") => Place = "reaudit"
    BY DEF Stands
  <2>2. "auditor" \in PerRound
    BY DEF PerRound
  <2> QED BY <1>3, <1>4, <2>1, <2>2
<1>8. \A q : New("debugger", "", q) => Place = "debug" /\ q = round
  <2>1. Stands("debugger", "") => Place = "debug"
    BY DEF Stands
  <2>2. "debugger" \in PerRound
    BY DEF PerRound
  <2> QED BY <1>3, <1>4, <2>1, <2>2
<1>9. \A q : New("executor", "", q) => Place = "execute" /\ q = round
  <2>1. Stands("executor", "") => Place = "execute"
    BY DEF Stands
  <2>2. "executor" \in PerRound
    BY DEF PerRound
  <2> QED BY <1>3, <1>4, <2>1, <2>2
<1>10. \A q : New("skill_harvester", "", q) => Place = "harvest" /\ q = round
  <2>1. Stands("skill_harvester", "") => Place = "harvest"
    BY DEF Stands
  <2>2. "skill_harvester" \in PerRound
    BY DEF PerRound
  <2> QED BY <1>3, <1>4, <2>1, <2>2
<1>11. \A t, q : New("coder", t, q) => Place \in {"code", "gather"} /\ t = "" /\ q = round
  <2>1. \A t : Stands("coder", t) => Place \in {"code", "gather"} /\ t = ""
    BY DEF Stands
  <2>2. "coder" \in PerRound
    BY DEF PerRound
  <2> QED BY <1>3, <1>4, <2>1, <2>2
<1>12. \A q : New("summarizer", "", q) => Place \in {"end", "blocked"}
  <2>1. Stands("summarizer", "") => Place \in {"end", "blocked"}
    BY DEF Stands
  <2> QED BY <1>3, <2>1
<1> QED BY <1>1, <1>5, <1>6, <1>7, <1>8, <1>9, <1>10, <1>11, <1>12

Closed(n, t, q) == Done(n, t, q)' /\ ~Done(n, t, q)

\* What is completed, at which stage, and of which round.
LEMMA EndsAt ==
  ASSUME Inv, Marked, Stored, Returns, [Next]_vars
  PROVE  /\ \A n, t, q : Closed(n, t, q) =>
              /\ Complete /\ Passing /\ Begun(n, t, q) /\ Output(n, t, q)' = patch
              /\ n = Node /\ t = Tag /\ q = Turn
         /\ \A q : Closed("analyst", "", q) => Place = "analyse" /\ q = round
         /\ \A q : Closed("coder", "", q) => Place \in {"code", "gather"} /\ q = round
         /\ \A q : Closed("auditor", "", q) => Place = "audit" /\ q = round /\ code # "none" /\ audited
         /\ \A q : Closed("auditor", "post_debug", q) => Place = "reaudit" /\ q = round /\ code # "none" /\ audited
         /\ \A q : Closed("debugger", "", q) => Place = "debug" /\ q = round
         /\ \A q : Closed("executor", "", q) => Place = "execute" /\ q = round
         /\ \A q : Closed("dynamic", "", q) => Place = "explore"
<1>1. \A n, t, q : Closed(n, t, q) =>
        /\ Complete /\ Output(n, t, q)' = patch
        /\ n = Node /\ t = Tag /\ q = Turn
  BY Steps DEF Closed, Growth
<1>2. Complete => /\ Passing /\ Stands(Node, Tag)
                  /\ Node = "auditor" => code # "none" /\ audited
  BY Passes DEF Passing
<1>3. \A n, t, q : Closed(n, t, q) => Stands(n, t) /\ Passing
  BY <1>1, <1>2
<1>4. \A n, t, q : Closed(n, t, q) /\ n \in PerRound => q = round
  BY <1>1 DEF Turn
<1>5. \A n, t, q : Closed(n, t, q) /\ n = "auditor" => code # "none" /\ audited
  BY <1>1, <1>2
<1>6. \A n, t, q : Closed(n, t, q) => Begun(n, t, q)
  <2>1. ~Begin => \A n, t, q : Begun(n, t, q)' <=> Begun(n, t, q)
    BY Steps
  <2>2. Passing => ~Begin
    BY Steps
  <2>3. \A n, t, q : Done(n, t, q)' => Begun(n, t, q)'
    BY DEF Done
  <2> QED BY <1>1, <1>3, <2>1, <2>2, <2>3 DEF Closed
<1>7. \A n, t, q : Closed(n, t, q) =>
        /\ Complete /\ Passing /\ Begun(n, t, q) /\ Output(n, t, q)' = patch
        /\ n = Node /\ t = Tag /\ q = Turn
  BY <1>1, <1>3, <1>6
<1>8. \A q : Closed("analyst", "", q) => Place = "analyse" /\ q = round
  <2>1. Stands("analyst", "") => Place = "analyse"
    BY DEF Stands
  <2>2. "analyst" \in PerRound
    BY DEF PerRound
  <2> QED BY <1>3, <1>4, <2>1, <2>2
<1>9. \A q : Closed("coder", "", q) => Place \in {"code", "gather"} /\ q = round
  <2>1. Stands("coder", "") => Place \in {"code", "gather"}
    BY DEF Stands
  <2>2. "coder" \in PerRound
    BY DEF PerRound
  <2> QED BY <1>3, <1>4, <2>1, <2>2
<1>10. \A q : Closed("auditor", "", q) => Place = "audit" /\ q = round /\ code # "none" /\ audited
  <2>1. Stands("auditor", "") => Place = "audit"
    BY DEF Stands
  <2>2. "auditor" \in PerRound
    BY DEF PerRound
  <2> QED BY <1>3, <1>4, <1>5, <2>1, <2>2
<1>11. \A q : Closed("auditor", "post_debug", q) => Place = "reaudit" /\ q = round /\ code # "none" /\ audited
  <2>1. Stands("auditor", "post_debug") => Place = "reaudit"
    BY DEF Stands
  <2>2. "auditor" \in PerRound
    BY DEF PerRound
  <2> QED BY <1>3, <1>4, <1>5, <2>1, <2>2
<1>12. \A q : Closed("debugger", "", q) => Place = "debug" /\ q = round
  <2>1. Stands("debugger", "") => Place = "debug"
    BY DEF Stands
  <2>2. "debugger" \in PerRound
    BY DEF PerRound
  <2> QED BY <1>3, <1>4, <2>1, <2>2
<1>13. \A q : Closed("executor", "", q) => Place = "execute" /\ q = round
  <2>1. Stands("executor", "") => Place = "execute"
    BY DEF Stands
  <2>2. "executor" \in PerRound
    BY DEF PerRound
  <2> QED BY <1>3, <1>4, <2>1, <2>2
<1>14. \A q : Closed("dynamic", "", q) => Place = "explore"
  <2>1. Stands("dynamic", "") => Place = "explore"
    BY DEF Stands
  <2> QED BY <1>3, <2>1
<1> QED BY <1>7, <1>8, <1>9, <1>10, <1>11, <1>12, <1>13, <1>14

LEMMA PlanningStep ==
  ASSUME Inv, Returns, Stored, Marked, Storing, Overlaid, Planning, [Next]_vars
  PROVE  Planning'
<1>0. Later(round + 1)
  BY RoundIs
<1>1. /\ Growth
      /\ ~Begin => \A n, t, q : Begun(n, t, q)' <=> Begun(n, t, q)
      /\ Decide \/ Passing \/ Leaving \/ Restarting => ~Begin
  BY Steps
<1>a. /\ \A q : Later(q) /\ Begun("analyst", "", q) => AnalystRuns(OverlayOf(q))
      /\ Place \in {"plan"} \cup Planned /\ Begun("analyst", "", round) => AnalystRuns(overlay)
      /\ Place = "analyse" => AnalystRuns(overlay)
      /\ Place \in {"plan"} \cup Planned /\ AnalystRuns(overlay) => Done("analyst", "", round)
      /\ Place = "plan" => g.next_actions = PlanOf(round, overlay)
  BY DEF Planning
<1>b. Place \in {"start"} \cup Opening /\ ~Again => ~Begun("analyst", "", 0)
  BY DEF Planning
<1>c. Place \in Planned => (dyn <=> "dynamic" \in Elements(PlanOf(round, overlay)))
  BY DEF Planning
<1>d. Place \in InRound /\ Again => overlay = OverlayOf(round)
  BY DEF Overlaid
<1>2. \A n, q : Done("analyst", n, q) => Done("analyst", n, q)'
  BY <1>1 DEF Growth
<1>3. Place \in {"plan"} \cup Planned /\ overlay' = overlay /\ round' = round
        => PlanOf(round, overlay)' = PlanOf(round, overlay)
  <2>1. \A o : (AnalystRuns(o) => Done("analyst", "", round)) =>
           \A q : q = round => PlanOf(q, o)' = PlanOf(q, o)
    BY <1>1, Fixed
  <2> QED BY <1>a, <2>1
<1>4. \A q : Later(q) /\ Begun("analyst", "", q)' => AnalystRuns(OverlayOf(q))'
  <2> SUFFICES ASSUME NEW q, Later(q), Begun("analyst", "", q)'
               PROVE  AnalystRuns(OverlayOf(q))'
    OBVIOUS
  <2>1. CASE Begun("analyst", "", q)
    <3>1. OverlayOf(q)' = OverlayOf(q)
      BY <1>1, <2>1, OverlayFixed
    <3> QED BY <1>a, <2>1, <3>1 DEF AnalystRuns
  <2>2. CASE ~Begun("analyst", "", q)
    <3>1. q = round /\ Place = "analyse"
      BY <2>2, BeginsAt DEF New
    <3>2. overlay = OverlayOf(q)
      BY <1>d, <3>1 DEF InRound, Again
    <3>3. OverlayOf(q)' = OverlayOf(q)
      BY <1>1, <3>1, OverlayFixed
    <3> QED BY <1>a, <3>1, <3>2, <3>3 DEF AnalystRuns
  <2> QED BY <2>1, <2>2
<1>5. CASE Decide
  <2>1. Decision /\ crashes' = crashes /\ g'.dynamic_resume_overlay = g.dynamic_resume_overlay
    BY <1>5, Decided
  <2>2. g.round_output # "again" /\ ~g.force_analyst
    BY DEF Storing
  <2>3. \A q : Begun("analyst", "", q)' <=> Begun("analyst", "", q)
    BY <1>1, <1>5
  <2>4. AnalystAsked <=> AnalystRuns(overlay)
    BY <2>2 DEF AnalystAsked, AnalystRuns
  <2>5. Place' = "start" => Later(round')
    BY <1>0, <2>1, <2>2 DEF Decision
  <2>6. Place' \in Opening => Place \in {"start"} \cup Opening /\ round' = round
    BY <2>1 DEF Decision, Opening
  <2>7. Place' \in {"start"} \cup Opening /\ ~Again'
          => ~Begun("analyst", "", 0)'
    BY <1>b, <2>1, <2>3, <2>5, <2>6 DEF Again, Opening
  <2>8. Place' = "analyse" => AnalystRuns(overlay)'
    BY <2>1, <2>4 DEF Decision, AnalystRuns
  <2>9. Place' = "plan" => /\ Place = "fetch" /\ ~AnalystRuns(overlay) /\ overlay' = overlay
                           /\ round' = round /\ g'.next_actions = Coders(overlay.next)
    BY <2>1, <2>4 DEF Decision
  <2>10. Place' \in Planned => /\ Place \in {"plan"} \cup Planned
                               /\ overlay' = overlay /\ round' = round
    BY <2>1, <2>2 DEF Decision, Planned
  <2>11. Place' = "plan" => ~Begun("analyst", "", round)'
    <3> SUFFICES ASSUME Place' = "plan", Begun("analyst", "", round) PROVE FALSE
      BY <2>3, <2>9
    <3>1. ~Again => round = 0
      BY DEF Again, Later
    <3>2. Again
      BY <1>b, <2>9, <3>1 DEF Opening
    <3>3. overlay = OverlayOf(round)
      BY <1>d, <2>9, <3>2 DEF InRound, Opening
    <3>4. Later(round)
      BY <2>9, <3>3 DEF OverlayOf, AnalystRuns, NoOverlay, Later
    <3> QED BY <1>a, <2>9, <3>3, <3>4
  <2>12. Place' = "plan" => g'.next_actions = PlanOf(round, overlay)'
    BY <2>9 DEF PlanOf, AnalystRuns
  <2>13. Place' \in Planned => (dyn' <=> "dynamic" \in Elements(PlanOf(round, overlay)'))
    <3> HAVE Place' \in Planned
    <3>1. PlanOf(round, overlay)' = PlanOf(round, overlay)
      BY <1>3, <2>10
    <3>2. CASE Place = "plan"
      <4>1. dyn' <=> "dynamic" \in Elements(g.next_actions)
        BY <2>1, <3>2 DEF Decision
      <4> QED BY <1>a, <3>1, <3>2, <4>1
    <3>3. CASE Place \in Planned
      <4>1. dyn' = dyn
        BY <2>1, <3>3 DEF Decision, Planned
      <4> QED BY <1>c, <3>1, <3>3, <4>1
    <3> QED BY <2>10, <3>2, <3>3
  <2>14. Place' \in {"plan"} \cup Planned /\ Begun("analyst", "", round)' => AnalystRuns(overlay)'
    <3>1. Place' \in Planned /\ Begun("analyst", "", round)' => AnalystRuns(overlay)'
      BY <1>a, <2>3, <2>10 DEF AnalystRuns
    <3> QED BY <2>11, <3>1
  <2>15. Place' \in {"plan"} \cup Planned /\ AnalystRuns(overlay)' => Done("analyst", "", round)'
    <3>1. Place' \in Planned /\ AnalystRuns(overlay)' => Done("analyst", "", round)'
      BY <1>2, <1>a, <2>10 DEF AnalystRuns
    <3>2. Place' = "plan" => ~AnalystRuns(overlay)'
      BY <2>9 DEF AnalystRuns
    <3> QED BY <3>1, <3>2
  <2> QED BY <1>4, <2>7, <2>8, <2>12, <2>13, <2>14, <2>15 DEF Planning, Elements
<1>6. CASE Passing
  <2>1. /\ Stands(Node, Tag) /\ Place \in NodeStages /\ Node \notin {"if", "verdict"}
        /\ Place' = "blocked" \/ Advances
        /\ round' = round /\ overlay' = overlay /\ crashes' = crashes /\ dyn' = dyn
    BY <1>6, Passes
  <2>2. \A q : Begun("analyst", "", q)' <=> Begun("analyst", "", q)
    BY <1>1, <1>6
  <2>3. /\ Place' # "start" /\ Place' # "analyse"
        /\ Place' \in Opening => Place \in Opening
        /\ Place' = "plan" => Place = "analyse"
        /\ Place' \in Planned => Place \in Planned
    BY <2>1 DEF Advances, NodeStages, Opening, Planned, Storing
  <2>4. Place' \in {"start"} \cup Opening /\ ~Again' => ~Begun("analyst", "", 0)'
    BY <1>b, <2>1, <2>2, <2>3 DEF Again
  <2>5. Place' = "plan" => /\ Done("analyst", "", round)' /\ AnalystRuns(overlay)'
                           /\ g'.next_actions = PlanOf(round, overlay)'
    <3> HAVE Place' = "plan"
    <3>1. Node = "analyst" /\ Tag = "" /\ Turn = round
      BY <2>1, <2>3, NodesAt
    <3>2. AnalystRuns(overlay)'
      BY <1>a, <2>1, <2>3 DEF AnalystRuns
    <3>3. /\ Done("analyst", "", round)'
          /\ g'.next_actions = Value(Output("analyst", "", round), "next_actions")'
      <4>1. \A q : q = Turn =>
              /\ Done("analyst", "", q)'
              /\ g'.next_actions = Value(Output("analyst", "", q), "next_actions")'
        BY <1>6, <3>1, Passes
      <4> QED BY <2>1, <3>1, <4>1
    <3> QED BY <3>2, <3>3 DEF PlanOf, Plan
  <2>6. Place' \in Planned =>
          /\ Begun("analyst", "", round)' => AnalystRuns(overlay)'
          /\ AnalystRuns(overlay)' => Done("analyst", "", round)'
          /\ dyn' <=> "dynamic" \in Elements(PlanOf(round, overlay)')
    <3> HAVE Place' \in Planned
    <3>1. PlanOf(round, overlay)' = PlanOf(round, overlay)
      BY <1>3, <2>1, <2>3
    <3> QED BY <1>2, <1>a, <1>c, <2>1, <2>2, <2>3, <3>1 DEF AnalystRuns
  <2> QED BY <1>4, <2>3, <2>4, <2>5, <2>6 DEF Planning, Elements
<1>7. CASE Staying /\ ~Passing
  <2>1. /\ Place' = Place /\ round' = round /\ overlay' = overlay /\ crashes' = crashes
        /\ dyn' = dyn /\ g' = g
    BY <1>7 DEF Staying
  <2>2. Place \notin {"analyse"} => \A q : Begun("analyst", "", q)' => Begun("analyst", "", q)
    BY BeginsAt DEF New
  <2>3. Place' \in {"start"} \cup Opening /\ ~Again' => ~Begun("analyst", "", 0)'
    BY <1>b, <2>1, <2>2 DEF Again, Opening
  <2>4. Place' \in {"plan"} \cup Planned =>
          /\ Begun("analyst", "", round)' => AnalystRuns(overlay)'
          /\ AnalystRuns(overlay)' => Done("analyst", "", round)'
    BY <1>2, <1>a, <2>1, <2>2 DEF AnalystRuns, Planned
  <2>5. Place \in {"plan"} \cup Planned => PlanOf(round, overlay)' = PlanOf(round, overlay)
    BY <1>3, <2>1
  <2> QED BY <1>4, <1>a, <1>c, <2>1, <2>3, <2>4, <2>5 DEF Planning, Elements, AnalystRuns
<1>8. CASE Leaving
  BY <1>4, <1>8 DEF Leaving, Planning, Opening, Planned
<1>9. CASE Restarting
  <2>1. Place' \in {"start", "over"} /\ Again'
    BY <1>9 DEF Restarting, Again
  <2> QED BY <1>4, <2>1 DEF Planning, Opening, Planned
<1> QED BY <1>5, <1>6, <1>7, <1>8, <1>9, Steps

\* Plans and coders of a round are settled once its analyst's part is over.
LEMMA PlanFixed ==
  ASSUME Growth, NEW q, NEW o, AnalystRuns(o) => Done("analyst", "", q)
  PROVE  /\ PlanOf(q, o)' = PlanOf(q, o)
         /\ Wanted(q, o)' <=> Wanted(q, o)
         /\ CoderRuns(q, o)' <=> CoderRuns(q, o)
<1>1. PlanOf(q, o)' = PlanOf(q, o)
  BY Fixed
<1>2. Wanted(q, o)' <=> Wanted(q, o)
  BY <1>1 DEF Wanted, Elements
<1> QED BY <1>1, <1>2 DEF CoderRuns, Forced

LEMMA RoundFixed ==
  ASSUME Growth, Planning, Place \in {"plan"} \cup Planned, overlay' = overlay, round' = round
  PROVE  /\ PlanOf(round, overlay)' = PlanOf(round, overlay)
         /\ Wanted(round, overlay)' <=> Wanted(round, overlay)
         /\ CoderRuns(round, overlay)' <=> CoderRuns(round, overlay)
         /\ Forced(overlay)' <=> Forced(overlay)
<1>1. AnalystRuns(overlay) => Done("analyst", "", round)
  BY DEF Planning
<1>2. \A q, o : (AnalystRuns(o) => Done("analyst", "", q)) =>
         /\ PlanOf(q, o)' = PlanOf(q, o)
         /\ Wanted(q, o)' <=> Wanted(q, o)
         /\ CoderRuns(q, o)' <=> CoderRuns(q, o)
  BY PlanFixed
<1>3. \A q, o : q = round /\ o = overlay =>
         /\ PlanOf(q, o)' = PlanOf(q, o)
         /\ Wanted(q, o)' <=> Wanted(q, o)
         /\ CoderRuns(q, o)' <=> CoderRuns(q, o)
  BY <1>1, <1>2
<1> QED BY <1>3 DEF Forced

\* What writes the code and its audit.
LEMMA NodeWrites ==
  ASSUME NodeStep
  PROVE  \/ code' = code /\ audited' = audited
         \/ Node \in {"coder", "debugger"} /\ code' # "none"
         \/ Node = "auditor" /\ code' = code /\ audited'
<1>1. CASE Analyst \/ StaticEvidence \/ EvidenceCompiler \/ DataInspector
  BY <1>1 DEF Analyst, StaticEvidence, EvidenceCompiler, DataInspector, NoWrite, disk
<1>2. CASE KagRetriever \/ ContextBuilder \/ CoderNoContext \/ AuditorNoCode
  BY <1>2 DEF KagRetriever, ContextBuilder, CoderNoContext, AuditorNoCode, NoWrite, disk
<1>3. CASE ExecutorNoCode \/ SkillHarvester \/ Summarizer \/ Dynamic
  BY <1>3 DEF ExecutorNoCode, SkillHarvester, Summarizer, Dynamic, NoWrite, disk
<1>4. CASE Executor
  BY <1>4 DEF Executor
<1>5. CASE CoderNode \/ DebuggerNode
  BY <1>5 DEF CoderNode, DebuggerNode, WriteCode, Runs, AtNode, Node
<1>6. CASE AuditorSafe \/ AuditorRepair \/ AuditorGivesUp
  BY <1>6 DEF AuditorSafe, AuditorRepair, AuditorGivesUp, Runs, AtNode, Node
<1> QED BY <1>1, <1>2, <1>3, <1>4, <1>5, <1>6 DEF NodeStep

LEMMA CoderlessStays ==
  ASSUME Growth, crashes # 0 => crashes' # 0, NEW q, OverlayOf(q)' = OverlayOf(q), Coderless(q)
  PROVE  Coderless(q)'
<1>1. /\ Later(q) \/ crashes # 0
      /\ ~CoderRuns(q, OverlayOf(q))
      /\ AnalystRuns(OverlayOf(q)) => Done("analyst", "", q)
  BY DEF Coderless
<1>2. \A o : o = OverlayOf(q) => (CoderRuns(q, o)' <=> CoderRuns(q, o))
  BY <1>1, PlanFixed
<1>3. ~CoderRuns(q, OverlayOf(q))'
  BY <1>1, <1>2
<1>4. AnalystRuns(OverlayOf(q))' => Done("analyst", "", q)'
  <2>1. AnalystRuns(OverlayOf(q))' <=> AnalystRuns(OverlayOf(q))
    BY DEF AnalystRuns
  <2> QED BY <1>1, <2>1 DEF Growth
<1> QED BY <1>1, <1>3, <1>4 DEF Coderless

LEMMA CodingOld ==
  ASSUME Inv, Growth, Overlaid, Coding, crashes # 0 => crashes' # 0
  PROVE  \A q : Done("auditor", "", q) => (Done("coder", "", q) \/ Coderless(q))'
<1> SUFFICES ASSUME NEW q, Done("auditor", "", q)
             PROVE  (Done("coder", "", q) \/ Coderless(q))'
  OBVIOUS
<1>1. Done("coder", "", q) => Done("coder", "", q)'
  BY DEF Growth
<1>2. Begun("auditor", "", q)
  BY DEF Done
<1>3. OverlayOf(q)' = OverlayOf(q)
  BY <1>2, OverlayFixed
<1>4. Coderless(q) => Coderless(q)'
  BY <1>3, CoderlessStays
<1>5. Done("coder", "", q) \/ Coderless(q)
  BY DEF Coding
<1> QED BY <1>1, <1>4, <1>5

LEMMA CodingStep ==
  ASSUME Inv, Returns, Stored, Marked, Storing, Overlaid, Planning, Coding, [Next]_vars
  PROVE  Coding'
<1>0. Later(round + 1)
  BY RoundIs
<1>1. /\ Growth
      /\ ~Complete => \A n, t, q : Done(n, t, q)' <=> Done(n, t, q)
      /\ Decide \/ Restarting => ckpt' = ckpt
  BY Steps
<1>2. Done("coder", "", round) => \A q : q = round => Done("coder", "", q)'
  BY <1>1 DEF Growth
<1>a. Place \in Planned /\ coded => Done("coder", "", round)
  BY DEF Coding
<1>b. Place = "gather" => /\ CoderAhead => Wanted(round, overlay)
                          /\ Wanted(round, overlay) => coded \/ CoderAhead
  BY DEF Coding
<1>c. /\ Place = "code" => Forced(overlay)
      /\ Place = "audit" /\ ~coded => ~CoderRuns(round, overlay)
  BY DEF Coding
<1>d. ~Again =>
       /\ Place \in {"start", "analyse", "plan"} \cup Opening => code = "none"
       /\ Place \in {"gather", "code", "audit"} /\ code # "none"
            => coded \/ (Node = "coder" /\ doing = "returned")
  BY DEF Coding
<1>e. Place \in InRound /\ Again => overlay = OverlayOf(round)
  BY DEF Overlaid
<1>f. Place = "plan" => g.next_actions = PlanOf(round, overlay)
  BY DEF Planning
<1>g. Place \in {"plan"} \cup Planned /\ overlay' = overlay /\ round' = round =>
         /\ Wanted(round, overlay)' <=> Wanted(round, overlay)
         /\ CoderRuns(round, overlay)' <=> CoderRuns(round, overlay)
         /\ Forced(overlay)' <=> Forced(overlay)
  BY <1>1, RoundFixed
<1>h. (crashes # 0 => crashes' # 0)
         => \A q : Done("auditor", "", q) => (Done("coder", "", q) \/ Coderless(q))'
  BY <1>1, CodingOld
<1>i. ASSUME crashes # 0 => crashes' # 0, ~Complete
      PROVE  \A q : Done("auditor", "", q)' => (Done("coder", "", q) \/ Coderless(q))'
  <2>1. \A q : Done("auditor", "", q) => (Done("coder", "", q) \/ Coderless(q))'
    BY <1>h, <1>i
  <2>2. \A q : Done("auditor", "", q)' <=> Done("auditor", "", q)
    BY <1>1, <1>i
  <2> QED BY <2>1, <2>2
<1>3. CASE Decide
  <2>1. /\ Decision /\ crashes' = crashes /\ code' = code /\ doing = "idle" /\ doing' = "idle"
    BY <1>3, Decided
  <2>2. g.round_output # "again" /\ ~g.force_analyst
    BY DEF Storing
  <2>3. ckpt' = ckpt
    BY <1>1, <1>3
  <2>4. Place' \in Planned =>
          /\ round' = round /\ overlay' = overlay
          /\ Place \in {"plan"} \cup Planned /\ (Place = "plan" => ~coded')
          /\ Place # "plan" => coded' = coded
    BY <2>1, <2>2 DEF Decision, Planned
  <2>5. Place' \in Planned /\ coded' => Done("coder", "", round)'
    BY <1>2, <1>a, <2>4
  <2>6. Place' = "gather" => /\ CoderAhead' => Wanted(round, overlay)'
                             /\ Wanted(round, overlay)' => coded' \/ CoderAhead'
    <3> SUFFICES ASSUME Place' = "gather"
                 PROVE  /\ CoderAhead' => Wanted(round, overlay)'
                        /\ Wanted(round, overlay)' => coded' \/ CoderAhead'
      OBVIOUS
    <3>1. Wanted(round, overlay)' <=> Wanted(round, overlay)
      BY <1>g, <2>4 DEF Planned
    <3>2. CASE Place = "plan"
      <4>1. CoderAhead' <=> "coder" \in Elements(g.next_actions) /\ "coder" \notin overlay.skip
        BY <2>1, <3>2 DEF Decision
      <4>2. CoderAhead' <=> Wanted(round, overlay)
        BY <1>f, <3>2, <4>1 DEF Wanted
      <4> QED BY <3>1, <4>2
    <3>3. CASE Place = "gather"
      <4>1. (CoderAhead' <=> CoderAhead) /\ coded' = coded
        BY <2>1, <2>2, <3>3 DEF Decision
      <4> QED BY <1>b, <3>1, <3>3, <4>1
    <3>4. Place \in {"plan", "gather"}
      BY <2>1, <2>2 DEF Decision
    <3> QED BY <3>2, <3>3, <3>4
  <2>7. Place' = "code" => Forced(overlay)'
    <3>1. Place' = "code" => Place = "gather" /\ Forced(overlay)
      BY <2>1, <2>2 DEF Decision
    <3> QED BY <1>g, <2>4, <3>1 DEF Planned
  <2>8. Place' = "audit" /\ ~coded' => ~CoderRuns(round, overlay)'
    <3>1. Place' = "audit" => /\ Place = "gather" /\ ~CoderAhead /\ coded' = coded
                              /\ ~(Forced(overlay) /\ ~coded)
      BY <2>1, <2>2 DEF Decision
    <3>2. Place' = "audit" /\ ~coded' => ~CoderRuns(round, overlay)
      BY <1>b, <3>1 DEF CoderRuns
    <3> QED BY <1>g, <2>4, <3>1, <3>2 DEF Planned
  <2>9. ~Again' => ~Again /\ Place' # "start"
    BY <1>0, <2>1, <2>2 DEF Decision, Again
  <2>10. Place' \in {"analyse", "plan", "gather"} \cup Opening
           => \/ Place \in {"start", "analyse", "plan"} \cup Opening
              \/ Place = "gather" /\ Place' = "gather" /\ coded' = coded
    BY <2>1, <2>2 DEF Decision, Opening
  <2>11. Place' \in {"code", "audit"} => Place = "gather" /\ coded' = coded
    BY <2>1, <2>2 DEF Decision
  <2>12. ~Again' =>
       /\ Place' \in {"start", "analyse", "plan"} \cup Opening => code' = "none"
       /\ Place' \in {"gather", "code", "audit"} /\ code' # "none"
            => coded' \/ (Node' = "coder" /\ doing' = "returned")
    BY <1>d, <2>1, <2>9, <2>10, <2>11 DEF Opening
  <2>13. ~Complete
    BY <2>1 DEF Complete
  <2>14. \A q : Done("auditor", "", q)' => (Done("coder", "", q) \/ Coderless(q))'
    BY <1>i, <2>1, <2>13
  <2> QED BY <2>5, <2>6, <2>7, <2>8, <2>12, <2>14 DEF Coding
<1>4. CASE Passing
  <2>1. /\ Stands(Node, Tag) /\ Place \in NodeStages /\ Node \notin {"if", "verdict"}
        /\ \/ Place' = "blocked"
           \/ /\ Advances
              /\ Place = "gather" => /\ CoderAhead => CoderAhead' \/ Node = "coder"
                                     /\ CoderAhead' => CoderAhead
        /\ round' = round /\ overlay' = overlay /\ crashes' = crashes
        /\ coded' = (coded \/ Node = "coder")
        /\ Complete /\ Node = "auditor" => code # "none"
        /\ Complete => doing = "returned"
    BY <1>4, Passes
  <2>2. code' = code
    <3>1. ~NodeStep
      <4>1. Passing => doing' = "idle"
        BY Passes
      <4>2. NodeStep => doing' = "returned"
        BY NodeRuns
      <4> QED BY <1>4, <4>1, <4>2
    <3> QED BY <3>1, DiskStays
  <2>3. /\ Place' # "start" /\ Place' # "analyse" /\ Place' # "code"
        /\ Place' \in Opening => Place \in Opening
        /\ Place' = "plan" => Place = "analyse"
        /\ Place' \in Planned => Place \in Planned
        /\ Place' = "gather" => Place = "gather" /\ Advances
        /\ Place' = "audit" => Place = "code"
    BY <2>1 DEF Advances, NodeStages, Opening, Planned, Storing
  <2>4. Node = "coder" => Done("coder", "", round)'
    <3> HAVE Node = "coder"
    <3>1. Tag = "" /\ Turn = round
      BY <2>1 DEF Stands, Turn, PerRound
    <3>2. \A t, q : t = Tag /\ q = Turn => Done("coder", t, q)'
      BY <1>4, Passes
    <3> QED BY <2>1, <3>1, <3>2
  <2>5. Place' \in Planned /\ coded' => Done("coder", "", round)'
    BY <1>2, <1>a, <2>1, <2>3, <2>4
  <2>6. Place' = "gather" => /\ CoderAhead' => Wanted(round, overlay)'
                             /\ Wanted(round, overlay)' => coded' \/ CoderAhead'
    BY <1>b, <1>g, <2>1, <2>3 DEF Planned
  <2>7. Place' = "audit" => coded'
    BY <2>1, <2>3, NodesAt
  <2>8. ~Again' =>
       /\ Place' \in {"start", "analyse", "plan"} \cup Opening => code' = "none"
       /\ Place' \in {"gather", "code", "audit"} /\ code' # "none"
            => coded' \/ (Node' = "coder" /\ doing' = "returned")
    <3> HAVE ~Again'
    <3>1. ~Again
      BY <2>1 DEF Again
    <3>2. Place' \in {"start", "analyse", "plan"} \cup Opening
            => Place \in {"start", "analyse", "plan"} \cup Opening
      BY <2>3
    <3>3. Place' \in {"gather", "code", "audit"} => Place \in {"gather", "code"}
      BY <2>3
    <3> QED BY <1>d, <2>1, <2>2, <3>1, <3>2, <3>3
  <2>9. \A q : Done("auditor", "", q) => (Done("coder", "", q) \/ Coderless(q))'
    BY <1>h, <2>1
  <2>10. ASSUME NEW q, Done("auditor", "", q)', ~Done("auditor", "", q)
         PROVE  (Done("coder", "", q) \/ Coderless(q))'
    <3>2. Place = "audit" /\ q = round /\ code # "none" /\ Node # "coder"
      <4>1. Place = "audit" /\ q = round /\ code # "none"
        BY <2>10, EndsAt DEF Closed
      <4> QED BY <2>1, <4>1, NodesAt
    <3>3. CASE coded
      BY <1>2, <1>a, <3>2, <3>3 DEF Planned
    <3>4. CASE ~coded
      <4>1. ~CoderRuns(round, overlay) /\ Again
        BY <1>c, <1>d, <3>2, <3>4
      <4>2. overlay = OverlayOf(round)
        BY <1>e, <3>2, <4>1 DEF InRound, Planned
      <4>3. AnalystRuns(overlay) => Done("analyst", "", round)
        BY <3>2 DEF Planning, Planned
      <4>4. Coderless(q)
        BY <3>2, <4>1, <4>2, <4>3 DEF Coderless, Again
      <4>5. OverlayOf(q)' = OverlayOf(q)
        BY <1>1, <3>2, OverlayFixed
      <4> QED BY <1>1, <2>1, <4>4, <4>5, CoderlessStays
    <3> QED BY <3>3, <3>4
  <2> QED BY <2>3, <2>5, <2>6, <2>7, <2>8, <2>9, <2>10 DEF Coding
<1>5. CASE Staying /\ ~Passing
  <2>1. /\ Place' = Place /\ round' = round /\ overlay' = overlay /\ crashes' = crashes
        /\ coded' = coded /\ Node' = Node /\ (CoderAhead' <=> CoderAhead)
        /\ Begin \/ NodeStep \/ UNCHANGED vars
    BY <1>5 DEF Staying
  <2>2. ~Complete
    BY <1>5 DEF Passing
  <2>3. \A q : Done("auditor", "", q)' => (Done("coder", "", q) \/ Coderless(q))'
    BY <1>i, <2>1, <2>2
  <2>4. Place' \in Planned /\ coded' => Done("coder", "", round)'
    BY <1>2, <1>a, <2>1
  <2>5. Place' = "gather" => /\ CoderAhead' => Wanted(round, overlay)'
                             /\ Wanted(round, overlay)' => coded' \/ CoderAhead'
    BY <1>b, <1>g, <2>1 DEF Planned
  <2>6. /\ Place' = "code" => Forced(overlay)'
        /\ Place' = "audit" /\ ~coded' => ~CoderRuns(round, overlay)'
    BY <1>c, <1>g, <2>1 DEF Planned
  <2>7. CASE NodeStep /\ code' # code
    <3>1. Node \in {"coder", "debugger"} /\ doing' = "returned"
      BY <2>7, NodeWrites, NodeRuns
    <3>2. Stands(Node, Tag)
      BY <2>7, Kinds
    <3>3. Place \notin {"start", "analyse", "plan", "audit"} \cup Opening
      BY <3>1, <3>2 DEF Stands, Opening
    <3>4. Place = "gather" \/ Place = "code" => Node = "coder"
      BY <3>1, <3>2 DEF Stands
    <3> QED BY <2>1, <2>3, <2>4, <2>5, <2>6, <3>1, <3>3, <3>4 DEF Coding
  <2>8. CASE ~(NodeStep /\ code' # code)
    <3>1. code' = code
      BY <2>8, DiskStays
    <3>2. doing = "returned" => doing' = doing
      <4>1. Begin => doing = "idle"
        BY DEF Begin
      <4>2. NodeStep => doing = "running"
        BY NodeRuns
      <4> QED BY <2>1, <4>1, <4>2 DEF vars, memory
    <3>3. Again' <=> Again
      BY <2>1 DEF Again
    <3>4. ~Again' =>
       /\ Place' \in {"start", "analyse", "plan"} \cup Opening => code' = "none"
       /\ Place' \in {"gather", "code", "audit"} /\ code' # "none"
            => coded' \/ (Node' = "coder" /\ doing' = "returned")
      BY <1>d, <2>1, <3>1, <3>2, <3>3 DEF Opening
    <3> QED BY <2>3, <2>4, <2>5, <2>6, <3>4 DEF Coding
  <2> QED BY <2>7, <2>8
<1>6. CASE Leaving /\ ~Passing
  <2>1. Place' \in {"failure", "lost", "over"} /\ crashes' = crashes /\ ~Complete
    BY <1>6 DEF Leaving, Passing
  <2>2. \A q : Done("auditor", "", q)' => (Done("coder", "", q) \/ Coderless(q))'
    BY <1>i, <2>1
  <2> QED BY <2>1, <2>2 DEF Coding, Opening, Planned
<1>7. CASE Restarting
  <2>1. Place' \in {"start", "over"} /\ Again' /\ crashes' # 0 /\ doing' = "idle"
    BY <1>7 DEF Restarting, Again
  <2>2. \A q : Done("auditor", "", q)' => (Done("coder", "", q) \/ Coderless(q))'
    <3>1. ckpt' = ckpt
      BY <1>1, <1>7
    <3>2. \A q : Done("auditor", "", q)' => Done("auditor", "", q)
      BY <3>1, HistoryStays
    <3> QED BY <1>h, <2>1, <3>2
  <2> QED BY <2>1, <2>2 DEF Coding, Planned
<1> QED BY <1>3, <1>4, <1>5, <1>6, <1>7, Steps

LEMMA AuditingStep ==
  ASSUME Inv, Returns, Stored, Marked, Storing, Auditing, [Next]_vars
  PROVE  Auditing'
<1>1. /\ Growth
      /\ ~Begin => \A n, t, q : Begun(n, t, q)' <=> Begun(n, t, q)
      /\ Decide \/ Passing \/ Leaving \/ Restarting => ~Begin
  BY Steps
<1>2. \A n, t, q : Done(n, t, q) => Done(n, t, q)'
  BY <1>1 DEF Growth
<1>3. \A q : Done("auditor", "", q) => Request(q)' = Request(q)
  BY <1>1, Fixed
<1>a. \A q : /\ Begun("debugger", "", q) => Done("auditor", "", q) /\ Request(q) = <<"debugger">>
             /\ Done("auditor", "post_debug", q) => Done("debugger", "", q)
  BY DEF Auditing
<1>b. Place \in {"judge", "debug", "reaudit"} \cup Checked => Done("auditor", "", round)
  BY DEF Auditing
<1>c. /\ Place = "judge" => g.next_actions = Request(round)
      /\ Place = "debug" => Request(round) = <<"debugger">>
      /\ Place = "reaudit" => Done("debugger", "", round)
  BY DEF Auditing
<1>d. Place \in Checked =>
        (Begun("debugger", "", round) => Done("auditor", "post_debug", round))
  BY DEF Auditing, Repaired
<1>4. \A q : Begun("debugger", "", q)'
               => Done("auditor", "", q)' /\ Request(q)' = <<"debugger">>
  <2> SUFFICES ASSUME NEW q, Begun("debugger", "", q)'
               PROVE  Done("auditor", "", q) /\ Request(q) = <<"debugger">>
    BY <1>2, <1>3
  <2>1. New("debugger", "", q) => Place = "debug" /\ q = round
    BY BeginsAt
  <2> QED BY <1>a, <1>b, <1>c, <2>1 DEF New
<1>5. \A q : Done("auditor", "post_debug", q)' => Done("debugger", "", q)'
  <2> SUFFICES ASSUME NEW q, Done("auditor", "post_debug", q)' PROVE Done("debugger", "", q)
    BY <1>2
  <2>1. Closed("auditor", "post_debug", q)
          => Place = "reaudit" /\ q = round /\ code # "none" /\ audited
    BY EndsAt
  <2> QED BY <1>a, <1>c, <2>1 DEF Closed
<1>6. ASSUME round' = round
      PROVE  /\ Done("auditor", "", round) => /\ Done("auditor", "", round)'
                                              /\ Request(round)' = Request(round)
             /\ Done("debugger", "", round) => Done("debugger", "", round)'
  <2>1. \A q : q = round => /\ Done("auditor", "", round) => /\ Done("auditor", "", q)'
                                                             /\ Request(q)' = Request(round)
                            /\ Done("debugger", "", round) => Done("debugger", "", q)'
    BY <1>2, <1>3
  <2> QED BY <1>6, <2>1
<1>7. ASSUME round' = round, ~Begin \/ Place # "debug",
             Begun("debugger", "", round) => Done("auditor", "post_debug", round)
      PROVE  Begun("debugger", "", round)' => Done("auditor", "post_debug", round)'
  <2>1. \A q : q = round /\ Begun("debugger", "", q)' => Begun("debugger", "", q)
    BY <1>1, <1>7, BeginsAt DEF New
  <2>2. \A q : q = round /\ Begun("debugger", "", q)' => Done("auditor", "post_debug", q)'
    BY <1>2, <1>7, <2>1
  <2> QED BY <1>7, <2>2
<1>8. CASE Decide
  <2>1. Decision
    BY <1>8, Decided
  <2>2. g.round_output # "again" /\ (Place = "verify" => g.round_output = "stop")
    BY DEF Storing
  <2>3. Place' \in {"judge", "debug", "reaudit"} \cup Checked =>
          /\ round' = round
          /\ Place' # "judge" /\ Place' # "reaudit"
          /\ \/ Place = "judge" /\ (Place' = "debug" <=> g.next_actions = <<"debugger">>)
             \/ Place \in Checked /\ Place' # "debug"
    BY <2>1, <2>2 DEF Decision, Checked
  <2>4. Place' \in Checked =>
          (Begun("debugger", "", round)' => Done("auditor", "post_debug", round)')
    <3> HAVE Place' \in Checked
    <3>1. Place' # "debug"
      BY DEF Checked
    <3>2. Begun("debugger", "", round) => Done("auditor", "post_debug", round)
      BY <1>a, <1>c, <1>d, <2>3, <3>1
    <3> QED BY <1>1, <1>7, <1>8, <2>3, <3>2
  <2>5. Place' \in {"judge", "debug", "reaudit"} \cup Checked => Done("auditor", "", round)'
    BY <1>b, <1>6, <2>3
  <2>6. Place' = "debug" => Request(round)' = <<"debugger">>
    <3> HAVE Place' = "debug"
    <3>1. Place = "judge" /\ g.next_actions = <<"debugger">> /\ round' = round
      BY <2>3 DEF Checked
    <3>2. Request(round) = <<"debugger">> /\ Done("auditor", "", round)
      BY <1>b, <1>c, <3>1
    <3> QED BY <1>6, <3>1, <3>2
  <2> QED BY <1>4, <1>5, <2>3, <2>4, <2>5, <2>6 DEF Auditing, Repaired
<1>9. CASE Passing
  <2>1. /\ Stands(Node, Tag) /\ Place \in NodeStages /\ Node \notin {"if", "verdict"}
        /\ Place' = "blocked" \/ Advances
        /\ round' = round
    BY <1>9, Passes
  <2>2. /\ Place' # "debug"
        /\ Place' = "judge" => Place = "audit"
        /\ Place' = "reaudit" => Place = "debug"
        /\ Place' \in Checked => Place = "reaudit" \/ Place \in Checked
    BY <2>1 DEF Advances, NodeStages, Checked, Storing
  <2>3. \A n, t, q : n = Node /\ t = Tag /\ q = Turn =>
          /\ Done(n, t, q)'
          /\ n = "auditor" => g'.next_actions = Value(Output(n, t, q), "next_actions")'
    BY <1>9, Passes
  <2>4. Place' = "judge" => Done("auditor", "", round)' /\ g'.next_actions = Request(round)'
    <3> HAVE Place' = "judge"
    <3>1. Node = "auditor" /\ Tag = "" /\ Turn = round
      BY <2>1, <2>2, NodesAt
    <3>2. \A q : q = Turn => /\ Done("auditor", "", q)'
                             /\ g'.next_actions = Value(Output("auditor", "", q), "next_actions")'
      BY <2>3, <3>1
    <3> QED BY <2>1, <3>1, <3>2 DEF Request
  <2>5. Place' = "reaudit" => Done("debugger", "", round)'
    <3> HAVE Place' = "reaudit"
    <3>1. Node = "debugger" /\ Tag = "" /\ Turn = round
      BY <2>1, <2>2, NodesAt
    <3>2. \A q : q = Turn => Done("debugger", "", q)'
      BY <2>3, <3>1
    <3> QED BY <2>1, <3>1, <3>2
  <2>6. Place = "reaudit" => Done("auditor", "post_debug", round)'
    <3> HAVE Place = "reaudit"
    <3>1. Node = "auditor" /\ Tag = "post_debug" /\ Turn = round
      BY <2>1, NodesAt
    <3>2. \A q : q = Turn => Done("auditor", "post_debug", q)'
      BY <2>3, <3>1
    <3> QED BY <2>1, <3>1, <3>2
  <2>7. Place' \in Checked =>
          (Begun("debugger", "", round)' => Done("auditor", "post_debug", round)')
    BY <1>1, <1>d, <1>7, <1>9, <2>1, <2>2, <2>6
  <2>8. Place' \in {"reaudit"} \cup Checked => Done("auditor", "", round)'
    BY <1>b, <1>6, <2>1, <2>2
  <2> QED BY <1>4, <1>5, <2>2, <2>4, <2>5, <2>7, <2>8 DEF Auditing, Repaired
<1>10. CASE Staying /\ ~Passing
  <2>1. Place' = Place /\ round' = round /\ g' = g
    BY <1>10 DEF Staying
  <2>2. Place \in Checked =>
          (Begun("debugger", "", round)' => Done("auditor", "post_debug", round)')
    BY <1>d, <1>7, <2>1 DEF Checked
  <2>3. /\ Done("auditor", "", round) => /\ Done("auditor", "", round)'
                                         /\ Request(round)' = Request(round)
        /\ Done("debugger", "", round) => Done("debugger", "", round)'
    BY <1>6, <2>1
  <2> QED BY <1>4, <1>5, <1>b, <1>c, <2>1, <2>2, <2>3 DEF Auditing, Repaired
<1>11. CASE Leaving \/ Restarting
  <2>1. Place' \notin {"judge", "debug", "reaudit"} \cup Checked
    BY <1>11 DEF Leaving, Restarting, Checked
  <2> QED BY <1>4, <1>5, <2>1 DEF Auditing
<1> QED BY <1>8, <1>9, <1>10, <1>11, Steps

\* A round on the dynamic path has an analyst that sent it there.
LEMMA DynamicPlan ==
  ASSUME Inv, Planning, Place \in Planned, dyn
  PROVE  GoesDynamic(round)
<1>1. "dynamic" \in Elements(PlanOf(round, overlay))
  BY DEF Planning
<1>2. "dynamic" \notin Elements(Coders(overlay.next))
  BY DEF Coders, Elements
<1>3. AnalystRuns(overlay) => Done("analyst", "", round)
  BY DEF Planning
<1>4. AnalystRuns(overlay)
  BY <1>1, <1>2 DEF PlanOf
<1> QED BY <1>1, <1>3, <1>4 DEF PlanOf, GoesDynamic

LEMMA RoundsStep ==
  ASSUME Inv, Returns, Stored, Marked, Storing, Planning, Auditing, Rounds, [Next]_vars
  PROVE  Rounds'
<1>1. /\ Growth
      /\ Decide \/ Passing \/ Leaving \/ Restarting => ~Begin
  BY Steps
<1>2. /\ \A n, t, q : Done(n, t, q) => Done(n, t, q)'
      /\ \A k \in DOMAIN ckpt' : k \in DOMAIN ckpt \/ (Begin /\ k[2] = Turn)
  BY <1>1 DEF Growth
<1>3. \A q : GoesDynamic(q) => GoesDynamic(q)'
  BY <1>1, Fixed
<1>4. /\ \A q : Earlier(q, round + 1) => q = round \/ Earlier(q, round)
      /\ \A q : Earlier(round + 1, q) => Earlier(round, q)
      /\ ~Earlier(round, round)
      /\ Turn = 0 \/ Turn = round
  BY RoundIs
<1>a. \A q : Earlier(q, round) => Done("auditor", "", q) /\ Repaired(q) /\ GoesDynamic(q)
  BY DEF Rounds
<1>b. \A k \in DOMAIN ckpt : \A q : Earlier(q, k[2]) => GoesDynamic(q)
  BY DEF Rounds
<1>c. crashes = 0 => \A k \in DOMAIN ckpt : ~Earlier(round, k[2])
  BY DEF Rounds
<1>5. \A k \in DOMAIN ckpt' : \A q : Earlier(q, k[2]) => GoesDynamic(q)'
  <2> SUFFICES ASSUME NEW k \in DOMAIN ckpt', NEW q, Earlier(q, k[2]) PROVE GoesDynamic(q)
    BY <1>3
  <2>1. CASE k \in DOMAIN ckpt
    BY <1>b, <2>1
  <2>2. CASE k[2] = Turn
    <3>1. Turn = 0 => ~Earlier(q, Turn)
      BY NothingEarlier
    <3> QED BY <1>4, <1>a, <2>2, <3>1
  <2> QED BY <1>2, <2>1, <2>2
<1>6. \A k \in DOMAIN ckpt' : k \in DOMAIN ckpt \/ ~Earlier(round, k[2])
  <2>1. ~Earlier(round, Turn)
    BY <1>4, NothingEarlier
  <2> QED BY <1>2, <2>1
<1>7. \A q : Done("auditor", "", q) /\ Repaired(q) /\ (~Begin \/ q # round \/ Place # "debug")
               => Done("auditor", "", q)' /\ Repaired(q)'
  <2> SUFFICES ASSUME NEW q, Repaired(q), ~Begin \/ q # round \/ Place # "debug"
               PROVE  Repaired(q)'
    BY <1>2
  <2>0. New("debugger", "", q) => Begin
    BY BeginsAt
  <2>1. New("debugger", "", q) => Place = "debug" /\ q = round
    BY BeginsAt
  <2>2. Begun("debugger", "", q)' => Begun("debugger", "", q)
    BY <2>0, <2>1 DEF New
  <2> QED BY <1>2, <2>2 DEF Repaired
<1>8. \A q : Earlier(q, round) => Done("auditor", "", q)' /\ Repaired(q)' /\ GoesDynamic(q)'
  BY <1>3, <1>4, <1>7, <1>a
<1>9. ASSUME round' = round, crashes' = crashes PROVE Rounds'
  <2>1. \A q : Earlier(q, round)' => Done("auditor", "", q)' /\ Repaired(q)' /\ GoesDynamic(q)'
    BY <1>8, <1>9 DEF Earlier
  <2>2. crashes' = 0 => \A k \in DOMAIN ckpt' : ~Earlier(round, k[2])'
    BY <1>6, <1>9, <1>c DEF Earlier
  <2> QED BY <1>5, <2>1, <2>2 DEF Rounds
<1>10. CASE Decide
  <2>1. Decision /\ crashes' = crashes
    BY <1>10, Decided
  <2>2. g.round_output # "again" /\ (Place = "return" => dyn)
    BY DEF Storing
  <2>3. round' = round \/ (Place = "return" /\ round' = round + 1)
    BY <2>1, <2>2 DEF Decision
  <2>4. CASE Place = "return" /\ round' = round + 1
    <3>1. Done("auditor", "", round) /\ Repaired(round)
      BY <2>4 DEF Auditing, Checked
    <3>2. GoesDynamic(round)
      BY <2>2, <2>4, DynamicPlan DEF Planned
    <3>3. \A q : q = round => Done("auditor", "", q)' /\ Repaired(q)' /\ GoesDynamic(q)'
      BY <1>1, <1>3, <1>7, <1>10, <3>1, <3>2
    <3>4. \A q : Earlier(q, round + 1) => Done("auditor", "", q)' /\ Repaired(q)' /\ GoesDynamic(q)'
      BY <1>4, <1>8, <3>3
    <3>5. \A q : Earlier(q, round') => Done("auditor", "", q)' /\ Repaired(q)' /\ GoesDynamic(q)'
      BY <2>4, <3>4
    <3>6. crashes' = 0 => \A k \in DOMAIN ckpt' : ~Earlier(round + 1, k[2])
      BY <1>4, <1>6, <1>c, <2>1
    <3>7. crashes' = 0 => \A k \in DOMAIN ckpt' : ~Earlier(round', k[2])
      BY <2>4, <3>6
    <3> QED BY <1>5, <3>5, <3>7 DEF Rounds, Earlier
  <2> QED BY <1>9, <2>1, <2>3, <2>4
<1>11. CASE Passing
  BY <1>9, <1>11, Passes
<1>12. CASE Staying
  BY <1>9, <1>12 DEF Staying
<1>13. CASE Leaving
  BY <1>9, <1>13 DEF Leaving
<1>14. CASE Restarting
  <2>1. round' = 0 /\ crashes' # 0
    BY <1>14 DEF Restarting
  <2>2. \A q : ~Earlier(q, round')
    BY <2>1, NothingEarlier
  <2> QED BY <1>5, <2>1, <2>2 DEF Rounds, Earlier
<1> QED BY <1>10, <1>11, <1>12, <1>13, <1>14, Steps

LEMMA UnauditedStep ==
  ASSUME Inv, Returns, Stored, Histories, [Next]_vars
  PROVE  Unaudited'
<1>0. Marked /\ Storing /\ Overlaid /\ Planning /\ Coding /\ Auditing /\ Unaudited
  BY DEF Histories
<1>1. Growth
  BY <1>0, Steps
<1>2. CASE code' = code /\ audited' = audited
  <2>1. CASE code = "none" \/ audited
    BY <1>2, <2>1 DEF Unaudited
  <2>2. CASE ~(code = "none" \/ audited)
    <3>1. PICK q \in Numbers :
            \/ Begun("coder", "", q) /\ ~Done("auditor", "", q)
            \/ Begun("debugger", "", q) /\ ~Done("auditor", "post_debug", q)
      BY <1>0, <2>2 DEF Unaudited
    <3>2. Closed("auditor", "", q) => Place = "audit" /\ q = round /\ code # "none" /\ audited
      BY <1>0, EndsAt
    <3>3. Closed("auditor", "post_debug", q)
            => Place = "reaudit" /\ q = round /\ code # "none" /\ audited
      BY <1>0, EndsAt
    <3>4. /\ Done("auditor", "", q)' => Done("auditor", "", q)
          /\ Done("auditor", "post_debug", q)' => Done("auditor", "post_debug", q)
      BY <2>2, <3>2, <3>3 DEF Closed
    <3>5. /\ Begun("coder", "", q) => Begun("coder", "", q)'
          /\ Begun("debugger", "", q) => Begun("debugger", "", q)'
      BY <1>1 DEF Growth
    <3> QED BY <3>1, <3>4, <3>5 DEF Unaudited
  <2> QED BY <2>1, <2>2
<1>3. CASE ~(code' = code /\ audited' = audited)
  <2>1. NodeStep
    BY <1>3, DiskStays
  <2>2. /\ Stands(Node, Tag) /\ ckpt' = ckpt /\ doing = "running"
        /\ round \in Numbers
    BY <2>1, Kinds, NodeRuns, RoundIs
  <2>3. Begun(Node, Tag, Turn) /\ ~Done(Node, Tag, Turn)
    BY <1>0, <2>2 DEF Marked
  <2>4. CASE Node = "coder"
    <3>1. Tag = "" /\ Turn = round /\ Place \in {"code", "gather"}
      BY <2>2, <2>4 DEF Stands, Turn, PerRound
    <3>2. Begun("coder", "", round) /\ ~Done("coder", "", round)
      BY <2>3, <2>4, <3>1
    <3>3. CoderRuns(round, overlay)
      <4>1. CASE Place = "code"
        BY <1>0, <4>1 DEF Coding, CoderRuns
      <4>2. CASE Place = "gather"
        <5>1. todo # <<>> /\ Head(todo) = CodeStep
          <6>1. todo # <<>> /\ Head(todo) = <<Node, Tag>>
            BY <2>1, Kinds, HeadStands DEF Inv, IsNode
          <6> QED BY <2>4, <3>1, <6>1 DEF CodeStep
        <5>2. CoderAhead
          <6>1. Queue(Gathering, <<"if", "coder">>, todo)
            BY <4>2, ListAt DEF ToGather, Inv
          <6>2. \A S : todo \in Seq(S) /\ todo # <<>> => 1 \in DOMAIN todo /\ todo[1] = Head(todo)
            OBVIOUS
          <6>3. 1 \in DOMAIN todo /\ todo[1] = Head(todo)
            BY <5>1, <6>1, <6>2 DEF Queue
          <6> QED BY <5>1, <6>3 DEF CoderAhead
        <5>3. Wanted(round, overlay)
          BY <1>0, <4>2, <5>2 DEF Coding
        <5> QED BY <5>3 DEF CoderRuns
      <4> QED BY <3>1, <4>1, <4>2
    <3>4. ~Done("auditor", "", round)
      <4> SUFFICES ASSUME Done("auditor", "", round) PROVE FALSE
        OBVIOUS
      <4>1. Coderless(round)
        BY <1>0, <3>2 DEF Coding
      <4>2. Again /\ ~CoderRuns(round, OverlayOf(round))
        BY <4>1 DEF Coderless, Again
      <4>3. overlay = OverlayOf(round)
        BY <1>0, <3>1, <4>2 DEF Overlaid, InRound, Planned
      <4> QED BY <3>3, <4>2, <4>3
    <3>5. \E q \in Numbers : Begun("coder", "", q) /\ ~Done("auditor", "", q)
      BY <2>2, <3>2, <3>4
    <3>6. \E q \in Numbers : Begun("coder", "", q)' /\ ~Done("auditor", "", q)'
      BY <2>2, <3>5, HistoryStays
    <3> QED BY <3>6 DEF Unaudited
  <2>5. CASE Node = "debugger"
    <3>1. Tag = "" /\ Turn = round
      BY <1>0, <2>2, <2>5 DEF Stands, Turn, PerRound, Storing
    <3>2. Begun("debugger", "", round) /\ ~Done("debugger", "", round)
      BY <2>3, <2>5, <3>1
    <3>3. ~Done("auditor", "post_debug", round)
      BY <1>0, <3>2 DEF Auditing
    <3>5. \E q \in Numbers : Begun("debugger", "", q) /\ ~Done("auditor", "post_debug", q)
      BY <2>2, <3>2, <3>3
    <3>6. \E q \in Numbers : Begun("debugger", "", q)' /\ ~Done("auditor", "post_debug", q)'
      BY <2>2, <3>5, HistoryStays
    <3> QED BY <3>6 DEF Unaudited
  <2>6. CASE audited'
    BY <2>6 DEF Unaudited
  <2> QED BY <1>3, <2>1, <2>4, <2>5, <2>6, NodeWrites
<1> QED BY <1>2, <1>3

\* The round that runs code is the only one that can have left it unaudited.
LEMMA StoredAudit ==
  ASSUME Inv, Histories, Place = "execute", code # "none"
  PROVE  audited
<1>0. Storing /\ Planning /\ Auditing /\ Rounds /\ Unaudited
  BY DEF Histories
<1> SUFFICES ASSUME ~audited PROVE FALSE
  OBVIOUS
<1>1. PICK q \in Numbers :
        \/ Begun("coder", "", q) /\ ~Done("auditor", "", q)
        \/ Begun("debugger", "", q) /\ ~Done("auditor", "post_debug", q)
  BY <1>0 DEF Unaudited
<1>2. q = round \/ Earlier(q, round) \/ Earlier(round, q)
  BY RoundIs
<1>3. CASE q = round
  <2>1. Done("auditor", "", round) /\ Repaired(round)
    BY <1>0 DEF Auditing, Checked
  <2> QED BY <1>1, <1>3, <2>1 DEF Repaired
<1>4. CASE Earlier(q, round)
  BY <1>0, <1>1, <1>4 DEF Rounds, Repaired
<1>5. CASE Earlier(round, q)
  <2>1. \E k \in DOMAIN ckpt : k[2] = q
    BY <1>1 DEF Begun
  <2>2. GoesDynamic(round)
    BY <1>0, <1>5, <2>1 DEF Rounds
  <2>3. Done("analyst", "", round) /\ "dynamic" \in Elements(Plan(round))
    BY <2>2 DEF GoesDynamic
  <2>4. AnalystRuns(overlay)
    BY <1>0, <2>3 DEF Planning, Planned, Done
  <2>5. dyn
    BY <1>0, <2>3, <2>4 DEF Planning, Planned, PlanOf
  <2> QED BY <1>0, <2>5 DEF Storing
<1> QED BY <1>2, <1>3, <1>4, <1>5

\* Without checkpoints nothing is replayed: code past its audit is audited.
Careful ==
  Place \in {"judge", "choose", "execute", "verify", "retry"} => code = "none" \/ audited

LEMMA CarefulStep ==
  ASSUME Inv, Returns, ~Stored, Careful, [Next]_vars
  PROVE  Careful'
<1>0. TypeInv /\ Shape
  BY DEF Inv
<1>1. CASE Decide
  <2>1. Decision /\ code' = code /\ audited' = audited
    BY <1>1, Decided
  <2>2. Place' \in {"judge", "choose", "execute", "verify", "retry"}
          => Place \in {"judge", "choose"}
    BY <2>1 DEF Decision
  <2> QED BY <2>1, <2>2 DEF Careful
<1>2. CASE Passing
  <2>1. Complete /\ doing = "returned" /\ IsNode /\ Apply(Head(todo), patch) /\ Fits(patch)
    BY <1>0, <1>2 DEF Passing, Replay, Completed, Complete, TypeInv
  <2>2. Place' = "blocked" \/ Advances
    BY <1>0, <2>1, ApplyMoves
  <2>3. Place \in NodeStages /\ Stands(Node, Tag)
    BY <1>0, <2>1, NodePlace
  <2>4. code' = code /\ audited' = audited
    BY <2>1 DEF Complete, disk
  <2>5. Place \in {"audit", "reaudit", "recheck"} => code = "none" \/ audited
    <3>1. Place \in {"audit", "reaudit", "recheck"} => Node = "auditor"
      BY <2>3, <2>1 DEF Stands, IsNode, Node
    <3> QED BY <2>1, <3>1 DEF Returns
  <2>6. Place' \in {"judge", "choose", "execute", "verify", "retry"}
          => Place \in {"audit", "reaudit", "recheck", "execute"}
    BY <2>2, <2>3 DEF Advances, NodeStages
  <2> QED BY <2>4, <2>5, <2>6 DEF Careful
<1>3. CASE Staying
  <2>1. Place' = Place
    BY <1>3 DEF Staying
  <2>2. Place \in {"judge", "choose", "execute", "verify", "retry"}
          => code' = code /\ audited' = audited
    <3>1. CASE ~NodeStep
      BY <3>1, DiskStays
    <3>2. CASE NodeStep
      <4>1. Stands(Node, Tag) /\ Place \in NodeStages
        BY <3>2, Kinds
      <4>2. Node \in {"coder", "debugger", "auditor"}
              => Place \notin {"judge", "choose", "execute", "verify", "retry"}
        BY <4>1 DEF Stands
      <4> QED BY <3>2, <4>2, NodeWrites
    <3> QED BY <3>1, <3>2
  <2> QED BY <2>1, <2>2 DEF Careful
<1>4. CASE Leaving
  BY <1>4 DEF Leaving, Careful
<1>5. CASE Restarting
  BY <1>5 DEF Restarting, Careful
<1> QED BY <1>1, <1>2, <1>3, <1>4, <1>5, Kinds

\* The inductive invariant of the audit.
AuditInv ==
  /\ Inv /\ Returns
  /\ Stored => Histories
  /\ ~Stored => Careful

LEMMA AuditInit ==
  ASSUME Init
  PROVE  AuditInv
<1>1. Inv /\ Place = "start"
  BY InvInit
<1>2. /\ round = 0 /\ crashes = 0 /\ doing = "idle" /\ code = "none" /\ record = "none"
      /\ ckpt = <<>>
  BY DEF Init
<1>3. /\ ~g.force_analyst /\ g.material_refresh_actions = <<>> /\ g.round_output = "stop"
  BY DEF Init, Fresh
<1>4. DOMAIN ckpt = {}
  BY <1>2
<1>5. ~Again /\ ~Later(round)
  BY <1>2 DEF Again, Later
<1>6. \A n, t, q : ~Begun(n, t, q) /\ ~Done(n, t, q)
  BY <1>4 DEF Begun, Done
<1>7. Storing
  BY <1>1, <1>3 DEF Storing
<1>8. Overlaid
  BY <1>1, <1>4, <1>5 DEF Overlaid, InRound, Planned, Opening
<1>9. Planning
  BY <1>1, <1>6 DEF Planning, Planned
<1>10. Coding
  BY <1>1, <1>2, <1>6 DEF Coding, Planned
<1>11. Auditing
  BY <1>1, <1>6 DEF Auditing, Checked
<1>12. Rounds
  <2>1. \A q : ~Earlier(q, round)
    BY <1>2, NothingEarlier
  <2> QED BY <1>4, <2>1 DEF Rounds
<1> QED BY <1>1, <1>2, <1>7, <1>8, <1>9, <1>10, <1>11, <1>12
  DEF AuditInv, Histories, Marked, Unaudited, Returns, Careful

LEMMA AuditStep ==
  ASSUME AuditInv, [Next]_vars
  PROVE  AuditInv'
<1>1. Inv /\ Returns /\ (Stored => Histories) /\ (~Stored => Careful)
  BY DEF AuditInv
<1>2. Inv' /\ Returns'
  BY <1>1, InvStep, ReturnsStep
<1>3. Stored' <=> Stored
  BY <1>1, Kinds DEF Stored
<1>4. ~Stored => Careful'
  BY <1>1, CarefulStep
<1>5. ASSUME Stored PROVE Histories'
  <2>1. Histories
    BY <1>1, <1>5
  <2>2. Marked /\ Storing /\ Overlaid /\ Planning /\ Coding /\ Auditing /\ Rounds
    BY <2>1 DEF Histories
  <2>3. Unaudited'
    BY <1>1, <1>5, <2>1, UnauditedStep
  <2>4. Marked' /\ Storing' /\ Overlaid' /\ Planning'
    BY <1>1, <1>5, <2>2, GrowthOf, StoringStep, OverlaidStep, PlanningStep
  <2>5. Coding' /\ Auditing' /\ Rounds'
    BY <1>1, <1>5, <2>2, CodingStep, AuditingStep, RoundsStep
  <2> QED BY <2>3, <2>4, <2>5 DEF Histories
<1> QED BY <1>2, <1>3, <1>4, <1>5 DEF AuditInv

\* The executor never takes code to the sandbox that no auditor has seen,
\* whatever was replayed, repaired or written again after a crash.
THEOREM NothingRunsUnaudited == Spec => []AuditedBeforeRun
<1>1. AuditInv => AuditedBeforeRun
  <2> SUFFICES ASSUME AuditInv, Runs("executor"), code # "none" PROVE audited
    BY DEF AuditedBeforeRun
  <2>1. Inv /\ (Stored => Histories) /\ (~Stored => Careful)
    BY DEF AuditInv
  <2>2. IsNode /\ Node = "executor"
    BY <2>1 DEF Runs, AtNode, Node, Inv, TypeInv
  <2>3. Place \in {"execute", "retry"}
    BY <2>1, <2>2, NodePlace DEF Stands, Inv
  <2>4. Histories => Place # "retry"
    BY DEF Histories, Storing
  <2> QED BY <2>1, <2>3, <2>4, StoredAudit DEF Careful
<1>2. Spec => []AuditInv
  BY AuditInit, AuditStep, PTL DEF Spec
<1> QED BY <1>1, <1>2, PTL
-----------------------------------------------------------------------------
(* The record of the run *)

Late == {"blocked", "giveup", "failure", "lost", "over"}
Executed == {"verify", "harvest", "close", "end", "conclude"}

ReturnsRun == doing = "returned" /\ Node = "executor"

\* The graph state and the record on disk agree on success.
Agreeing ==
  /\ status = "success" => Place = "over" /\ record = "ok"
  /\ g.execution_record = "ok" => record = "ok" \/ ReturnsRun \/ Place \in Late
  /\ crashes = 0 /\ record = "ok" => g.execution_record = "ok" \/ ReturnsRun \/ Place \in Late

\* Before the first crash the summarizer has said "working" when the flow
\* comes to its verdict.
Concluding ==
  crashes = 0 /\ (Place = "conclude" \/ (Place = "end" /\ doing = "returned"))
    => status = "working"

\* Only the executor's checkpoints hold a record.
Ran(n) == n = "executor"
Plain ==
  \A n, t, q : Done(n, t, q) /\ ~Ran(n) => "execution_record" \notin DOMAIN Output(n, t, q)

\* With checkpoints the executor runs in the last round only.
Found(q) ==
  /\ Done("executor", "", q) /\ ~GoesDynamic(q)
  /\ Value(Output("executor", "", q), "execution_record") = "ok"
Recording ==
  /\ g.execution_record = "ok" => Place \in Executed \cup Late
  /\ g.execution_record = "ok" /\ Place \in {"harvest", "close"} => g.round_output = "stop"
  /\ \A q \in Numbers : Found(q) => record = "ok"

\* Before the first crash a node that follows the executor has not run yet: no
\* replay brings an old record back.
Fresher ==
  crashes = 0 =>
    /\ record = "ok" => (Place = "execute" /\ doing = "returned") \/ Place \in Executed \cup Late
    /\ Place \in {"start"} \cup (InRound \ {"close", "explore", "return"})
         /\ Begun("skill_harvester", "", round) => Place = "harvest" /\ doing # "idle"
    /\ Place \in {"start", "end"} \cup InRound /\ Begun("summarizer", "", 0)
         => Place = "end" /\ doing # "idle"

LEMMA RecordOf ==
  ASSUME NodeStep, record' # record
  PROVE  Node = "executor"
BY DEF NodeStep, Analyst, StaticEvidence, EvidenceCompiler, DataInspector, KagRetriever,
    ContextBuilder, CoderNode, CoderNoContext, WriteCode, DebuggerNode, AuditorNoCode,
    AuditorSafe, AuditorRepair, AuditorGivesUp, ExecutorNoCode, Executor, SkillHarvester,
    Summarizer, Dynamic, Runs, AtNode, Node, NoWrite, disk

\* What the patch of a node that has run leaves, with or without checkpoints.
LEMMA Completes ==
  ASSUME Inv, Returns, Complete
  PROVE  /\ IsNode /\ Stands(Node, Tag) /\ Place \in NodeStages /\ Node \notin {"if", "verdict"}
         /\ doing = "returned" /\ doing' = "idle" /\ status' = status /\ record' = record
         /\ crashes' = crashes
         /\ Place' = "blocked" \/ Advances
         /\ Node = "executor" => g'.execution_record = record
         /\ Node # "executor" => g'.execution_record = g.execution_record
<1>1. TypeInv /\ Shape /\ DOMAIN g = Fields
  BY DEF Inv, TypeInv
<1>2. /\ doing = "returned" /\ doing' = "idle" /\ status' = status /\ record' = record
      /\ crashes' = crashes /\ Apply(Head(todo), patch) /\ IsNode /\ Fits(patch)
  BY <1>1 DEF Complete, disk, TypeInv
<1>3. Stands(Node, Tag) /\ Place \in NodeStages /\ Node \notin {"if", "verdict"}
  BY <1>1, <1>2, NodePlace
<1>4. Place' = "blocked" \/ Advances
  BY <1>1, <1>2, ApplyMoves
<1>5. g'.execution_record =
        IF "execution_record" \in DOMAIN patch THEN patch.execution_record
                                               ELSE g.execution_record
  BY <1>1, <1>2, Applies
<1> QED BY <1>2, <1>3, <1>4, <1>5 DEF Returns

\* A flow that is over stays so.
LEMMA OverStays ==
  ASSUME Inv, Place = "over", [Next]_vars
  PROVE  UNCHANGED vars
<1>1. todo = <<>>
  BY ListAt DEF Inv
<1>2. ~IsNode /\ doing = "idle"
  BY <1>1 DEF IsNode, Inv, TypeInv
<1>3. CASE Decide
  <2>1. Deciding
    BY <1>3, Decisions
  <2> QED BY <1>1, <2>1 DEF Deciding
<1>4. CASE Replay \/ Begin \/ Complete \/ Reject \/ Raise \/ LoseLease
  BY <1>2, <1>4 DEF Replay, Begin, Complete, Reject, Raise, LoseLease, Runs
<1>5. CASE NodeStep
  BY <1>2, <1>5, NodeRuns
<1>6. CASE WriteVerdict \/ VerdictRaises \/ Crash
  BY <1>1, <1>6 DEF WriteVerdict, VerdictRaises, Crash, AtNode
<1> QED BY <1>3, <1>4, <1>5, <1>6 DEF Next, FlowStep, Ended

\* A task becomes SUCCESS at the flow's verdict, on the graph state's record.
LEMMA BecomesSuccess ==
  ASSUME Inv, [Next]_vars, status' = "success", status # "success"
  PROVE  /\ Place = "conclude" /\ Place' = "over" /\ g.execution_record = "ok"
         /\ record' = record /\ doing = "idle"
<1>0. TypeInv /\ Shape
  BY DEF Inv
<1>1. WriteVerdict
  <2>1. CASE Decide
    BY <2>1, Decided
  <2>2. CASE NodeStep
    BY <2>2 DEF NodeStep, Analyst, StaticEvidence, EvidenceCompiler, DataInspector,
      PrepareBlocked, KagRetriever, ContextBuilder, CoderNode, CoderNoContext, DebuggerNode,
      AuditorNoCode, AuditorSafe, AuditorRepair, AuditorGivesUp, ExecutorNoCode, Executor,
      SkillHarvester, Summarizer, Dynamic, Working
  <2>3. CASE Replay \/ Begin \/ Complete \/ Reject \/ VerdictRaises \/ Crash \/ UNCHANGED vars
    BY <2>3 DEF Replay, Begin, Complete, Reject, VerdictRaises, Crash, vars
  <2>4. CASE Raise \/ LoseLease
    BY <2>4 DEF Raise, LoseLease
  <2> QED BY <2>1, <2>2, <2>3, <2>4 DEF Next, FlowStep, Ended
<1>2. Node = "verdict" /\ todo # <<>> /\ Verdict(Tag) = "success" /\ todo' = <<>>
      /\ record' = record
  BY <1>1 DEF WriteVerdict, AtNode, Node, Tag, disk
<1>3. Tag = "flow" /\ g.execution_record = "ok"
  BY <1>2 DEF Verdict, FlowVerdict
<1>4. Place = "conclude"
  BY <1>0, <1>2, <1>3, HeadStands DEF Stands
<1>5. Place' = "over"
  BY <1>0, <1>1, FlowMoves
<1>6. doing = "idle"
  BY <1>0, <1>2 DEF TypeInv, IsNode, Node
<1> QED BY <1>2, <1>3, <1>4, <1>5, <1>6

\* A round with an executor has not gone to the dynamic path.
LEMMA NotDynamic ==
  ASSUME Storing, Planning, Place = "execute"
  PROVE  ~GoesDynamic(round)
<1> SUFFICES ASSUME GoesDynamic(round) PROVE FALSE
  OBVIOUS
<1>1. Done("analyst", "", round) /\ "dynamic" \in Elements(Plan(round))
  BY DEF GoesDynamic
<1>2. AnalystRuns(overlay)
  BY <1>1 DEF Planning, Planned, Done
<1>3. dyn
  BY <1>1, <1>2 DEF Planning, Planned, PlanOf
<1> QED BY <1>3 DEF Storing

\* A replay brings back the executor's record or none.
LEMMA ReplayBrings ==
  ASSUME Inv, Returns, Stored, Histories, Plain, Recording, Replay, [Next]_vars,
         g'.execution_record = "ok"
  PROVE  record = "ok" /\ Place = "execute"
<1>0. Marked /\ Storing /\ Planning
  BY DEF Histories
<1>1. /\ Stands(Node, Tag) /\ Node \notin {"if", "verdict"}
      /\ \A n, t, q : n = Node /\ t = Tag /\ q = Turn =>
           /\ Done(n, t, q)'
           /\ g'.execution_record = Value(Output(n, t, q), "execution_record")'
  BY <1>0, Passes DEF Passing
<1>2. ckpt' = ckpt
  BY DEF Replay
<1>3. \A n, t, q : n = Node /\ t = Tag /\ q = Turn =>
        Done(n, t, q) /\ Value(Output(n, t, q), "execution_record") = "ok"
  BY <1>1, <1>2, HistoryStays DEF Value
<1>4. Done(Node, Tag, Turn) /\ Value(Output(Node, Tag, Turn), "execution_record") = "ok"
  BY <1>3
<1>5. Node = "executor"
  <2> SUFFICES ASSUME ~Ran(Node) PROVE FALSE
    BY DEF Ran
  <2>1. "execution_record" \notin DOMAIN Output(Node, Tag, Turn)
    BY <1>4 DEF Plain
  <2>2. Value(Output(Node, Tag, Turn), "execution_record") = "none"
    BY <2>1 DEF Value, Defaults
  <2> QED BY <1>4, <2>2
<1>6. Place = "execute" /\ Tag = "" /\ Turn = round
  BY <1>0, <1>1, <1>5 DEF Stands, Storing, Turn, PerRound
<1>7. Found(round)
  BY <1>0, <1>4, <1>5, <1>6, NotDynamic DEF Found
<1> QED BY <1>6, <1>7, RoundIs DEF Recording

\* Before the first crash nothing is replayed once the run has succeeded,
\* short of a summary of what is blocked.
LEMMA NothingReplayed ==
  ASSUME Inv, Returns, Stored, Histories, Fresher, Replay, [Next]_vars, crashes = 0, record = "ok"
  PROVE  Place = "blocked"
<1>0. Marked /\ Storing
  BY DEF Histories
<1>1. /\ Stands(Node, Tag) /\ Node \notin {"if", "verdict"} /\ Place \in NodeStages
      /\ doing = "idle"
      /\ \A n, t, q : n = Node /\ t = Tag /\ q = Turn => Done(n, t, q)'
  <2>1. doing = "idle"
    BY DEF Replay
  <2> QED BY <1>0, <2>1, Passes DEF Passing
<1>2. ckpt' = ckpt
  BY DEF Replay
<1>3. \A n, t, q : n = Node /\ t = Tag /\ q = Turn => Begun(n, t, q)
  <2>1. \A n, t, q : Done(n, t, q)' => Begun(n, t, q)'
    BY DEF Done
  <2> QED BY <1>1, <1>2, <2>1, HistoryStays
<1>4. Place \in {"harvest", "end", "blocked"}
  BY <1>1 DEF Fresher, Executed, Late, NodeStages
<1>5. Place # "harvest"
  <2> SUFFICES ASSUME Place = "harvest" PROVE FALSE
    OBVIOUS
  <2>1. Begun("skill_harvester", "", round)
    BY <1>1, <1>3, NodesAt
  <2> QED BY <1>1, <2>1 DEF Fresher, InRound, Planned
<1>6. Place # "end"
  <2> SUFFICES ASSUME Place = "end" PROVE FALSE
    OBVIOUS
  <2>1. Begun("summarizer", "", 0)
    BY <1>1, <1>3, NodesAt
  <2> QED BY <1>1, <2>1 DEF Fresher
<1> QED BY <1>4, <1>5, <1>6

\* What the invariant of the record has for a replay.
Replaying == Stored => Histories /\ Plain /\ Recording /\ Fresher

LEMMA AgreeingStep ==
  ASSUME Inv, Returns, Replaying, Agreeing, [Next]_vars
  PROVE  Agreeing'
<1>0. TypeInv /\ Shape
  BY DEF Inv
<1>1. status' = "success" => Place' = "over" /\ record' = "ok"
  <2> HAVE status' = "success"
  <2>1. CASE status = "success"
    <3>1. UNCHANGED vars
      BY <2>1, OverStays DEF Agreeing
    <3>2. Place' = Place /\ record' = record
      BY <1>0, <3>1, FlowMoves DEF vars, memory, disk
    <3> QED BY <2>1, <3>2 DEF Agreeing
  <2>2. CASE status # "success"
    BY <2>2, BecomesSuccess DEF Agreeing, ReturnsRun, Late
  <2> QED BY <2>1, <2>2
<1> DEFINE Same ==
      /\ g'.execution_record = "ok" => record' = "ok" \/ ReturnsRun' \/ Place' \in Late
      /\ crashes' = 0 /\ record' = "ok"
           => g'.execution_record = "ok" \/ ReturnsRun' \/ Place' \in Late
<1> SUFFICES Same
  BY <1>1 DEF Agreeing
<1>2. CASE Decide
  <2>1. /\ g'.execution_record = g.execution_record /\ record' = record /\ crashes' = crashes
        /\ doing = "idle" /\ Decision
    BY <1>2, Decided
  <2>2. Place \notin Late
    BY <2>1 DEF Decision, Late
  <2> QED BY <2>1, <2>2 DEF Agreeing, ReturnsRun
<1>3. CASE Complete
  <2>1. /\ Place \in NodeStages /\ (Place' = "blocked" \/ Advances)
        /\ record' = record /\ crashes' = crashes
        /\ Node = "executor" => g'.execution_record = record
        /\ Node # "executor" => g'.execution_record = g.execution_record
    BY <1>3, Completes
  <2>2. Place \in Late => Place' \in Late
    <3>1. Place \in Late => Place = "blocked"
      BY <2>1 DEF Late, NodeStages
    <3>2. Place = "blocked" => Place' = "blocked" \/ Place' = "giveup"
      BY <2>1 DEF Advances
    <3> QED BY <3>1, <3>2 DEF Late
  <2> QED BY <2>1, <2>2 DEF Agreeing, ReturnsRun
<1>4. CASE Replay
  <2>1. Stored /\ doing = "idle"
    BY <1>4 DEF Replay, Completed
  <2>2. Histories /\ Plain /\ Recording /\ Fresher /\ Marked
    BY <2>1 DEF Replaying, Histories
  <2>3. crashes' = crashes /\ (Place' = "blocked" \/ Advances)
    BY <1>4, <2>1, <2>2, Passes DEF Passing
  <2>4. record' = record
    BY <1>4 DEF Replay, disk
  <2>5. g'.execution_record = "ok" => record = "ok"
    BY <1>4, <2>1, <2>2, ReplayBrings
  <2>6. crashes = 0 /\ record = "ok" => Place = "blocked"
    BY <1>4, <2>1, <2>2, NothingReplayed
  <2> QED BY <2>3, <2>4, <2>5, <2>6 DEF Advances, Late
<1>5. CASE NodeStep
  <2>1. /\ Place' = Place /\ g' = g /\ crashes' = crashes /\ Node' = Node
        /\ doing = "running" /\ doing' = "returned"
    BY <1>5, Kinds, NodeRuns DEF Staying
  <2>2. record' = record \/ ReturnsRun'
    BY <1>5, <2>1, RecordOf DEF ReturnsRun
  <2> QED BY <2>1, <2>2 DEF Agreeing, ReturnsRun
<1>6. CASE Begin
  <2>1. /\ Place' = Place /\ g' = g /\ crashes' = crashes /\ doing = "idle" /\ record' = record
    BY <1>6, Kinds DEF Staying, Begin, disk
  <2> QED BY <2>1 DEF Agreeing, ReturnsRun
<1>7. CASE UNCHANGED vars
  <2>1. /\ Place' = Place /\ g' = g /\ crashes' = crashes /\ doing' = doing /\ record' = record
        /\ Node' = Node
    BY <1>0, <1>7, FlowMoves DEF vars, memory, disk, Node
  <2> QED BY <2>1 DEF Agreeing, ReturnsRun
<1>8. CASE Leaving
  BY <1>8 DEF Leaving, Late
<1>9. CASE Restarting
  BY <1>9 DEF Restarting, Fresh
<1> QED BY <1>2, <1>3, <1>4, <1>5, <1>6, <1>7, <1>8, <1>9, Kinds DEF Passing, Staying

LEMMA ConcludingStep ==
  ASSUME Inv, Returns, Stored => Marked /\ Storing /\ Fresher, Concluding, [Next]_vars
  PROVE  Concluding'
<1>0. TypeInv /\ Shape
  BY DEF Inv
<1> SUFFICES ASSUME crashes' = 0, Place' = "conclude" \/ (Place' = "end" /\ doing' = "returned")
             PROVE  status' = "working"
  BY DEF Concluding
<1>1. CASE Decide
  <2>1. Decision /\ doing' = "idle"
    BY <1>1, Decided
  <2> QED BY <2>1 DEF Decision
<1>2. CASE Complete
  <2>1. /\ Place \in NodeStages /\ (Place' = "blocked" \/ Advances)
        /\ crashes' = crashes /\ status' = status /\ doing = "returned" /\ doing' = "idle"
    BY <1>2, Completes
  <2>2. Place' = "conclude" => Place = "end"
    BY <2>1 DEF Advances, NodeStages
  <2> QED BY <2>1, <2>2 DEF Concluding
<1>3. CASE Replay
  <2>1. Stored /\ doing = "idle"
    BY <1>3 DEF Replay, Completed
  <2>2. /\ crashes' = crashes /\ (Place' = "blocked" \/ Advances)
        /\ Place \in NodeStages /\ doing' = "idle"
        /\ Stands(Node, Tag) /\ Node \notin {"if", "verdict"}
        /\ \A n, t, q : n = Node /\ t = Tag /\ q = Turn => Done(n, t, q)'
    BY <1>3, <2>1, Passes DEF Passing
  <2>3. Place = "end"
    BY <2>2 DEF Advances, NodeStages
  <2>4. Done("summarizer", "", 0)'
    BY <2>2, <2>3, NodesAt
  <2>5. Begun("summarizer", "", 0)
    BY <1>3, <2>4, HistoryStays DEF Replay, Done
  <2> QED BY <2>1, <2>2, <2>3, <2>5 DEF Fresher
<1>4. CASE NodeStep
  <2>1. /\ Place' = Place /\ doing' = "returned" /\ Stands(Node, Tag) /\ Place \in NodeStages
    BY <1>4, Kinds, NodeRuns DEF Staying
  <2>2. Place = "end"
    BY <2>1 DEF NodeStages
  <2>3. Node = "summarizer"
    BY <2>1, <2>2 DEF Stands
  <2> QED BY <1>4, <2>3 DEF NodeStep, Analyst, StaticEvidence, EvidenceCompiler, DataInspector,
      KagRetriever, ContextBuilder, CoderNode, CoderNoContext, DebuggerNode, AuditorNoCode,
      AuditorSafe, AuditorRepair, AuditorGivesUp, ExecutorNoCode, Executor, SkillHarvester,
      Summarizer, Dynamic, Runs, AtNode, Node, Working
<1>5. CASE Begin
  <2>1. Place' = Place /\ crashes' = crashes /\ doing' = "running" /\ Place \in NodeStages
    BY <1>5, Kinds DEF Staying, Begin
  <2> QED BY <2>1 DEF NodeStages
<1>6. CASE UNCHANGED vars
  <2>1. Place' = Place /\ crashes' = crashes /\ doing' = doing /\ status' = status
    BY <1>0, <1>6, FlowMoves DEF vars, memory
  <2> QED BY <2>1 DEF Concluding
<1>7. CASE Leaving
  BY <1>7 DEF Leaving
<1>8. CASE Restarting
  BY <1>8 DEF Restarting
<1> QED BY <1>1, <1>2, <1>3, <1>4, <1>5, <1>6, <1>7, <1>8, Kinds DEF Passing, Staying

LEMMA PlainStep ==
  ASSUME Inv, Returns, Stored, Marked, Plain, [Next]_vars
  PROVE  Plain'
<1> SUFFICES ASSUME NEW n, NEW t, NEW q, Done(n, t, q)', ~Ran(n)
             PROVE  "execution_record" \notin DOMAIN Output(n, t, q)'
  BY DEF Plain, Ran
<1>1. CASE Done(n, t, q)
  <2>1. Output(n, t, q)' = Output(n, t, q)
    BY <1>1, Steps DEF Growth
  <2> QED BY <1>1, <2>1 DEF Plain
<1>2. CASE ~Done(n, t, q)
  <2>1. Complete /\ Output(n, t, q)' = patch /\ n = Node
    BY <1>2, EndsAt DEF Closed
  <2>2. doing = "returned" /\ Node # "executor"
    BY <2>1, Completes DEF Ran
  <2> QED BY <2>1, <2>2 DEF Returns
<1> QED BY <1>1, <1>2

LEMMA RecordingStep ==
  ASSUME Inv, Returns, Stored, Histories, Plain, Recording, [Next]_vars
  PROVE  Recording'
<1>0. Marked /\ Storing /\ Planning /\ Rounds
  BY DEF Histories
<1>1. Growth
  BY <1>0, Steps
<1>a. /\ g.execution_record = "ok" => Place \in Executed \cup Late
      /\ g.execution_record = "ok" /\ Place \in {"harvest", "close"} => g.round_output = "stop"
      /\ \A q \in Numbers : Found(q) => record = "ok"
  BY DEF Recording
<1>2. ASSUME NEW q \in Numbers, Found(q)' PROVE record' = "ok"
  <2>1. ~GoesDynamic(q)
    BY <1>1, <1>2, Fixed DEF Found
  <2>2. CASE Done("executor", "", q)
    <3>1. Output("executor", "", q)' = Output("executor", "", q)
      BY <1>1, <2>2 DEF Growth
    <3>2. Found(q)
      BY <1>2, <2>1, <2>2, <3>1 DEF Found, Value
    <3>3. record = "ok"
      BY <1>a, <3>2
    <3>4. CASE NodeStep /\ record' # record
      <4>1. Node = "executor" /\ Stands(Node, Tag) /\ doing = "running"
        BY <3>4, RecordOf, Kinds, NodeRuns
      <4>2. Place = "execute" /\ Tag = "" /\ Turn = round
        BY <1>0, <4>1 DEF Stands, Storing, Turn, PerRound
      <4>3. ~Done("executor", "", round)
        BY <1>0, <4>1, <4>2 DEF Marked
      <4>4. ~GoesDynamic(round)
        BY <1>0, <4>2, NotDynamic
      <4>5. q = round \/ Earlier(q, round) \/ Earlier(round, q)
        BY RoundIs
      <4>6. Earlier(q, round) => GoesDynamic(q)
        BY <1>0 DEF Rounds
      <4>7. Earlier(round, q) => GoesDynamic(round)
        <5>1. \E k \in DOMAIN ckpt : k[2] = q
          BY <2>2 DEF Done, Begun
        <5> QED BY <1>0, <5>1 DEF Rounds
      <4> QED BY <2>1, <2>2, <4>3, <4>4, <4>5, <4>6, <4>7
    <3>5. CASE ~NodeStep
      BY <3>3, <3>5, DiskStays
    <3> QED BY <3>3, <3>4, <3>5
  <2>3. CASE ~Done("executor", "", q)
    <3>1. Complete /\ Output("executor", "", q)' = patch /\ "executor" = Node
      BY <1>0, <1>2, <2>3, EndsAt DEF Found, Closed
    <3>2. doing = "returned" /\ record' = record
      BY <3>1, Completes
    <3>3. "execution_record" \in DOMAIN patch /\ patch.execution_record = record
      BY <3>1, <3>2 DEF Returns
    <3> QED BY <1>2, <3>1, <3>2, <3>3 DEF Found, Value
  <2> QED BY <2>2, <2>3
<1> DEFINE Same ==
      /\ g'.execution_record = "ok" => Place' \in Executed \cup Late
      /\ g'.execution_record = "ok" /\ Place' \in {"harvest", "close"}
           => g'.round_output = "stop"
<1> SUFFICES Same
  <2>1. (\A q \in Numbers : Found(q) => record = "ok")'
    BY <1>2 DEF Numbers
  <2> QED BY <2>1 DEF Recording
<1>3. CASE Decide
  <2>1. g'.execution_record = g.execution_record /\ Decision
    BY <1>3, Decided
  <2>2. g.round_output # "again" /\ (Place = "verify" => g.round_output = "stop")
    BY <1>0 DEF Storing
  <2>3. g.execution_record = "ok" => Place \in {"verify", "close"}
    BY <1>a, <2>1 DEF Decision, Executed, Late
  <2>4. Place = "verify" => Place' = "harvest" /\ g' = g
    BY <2>1, <2>2 DEF Decision
  <2>5. Place = "close" /\ g.round_output = "stop" => Place' = "end"
    BY <2>1 DEF Decision
  <2> QED BY <1>a, <2>1, <2>2, <2>3, <2>4, <2>5 DEF Executed
<1>4. CASE Passing /\ g'.execution_record = "ok"
  <2>1. /\ Stands(Node, Tag) /\ Place \in NodeStages /\ Node \notin {"if", "verdict"}
        /\ Place' = "blocked" \/ Advances
        /\ g'.round_output = IF Node = "executor" THEN "stop" ELSE g.round_output
    BY <1>0, <1>4, Passes
  <2>2. Place = "execute" \/ Place \in {"harvest", "end", "blocked"}
    <3>1. CASE Replay
      BY <1>4, <3>1, ReplayBrings
    <3>2. CASE Complete /\ Node = "executor"
      BY <1>0, <2>1, <3>2 DEF Stands, Storing
    <3>3. CASE Complete /\ Node # "executor"
      <4>1. g.execution_record = "ok"
        BY <1>4, <3>3, Completes
      <4> QED BY <1>a, <2>1, <4>1 DEF Executed, Late, NodeStages
    <3> QED BY <1>4, <3>1, <3>2, <3>3 DEF Passing
  <2>3. \/ Place' = "blocked"
        \/ Place = "execute" /\ Place' = "verify"
        \/ Place = "harvest" /\ Place' = "close"
        \/ Place = "end" /\ Place' = "conclude"
        \/ Place = "blocked" /\ Place' = "giveup"
    BY <2>1, <2>2 DEF Advances
  <2>4. Place = "harvest" => Node # "executor"
    BY <2>1, NodesAt
  <2>5. Place = "harvest" => g.round_output = "stop"
    <3>1. Place = "harvest" => ~Replay
      BY <1>4, ReplayBrings
    <3>2. Place = "harvest" => g.execution_record = "ok"
      BY <1>4, <2>4, <3>1, Completes DEF Passing
    <3> QED BY <1>a, <3>2
  <2> QED BY <2>1, <2>3, <2>4, <2>5 DEF Executed, Late
<1>5. CASE Staying
  BY <1>5, <1>a DEF Staying
<1>6. CASE Leaving
  BY <1>6 DEF Leaving, Late
<1>7. CASE Restarting
  BY <1>7 DEF Restarting, Fresh
<1> QED BY <1>3, <1>4, <1>5, <1>6, <1>7, Kinds

LEMMA FresherStep ==
  ASSUME Inv, Returns, Stored, Histories, Plain, Recording, Fresher, Agreeing, [Next]_vars
  PROVE  Fresher'
<1>0. Marked /\ Storing /\ Rounds
  BY DEF Histories
<1> SUFFICES ASSUME crashes' = 0 PROVE Fresher'
  BY DEF Fresher
<1>1. /\ \/ Decide
         \/ Passing
         \/ Staying /\ ~Passing
         \/ Leaving /\ ~Passing
      /\ ~Begin => \A n, t, q : Begun(n, t, q)' <=> Begun(n, t, q)
      /\ Decide \/ Passing \/ Leaving => ~Begin
      /\ crashes = 0
  <2>1. ~Restarting
    BY DEF Restarting
  <2>2. /\ \/ Decide
           \/ Passing
           \/ Staying /\ ~Passing
           \/ Leaving /\ ~Passing
        /\ ~Begin => \A n, t, q : Begun(n, t, q)' <=> Begun(n, t, q)
        /\ Decide \/ Passing \/ Leaving => ~Begin
    BY <1>0, <2>1, Steps
  <2>3. crashes' = crashes
    BY <1>0, <2>2, Decided, Passes DEF Staying, Leaving
  <2> QED BY <2>2, <2>3
<1>a. record = "ok" => (Place = "execute" /\ doing = "returned") \/ Place \in Executed \cup Late
  BY <1>1 DEF Fresher
<1>b. Place \in {"start"} \cup (InRound \ {"close", "explore", "return"})
        /\ Begun("skill_harvester", "", round) => Place = "harvest" /\ doing # "idle"
  BY <1>1 DEF Fresher
<1>c. Place \in {"start", "end"} \cup InRound /\ Begun("summarizer", "", 0)
        => Place = "end" /\ doing # "idle"
  BY <1>1 DEF Fresher
<1>2. CASE Decide
  <2>1. Decision /\ record' = record /\ doing = "idle"
    BY <1>2, Decided
  <2>2. /\ g.round_output # "again" /\ (Place = "verify" => g.round_output = "stop")
    BY <1>0 DEF Storing
  <2>3. record = "ok" => Place' \in Executed
    <3> HAVE record = "ok"
    <3>1. Place \in {"verify", "close"}
      BY <1>a, <2>1 DEF Decision, Executed, Late
    <3>2. Place = "close" => g.round_output = "stop"
      BY <1>1, <2>1 DEF Agreeing, Recording, ReturnsRun, Late
    <3> QED BY <2>1, <2>2, <3>1, <3>2 DEF Decision, Executed
  <2>4. Place' \in {"start"} \cup (InRound \ {"close", "explore", "return"})
          => ~Begun("skill_harvester", "", round)'
    <3> HAVE Place' \in {"start"} \cup (InRound \ {"close", "explore", "return"})
    <3>1. CASE Place = "return" /\ round' = round + 1
      <4>1. Earlier(round, round + 1)
        BY RoundIs
      <4>2. \A q : Begun("skill_harvester", "", q) => \E k \in DOMAIN ckpt : k[2] = q
        BY DEF Begun
      <4>3. \A q : q = round + 1 => ~Begun("skill_harvester", "", q)
        BY <1>0, <1>1, <4>1, <4>2 DEF Rounds
      <4>4. \A q : q = round' => ~Begun("skill_harvester", "", q)'
        BY <1>1, <1>2, <3>1, <4>3
      <4> QED BY <4>4
    <3>2. CASE ~(Place = "return" /\ round' = round + 1)
      <4>1. round' = round /\ Place \in {"start"} \cup (InRound \ {"close", "explore", "return"})
        BY <2>1, <2>2, <3>2 DEF Decision, InRound, Planned, Opening
      <4>2. \A q : q = round => ~Begun("skill_harvester", "", q)
        BY <1>b, <2>1, <4>1
      <4>3. \A q : q = round' => ~Begun("skill_harvester", "", q)'
        BY <1>1, <1>2, <4>1, <4>2
      <4> QED BY <4>3
    <3> QED BY <3>1, <3>2
  <2>5. ~Begun("summarizer", "", 0)'
    <3>1. Place \in {"start", "end"} \cup InRound
      BY <2>1 DEF Decision, InRound, Planned, Opening
    <3> QED BY <1>1, <1>2, <1>c, <2>1, <3>1
  <2> QED BY <2>1, <2>3, <2>4, <2>5 DEF Fresher
<1>3. CASE Passing
  <2>1. /\ Place \in NodeStages /\ (Place' = "blocked" \/ Advances)
        /\ round' = round /\ doing' = "idle"
    BY <1>0, <1>3, Passes
  <2>2. record' = record
    BY <1>3 DEF Passing, Replay, Complete, disk
  <2>3. record = "ok" => Place' \in Executed \cup Late
    <3> HAVE record = "ok"
    <3>1. Place \in {"execute", "harvest", "end", "blocked"}
      BY <1>a, <2>1 DEF Executed, Late, NodeStages
    <3> QED BY <2>1, <3>1 DEF Advances, Executed, Late
  <2>4. Place' \in {"start"} \cup (InRound \ {"close", "explore", "return"})
          => ~Begun("skill_harvester", "", round)'
    <3> HAVE Place' \in {"start"} \cup (InRound \ {"close", "explore", "return"})
    <3>1. Place \in (InRound \ {"close", "explore", "return", "harvest"})
      BY <1>0, <2>1 DEF Advances, NodeStages, Storing, InRound, Planned, Opening
    <3>2. \A q : q = round => ~Begun("skill_harvester", "", q)
      BY <1>b, <3>1
    <3>3. \A q : q = round' => ~Begun("skill_harvester", "", q)'
      BY <1>1, <1>3, <2>1, <3>2
    <3> QED BY <3>3
  <2>5. Place' \in {"start", "end"} \cup InRound => ~Begun("summarizer", "", 0)'
    <3> HAVE Place' \in {"start", "end"} \cup InRound
    <3>1. Place \in InRound
      BY <1>0, <2>1 DEF Advances, NodeStages, Storing, InRound, Planned, Opening
    <3>2. Place # "end"
      BY <3>1 DEF InRound, Planned, Opening
    <3> QED BY <1>1, <1>3, <1>c, <3>1, <3>2
  <2> QED BY <2>2, <2>3, <2>4, <2>5 DEF Fresher
<1>4. CASE Begin
  <2>1. Place' = Place /\ round' = round /\ doing = "idle" /\ doing' = "running"
        /\ record' = record
    BY <1>4, Kinds DEF Staying, Begin, disk
  <2>2. record' = "ok" => Place' \in Executed \cup Late
    BY <1>a, <2>1
  <2>3. Place \in {"start"} \cup (InRound \ {"close", "explore", "return"})
          /\ Begun("skill_harvester", "", round)' => Place = "harvest"
    <3>1. New("skill_harvester", "", round) => Place = "harvest"
      BY <1>0, BeginsAt
    <3>2. \A q : q = round /\ Begun("skill_harvester", "", q)' /\ ~Begun("skill_harvester", "", q)
            => Place = "harvest"
      BY <1>0, BeginsAt DEF New
    <3>3. \A q : q = round' /\ Place \in {"start"} \cup (InRound \ {"close", "explore", "return"})
            /\ Begun("skill_harvester", "", q)' => Place = "harvest"
      BY <1>b, <2>1, <3>2
    <3> QED BY <3>3
  <2>4. Place \in {"start", "end"} \cup InRound /\ Begun("summarizer", "", 0)' => Place = "end"
    <3>1. New("summarizer", "", 0) => Place \in {"end", "blocked"}
      BY <1>0, BeginsAt
    <3>2. "blocked" \notin {"start", "end"} \cup InRound
      BY DEF InRound, Planned, Opening
    <3> QED BY <1>c, <3>1, <3>2 DEF New
  <2> QED BY <2>1, <2>2, <2>3, <2>4 DEF Fresher
<1>5. CASE NodeStep
  <2>1. /\ Place' = Place /\ round' = round /\ doing = "running" /\ doing' = "returned"
        /\ Stands(Node, Tag) /\ ckpt' = ckpt
    BY <1>5, Kinds, NodeRuns DEF Staying
  <2>2. record' = "ok" => Place' = "execute" \/ Place' \in Executed \cup Late
    <3>1. CASE record' = record
      BY <1>a, <2>1, <3>1
    <3>2. CASE record' # record
      BY <1>0, <1>5, <2>1, <3>2, RecordOf DEF Stands, Storing
    <3> QED BY <3>1, <3>2
  <2>3. \A q : q = round' => (Begun("skill_harvester", "", q)' <=> Begun("skill_harvester", "", q))
    BY <2>1, HistoryStays
  <2>4. Begun("summarizer", "", 0)' <=> Begun("summarizer", "", 0)
    BY <2>1, HistoryStays
  <2> QED BY <1>b, <1>c, <2>1, <2>2, <2>3, <2>4 DEF Fresher
<1>6. CASE UNCHANGED vars
  <2>1. /\ Place' = Place /\ round' = round /\ doing' = doing /\ ckpt' = ckpt
        /\ record' = record
    BY <1>6, FlowMoves DEF vars, memory, disk, Inv
  <2>3. \A q : q = round' => (Begun("skill_harvester", "", q)' <=> Begun("skill_harvester", "", q))
    BY <2>1, HistoryStays
  <2>4. Begun("summarizer", "", 0)' <=> Begun("summarizer", "", 0)
    BY <2>1, HistoryStays
  <2> QED BY <1>a, <1>b, <1>c, <2>1, <2>3, <2>4 DEF Fresher
<1>7. CASE Leaving
  BY <1>7 DEF Leaving, Fresher, Late, InRound, Planned, Opening
<1> QED BY <1>1, <1>2, <1>3, <1>4, <1>5, <1>6, <1>7 DEF Staying

\* The inductive invariant of the record.
RecordInv ==
  /\ AuditInv /\ Agreeing /\ Concluding
  /\ Stored => Plain /\ Recording /\ Fresher

LEMMA RecordInit ==
  ASSUME Init
  PROVE  RecordInv
<1>1. AuditInv /\ Place = "start"
  BY AuditInit, InvInit
<1>2. /\ crashes = 0 /\ doing = "idle" /\ record = "none" /\ ckpt = <<>> /\ status = "pending"
      /\ g.execution_record = "none"
  BY DEF Init, Fresh
<1>3. \A n, t, q : ~Begun(n, t, q) /\ ~Done(n, t, q)
  BY <1>2 DEF Begun, Done
<1>4. Agreeing /\ Concluding
  BY <1>1, <1>2 DEF Agreeing, Concluding
<1>5. Plain /\ Recording /\ Fresher
  BY <1>1, <1>2, <1>3 DEF Plain, Recording, Found, Fresher
<1> QED BY <1>1, <1>4, <1>5 DEF RecordInv

LEMMA RecordStep ==
  ASSUME RecordInv, [Next]_vars
  PROVE  RecordInv'
<1>1. /\ AuditInv /\ Agreeing /\ Concluding /\ (Stored => Plain /\ Recording /\ Fresher)
      /\ Inv /\ Returns /\ (Stored => Histories)
  BY DEF RecordInv, AuditInv
<1>2. AuditInv'
  BY <1>1, AuditStep
<1>3. Stored' <=> Stored
  BY <1>1, Kinds DEF Stored
<1>4. Replaying
  BY <1>1 DEF Replaying
<1>5. Agreeing'
  BY <1>1, <1>4, AgreeingStep
<1>6. Concluding'
  BY <1>1, ConcludingStep DEF Histories
<1>7. ASSUME Stored PROVE Plain' /\ Recording' /\ Fresher'
  <2>1. Plain'
    BY <1>1, <1>7, PlainStep DEF Histories
  <2>2. Recording'
    BY <1>1, <1>7, RecordingStep
  <2>3. Fresher'
    BY <1>1, <1>7, FresherStep
  <2> QED BY <2>1, <2>2, <2>3
<1> QED BY <1>2, <1>3, <1>5, <1>6, <1>7 DEF RecordInv

\* A task is SUCCESS only if the execution record on disk is that of a
\* successful run, whatever was replayed after a crash.
THEOREM SuccessIsARun == Spec => []SuccessMeansRun
<1>1. RecordInv => SuccessMeansRun
  BY DEF RecordInv, Agreeing, SuccessMeansRun
<1>2. Spec => []RecordInv
  BY RecordInit, RecordStep, PTL DEF Spec
<1> QED BY <1>1, <1>2, PTL

\* What a verdict of the flow says of the record.
LEMMA VerdictKept ==
  ASSUME RecordInv, [Next]_vars, At("verdict", "flow"), todo' = <<>>, status' = "failed",
         crashes = 0, record = "ok"
  PROVE  g.dynamic_status = "unavailable"
<1>0. Inv /\ TypeInv /\ Shape /\ Agreeing /\ Concluding
  BY DEF RecordInv, AuditInv, Inv
<1>1. Node = "verdict" /\ Tag = "flow" /\ todo # <<>> /\ Head(todo) = <<"verdict", "flow">>
  BY DEF At, Node, Tag
<1>2. Place = "conclude"
  BY <1>0, <1>1, HeadStands DEF Stands
<1>3. ~IsNode /\ doing = "idle"
  BY <1>0, <1>1 DEF IsNode, Node, TypeInv
<1>4. g.execution_record = "ok" /\ status = "working"
  BY <1>0, <1>2, <1>3 DEF Agreeing, Concluding, ReturnsRun, Late
<1>5. CASE WriteVerdict
  <2>1. status' = Verdict(Tag)
    BY <1>5 DEF WriteVerdict, Tag
  <2> QED BY <1>1, <1>4, <2>1 DEF Verdict, FlowVerdict
<1>6. CASE Crash
  BY <1>4, <1>6 DEF Crash, Unfinished
<1>7. CASE VerdictRaises
  BY <1>7, Lists DEF VerdictRaises, Failure
<1>8. CASE Decide
  <2>1. Deciding
    BY <1>8, Decisions
  <2> QED BY <1>1, <2>1 DEF Deciding, Node
<1>9. CASE Replay \/ Begin \/ Complete \/ Reject \/ Raise \/ LoseLease \/ NodeStep
  BY <1>3, <1>9, NodeRuns DEF Replay, Begin, Complete, Reject, Raise, LoseLease, Runs
<1>10. todo' # todo
  BY <1>1
<1> QED BY <1>5, <1>6, <1>7, <1>8, <1>9, <1>10 DEF Next, FlowStep, Ended, vars, memory

\* When the flow comes to its verdict and the sandbox has recorded success the
\* verdict is not FAILED, unless the dynamic path was unavailable.
THEOREM VerdictsFollow == Spec => VerdictFollowsRecord
<1>1. RecordInv /\ [Next]_vars
        => (At("verdict", "flow") /\ todo' = <<>> /\ status' = "failed" /\ crashes = 0
              => record # "ok" \/ g.dynamic_status = "unavailable")
  BY VerdictKept
<1>2. Spec => []RecordInv
  BY RecordInit, RecordStep, PTL DEF Spec
<1> QED BY <1>1, <1>2, PTL DEF Spec, VerdictFollowsRecord
=============================================================================
