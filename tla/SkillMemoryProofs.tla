------------------------- MODULE SkillMemoryProofs -------------------------
(***************************************************************************)
(* Theorems about SkillMemory, for any tasks, skills, scores and limits.   *)
(*                                                                         *)
(* The lists a task works through are computed by recursive functions:     *)
(* what they return is proved by induction over the length of the list.    *)
(* A recalled list begins with what the task had, so a use that has been   *)
(* counted stays kept, and a new match has not been counted; an outcome is *)
(* told only after the verdict, for a list without repetitions.            *)
(***************************************************************************)
EXTENDS SkillMemory, FiniteSetTheorems, WellFoundedInduction, TLAPS

-----------------------------------------------------------------------------
(* Induction over the natural numbers, for sets, and the recursive functions  *)
(* over sequences.                                                            *)

LEMMA LessIs ==
  \A x, y \in Nat : <<x, y>> \in OpToRel(<, Nat) <=> x < y
BY DEF OpToRel

\* A set that holds 0 and the successors of its members holds every number.
LEMMA SetInduction ==
  ASSUME NEW S, 0 \in S, \A n \in S : n \in Nat => n + 1 \in S
  PROVE  Nat \subseteq S
<1> DEFINE T == Nat \ S
<1> SUFFICES ASSUME T # {} PROVE FALSE
  OBVIOUS
<1>1. PICK x \in T : \A y \in T : ~ (<<y, x>> \in OpToRel(<, Nat))
  <2>1. T \subseteq Nat
    OBVIOUS
  <2> QED BY <2>1, NatLessThanWellFounded, WFMin
<1>2. x # 0
  OBVIOUS
<1>3. x - 1 \in Nat /\ x - 1 < x
  BY <1>2
<1>4. x - 1 \in S
  BY <1>1, <1>3, LessIs
<1>5. (x - 1) + 1 = x
  OBVIOUS
<1>6. x \in S
  BY <1>3, <1>4, <1>5
<1> QED BY <1>6

Unfolds(g, X, n, b, step) ==
  /\ g \in [0 .. n -> X] /\ g[0] = b
  /\ \A i \in 1 .. n : g[i] = step[<<g[i - 1], i>>]

\* A function over 0 .. n with a given first value and a given step exists.
LEMMA Recursion ==
  ASSUME NEW n \in Nat, NEW X, NEW b \in X, NEW step \in [X \X (1 .. n) -> X]
  PROVE  \E g : Unfolds(g, X, n, b, step)
<1> DEFINE Fits(g, k) == /\ g \in [0 .. k -> X] /\ g[0] = b
                         /\ \A i \in 1 .. k : g[i] = step[<<g[i - 1], i>>]
           K == {k \in Nat : k <= n => \E g : Fits(g, k)}
<1>1. 0 \in K
  <2>1. Fits([i \in 0 .. 0 |-> b], 0)
    OBVIOUS
  <2> QED BY <2>1
<1>2. ASSUME NEW k \in K PROVE k + 1 \in K
  <2> SUFFICES ASSUME k + 1 <= n PROVE \E g : Fits(g, k + 1)
    OBVIOUS
  <2>1. PICK g : Fits(g, k)
    OBVIOUS
  <2> DEFINE h == [i \in 0 .. (k + 1) |-> IF i = k + 1 THEN step[<<g[k], k + 1>>] ELSE g[i]]
  <2>2. g[k] \in X /\ k + 1 \in 1 .. n
    BY <2>1
  <2>3. step[<<g[k], k + 1>>] \in X
    BY <2>2
  <2>4. h \in [0 .. (k + 1) -> X]
    BY <2>1, <2>3
  <2>5. h[0] = b
    BY <2>1
  <2>6. ASSUME NEW i \in 1 .. (k + 1) PROVE h[i] = step[<<h[i - 1], i>>]
    <3>1. CASE i = k + 1
      <4>1. i - 1 = k /\ k \in 0 .. (k + 1) /\ k # k + 1
        BY <3>1
      <4>2. h[i - 1] = g[k] /\ h[i] = step[<<g[k], k + 1>>]
        BY <3>1, <4>1
      <4> QED BY <3>1, <4>2
    <3>2. CASE i \in 1 .. k
      BY <3>2, <2>1
    <3> QED BY <3>1, <3>2
  <2> QED BY <2>4, <2>5, <2>6
<1> HIDE DEF Fits
<1>3. Nat \subseteq K
  BY <1>1, <1>2, SetInduction
<1>4. PICK g : Fits(g, n)
  BY <1>3
<1> QED BY <1>4 DEF Fits, Unfolds

\* Picked is a subsequence: its elements are elements of seq at the positions
\* I, and as distinct as those of seq.
LEMMA PickedPicks ==
  ASSUME NEW S, NEW seq \in Seq(S), NEW I
  PROVE  /\ Picked(seq, I) \in Seq(S)
         /\ \A k \in DOMAIN Picked(seq, I) :
              \E i \in DOMAIN seq : i \in I /\ Picked(seq, I)[k] = seq[i]
         /\ IsInjective(seq) => IsInjective(Picked(seq, I))
<1> DEFINE L == Len(seq)
           body(f) == [n \in 0 .. L |->
                         IF n = 0 THEN <<>>
                         ELSE IF n \in I THEN Append(f[n - 1], seq[n]) ELSE f[n - 1]]
           p == CHOOSE f : f = body(f)
<1>1. Picked(seq, I) = p[L]
  BY DEF Picked
<1>2. L \in Nat /\ DOMAIN seq = 1 .. L
  OBVIOUS
<1>3. p = body(p)
  <2> DEFINE step == [a \in Seq(S) \X (1 .. L) |->
                        IF a[2] \in I THEN Append(a[1], seq[a[2]]) ELSE a[1]]
  <2>1. step \in [Seq(S) \X (1 .. L) -> Seq(S)]
    OBVIOUS
  <2>2. <<>> \in Seq(S)
    OBVIOUS
  <2> HIDE DEF step, L
  <2>3. PICK g : Unfolds(g, Seq(S), L, <<>>, step)
    BY <1>2, <2>1, <2>2, Recursion
  <2>4. ASSUME NEW i \in 1 .. L
        PROVE  g[i] = IF i \in I THEN Append(g[i - 1], seq[i]) ELSE g[i - 1]
    <3>1. i - 1 \in 0 .. L
      BY <1>2
    <3>2. g[i - 1] \in Seq(S)
      BY <2>3, <3>1 DEF Unfolds
    <3> QED BY <2>3, <3>2 DEF step, Unfolds
  <2>5. g = [n \in 0 .. L |-> g[n]]
    BY <2>3 DEF Unfolds
  <2>6. \A n \in 0 .. L : n # 0 => n \in 1 .. L
    BY <1>2
  <2>7. g = body(g)
    BY <2>3, <2>4, <2>5, <2>6 DEF Unfolds
  <2> QED BY <2>7
<1> HIDE DEF p, L
<1>4. p[0] = <<>>
  BY <1>2, <1>3
<1>5. ASSUME NEW n \in 1 .. L
      PROVE  p[n] = IF n \in I THEN Append(p[n - 1], seq[n]) ELSE p[n - 1]
  <2>1. n \in 0 .. L /\ n # 0
    BY <1>2
  <2>2. body(p)[n] = IF n \in I THEN Append(p[n - 1], seq[n]) ELSE p[n - 1]
    BY <2>1
  <2> QED BY <1>3, <2>2
<1> DEFINE Good(n) == /\ p[n] \in Seq(S)
                      /\ \A k \in DOMAIN p[n] : \E i \in 1 .. n : i \in I /\ p[n][k] = seq[i]
                      /\ IsInjective(seq) => IsInjective(p[n])
           K == {n \in Nat : n <= L => Good(n)}
<1>6. 0 \in K
  <2>1. p[0] \in Seq(S) /\ DOMAIN p[0] = {}
    BY <1>4
  <2> QED BY <2>1 DEF IsInjective
<1>7. ASSUME NEW n \in K PROVE n + 1 \in K
  <2> SUFFICES ASSUME n + 1 <= L PROVE Good(n + 1)
    OBVIOUS
  <2>1. Good(n) /\ n + 1 \in 1 .. L /\ (n + 1) - 1 = n
    BY <1>2
  <2>2. CASE n + 1 \notin I
    <3>1. p[n + 1] = p[n]
      BY <2>1, <2>2, <1>5
    <3> QED BY <2>1, <3>1
  <2>3. CASE n + 1 \in I
    <3>1. p[n + 1] = Append(p[n], seq[n + 1])
      BY <2>1, <2>3, <1>5
    <3> DEFINE q == p[n]
               x == seq[n + 1]
    <3>2. q \in Seq(S) /\ x \in S /\ p[n + 1] = Append(q, x)
      BY <2>1, <1>2, <3>1
    <3>3. /\ p[n + 1] \in Seq(S) /\ DOMAIN p[n + 1] = 1 .. (Len(q) + 1)
          /\ p[n + 1][Len(q) + 1] = x
          /\ \A k \in 1 .. Len(q) : p[n + 1][k] = q[k]
          /\ DOMAIN q = 1 .. Len(q) /\ Len(q) \in Nat
      <4> HIDE DEF q, x
      <4> QED BY <3>2
    <3>4. \A k \in DOMAIN q : \E i \in 1 .. n : i \in I /\ q[k] = seq[i]
      BY <2>1
    <3> HIDE DEF q, x
    <3>5. ASSUME NEW k \in DOMAIN p[n + 1]
          PROVE  \E i \in 1 .. (n + 1) : i \in I /\ p[n + 1][k] = seq[i]
      <4>1. CASE k = Len(q) + 1
        BY <4>1, <3>3, <2>1, <2>3 DEF x
      <4>2. CASE k \in 1 .. Len(q)
        BY <4>2, <3>3, <3>4
      <4> QED BY <4>1, <4>2, <3>3
    <3>6. ASSUME IsInjective(seq) PROVE IsInjective(p[n + 1])
      <4>1. IsInjective(q)
        BY <3>6, <2>1 DEF q
      <4>2. \A k \in DOMAIN q : q[k] # x
        BY <3>6, <3>4, <2>1, <1>2 DEF x, IsInjective
      <4> QED BY <4>1, <4>2, <3>3 DEF IsInjective
    <3> QED BY <3>3, <3>5, <3>6
  <2> QED BY <2>2, <2>3
<1> HIDE DEF Good
<1>8. Nat \subseteq K
  BY <1>6, <1>7, SetInduction
<1>9. Good(L)
  BY <1>2, <1>8
<1> QED BY <1>1, <1>2, <1>9 DEF Good

\* Merge drops repetitions: its elements are those of seq, each once, and a
\* beginning of seq without repetitions stays where it is.
LEMMA MergeMerges ==
  ASSUME NEW S, NEW seq \in Seq(S), NEW k \in 0 .. Len(seq),
         \A i, j \in 1 .. k : seq[i] = seq[j] => i = j
  PROVE  /\ Merge(seq) \in Seq(S) /\ IsInjective(Merge(seq))
         /\ \A j \in DOMAIN Merge(seq) : \E i \in DOMAIN seq : Merge(seq)[j] = seq[i]
         /\ k <= Len(Merge(seq)) /\ \A i \in 1 .. k : Merge(seq)[i] = seq[i]
<1> DEFINE L == Len(seq)
           body(f) == [n \in 0 .. L |->
                         IF n = 0 THEN <<>>
                         ELSE IF Contains(f[n - 1], seq[n]) THEN f[n - 1]
                              ELSE Append(f[n - 1], seq[n])]
           p == CHOOSE f : f = body(f)
<1>1. Merge(seq) = p[L]
  BY DEF Merge
<1>2. L \in Nat /\ k \in Nat /\ DOMAIN seq = 1 .. L
  OBVIOUS
<1>3. p = body(p)
  <2> DEFINE step == [a \in Seq(S) \X (1 .. L) |->
                        IF Contains(a[1], seq[a[2]]) THEN a[1] ELSE Append(a[1], seq[a[2]])]
  <2>1. step \in [Seq(S) \X (1 .. L) -> Seq(S)]
    OBVIOUS
  <2>2. <<>> \in Seq(S)
    OBVIOUS
  <2> HIDE DEF step, L
  <2>3. PICK g : Unfolds(g, Seq(S), L, <<>>, step)
    BY <1>2, <2>1, <2>2, Recursion
  <2>4. ASSUME NEW i \in 1 .. L
        PROVE  g[i] = IF Contains(g[i - 1], seq[i]) THEN g[i - 1]
                      ELSE Append(g[i - 1], seq[i])
    <3>1. i - 1 \in 0 .. L
      BY <1>2
    <3>2. g[i - 1] \in Seq(S)
      BY <2>3, <3>1 DEF Unfolds
    <3> QED BY <2>3, <3>2 DEF step, Unfolds
  <2>5. g = [n \in 0 .. L |-> g[n]]
    BY <2>3 DEF Unfolds
  <2>6. \A n \in 0 .. L : n # 0 => n \in 1 .. L
    BY <1>2
  <2>7. g = body(g)
    BY <2>3, <2>4, <2>5, <2>6 DEF Unfolds
  <2> QED BY <2>7
<1> HIDE DEF p, L
<1>4. p[0] = <<>>
  BY <1>2, <1>3
<1>5. ASSUME NEW n \in 1 .. L
      PROVE  p[n] = IF Contains(p[n - 1], seq[n]) THEN p[n - 1] ELSE Append(p[n - 1], seq[n])
  <2>1. n \in 0 .. L /\ n # 0
    BY <1>2
  <2>2. body(p)[n] = IF Contains(p[n - 1], seq[n]) THEN p[n - 1]
                     ELSE Append(p[n - 1], seq[n])
    BY <2>1
  <2> QED BY <1>3, <2>2
<1> DEFINE Good(n) ==
             /\ p[n] \in Seq(S) /\ IsInjective(p[n])
             /\ \A j \in DOMAIN p[n] : \E i \in 1 .. n : p[n][j] = seq[i]
             /\ (n <= k => Len(p[n]) = n) /\ (k <= n => k <= Len(p[n]))
             /\ \A i \in 1 .. k : i <= n => p[n][i] = seq[i]
           K == {n \in Nat : n <= L => Good(n)}
<1>6. 0 \in K
  <2>1. p[0] \in Seq(S) /\ DOMAIN p[0] = {} /\ Len(p[0]) = 0
    BY <1>4
  <2> QED BY <2>1 DEF IsInjective
<1>7. ASSUME NEW n \in K PROVE n + 1 \in K
  <2> SUFFICES ASSUME n + 1 <= L PROVE Good(n + 1)
    OBVIOUS
  <2> DEFINE q == p[n]
             x == seq[n + 1]
  <2>1. n + 1 \in 1 .. L /\ (n + 1) - 1 = n /\ n \in Nat /\ k \in Nat /\ n <= L
    BY <1>2
  <2>20. Good(n)
    BY <2>1
  <2>2. /\ q \in Seq(S) /\ x \in S /\ IsInjective(q)
        /\ DOMAIN q = 1 .. Len(q) /\ Len(q) \in Nat
    BY <2>20, <2>1, <1>2
  <2>3. \A j \in DOMAIN q : \E i \in 1 .. n : q[j] = seq[i]
    BY <2>20, <2>1
  <2>4. \A i \in 1 .. k : i <= n => q[i] = seq[i]
    BY <2>20, <2>1
  <2>5. (n <= k => Len(q) = n) /\ (k <= n => k <= Len(q))
    BY <2>20, <2>1
  <2>6. p[n + 1] = IF Contains(q, x) THEN q ELSE Append(q, x)
    BY <2>1, <1>5
  <2>7. CASE Contains(q, x)
    <3>1. p[n + 1] = q
      BY <2>6, <2>7
    <3>2. ~ (n + 1 <= k)
      <4>1. PICK j \in 1 .. Len(q) : q[j] = x
        BY <2>7 DEF Contains
      <4>2. CASE n + 1 <= k
        <5>1. j \in 1 .. k /\ j <= n /\ n + 1 \in 1 .. k
          BY <4>2, <2>5, <2>1, <2>2
        <5>2. seq[j] = seq[n + 1] /\ j # n + 1
          BY <5>1, <4>1, <2>4, <2>1
        <5> QED BY <5>1, <5>2
      <4> QED BY <4>2
    <3> HIDE DEF q, x
    <3>20. k <= n
      BY <2>1, <3>2
    <3>3. (n + 1 <= k => Len(q) = n + 1) /\ (k <= n + 1 => k <= Len(q))
      BY <2>1, <2>2, <2>5, <3>2, <3>20
    <3>4. \A i \in 1 .. k : i <= n + 1 => q[i] = seq[i]
      BY <2>1, <2>4, <3>2
    <3>5. \A j \in DOMAIN q : \E i \in 1 .. (n + 1) : q[j] = seq[i]
      BY <2>1, <2>3
    <3> QED BY <3>1, <2>2, <3>3, <3>4, <3>5
  <2>8. CASE ~ Contains(q, x)
    <3>1. p[n + 1] = Append(q, x)
      BY <2>6, <2>8
    <3>2. \A j \in DOMAIN q : q[j] # x
      BY <2>2, <2>8 DEF Contains
    <3> HIDE DEF q, x
    <3>3. /\ p[n + 1] \in Seq(S) /\ DOMAIN p[n + 1] = 1 .. (Len(q) + 1)
          /\ p[n + 1][Len(q) + 1] = x /\ Len(p[n + 1]) = Len(q) + 1
          /\ \A j \in 1 .. Len(q) : p[n + 1][j] = q[j]
      BY <2>2, <3>1
    <3>4. IsInjective(p[n + 1])
      BY <3>3, <3>2, <2>2 DEF IsInjective
    <3>5. (n + 1 <= k => Len(p[n + 1]) = n + 1) /\ (k <= n + 1 => k <= Len(p[n + 1]))
      BY <2>1, <2>2, <2>5, <3>3
    <3>6. ASSUME NEW i \in 1 .. k, i <= n + 1 PROVE p[n + 1][i] = seq[i]
      <4>1. CASE i = n + 1
        <5>1. Len(q) = n
          BY <4>1, <2>1, <2>5
        <5> QED BY <4>1, <5>1, <3>3 DEF x
      <4>2. CASE i # n + 1
        <5>1. i <= n /\ i \in 1 .. Len(q)
          BY <4>2, <3>6, <2>1, <2>2, <2>5
        <5> QED BY <5>1, <2>4, <3>3
      <4> QED BY <4>1, <4>2
    <3>7. ASSUME NEW j \in DOMAIN p[n + 1]
          PROVE  \E i \in 1 .. (n + 1) : p[n + 1][j] = seq[i]
      <4>1. CASE j = Len(q) + 1
        BY <4>1, <3>3, <2>1 DEF x
      <4>2. CASE j \in 1 .. Len(q)
        BY <4>2, <3>3, <2>3, <2>1, <2>2
      <4> QED BY <4>1, <4>2, <3>3, <2>2
    <3> QED BY <3>3, <3>4, <3>5, <3>6, <3>7
  <2> QED BY <2>7, <2>8
<1> HIDE DEF Good
<1>8. Nat \subseteq K
  BY <1>6, <1>7, SetInduction
<1>9. Good(L) /\ L \in Nat
  BY <1>2, <1>8
<1>10. k <= L
  BY <1>2 DEF L
<1>11. k <= Len(p[L])
  BY <1>9, <1>10 DEF Good
<1> QED BY <1>1, <1>2, <1>9, <1>10, <1>11 DEF Good

\* The ranking of a list is a list of the same skills.
LEMMA RankedRanks ==
  ASSUME SkillParameters, NEW t \in Task, NEW skills \in Seq(Skill)
  PROVE  Ranked(t, skills) \in Seq(Skill)
<1> DEFINE L == Len(skills)
           ahead(a, s) == {i \in DOMAIN a : Score[t][a[i]] >= Score[t][s]}
           into(a, s) == IF Score[t][s] = 0 THEN a
                         ELSE Picked(a, ahead(a, s)) \o <<s>>
                              \o Picked(a, DOMAIN a \ ahead(a, s))
           body(f) == [n \in 0 .. L |->
                         IF n = 0 THEN <<>> ELSE into(f[n - 1], skills[n])]
           p == CHOOSE f : f = body(f)
<1>1. Ranked(t, skills) = Take(p[L], Limit)
  BY DEF Ranked
<1>2. L \in Nat /\ DOMAIN skills = 1 .. L
  OBVIOUS
<1>3. ASSUME NEW a \in Seq(Skill), NEW s \in Skill PROVE into(a, s) \in Seq(Skill)
  <2>1. /\ Picked(a, ahead(a, s)) \in Seq(Skill)
        /\ Picked(a, DOMAIN a \ ahead(a, s)) \in Seq(Skill)
    BY PickedPicks
  <2>2. <<s>> \in Seq(Skill)
    OBVIOUS
  <2> HIDE DEF ahead
  <2> QED BY <2>1, <2>2
<1> HIDE DEF into
<1>4. p = body(p)
  <2> DEFINE step == [a \in Seq(Skill) \X (1 .. L) |-> into(a[1], skills[a[2]])]
  <2>1. step \in [Seq(Skill) \X (1 .. L) -> Seq(Skill)]
    BY <1>2, <1>3
  <2>2. <<>> \in Seq(Skill)
    OBVIOUS
  <2> HIDE DEF step, L
  <2>3. PICK g : Unfolds(g, Seq(Skill), L, <<>>, step)
    BY <1>2, <2>1, <2>2, Recursion
  <2>4. ASSUME NEW i \in 1 .. L PROVE g[i] = into(g[i - 1], skills[i])
    <3>1. i - 1 \in 0 .. L
      BY <1>2
    <3>2. g[i - 1] \in Seq(Skill)
      BY <2>3, <3>1 DEF Unfolds
    <3> QED BY <2>3, <3>2 DEF step, Unfolds
  <2>5. g = [n \in 0 .. L |-> g[n]]
    BY <2>3 DEF Unfolds
  <2>6. \A n \in 0 .. L : n # 0 => n \in 1 .. L
    BY <1>2
  <2>7. g = body(g)
    BY <2>3, <2>4, <2>5, <2>6 DEF Unfolds
  <2> QED BY <2>7
<1> HIDE DEF p, L
<1> DEFINE K == {n \in Nat : n <= L => p[n] \in Seq(Skill)}
<1>5. 0 \in K
  BY <1>2, <1>4
<1>6. ASSUME NEW n \in K PROVE n + 1 \in K
  <2> SUFFICES ASSUME n + 1 <= L PROVE p[n + 1] \in Seq(Skill)
    OBVIOUS
  <2>1. n + 1 \in 0 .. L /\ n + 1 # 0 /\ (n + 1) - 1 = n /\ n + 1 \in 1 .. L
    BY <1>2
  <2>2. body(p)[n + 1] = into(p[n], skills[n + 1])
    BY <2>1
  <2>3. p[n] \in Seq(Skill) /\ skills[n + 1] \in Skill
    BY <1>2, <2>1
  <2> QED BY <1>3, <1>4, <2>2, <2>3
<1>7. Nat \subseteq K
  BY <1>5, <1>6, SetInduction
<1>8. p[L] \in Seq(Skill)
  BY <1>2, <1>7
<1> QED BY <1>1, <1>8 DEF Take, SkillParameters

-----------------------------------------------------------------------------
(* What the retriever's and the harvester's operators return.                 *)

LEMMA TakeTakes ==
  ASSUME NEW S, NEW seq \in Seq(S), NEW n \in Nat
  PROVE  /\ Take(seq, n) \in Seq(S)
         /\ Len(Take(seq, n)) = IF Len(seq) < n THEN Len(seq) ELSE n
         /\ \A i \in 1 .. Len(Take(seq, n)) : Take(seq, n)[i] = seq[i]
BY DEF Take

\* Skill is finite, so a set of skills can be listed.
LEMMA SkillsFinite ==
  ASSUME SkillParameters
  PROVE  IsFiniteSet(Skill)
<1>1. IsFiniteSet(ToSet(Preset))
  <2>1. Len(Preset) \in Nat /\ DOMAIN Preset = 1 .. Len(Preset)
    BY DEF SkillParameters
  <2>2. Preset = [i \in DOMAIN Preset |-> Preset[i]]
    BY DEF SkillParameters
  <2>3. Preset \in Surjection(DOMAIN Preset, ToSet(Preset))
    BY <2>2, Zenon DEF Surjection, ToSet
  <2>4. IsFiniteSet(DOMAIN Preset)
    BY <2>1, FS_Interval
  <2> QED BY <2>3, <2>4, FS_Surjection
<1>2. IsFiniteSet({Harvested[t] : t \in Task})
  <2> DEFINE f == [t \in Task |-> Harvested[t]]
  <2>1. f \in Surjection(Task, {Harvested[t] : t \in Task})
    BY DEF Surjection
  <2> QED BY <2>1, FS_Surjection DEF SkillParameters
<1> QED BY <1>1, <1>2, FS_Union DEF Skill, SkillParameters

LEMMA Listed ==
  ASSUME SkillParameters, NEW T \in SUBSET Skill, NEW seq \in SetToSeqs(T)
  PROVE  seq \in Seq(Skill)
<1>1. IsFiniteSet(T) /\ Cardinality(T) \in Nat
  BY SkillsFinite, FS_Subset, FS_CardinalityType
<1>2. seq \in [1 .. Cardinality(T) -> T]
  BY DEF SetToSeqs
<1> QED BY <1>1, <1>2

LEMMA ListedOnce ==
  ASSUME SkillParameters, NEW T \in SUBSET Skill
  PROVE  /\ SetToSeq(T) \in Seq(Skill) /\ IsInjective(SetToSeq(T))
         /\ \A i \in DOMAIN SetToSeq(T) : SetToSeq(T)[i] \in T
<1>1. IsFiniteSet(T) /\ Cardinality(T) \in Nat
  BY SkillsFinite, FS_Subset, FS_CardinalityType
<1>2. \E f \in [1 .. Cardinality(T) -> T] : IsInjective(f)
  <2>1. ExistsBijection(1 .. Cardinality(T), T)
    BY <1>1, FS_CardinalityType
  <2> QED BY <2>1 DEF ExistsBijection, Bijection, Injection
<1>3. SetToSeq(T) \in [1 .. Cardinality(T) -> T] /\ IsInjective(SetToSeq(T))
  BY <1>2 DEF SetToSeq
<1> DEFINE seq == SetToSeq(T)
           n == Cardinality(T)
<1>4. seq \in [1 .. n -> T] /\ n \in Nat /\ T \subseteq Skill
  BY <1>1, <1>3
<1> HIDE DEF seq, n
<1>5. seq \in Seq(Skill) /\ \A i \in DOMAIN seq : seq[i] \in T
  BY <1>4
<1> QED BY <1>3, <1>5 DEF seq

LEMMA HistoricalTypes ==
  ASSUME SkillParameters, NEW t \in Task, NEW found \in Seq(Skill)
  PROVE  Historical(t, found) \in Seq(Skill)
<1>1. Ranked(t, Preset) \in Seq(Skill)
  BY RankedRanks DEF SkillParameters
<1> DEFINE both == found \o Ranked(t, Preset)
<1>2. both \in Seq(Skill)
  BY <1>1
<1>3. 0 \in 0 .. Len(both) /\ \A i, j \in 1 .. 0 : both[i] = both[j] => i = j
  BY <1>2
<1> HIDE DEF both
<1>4. Merge(both) \in Seq(Skill)
  BY <1>2, <1>3, MergeMerges
<1> QED BY <1>4 DEF Historical, both

\* What a task recalls begins with what it had, up to the limit.
LEMMA RecalledKeeps ==
  ASSUME SkillParameters, NEW t \in Task, NEW own \in Seq(Skill), IsInjective(own),
         NEW historical \in Seq(Skill)
  PROVE  LET recalled == Recalled(t, own, historical)
         IN  /\ recalled \in Seq(Skill) /\ IsInjective(recalled)
             /\ Len(recalled) <= Limit
             /\ \A i \in DOMAIN own : i <= Limit => i <= Len(recalled) /\ recalled[i] = own[i]
<1> DEFINE ranked == Ranked(t, historical)
           tail == IF ranked = <<>> THEN Take(historical, Limit) ELSE ranked
           both == own \o tail
           merged == Merge(both)
<1>1. Limit \in Nat /\ tail \in Seq(Skill)
  BY RankedRanks, TakeTakes DEF SkillParameters
<1> HIDE DEF tail
<1> DEFINE k == Len(own)
<1>2. /\ both \in Seq(Skill) /\ k \in 0 .. Len(both)
      /\ \A i \in 1 .. k : both[i] = own[i]
      /\ DOMAIN own = 1 .. k /\ k \in Nat
  BY <1>1
<1> HIDE DEF both, k
<1>3. \A i, j \in 1 .. k : both[i] = both[j] => i = j
  BY <1>2 DEF IsInjective
<1>4. /\ merged \in Seq(Skill) /\ IsInjective(merged) /\ k <= Len(merged)
      /\ \A i \in 1 .. k : merged[i] = both[i]
  BY <1>2, <1>3, MergeMerges
<1>5. Recalled(t, own, historical) = Take(merged, Limit)
  BY DEF Recalled, merged, both, tail
<1> HIDE DEF merged
<1> DEFINE r == Take(merged, Limit)
<1>6. /\ r \in Seq(Skill)
      /\ Len(r) = IF Len(merged) < Limit THEN Len(merged) ELSE Limit
      /\ \A i \in 1 .. Len(r) : r[i] = merged[i]
  BY <1>1, <1>4, TakeTakes
<1> HIDE DEF r
<1>7. Len(r) <= Limit /\ Len(r) <= Len(merged) /\ Len(r) \in Nat
  BY <1>1, <1>4, <1>6
<1>8. IsInjective(r)
  <2>1. DOMAIN r = 1 .. Len(r) /\ DOMAIN merged = 1 .. Len(merged) /\ Len(merged) \in Nat
    BY <1>4, <1>6
  <2> QED BY <2>1, <1>4, <1>6, <1>7 DEF IsInjective
<1>9. \A i \in DOMAIN own : i <= Limit => i <= Len(r) /\ r[i] = own[i]
  <2> SUFFICES ASSUME NEW i \in 1 .. k, i <= Limit
               PROVE  i <= Len(r) /\ r[i] = own[i]
    BY <1>2
  <2>1. Len(merged) \in Nat /\ i \in Nat /\ 1 <= i /\ i <= Len(merged)
    BY <1>2, <1>4
  <2>2. i <= Len(r)
    BY <2>1, <1>1, <1>6
  <2>3. i \in 1 .. Len(r)
    BY <2>1, <2>2, <1>7
  <2> QED BY <2>2, <2>3, <1>2, <1>4, <1>6
<1> QED BY <1>5, <1>6, <1>7, <1>8, <1>9 DEF r

\* The new matches are recalled skills that the task did not have.
LEMMA NewAreNew ==
  ASSUME NEW own \in Seq(Skill), NEW recalled \in Seq(Skill), IsInjective(recalled)
  PROVE  LET new == NewMatches(own, recalled)
         IN  /\ new \in Seq(Skill) /\ IsInjective(new)
             /\ \A k \in DOMAIN new :
                  new[k] \in ToSet(recalled) /\ new[k] \notin ToSet(own)
<1> DEFINE I == {i \in DOMAIN recalled : ~Contains(own, recalled[i])}
           new == Picked(recalled, I)
<1>1. NewMatches(own, recalled) = new
  BY DEF NewMatches
<1>2. ASSUME NEW i \in I
      PROVE  recalled[i] \in ToSet(recalled) /\ recalled[i] \notin ToSet(own)
  BY DEF Contains, ToSet
<1> HIDE DEF I
<1>3. /\ new \in Seq(Skill) /\ IsInjective(new)
      /\ \A k \in DOMAIN new : \E i \in DOMAIN recalled : i \in I /\ new[k] = recalled[i]
  BY PickedPicks
<1> QED BY <1>1, <1>2, <1>3

-----------------------------------------------------------------------------
(* Types *)

\* A memory: distinct skills, each with a copy of its usage, and matches.
MemoryOK(m) ==
  /\ m = [approved |-> m.approved, copy |-> m.copy, matches |-> m.matches]
  /\ m.approved \in Seq(Skill) /\ IsInjective(m.approved)
  /\ m.copy \in [ToSet(m.approved) -> Usage]
  /\ DOMAIN m.matches \subseteq Skill

MemoryInv ==
  /\ mem = [t \in Task |-> mem[t]] /\ saved = [t \in Task |-> saved[t]]
  /\ \A t \in Task : MemoryOK(mem[t]) /\ MemoryOK(saved[t])

HistoryInv ==
  /\ uses \in [Skill -> Seq(Task)] /\ told \in [Skill -> Seq(Task \X BOOLEAN)]
  /\ crashes \in Nat /\ faults \in Nat
  /\ \A t \in Task : at[t] = "using" => node[t][1] \in {"analyst", "coder"}

TypeInv == TypeOK /\ MemoryInv /\ HistoryInv

LEMMA MatchesReplaced ==
  ASSUME NEW m, NEW matches, m = [approved |-> m.approved, copy |-> m.copy, matches |-> m.matches]
  PROVE  [m EXCEPT !.matches = matches]
           = [approved |-> m.approved, copy |-> m.copy, matches |-> matches]
OBVIOUS

LEMMA NoMemoryOK == MemoryOK(NoMemory)
<1>1. <<>> \in Seq(Skill) /\ DOMAIN <<>> = {} /\ <<>> = [x \in {} |-> x]
  OBVIOUS
<1>2. ToSet(<<>>) = {}
  BY <1>1 DEF ToSet
<1>3. <<>> \in [{} -> Usage] /\ IsInjective(<<>>)
  BY <1>1 DEF IsInjective
<1> QED BY <1>1, <1>2, <1>3 DEF MemoryOK, NoMemory

LEMMA ZeroIsUsage == ZeroUsage \in Usage
BY DEF ZeroUsage, Usage

LEMMA UsageInTypes ==
  ASSUME NEW u \in Usage \union {NoUsage}
  PROVE  UsageIn(u) \in Usage
BY ZeroIsUsage DEF UsageIn

LEMMA UsedTypes ==
  ASSUME NEW u \in Usage, NEW t \in Task, NEW stage \in {"analyst", "coder"}
  PROVE  /\ Used(u, t, stage) \in Usage
         /\ u.count <= Used(u, t, stage).count
         /\ Used(u, t, stage).good = u.good /\ Used(u, t, stage).bad = u.bad
<1> DEFINE l == <<t, stage>>
<1>1. l \in Task \X {"analyst", "coder"} /\ l = <<t, stage>>
  OBVIOUS
<1> HIDE DEF l
<1>2. u.count \in Nat /\ u.good \in Nat /\ u.bad \in Nat
  BY DEF Usage
<1>3. CASE u.last = l
  BY <1>1, <1>2, <1>3 DEF Used
<1>4. CASE u.last # l
  <2> DEFINE c == u.count + 1
  <2>1. Used(u, t, stage) = [u EXCEPT !.count = c, !.last = l]
    BY <1>1, <1>4 DEF Used
  <2>2. c \in Nat /\ u.count <= c
    BY <1>2
  <2> HIDE DEF c
  <2> QED BY <2>1, <2>2, <1>1, <1>2 DEF Usage
<1> QED BY <1>3, <1>4

LEMMA JudgedTypes ==
  ASSUME NEW u \in Usage, NEW t \in Task, NEW success \in BOOLEAN
  PROVE  /\ Judged(u, t, success) \in Usage
         /\ u.good <= Judged(u, t, success).good /\ u.bad <= Judged(u, t, success).bad
         /\ Judged(u, t, success).count = u.count
<1> DEFINE j == <<t, success>>
<1>1. j \in Task \X BOOLEAN /\ j = <<t, success>>
  OBVIOUS
<1> HIDE DEF j
<1>2. u.count \in Nat /\ u.good \in Nat /\ u.bad \in Nat
  BY DEF Usage
<1>3. CASE u.judged = j
  BY <1>1, <1>2, <1>3 DEF Judged
<1>4. CASE u.judged # j
  <2> DEFINE g == IF success THEN u.good + 1 ELSE u.good
             b == IF success THEN u.bad ELSE u.bad + 1
  <2>1. Judged(u, t, success) = [u EXCEPT !.good = g, !.bad = b, !.judged = j]
    BY <1>1, <1>4 DEF Judged
  <2>2. g \in Nat /\ b \in Nat /\ u.good <= g /\ u.bad <= b
    BY <1>2
  <2> HIDE DEF g, b
  <2> QED BY <2>1, <2>2, <1>1, <1>2 DEF Usage
<1> QED BY <1>3, <1>4

LEMMA RowKinds ==
  ASSUME NEW r \in Row, r # Absent
  PROVE  /\ r = [usage |-> r.usage, column |-> r.column]
         /\ r.usage \in Usage \union {NoUsage} /\ r.column \in Nat
BY DEF Row

LEMMA UpsertedTypes ==
  ASSUME NEW r \in Row, NEW u \in Usage \union {NoUsage}
  PROVE  /\ Upserted(r, u) \in Row /\ Upserted(r, u) # Absent
         /\ r # Absent => /\ UsageIn(r.usage).count <= UsageIn(Upserted(r, u).usage).count
                          /\ UsageIn(r.usage).good <= UsageIn(Upserted(r, u).usage).good
                          /\ UsageIn(r.usage).bad <= UsageIn(Upserted(r, u).usage).bad
<1>1. UsageIn(u) \in Usage /\ CountIn(u) \in Nat
  BY UsageInTypes DEF CountIn, Usage
<1>2. \A v, c : [usage |-> v, column |-> c] # Absent
  BY DEF Absent
<1>3. CASE r = Absent
  BY <1>1, <1>2, <1>3 DEF Upserted, Row
<1>4. CASE r # Absent
  <2>1. r.usage \in Usage \union {NoUsage} /\ r.column \in Nat
    BY <1>4, RowKinds
  <2>2. /\ Upserted(r, u).usage = IF r.usage = NoUsage THEN u ELSE r.usage
        /\ Upserted(r, u) \in [usage : Usage \union {NoUsage}, column : Nat]
    BY <1>1, <1>4, <2>1 DEF Upserted
  <2>3. UsageIn(r.usage) \in Usage
    BY <2>1, UsageInTypes
  <2>4. ASSUME r.usage = NoUsage
        PROVE  /\ UsageIn(r.usage).count <= UsageIn(Upserted(r, u).usage).count
               /\ UsageIn(r.usage).good <= UsageIn(Upserted(r, u).usage).good
               /\ UsageIn(r.usage).bad <= UsageIn(Upserted(r, u).usage).bad
    <3>1. UsageIn(r.usage) = ZeroUsage /\ Upserted(r, u).usage = u
      BY <2>2, <2>4 DEF UsageIn
    <3>2. /\ UsageIn(u).count \in Nat /\ UsageIn(u).good \in Nat
          /\ UsageIn(u).bad \in Nat
      BY <1>1 DEF Usage
    <3> QED BY <3>1, <3>2 DEF ZeroUsage
  <2>5. ASSUME r.usage # NoUsage
        PROVE  /\ UsageIn(r.usage).count <= UsageIn(Upserted(r, u).usage).count
               /\ UsageIn(r.usage).good <= UsageIn(Upserted(r, u).usage).good
               /\ UsageIn(r.usage).bad <= UsageIn(Upserted(r, u).usage).bad
    <3>1. Upserted(r, u).usage = r.usage
      BY <2>2, <2>5
    <3>2. /\ UsageIn(r.usage).count \in Nat /\ UsageIn(r.usage).good \in Nat
          /\ UsageIn(r.usage).bad \in Nat
      BY <2>3 DEF Usage
    <3> QED BY <3>1, <3>2
  <2>6. Upserted(r, u) \in Row /\ Upserted(r, u) # Absent
    BY <2>2, <1>2, <1>4 DEF Row, Upserted
  <2> QED BY <2>4, <2>5, <2>6
<1> QED BY <1>3, <1>4

LEMMA MutateTypes ==
  ASSUME row \in [Skill -> Row], NEW s \in Skill, NEW u \in Usage, Mutate(s, u)
  PROVE  /\ row' \in [Skill -> Row] /\ row'[s] = [usage |-> u, column |-> u.count]
         /\ row'[s] # Absent /\ \A r \in Skill : r # s => row'[r] = row[r]
BY DEF Mutate, Row, Usage, Absent

LEMMA CopiedOK ==
  ASSUME NEW m, MemoryOK(m), NEW s, NEW u \in Usage
  PROVE  /\ MemoryOK(Copied(m, s, u)) /\ Copied(m, s, u).approved = m.approved
         /\ Copied(m, s, u).matches = m.matches
<1>1. CASE ~ Contains(m.approved, s)
  BY <1>1 DEF Copied
<1>2. CASE Contains(m.approved, s)
  <2> DEFINE c == [m.copy EXCEPT ![s] = u]
             a == m.approved
             h == m.matches
  <2>1. m = [approved |-> a, copy |-> m.copy, matches |-> h]
    BY DEF MemoryOK
  <2>2. Copied(m, s, u) = [approved |-> a, copy |-> c, matches |-> h]
    BY <1>2, <2>1 DEF Copied
  <2>3. c \in [ToSet(a) -> Usage]
    BY DEF MemoryOK
  <2> HIDE DEF c
  <2> QED BY <2>2, <2>3 DEF MemoryOK
<1> QED BY <1>1, <1>2

LEMMA PersistKeeps ==
  ASSUME MemoryInv, faults \in Nat, NEW t \in Task, NEW m, MemoryOK(m), Persist(t, m)
  PROVE  /\ MemoryInv' /\ faults' \in Nat /\ faults <= faults'
         /\ mem' = [mem EXCEPT ![t] = m]
         /\ mem'[t] = m /\ \A u \in Task : u # t => mem'[u] = mem[u]
BY DEF MemoryInv, Persist, Fault

\* The memory after a harvest, and the records it saves.
LEMMA HarvestKeeps ==
  ASSUME SkillParameters, NEW m, MemoryOK(m), NEW new \in Seq(Skill)
  PROVE  LET h == HarvestedMemory(m, new)
         IN  /\ MemoryOK(h) /\ RecordsOf(h, new) \in Seq(Record)
             /\ h.matches = m.matches
             /\ \A i \in DOMAIN m.approved :
                  i \in DOMAIN h.approved /\ h.approved[i] = m.approved[i]
<1> DEFINE a == m.approved
           k == Len(a)
           both == a \o new
           names == Merge(both)
           copy == [s \in ToSet(names) |-> IF Contains(new, s) THEN ZeroUsage ELSE m.copy[s]]
           h == HarvestedMemory(m, new)
<1>1. a \in Seq(Skill) /\ IsInjective(a) /\ k \in Nat /\ DOMAIN a = 1 .. k
  BY DEF MemoryOK
<1>2. /\ both \in Seq(Skill) /\ k \in 0 .. Len(both)
      /\ \A i \in 1 .. k : both[i] = a[i]
      /\ \A i \in DOMAIN both : both[i] \in ToSet(a) \/ both[i] \in ToSet(new)
  BY <1>1 DEF ToSet
<1>3. h = [approved |-> names, copy |-> copy, matches |-> m.matches]
  <2>1. h = [m EXCEPT !.approved = names, !.copy = copy]
    BY DEF HarvestedMemory
  <2>2. m = [approved |-> a, copy |-> m.copy, matches |-> m.matches]
    BY DEF MemoryOK
  <2> HIDE DEF names, copy, h
  <2> QED BY <2>1, <2>2
<1> HIDE DEF both, k, h
<1>4. \A i, j \in 1 .. k : both[i] = both[j] => i = j
  BY <1>1, <1>2 DEF IsInjective
<1>5. /\ names \in Seq(Skill) /\ IsInjective(names) /\ k <= Len(names)
      /\ \A i \in 1 .. k : names[i] = both[i]
      /\ \A j \in DOMAIN names : \E i \in DOMAIN both : names[j] = both[i]
  BY <1>2, <1>4, MergeMerges
<1> HIDE DEF names
<1>6. ASSUME NEW s \in ToSet(names), ~ Contains(new, s)
      PROVE  s \in ToSet(a)
  <2>1. PICK j \in DOMAIN names : s = names[j]
    BY DEF ToSet
  <2>2. PICK i \in DOMAIN both : s = both[i]
    BY <2>1, <1>5
  <2>3. s \notin ToSet(new)
    BY <1>6 DEF ToSet, Contains
  <2> QED BY <2>2, <2>3, <1>2
<1>7. copy \in [ToSet(names) -> Usage]
  BY <1>6, ZeroIsUsage DEF MemoryOK
<1> HIDE DEF copy
<1>8. MemoryOK(h)
  BY <1>3, <1>5, <1>7 DEF MemoryOK
<1>9. RecordsOf(h, new) \in Seq(Record)
  <2> DEFINE r == RecordsOf(h, new)
             usage(s) == IF Contains(new, s) THEN NoUsage ELSE copy[s]
  <2>1. r = [i \in DOMAIN names |-> [skill |-> names[i], usage |-> usage(names[i])]]
    BY <1>3 DEF RecordsOf
  <2>2. \A i \in DOMAIN names : usage(names[i]) \in Usage \union {NoUsage}
    BY <1>7 DEF ToSet
  <2> HIDE DEF usage
  <2>3. \A i \in DOMAIN names : [skill |-> names[i], usage |-> usage(names[i])] \in Record
    BY <2>2, <1>5 DEF Record
  <2>4. DOMAIN names = 1 .. Len(names) /\ Len(names) \in Nat
    BY <1>5
  <2> QED BY <2>1, <2>3, <2>4
<1>10. \A i \in DOMAIN a : i \in DOMAIN names /\ names[i] = a[i]
  <2>1. DOMAIN names = 1 .. Len(names) /\ Len(names) \in Nat
    BY <1>5
  <2> QED BY <2>1, <1>1, <1>2, <1>5
<1> QED BY <1>3, <1>8, <1>9, <1>10 DEF h

\* What a task recalls begins with what it had, up to the limit; the new matches
\* are what it did not have.
LEMMA RecallLists ==
  ASSUME SkillParameters, NEW t \in Task, NEW own \in Seq(Skill), IsInjective(own),
         NEW found \in Seq(Skill)
  PROVE  LET recalled == Recalled(t, own, Historical(t, found))
             new == NewMatches(own, recalled)
         IN  /\ recalled \in Seq(Skill) /\ IsInjective(recalled) /\ Len(recalled) <= Limit
             /\ new \in Seq(Skill) /\ IsInjective(new)
             /\ \A k \in DOMAIN new :
                  new[k] \in ToSet(recalled) /\ new[k] \notin ToSet(own)
             /\ \A i \in DOMAIN own :
                  i <= Limit => i \in DOMAIN recalled /\ recalled[i] = own[i]
<1> DEFINE historical == Historical(t, found)
           recalled == Recalled(t, own, historical)
           new == NewMatches(own, recalled)
<1>1. historical \in Seq(Skill)
  BY HistoricalTypes
<1> HIDE DEF historical
<1>2. /\ recalled \in Seq(Skill) /\ IsInjective(recalled) /\ Len(recalled) <= Limit
      /\ \A i \in DOMAIN own : i <= Limit => i <= Len(recalled) /\ recalled[i] = own[i]
  BY <1>1, RecalledKeeps
<1> HIDE DEF recalled
<1>3. /\ new \in Seq(Skill) /\ IsInjective(new)
      /\ \A k \in DOMAIN new : new[k] \in ToSet(recalled) /\ new[k] \notin ToSet(own)
  BY <1>2, NewAreNew
<1> HIDE DEF new
<1>4. \A i \in DOMAIN own : i <= Limit => i \in DOMAIN recalled /\ recalled[i] = own[i]
  <2>1. DOMAIN recalled = 1 .. Len(recalled) /\ DOMAIN own = 1 .. Len(own)
    BY <1>2
  <2> QED BY <2>1, <1>2
<1> QED BY <1>2, <1>3, <1>4 DEF recalled, new, historical

LEMMA RecallKeeps ==
  ASSUME NEW m, MemoryOK(m), NEW recalled \in Seq(Skill), IsInjective(recalled),
         NEW new \in Seq(Skill), NEW stage
  PROVE  MemoryOK([approved |-> recalled, copy |-> [s \in ToSet(recalled) |-> ZeroUsage],
                   matches |-> WithMatches(m.matches, new, stage)])
<1> DEFINE matches == WithMatches(m.matches, new, stage)
           copy == [s \in ToSet(recalled) |-> ZeroUsage]
<1>1. DOMAIN matches \subseteq Skill
  <2>1. ToSet(new) \subseteq Skill
    BY DEF ToSet
  <2> QED BY <2>1 DEF WithMatches, MemoryOK
<1>2. copy \in [ToSet(recalled) -> Usage]
  BY ZeroIsUsage
<1> HIDE DEF matches, copy
<1>3. MemoryOK([approved |-> recalled, copy |-> copy, matches |-> matches])
  BY <1>1, <1>2 DEF MemoryOK
<1> QED BY <1>3 DEF matches, copy

LEMMA TypeInit == SkillParameters /\ Init => TypeInv
<1> SUFFICES ASSUME SkillParameters, Init PROVE TypeInv
  OBVIOUS
<1>1. [usage |-> NoUsage, column |-> 0] \in Row /\ Absent \in Row
  BY DEF Row
<1>2. /\ \A S : <<>> \in Seq(S)
      /\ <<"analyst", 1>> \in Node /\ NoMemory.approved = <<>>
  BY DEF Node, NoMemory
<1>3. TypeOK
  BY <1>1, <1>2 DEF Init, TypeOK
<1>4. MemoryInv
  BY NoMemoryOK DEF Init, MemoryInv
<1>5. HistoryInv
  BY <1>2 DEF Init, HistoryInv
<1> QED BY <1>3, <1>4, <1>5 DEF TypeInv

\* Every step keeps the types.
LEMMA TypeStep == SkillParameters /\ TypeInv /\ [Next]_vars => TypeInv'
<1> SUFFICES ASSUME SkillParameters, TypeInv, [Next]_vars PROVE TypeInv'
  OBVIOUS
<1> USE DEF TypeInv
<1>0. TypeOK /\ MemoryInv /\ HistoryInv /\ faults \in Nat /\ crashes \in Nat
  BY DEF HistoryInv
<1>1. CASE UNCHANGED vars
  <2>1. /\ UNCHANGED <<row, mem, saved, at, node, todo, records, verdict>>
        /\ UNCHANGED <<uses, told, crashes, faults>>
    BY <1>1 DEF vars, flow, history
  <2> QED BY <2>1 DEF TypeOK, MemoryInv, HistoryInv
<1>2. ASSUME NEW t \in Task, Recall(t) PROVE TypeInv'
  <2>1. MemoryOK(mem[t]) /\ at[t] = "between" /\ node[t][1] \in {"analyst", "coder"}
    BY <1>2 DEF MemoryInv, Recall, At
  <2>2. PICK found \in SetToSeqs({s \in Skill : row[s] # Absent}) \union {<<>>} :
          LET own == mem[t].approved
              recalled == Recalled(t, own, Historical(t, found))
              new == NewMatches(own, recalled)
          IN  /\ IF found = <<>> /\ \E s \in Skill : row[s] # Absent
                 THEN Fault ELSE UNCHANGED faults
              /\ mem' = [mem EXCEPT ![t] =
                   [approved |-> recalled,
                    copy |-> [s \in ToSet(recalled) |-> ZeroUsage],
                    matches |-> WithMatches(mem[t].matches, new, node[t][1])]]
              /\ todo' = [todo EXCEPT ![t] = new]
    BY <1>2 DEF Recall
  <2>3. found \in Seq(Skill)
    <3>1. <<>> \in Seq(Skill)
      OBVIOUS
    <3>2. {s \in Skill : row[s] # Absent} \in SUBSET Skill
      OBVIOUS
    <3> QED BY <3>1, <3>2, Listed
  <2> DEFINE recalled == Recalled(t, mem[t].approved, Historical(t, found))
             new == NewMatches(mem[t].approved, recalled)
             m == [approved |-> recalled, copy |-> [s \in ToSet(recalled) |-> ZeroUsage],
                   matches |-> WithMatches(mem[t].matches, new, node[t][1])]
  <2>4. MemoryOK(m) /\ new \in Seq(Skill)
    <3>1. mem[t].approved \in Seq(Skill) /\ IsInjective(mem[t].approved)
      BY <2>1 DEF MemoryOK
    <3>2. recalled \in Seq(Skill) /\ IsInjective(recalled) /\ new \in Seq(Skill)
      BY <2>3, <3>1, RecallLists
    <3> HIDE DEF recalled, new
    <3> QED BY <2>1, <3>2, RecallKeeps
  <2>5. mem' = [mem EXCEPT ![t] = m] /\ todo' = [todo EXCEPT ![t] = new]
    BY <2>2
  <2>6. faults' \in Nat
    BY <1>0, <2>2 DEF Fault
  <2>7. /\ UNCHANGED <<row, saved, node, records, verdict, uses, told, crashes>>
        /\ at' = [at EXCEPT ![t] = "using"]
    BY <1>2 DEF Recall, Goto, history
  <2> HIDE DEF m, new, recalled
  <2>8. MemoryInv'
    BY <2>4, <2>5, <2>7 DEF MemoryInv
  <2>9. TypeOK'
    BY <2>4, <2>5, <2>7, <2>8 DEF TypeOK, MemoryInv, MemoryOK
  <2>10. HistoryInv'
    BY <2>1, <2>6, <2>7 DEF HistoryInv, TypeOK
  <2> QED BY <2>8, <2>9, <2>10
<1>3. ASSUME NEW t \in Task, RecordUsage(t) PROVE TypeInv'
  <2> DEFINE s == Head(todo[t])
             after == Used(UsageIn(row[s].usage), t, node[t][1])
  <2>1. /\ at[t] = "using" /\ todo[t] # <<>> /\ todo[t] \in Seq(Skill)
        /\ node[t][1] \in {"analyst", "coder"}
        /\ todo' = [todo EXCEPT ![t] = Tail(@)]
        /\ UNCHANGED <<saved, at, node, records, verdict, told, crashes, faults>>
    BY <1>3 DEF RecordUsage, At, TypeOK, HistoryInv
  <2>2. s \in Skill /\ Tail(todo[t]) \in Seq(Skill) /\ row[s] \in Row
    BY <2>1 DEF TypeOK
  <2>3. todo' \in [Task -> Seq(Skill)]
    BY <2>1, <2>2 DEF TypeOK
  <2>4. CASE row[s] = Absent
    <3>1. UNCHANGED <<row, mem, uses>>
      BY <1>3, <2>4 DEF RecordUsage
    <3> QED BY <3>1, <2>1, <2>3 DEF TypeOK, MemoryInv, HistoryInv
  <2>5. CASE row[s] # Absent
    <3>1. /\ Mutate(s, after) /\ mem' = [mem EXCEPT ![t] = Copied(@, s, after)]
          /\ uses' = uses \/ uses' = [uses EXCEPT ![s] = Append(@, t)]
      BY <1>3, <2>5 DEF RecordUsage
    <3>2. after \in Usage
      BY <2>1, <2>2, <2>5, RowKinds, UsageInTypes, UsedTypes
    <3> HIDE DEF after, s
    <3>3. row' \in [Skill -> Row]
      BY <3>1, <3>2, <2>2, MutateTypes DEF TypeOK
    <3>4. MemoryOK(Copied(mem[t], s, after))
      BY <3>2, CopiedOK DEF MemoryInv
    <3>5. MemoryInv'
      BY <3>1, <3>4, <2>1 DEF MemoryInv
    <3>6. uses' \in [Skill -> Seq(Task)]
      <4>1. \A q \in Seq(Task) : Append(q, t) \in Seq(Task)
        OBVIOUS
      <4>2. uses[s] \in Seq(Task)
        BY <2>2 DEF HistoryInv
      <4> QED BY <3>1, <4>1, <4>2 DEF HistoryInv
    <3>7. TypeOK'
      BY <3>3, <3>5, <2>1, <2>3 DEF TypeOK, MemoryInv, MemoryOK
    <3>8. HistoryInv'
      BY <3>6, <2>1 DEF HistoryInv
    <3> QED BY <3>5, <3>7, <3>8
  <2> QED BY <2>4, <2>5
<1>4. ASSUME NEW t \in Task, RecordUsageFails(t) PROVE TypeInv'
  <2>1. /\ todo[t] # <<>> /\ todo[t] \in Seq(Skill) /\ faults' = faults + 1
        /\ todo' = [todo EXCEPT ![t] = Tail(@)]
        /\ UNCHANGED <<row, mem, saved, at, node, records, verdict, uses, told, crashes>>
    BY <1>4 DEF RecordUsageFails, TypeOK, Fault, history
  <2>2. Tail(todo[t]) \in Seq(Skill)
    BY <2>1
  <2>3. TypeOK'
    BY <2>1, <2>2 DEF TypeOK, MemoryInv
  <2>4. MemoryInv' /\ HistoryInv'
    BY <1>0, <2>1 DEF MemoryInv, HistoryInv
  <2> QED BY <2>3, <2>4
<1>5. ASSUME NEW t \in Task, KeepRecalled(t) PROVE TypeInv'
  <2>1. /\ Persist(t, mem[t]) /\ MemoryOK(mem[t])
        /\ at' = [at EXCEPT ![t] = IF node[t][1] = "coder" THEN "marking" ELSE "ended"]
        /\ UNCHANGED <<row, node, todo, records, verdict, uses, told, crashes>>
    BY <1>5 DEF KeepRecalled, Goto, MemoryInv, history
  <2>2. MemoryInv' /\ faults' \in Nat
    BY <1>0, <2>1, PersistKeeps
  <2>3. TypeOK' /\ HistoryInv'
    BY <2>1, <2>2 DEF TypeOK, MemoryInv, MemoryOK, HistoryInv
  <2> QED BY <2>2, <2>3
<1>6. ASSUME NEW t \in Task, MarkUsed(t) PROVE TypeInv'
  <2> DEFINE h == [s \in DOMAIN mem[t].matches |->
                     IF Contains(mem[t].approved, s)
                     THEN [stages |-> mem[t].matches[s].stages \union {"coder"}, used |-> TRUE]
                     ELSE mem[t].matches[s]]
             m == [mem[t] EXCEPT !.matches = h]
  <2>1. /\ Persist(t, m) /\ MemoryOK(mem[t])
        /\ at' = [at EXCEPT ![t] = "ended"]
        /\ UNCHANGED <<row, node, todo, records, verdict, uses, told, crashes>>
    BY <1>6 DEF MarkUsed, Goto, MemoryInv, history
  <2>2. DOMAIN h \subseteq Skill
    BY <2>1 DEF MemoryOK
  <2> HIDE DEF h
  <2>3. MemoryOK(m)
    <3>0. mem[t] = [approved |-> mem[t].approved, copy |-> mem[t].copy,
                    matches |-> mem[t].matches]
      BY <2>1 DEF MemoryOK
    <3>1. m = [approved |-> mem[t].approved, copy |-> mem[t].copy, matches |-> h]
      BY <3>0, MatchesReplaced
    <3> QED BY <3>1, <2>1, <2>2 DEF MemoryOK
  <2> HIDE DEF m
  <2>4. MemoryInv' /\ faults' \in Nat
    BY <1>0, <2>1, <2>3, PersistKeeps
  <2>5. TypeOK' /\ HistoryInv'
    BY <2>1, <2>4 DEF TypeOK, MemoryInv, MemoryOK, HistoryInv
  <2> QED BY <2>4, <2>5
<1>7. ASSUME NEW t \in Task, HarvestNothing(t) PROVE TypeInv'
  BY <1>0, <1>7 DEF HarvestNothing, Goto, TypeOK, MemoryInv, HistoryInv, history
<1>8. ASSUME NEW t \in Task, Harvest(t) PROVE TypeInv'
  <2>1. PICK new \in {<<Harvested[t]>>, <<>>} :
          LET memory == HarvestedMemory(mem[t], new)
          IN  /\ Persist(t, memory)
              /\ records' = [records EXCEPT ![t] = RecordsOf(memory, new)]
              /\ Goto(t, IF memory.approved = <<>> THEN "ended" ELSE "saving")
    BY <1>8 DEF Harvest
  <2> DEFINE m == HarvestedMemory(mem[t], new)
  <2>2. Harvested[t] \in Skill /\ MemoryOK(mem[t])
    BY DEF Skill, MemoryInv
  <2>3. new \in Seq(Skill)
    <3>1. \A s \in Skill : <<s>> \in Seq(Skill)
      OBVIOUS
    <3>2. <<>> \in Seq(Skill)
      OBVIOUS
    <3> QED BY <2>2, <3>1, <3>2
  <2>4. MemoryOK(m) /\ RecordsOf(m, new) \in Seq(Record)
    BY <2>2, <2>3, HarvestKeeps
  <2>5. /\ Persist(t, m) /\ records' = [records EXCEPT ![t] = RecordsOf(m, new)]
        /\ at' = [at EXCEPT ![t] = IF m.approved = <<>> THEN "ended" ELSE "saving"]
        /\ UNCHANGED <<row, node, todo, verdict, uses, told, crashes>>
    BY <1>8, <2>1 DEF Harvest, Goto, history
  <2> HIDE DEF m
  <2>6. MemoryInv' /\ faults' \in Nat
    BY <1>0, <2>4, <2>5, PersistKeeps
  <2>7. TypeOK' /\ HistoryInv'
    BY <2>4, <2>5, <2>6 DEF TypeOK, MemoryInv, MemoryOK, HistoryInv
  <2> QED BY <2>6, <2>7
<1>9. ASSUME NEW t \in Task, Snapshot(t) PROVE TypeInv'
  <2> DEFINE rs == records[t]
             after == [i \in DOMAIN rs |-> WithSnapshot(rs[i])]
  <2>1. rs \in Seq(Record)
    BY DEF TypeOK
  <2>2. /\ records' = [records EXCEPT ![t] = after]
        /\ at' = [at EXCEPT ![t] = "upserting"]
        /\ UNCHANGED <<row, mem, saved, node, todo, verdict, uses, told, crashes, faults>>
    BY <1>9 DEF Snapshot, Goto, history
  <2>3. ASSUME NEW r \in Record PROVE WithSnapshot(r) \in Record
    <3> DEFINE old == row[r.skill]
               was == IF old = Absent THEN NoUsage ELSE old.usage
    <3>1. old \in Row
      BY DEF TypeOK, Record
    <3>2. was \in Usage \union {NoUsage}
      BY <3>1, RowKinds
    <3>3. MergedUsage(was, r.usage) \in Usage \union {NoUsage}
      BY <3>2 DEF MergedUsage, Record
    <3>4. WithSnapshot(r) = [r EXCEPT !.usage = MergedUsage(was, r.usage)]
      BY DEF WithSnapshot
    <3> HIDE DEF was
    <3> QED BY <3>3, <3>4 DEF Record
  <2>4. after \in Seq(Record)
    <3>1. DOMAIN rs = 1 .. Len(rs) /\ Len(rs) \in Nat
      BY <2>1
    <3> QED BY <2>1, <3>1, <2>3
  <2> HIDE DEF after
  <2> QED BY <2>2, <2>4 DEF TypeOK, MemoryInv, HistoryInv
<1>10. ASSUME NEW t \in Task, Upsert(t) PROVE TypeInv'
  <2> DEFINE rs == records[t]
  <2>1. ASSUME NEW s \in Skill PROVE row'[s] \in Row
    <3> DEFINE i == CHOOSE i \in DOMAIN rs : rs[i].skill = s
    <3>1. CASE \E j \in DOMAIN rs : rs[j].skill = s
      <4>1. row'[s] = Upserted(row[s], rs[i].usage)
        BY <1>10, <3>1 DEF Upsert
      <4>2. i \in DOMAIN rs
        BY <3>1
      <4> HIDE DEF i
      <4>30. rs \in Seq(Record)
        BY DEF TypeOK
      <4>31. rs[i] \in Record
        BY <4>2, <4>30
      <4>3. rs[i].usage \in Usage \union {NoUsage}
        BY <4>31 DEF Record
      <4>4. row[s] \in Row
        BY DEF TypeOK
      <4> QED BY <4>1, <4>3, <4>4, UpsertedTypes
    <3>2. CASE ~ \E j \in DOMAIN rs : rs[j].skill = s
      BY <1>10, <3>2 DEF Upsert, TypeOK
    <3> QED BY <3>1, <3>2
  <2>2. /\ row' = [s \in Skill |-> row'[s]]
        /\ at' = [at EXCEPT ![t] = "ended"]
        /\ UNCHANGED <<mem, saved, node, todo, records, verdict, uses, told, crashes, faults>>
    BY <1>10 DEF Upsert, Goto, history
  <2> QED BY <2>1, <2>2 DEF TypeOK, MemoryInv, HistoryInv
<1>11. ASSUME NEW t \in Task, SaveFails(t) PROVE TypeInv'
  BY <1>0, <1>11 DEF SaveFails, Goto, Fault, TypeOK, MemoryInv, HistoryInv, history
<1>12. ASSUME NEW t \in Task, EndNode(t) PROVE TypeInv'
  <2>1. PICK n \in After(t) : node' = [node EXCEPT ![t] = n]
    BY <1>12 DEF EndNode
  <2>2. n \in Node
    <3>1. node[t] \in Node /\ node[t][2] \in Nat
      BY DEF TypeOK, Node
    <3> QED BY <3>1, <2>1 DEF After, Node
  <2>3. /\ at' = [at EXCEPT ![t] = "between"] /\ records' = [records EXCEPT ![t] = <<>>]
        /\ UNCHANGED <<row, mem, saved, todo, verdict, uses, told, crashes, faults>>
    BY <1>12 DEF EndNode, Goto, history
  <2>4. \A S : <<>> \in Seq(S)
    OBVIOUS
  <2>5. TypeOK' /\ MemoryInv'
    BY <2>1, <2>2, <2>3, <2>4 DEF TypeOK, MemoryInv
  <2>6. HistoryInv'
    <3>1. ASSUME NEW u \in Task, at'[u] = "using" PROVE node'[u][1] \in {"analyst", "coder"}
      <4>1. u # t
        BY <3>1, <2>3 DEF TypeOK
      <4> QED BY <4>1, <3>1, <2>1, <2>3 DEF TypeOK, HistoryInv
    <3> QED BY <3>1, <2>3 DEF HistoryInv
  <2> QED BY <2>5, <2>6
<1>13. ASSUME NEW t \in Task, Conclude(t) PROVE TypeInv'
  <2>1. /\ UNCHANGED <<row, mem, saved, node, records, uses, told, crashes, faults>>
        /\ at' = [at EXCEPT ![t] = "done"] \/ at' = [at EXCEPT ![t] = "judging"]
        /\ verdict' \in [Task -> BOOLEAN]
        /\ todo' = todo \/ todo' = [todo EXCEPT ![t] = SetToSeq(UsedInCodegen(mem[t]))]
    BY <1>13 DEF Conclude, Goto, history, TypeOK
  <2>2. UsedInCodegen(mem[t]) \in SUBSET Skill
    BY DEF UsedInCodegen, MemoryInv, MemoryOK
  <2>3. SetToSeq(UsedInCodegen(mem[t])) \in Seq(Skill)
    BY <2>2, ListedOnce
  <2>4. todo' \in [Task -> Seq(Skill)]
    BY <2>1, <2>3 DEF TypeOK
  <2>5. at' \in [Task -> {"between", "using", "marking", "ended", "saving",
                          "upserting", "judging", "done"}]
    BY <2>1 DEF TypeOK
  <2>6. TypeOK'
    BY <2>1, <2>4, <2>5 DEF TypeOK
  <2> QED BY <2>1, <2>6 DEF TypeOK, MemoryInv, HistoryInv
<1>14. ASSUME NEW t \in Task, RecordOutcome(t) PROVE TypeInv'
  <2> DEFINE s == Head(todo[t])
             after == Judged(UsageIn(row[s].usage), t, verdict[t])
  <2>1. /\ todo[t] # <<>> /\ todo[t] \in Seq(Skill) /\ verdict[t] \in BOOLEAN
        /\ todo' = [todo EXCEPT ![t] = Tail(@)]
        /\ UNCHANGED <<saved, at, node, records, verdict, uses, crashes, faults>>
    BY <1>14 DEF RecordOutcome, TypeOK
  <2>2. s \in Skill /\ Tail(todo[t]) \in Seq(Skill) /\ row[s] \in Row
    BY <2>1 DEF TypeOK
  <2>3. todo' \in [Task -> Seq(Skill)]
    BY <2>1, <2>2 DEF TypeOK
  <2>4. CASE row[s] = Absent
    <3>1. UNCHANGED <<row, mem, told>>
      BY <1>14, <2>4 DEF RecordOutcome
    <3> QED BY <3>1, <2>1, <2>3 DEF TypeOK, MemoryInv, HistoryInv
  <2>5. CASE row[s] # Absent
    <3>1. /\ Mutate(s, after) /\ mem' = [mem EXCEPT ![t] = Copied(@, s, after)]
          /\ told' = told \/ told' = [told EXCEPT ![s] = Append(@, <<t, verdict[t]>>)]
      BY <1>14, <2>5 DEF RecordOutcome
    <3>2. after \in Usage
      BY <2>1, <2>2, <2>5, RowKinds, UsageInTypes, JudgedTypes
    <3> HIDE DEF after, s
    <3>3. row' \in [Skill -> Row]
      BY <3>1, <3>2, <2>2, MutateTypes DEF TypeOK
    <3>4. MemoryOK(Copied(mem[t], s, after))
      BY <3>2, CopiedOK DEF MemoryInv
    <3>5. MemoryInv'
      BY <3>1, <3>4, <2>1 DEF MemoryInv
    <3>6. told' \in [Skill -> Seq(Task \X BOOLEAN)]
      <4> DEFINE e == <<t, verdict[t]>>
      <4>1. e \in Task \X BOOLEAN
        BY <2>1
      <4> HIDE DEF e
      <4>2. \A q \in Seq(Task \X BOOLEAN) : Append(q, e) \in Seq(Task \X BOOLEAN)
        BY <4>1
      <4>3. told[s] \in Seq(Task \X BOOLEAN)
        BY <2>2 DEF HistoryInv
      <4> QED BY <3>1, <4>2, <4>3 DEF HistoryInv, e
    <3>7. TypeOK'
      BY <3>3, <3>5, <2>1, <2>3 DEF TypeOK, MemoryInv, MemoryOK
    <3>8. HistoryInv'
      BY <3>6, <2>1 DEF HistoryInv
    <3> QED BY <3>5, <3>7, <3>8
  <2> QED BY <2>4, <2>5
<1>15. ASSUME NEW t \in Task, RecordOutcomeFails(t) PROVE TypeInv'
  <2>1. \A S : <<>> \in Seq(S)
    OBVIOUS
  <2>2. /\ faults' = faults + 1
        /\ verdict' = [verdict EXCEPT ![t] = FALSE] /\ todo' = [todo EXCEPT ![t] = <<>>]
        /\ at' = [at EXCEPT ![t] = "done"]
        /\ UNCHANGED <<row, mem, saved, node, records, uses, told, crashes>>
    BY <1>15 DEF RecordOutcomeFails, Goto, Fault, history
  <2> QED BY <1>0, <2>1, <2>2 DEF TypeOK, MemoryInv, HistoryInv
<1>16. ASSUME NEW t \in Task, Settle(t) PROVE TypeInv'
  <2>1. /\ Persist(t, mem[t]) /\ MemoryOK(mem[t])
        /\ at' = [at EXCEPT ![t] = "done"]
        /\ UNCHANGED <<row, node, todo, records, verdict, uses, told, crashes>>
    BY <1>16 DEF Settle, Goto, MemoryInv, history
  <2>2. MemoryInv' /\ faults' \in Nat
    BY <1>0, <2>1, PersistKeeps
  <2>3. TypeOK' /\ HistoryInv'
    BY <2>1, <2>2 DEF TypeOK, MemoryInv, MemoryOK, HistoryInv
  <2> QED BY <2>2, <2>3
<1>17. ASSUME NEW t \in Task, Crash(t) PROVE TypeInv'
  <2>1. \A S : <<>> \in Seq(S)
    OBVIOUS
  <2>2. /\ crashes' = crashes + 1 /\ faults' \in {faults, faults + 1}
        /\ mem' = [mem EXCEPT ![t] = saved[t]] \/ mem' = [mem EXCEPT ![t] = NoMemory]
        /\ at' = [at EXCEPT ![t] = "between"] /\ todo' = [todo EXCEPT ![t] = <<>>]
        /\ records' = [records EXCEPT ![t] = <<>>]
        /\ UNCHANGED <<row, saved, node, verdict, uses, told>>
    BY <1>17 DEF Crash, Goto, Fault, history
  <2>3. MemoryInv'
    BY <2>2, NoMemoryOK DEF MemoryInv
  <2>4. TypeOK'
    BY <2>1, <2>2, <2>3 DEF TypeOK, MemoryInv, MemoryOK
  <2>5. HistoryInv'
    BY <1>0, <2>2 DEF TypeOK, HistoryInv
  <2> QED BY <2>3, <2>4, <2>5
<1> HIDE DEF TypeInv
<1>18. CASE Next
  BY <1>1, <1>2, <1>3, <1>4, <1>5, <1>6, <1>7, <1>8, <1>9, <1>10, <1>11, <1>12,
     <1>13, <1>14, <1>15, <1>16, <1>17, <1>18 DEF Next, Finished
<1> QED BY <1>1, <1>18

\* The rows and the positions of the flows keep their types, and the lists of
\* skills that recalls, harvests and verdicts work through hold skills.
THEOREM TypeCorrect == Spec => []TypeOK
<1>1. Init => TypeInv
  BY TypeInit, SkillParameters
<1>2. TypeInv /\ [Next]_vars => TypeInv'
  BY TypeStep, SkillParameters
<1>3. TypeInv => TypeOK
  BY DEF TypeInv
<1> QED BY <1>1, <1>2, <1>3, PTL DEF Spec

-----------------------------------------------------------------------------
(* Counts *)

\* A row that is not touched, or that is written, keeps its counts.
Grows(s) ==
  row[s] # Absent =>
    /\ row'[s] # Absent
    /\ LET old == UsageIn(row[s].usage)
           new == UsageIn(row'[s].usage)
       IN  old.count <= new.count /\ old.good <= new.good /\ old.bad <= new.bad

LEMMA SameGrows ==
  ASSUME row \in [Skill -> Row], NEW s \in Skill, row'[s] = row[s]
  PROVE  Grows(s)
<1>1. ASSUME row[s] # Absent PROVE UsageIn(row[s].usage) \in Usage
  BY <1>1, RowKinds, UsageInTypes
<1> QED BY <1>1 DEF Grows, Usage

LEMMA MutateGrows ==
  ASSUME row \in [Skill -> Row], NEW s \in Skill, NEW u \in Usage, Mutate(s, u),
         LET old == UsageIn(row[s].usage)
         IN  old.count <= u.count /\ old.good <= u.good /\ old.bad <= u.bad
  PROVE  \A r \in Skill : Grows(r)
<1>1. /\ row'[s] = [usage |-> u, column |-> u.count] /\ row'[s] # Absent
      /\ \A r \in Skill : r # s => row'[r] = row[r]
  BY MutateTypes
<1>2. u # NoUsage
  BY DEF Usage, NoUsage
<1>3. UsageIn(row'[s].usage) = u
  BY <1>1, <1>2 DEF UsageIn
<1>4. Grows(s)
  BY <1>1, <1>3 DEF Grows
<1> QED BY <1>1, <1>4, SameGrows

LEMMA CountsStep ==
  ASSUME SkillParameters, TypeInv, [Next]_vars
  PROVE  \A s \in Skill : Grows(s)
<1> USE DEF TypeInv
<1>1. row \in [Skill -> Row]
  BY DEF TypeOK
<1>2. CASE UNCHANGED row
  BY <1>1, <1>2, SameGrows
<1>3. ASSUME NEW t \in Task, RecordUsage(t) PROVE \A s \in Skill : Grows(s)
  <2> DEFINE s == Head(todo[t])
             old == UsageIn(row[s].usage)
             after == Used(old, t, node[t][1])
  <2>1. todo[t] # <<>> /\ todo[t] \in Seq(Skill) /\ node[t][1] \in {"analyst", "coder"}
    BY <1>3 DEF RecordUsage, At, TypeOK, HistoryInv
  <2>2. s \in Skill /\ row[s] \in Row
    BY <2>1 DEF TypeOK
  <2>3. CASE row[s] # Absent
    <3>1. Mutate(s, after)
      BY <1>3, <2>3 DEF RecordUsage
    <3>2. old \in Usage
      BY <2>2, <2>3, RowKinds, UsageInTypes
    <3>3. /\ after \in Usage /\ old.count <= after.count
          /\ after.good = old.good /\ after.bad = old.bad
      BY <2>1, <3>2, UsedTypes
    <3>4. old.good \in Nat /\ old.bad \in Nat
      BY <3>2 DEF Usage
    <3> HIDE DEF after, s
    <3>5. old.good <= after.good /\ old.bad <= after.bad
      BY <3>3, <3>4
    <3> QED BY <1>1, <2>2, <3>1, <3>3, <3>5, MutateGrows DEF s
  <2>4. CASE row[s] = Absent
    BY <1>2, <1>3, <2>4 DEF RecordUsage
  <2> QED BY <2>3, <2>4
<1>4. ASSUME NEW t \in Task, RecordOutcome(t) PROVE \A s \in Skill : Grows(s)
  <2> DEFINE s == Head(todo[t])
             old == UsageIn(row[s].usage)
             after == Judged(old, t, verdict[t])
  <2>1. todo[t] # <<>> /\ todo[t] \in Seq(Skill) /\ verdict[t] \in BOOLEAN
    BY <1>4 DEF RecordOutcome, TypeOK
  <2>2. s \in Skill /\ row[s] \in Row
    BY <2>1 DEF TypeOK
  <2>3. CASE row[s] # Absent
    <3>1. Mutate(s, after)
      BY <1>4, <2>3 DEF RecordOutcome
    <3>2. old \in Usage
      BY <2>2, <2>3, RowKinds, UsageInTypes
    <3>3. /\ after \in Usage /\ old.good <= after.good /\ old.bad <= after.bad
          /\ after.count = old.count
      BY <2>1, <3>2, JudgedTypes
    <3>4. old.count \in Nat
      BY <3>2 DEF Usage
    <3> HIDE DEF after, s
    <3>5. old.count <= after.count
      BY <3>3, <3>4
    <3> QED BY <1>1, <2>2, <3>1, <3>3, <3>5, MutateGrows DEF s
  <2>4. CASE row[s] = Absent
    BY <1>2, <1>4, <2>4 DEF RecordOutcome
  <2> QED BY <2>3, <2>4
<1>5. ASSUME NEW t \in Task, Upsert(t), NEW s \in Skill PROVE Grows(s)
  <2> DEFINE rs == records[t]
             i == CHOOSE i \in DOMAIN rs : rs[i].skill = s
  <2>1. CASE \E j \in DOMAIN rs : rs[j].skill = s
    <3>1. row'[s] = Upserted(row[s], rs[i].usage)
      BY <1>5, <2>1 DEF Upsert
    <3>2. i \in DOMAIN rs
      BY <2>1
    <3> HIDE DEF i
    <3>3. rs \in Seq(Record)
      BY DEF TypeOK
    <3>4. rs[i] \in Record
      BY <3>2, <3>3
    <3>5. rs[i].usage \in Usage \union {NoUsage} /\ row[s] \in Row
      BY <3>4, <1>1 DEF Record
    <3> QED BY <3>1, <3>5, UpsertedTypes DEF Grows
  <2>2. CASE ~ \E j \in DOMAIN rs : rs[j].skill = s
    <3>1. row'[s] = row[s]
      BY <1>5, <2>2 DEF Upsert
    <3> QED BY <1>1, <3>1, SameGrows
  <2> QED BY <2>1, <2>2
<1>6. CASE UNCHANGED vars
  BY <1>2, <1>6 DEF vars
<1>7. ASSUME NEW t \in Task,
             \/ Recall(t) \/ RecordUsageFails(t) \/ KeepRecalled(t) \/ MarkUsed(t)
             \/ HarvestNothing(t) \/ Harvest(t) \/ Snapshot(t) \/ SaveFails(t)
             \/ EndNode(t) \/ Conclude(t) \/ RecordOutcomeFails(t) \/ Settle(t) \/ Crash(t)
      PROVE  UNCHANGED row
  BY <1>7 DEF Recall, RecordUsageFails, KeepRecalled, MarkUsed, HarvestNothing, Harvest,
     Snapshot, SaveFails, EndNode, Conclude, RecordOutcomeFails, Settle, Crash
<1> QED BY <1>2, <1>3, <1>4, <1>5, <1>6, <1>7 DEF Next, Finished

\* No count of a skill is ever taken back, whatever the interleaving of the
\* tasks that use, harvest and judge it, their failures and restarts.
THEOREM CountsNeverFall == Spec => CountsGrow
<1>1. Init => TypeInv
  BY TypeInit, SkillParameters
<1>2. TypeInv /\ [Next]_vars => TypeInv'
  BY TypeStep, SkillParameters
<1> DEFINE A == \A s \in Skill : row[s] # Absent =>
                  /\ row'[s] # Absent
                  /\ LET old == UsageIn(row[s].usage)
                         new == UsageIn(row'[s].usage)
                     IN  old.count <= new.count /\ old.good <= new.good /\ old.bad <= new.bad
<1>3. TypeInv /\ [Next]_vars => [A]_vars
  BY CountsStep, SkillParameters DEF Grows
<1>4. Spec => [][A]_vars
  BY <1>1, <1>2, <1>3, PTL DEF Spec
<1> QED BY <1>4 DEF CountsGrow

-----------------------------------------------------------------------------
(* Uses *)

\* A skill that a task keeps: later recalls cut its list behind the limit only.
Keeps(m, s) == \E i \in DOMAIN m.approved : i <= Limit /\ m.approved[i] = s

\* A use counted for a task is of a skill it keeps, so no later recall can take
\* it for new; what it still has to count has not been counted for it.
UseInv ==
  crashes = 0 =>
    \A t \in Task :
      /\ \A s \in Skill : t \in ToSet(uses[s]) => Keeps(mem[t], s)
      /\ at[t] = "using" =>
           /\ IsInjective(todo[t])
           /\ \A k \in DOMAIN todo[t] :
                Keeps(mem[t], todo[t][k]) /\ t \notin ToSet(uses[todo[t][k]])


\* What a step of a task leaves to the others.
LEMMA OthersKept ==
  ASSUME TypeInv, NEW t \in Task, NEW u \in Task, u # t,
         \/ Recall(t) \/ RecordUsage(t) \/ RecordUsageFails(t) \/ KeepRecalled(t)
         \/ MarkUsed(t) \/ HarvestNothing(t) \/ Harvest(t) \/ Snapshot(t) \/ Upsert(t)
         \/ SaveFails(t) \/ EndNode(t) \/ Conclude(t) \/ RecordOutcome(t)
         \/ RecordOutcomeFails(t) \/ Settle(t) \/ Crash(t)
  PROVE  /\ mem'[u] = mem[u] /\ at'[u] = at[u] /\ todo'[u] = todo[u]
         /\ verdict'[u] = verdict[u]
<1> USE DEF TypeInv, TypeOK, MemoryInv
<1>1. CASE Recall(t) \/ RecordUsage(t) \/ RecordUsageFails(t) \/ KeepRecalled(t)
  BY <1>1 DEF Recall, RecordUsage, RecordUsageFails, KeepRecalled, Persist, Goto
<1>2. CASE MarkUsed(t) \/ HarvestNothing(t) \/ Harvest(t) \/ Snapshot(t) \/ Upsert(t)
  BY <1>2 DEF MarkUsed, HarvestNothing, Harvest, Snapshot, Upsert, Persist, Goto
<1>3. CASE SaveFails(t) \/ EndNode(t) \/ Conclude(t) \/ RecordOutcome(t)
  BY <1>3 DEF SaveFails, EndNode, Conclude, RecordOutcome, Goto
<1>4. CASE RecordOutcomeFails(t) \/ Settle(t) \/ Crash(t)
  BY <1>4 DEF RecordOutcomeFails, Settle, Crash, Persist, Goto
<1> QED BY <1>1, <1>2, <1>3, <1>4

\* A step that counts no use, and after which the task does not use matches.
LEMMA UseFrame ==
  ASSUME TypeInv, UseInv, UsedOncePerTask, NEW t \in Task,
         \A u \in Task : u # t =>
           mem'[u] = mem[u] /\ at'[u] = at[u] /\ todo'[u] = todo[u],
         crashes' = crashes, uses' = uses, at'[t] # "using",
         \A s \in Skill : Keeps(mem[t], s) => Keeps(mem'[t], s)
  PROVE  UseInv' /\ UsedOncePerTask'
<1>1. UsedOncePerTask'
  BY DEF UsedOncePerTask
<1>2. ASSUME crashes' = 0, NEW u \in Task
      PROVE  /\ \A s \in Skill : u \in ToSet(uses'[s]) => Keeps(mem'[u], s)
             /\ at'[u] = "using" =>
                  /\ IsInjective(todo'[u])
                  /\ \A k \in DOMAIN todo'[u] :
                       Keeps(mem'[u], todo'[u][k]) /\ u \notin ToSet(uses'[todo'[u][k]])
  <2>1. CASE u = t
    BY <1>2, <2>1 DEF UseInv
  <2>2. CASE u # t
    BY <1>2, <2>2 DEF UseInv
  <2> QED BY <2>1, <2>2
<1>3. UseInv'
  BY <1>2 DEF UseInv, Keeps
<1> QED BY <1>1, <1>3

LEMMA UseStep ==
  ASSUME SkillParameters, TypeInv, UseInv, UsedOncePerTask, [Next]_vars
  PROVE  UseInv' /\ UsedOncePerTask'
<1> DEFINE UseOf(u) ==
      /\ \A s \in Skill : u \in ToSet(uses[s]) => Keeps(mem[u], s)
      /\ at[u] = "using" =>
           /\ IsInjective(todo[u])
           /\ \A k \in DOMAIN todo[u] :
                Keeps(mem[u], todo[u][k]) /\ u \notin ToSet(uses[todo[u][k]])
    Others(t) == \A u \in Task : u # t =>
                   mem'[u] = mem[u] /\ at'[u] = at[u] /\ todo'[u] = todo[u]
<1>1. CASE UNCHANGED vars
  BY <1>1 DEF vars, flow, history, UseInv, UsedOncePerTask, Keeps
<1>2. ASSUME NEW t \in Task, Recall(t) PROVE UseInv' /\ UsedOncePerTask'
  <2>1. Others(t)
    BY <1>2, OthersKept
  <2>2. MemoryOK(mem[t]) /\ node[t][1] \in {"analyst", "coder"}
    BY <1>2 DEF TypeInv, MemoryInv, Recall
  <2>3. PICK found \in SetToSeqs({s \in Skill : row[s] # Absent}) \union {<<>>} :
          LET own == mem[t].approved
              recalled == Recalled(t, own, Historical(t, found))
              new == NewMatches(own, recalled)
          IN  /\ mem' = [mem EXCEPT ![t] =
                   [approved |-> recalled,
                    copy |-> [s \in ToSet(recalled) |-> ZeroUsage],
                    matches |-> WithMatches(mem[t].matches, new, node[t][1])]]
              /\ todo' = [todo EXCEPT ![t] = new]
    BY <1>2 DEF Recall
  <2>4. found \in Seq(Skill)
    <3>1. <<>> \in Seq(Skill)
      OBVIOUS
    <3>2. {s \in Skill : row[s] # Absent} \in SUBSET Skill
      OBVIOUS
    <3> QED BY <3>1, <3>2, Listed
  <2> DEFINE own == mem[t].approved
             recalled == Recalled(t, own, Historical(t, found))
             new == NewMatches(own, recalled)
  <2>5. /\ recalled = mem'[t].approved /\ todo'[t] = new
    BY <2>3 DEF TypeInv, MemoryInv, TypeOK
  <2>6. /\ new \in Seq(Skill) /\ IsInjective(new) /\ recalled \in Seq(Skill)
        /\ Len(recalled) <= Limit
        /\ \A k \in DOMAIN new : new[k] \in ToSet(recalled) /\ new[k] \notin ToSet(own)
        /\ \A i \in DOMAIN own : i <= Limit => i \in DOMAIN recalled /\ recalled[i] = own[i]
    <3>1. own \in Seq(Skill) /\ IsInjective(own)
      BY <2>2 DEF MemoryOK
    <3> HIDE DEF own
    <3> QED BY <2>4, <3>1, RecallLists
  <2> HIDE DEF new, recalled
  <2>7. crashes' = crashes /\ uses' = uses
    BY <1>2 DEF Recall, history
  <2>8. \A s \in Skill : Keeps(mem[t], s) => Keeps(mem'[t], s)
    BY <2>5, <2>6 DEF Keeps
  <2>9. ASSUME crashes = 0, NEW k \in DOMAIN new
        PROVE  Keeps(mem'[t], new[k]) /\ t \notin ToSet(uses[new[k]])
    <3>1. PICK i \in DOMAIN recalled : recalled[i] = new[k]
      BY <2>6, <2>9 DEF ToSet
    <3>2. i <= Limit
      <4>1. i \in 1 .. Len(recalled) /\ Len(recalled) \in Nat /\ Limit \in Nat
        BY <2>6 DEF SkillParameters
      <4> QED BY <4>1, <2>6
    <3>3. Keeps(mem'[t], new[k])
      BY <2>5, <3>1, <3>2 DEF Keeps
    <3>4. ~ Keeps(mem[t], new[k])
      BY <2>6, <2>9 DEF Keeps, ToSet
    <3>5. new[k] \in Skill
      BY <2>6
    <3> QED BY <2>9, <3>3, <3>4, <3>5 DEF UseInv
  <2>10. ASSUME crashes' = 0, NEW u \in Task PROVE UseOf(u)'
    <3>1. CASE u = t
      BY <2>5, <2>6, <2>7, <2>8, <2>9, <2>10, <3>1 DEF UseInv
    <3>2. CASE u # t
      BY <2>1, <2>7, <2>10, <3>2 DEF UseInv
    <3> QED BY <3>1, <3>2
  <2>11. UseInv'
    BY <2>10 DEF UseInv
  <2> QED BY <2>7, <2>11 DEF UsedOncePerTask
<1>3. ASSUME NEW t \in Task, RecordUsage(t) PROVE UseInv' /\ UsedOncePerTask'
  <2>1. Others(t)
    BY <1>3, OthersKept
  <2> DEFINE q == todo[t]
             s == Head(q)
             after == Used(UsageIn(row[s].usage), t, node[t][1])
  <2>2. /\ at[t] = "using" /\ q # <<>> /\ q \in Seq(Skill) /\ node[t][1] \in {"analyst", "coder"}
        /\ at' = at /\ crashes' = crashes /\ todo'[t] = Tail(q)
    BY <1>3 DEF RecordUsage, At, TypeInv, TypeOK, HistoryInv
  <2>3. /\ s = q[1] /\ 1 \in DOMAIN q /\ s \in Skill
        /\ \A k \in DOMAIN Tail(q) : k + 1 \in DOMAIN q /\ Tail(q)[k] = q[k + 1] /\ k + 1 # 1
        /\ \A k, l \in DOMAIN Tail(q) : k + 1 = l + 1 => k = l
    BY <2>2
  <2>4. /\ \A r \in Skill : uses[r] \in Seq(Task)
        /\ \A r \in Skill : r # s => uses'[r] = uses[r]
        /\ uses'[s] = uses[s] \/ uses'[s] = Append(uses[s], t)
    <3>1. uses' = uses \/ uses' = [uses EXCEPT ![s] = Append(@, t)]
      BY <1>3 DEF RecordUsage
    <3> HIDE DEF s
    <3> QED BY <2>3, <3>1 DEF TypeInv, HistoryInv
  <2>5. mem'[t].approved = mem[t].approved
    <3>1. CASE row[s] = Absent
      BY <1>3, <3>1 DEF RecordUsage
    <3>2. CASE row[s] # Absent
      <4>1. mem'[t] = Copied(mem[t], s, after)
        BY <1>3, <3>2 DEF RecordUsage, TypeInv, MemoryInv
      <4>2. after \in Usage
        BY <2>2, <2>3, <3>2, RowKinds, UsageInTypes, UsedTypes DEF TypeInv, TypeOK
      <4> QED BY <4>1, <4>2, CopiedOK DEF TypeInv, MemoryInv
    <3> QED BY <3>1, <3>2
  <2> HIDE DEF s, q
  <2>6. ASSUME NEW r \in Skill, NEW u \in ToSet(uses'[r])
        PROVE  u \in ToSet(uses[r]) \/ (u = t /\ r = s)
    <3>1. CASE uses'[r] = uses[r]
      BY <2>6, <3>1
    <3>2. CASE r = s /\ uses'[r] = Append(uses[r], t)
      <4>1. PICK k \in DOMAIN Append(uses[r], t) : u = Append(uses[r], t)[k]
        BY <2>6, <3>2 DEF ToSet
      <4>2. uses[r] \in Seq(Task)
        BY <2>4
      <4>3. (k \in DOMAIN uses[r] /\ u = uses[r][k]) \/ u = t
        BY <4>1, <4>2
      <4> QED BY <4>3, <3>2 DEF ToSet
    <3> QED BY <2>4, <3>1, <3>2
  <2>7. ASSUME crashes = 0 PROVE Keeps(mem[t], s) /\ t \notin ToSet(uses[s]) /\ IsInjective(q)
    BY <2>7, <2>2, <2>3 DEF UseInv, q
  <2>8. ASSUME crashes' = 0, NEW u \in Task PROVE UseOf(u)'
    <3>1. ASSUME NEW r \in Skill, u \in ToSet(uses'[r]) PROVE Keeps(mem'[u], r)
      <4>1. Keeps(mem[u], r)
        BY <2>2, <2>6, <2>7, <2>8, <3>1 DEF UseInv
      <4> QED BY <4>1, <2>1, <2>5 DEF Keeps
    <3>2. CASE u # t
      <4>1. at'[u] = at[u] /\ todo'[u] = todo[u] /\ mem'[u] = mem[u]
        BY <2>1, <3>2
      <4>2. \A r \in Skill : u \in ToSet(uses'[r]) => u \in ToSet(uses[r])
        BY <2>6, <3>2
      <4>3. todo[u] \in Seq(Skill)
        BY DEF TypeInv, TypeOK
      <4>4. ASSUME at'[u] = "using"
            PROVE  /\ IsInjective(todo'[u])
                   /\ \A k \in DOMAIN todo'[u] :
                        Keeps(mem'[u], todo'[u][k]) /\ u \notin ToSet(uses'[todo'[u][k]])
        <5>1. /\ IsInjective(todo[u])
              /\ \A k \in DOMAIN todo[u] :
                   Keeps(mem[u], todo[u][k]) /\ u \notin ToSet(uses[todo[u][k]])
          BY <2>2, <2>8, <4>1, <4>4 DEF UseInv
        <5>2. \A k \in DOMAIN todo[u] : todo[u][k] \in Skill
          BY <4>3
        <5> QED BY <4>1, <4>2, <5>1, <5>2
      <4> QED BY <3>1, <4>4 DEF Keeps
    <3>3. CASE u = t
      <4>1. IsInjective(Tail(q))
        BY <2>2, <2>3, <2>7, <2>8 DEF IsInjective
      <4>2. ASSUME NEW k \in DOMAIN Tail(q)
            PROVE  Keeps(mem'[t], Tail(q)[k]) /\ t \notin ToSet(uses'[Tail(q)[k]])
        <5>1. k + 1 \in DOMAIN q /\ Tail(q)[k] = q[k + 1] /\ k + 1 # 1
          BY <2>3
        <5>2. q[k + 1] # s /\ q[k + 1] \in Skill
          BY <5>1, <2>2, <2>3, <2>7, <2>8 DEF IsInjective
        <5>3. Keeps(mem[t], q[k + 1]) /\ t \notin ToSet(uses[q[k + 1]])
          BY <5>1, <2>2, <2>8 DEF UseInv, q
        <5> QED BY <5>1, <5>2, <5>3, <2>4, <2>5 DEF Keeps
      <4> QED BY <2>2, <3>1, <3>3, <4>1, <4>2
    <3> QED BY <3>2, <3>3
  <2>9. UsedOncePerTask'
    <3> SUFFICES ASSUME crashes' = 0, NEW r \in Skill PROVE IsInjective(uses'[r])
      BY DEF UsedOncePerTask
    <3>1. IsInjective(uses[r]) /\ uses[r] \in Seq(Task)
      BY <2>2, <2>4 DEF UsedOncePerTask
    <3>2. CASE uses'[r] = uses[r]
      BY <3>1, <3>2
    <3>3. CASE r = s /\ uses'[r] = Append(uses[r], t)
      <4> DEFINE v == uses[r]
      <4>1. v \in Seq(Task) /\ IsInjective(v) /\ t \notin ToSet(v)
        BY <2>2, <2>7, <3>1, <3>3
      <4> HIDE DEF v
      <4>2. /\ DOMAIN Append(v, t) = 1 .. (Len(v) + 1) /\ DOMAIN v = 1 .. Len(v)
            /\ Len(v) \in Nat /\ Append(v, t)[Len(v) + 1] = t
            /\ \A k \in 1 .. Len(v) : Append(v, t)[k] = v[k] /\ v[k] # t
        BY <4>1 DEF ToSet
      <4>3. IsInjective(Append(v, t))
        BY <4>1, <4>2 DEF IsInjective
      <4> QED BY <3>3, <4>3 DEF v
    <3> QED BY <2>4, <3>2, <3>3
  <2> QED BY <2>8, <2>9 DEF UseInv
<1>4. ASSUME NEW t \in Task, RecordUsageFails(t) PROVE UseInv' /\ UsedOncePerTask'
  <2>1. Others(t)
    BY <1>4, OthersKept
  <2> DEFINE q == todo[t]
  <2>2. /\ at[t] = "using" /\ q # <<>> /\ q \in Seq(Skill) /\ todo'[t] = Tail(q)
        /\ UNCHANGED <<at, mem, uses, crashes>>
    BY <1>4 DEF RecordUsageFails, At, TypeInv, TypeOK, history
  <2>3. /\ \A k \in DOMAIN Tail(q) : k + 1 \in DOMAIN q /\ Tail(q)[k] = q[k + 1]
        /\ \A k, l \in DOMAIN Tail(q) : k + 1 = l + 1 => k = l
    BY <2>2
  <2> HIDE DEF q
  <2>4. ASSUME crashes' = 0, NEW u \in Task PROVE UseOf(u)'
    <3>1. CASE u # t
      BY <2>1, <2>2, <2>4, <3>1 DEF UseInv
    <3>2. CASE u = t
      <4>1. /\ IsInjective(q)
            /\ \A k \in DOMAIN q : Keeps(mem[t], q[k]) /\ t \notin ToSet(uses[q[k]])
        BY <2>2, <2>4 DEF UseInv, q
      <4>2. IsInjective(Tail(q))
        BY <4>1, <2>3 DEF IsInjective
      <4>3. \A s \in Skill : t \in ToSet(uses[s]) => Keeps(mem[t], s)
        BY <2>2, <2>4 DEF UseInv
      <4> QED BY <2>2, <2>3, <3>2, <4>1, <4>2, <4>3
    <3> QED BY <3>1, <3>2
  <2> QED BY <2>2, <2>4 DEF UseInv, UsedOncePerTask
<1>5. ASSUME NEW t \in Task,
             \/ KeepRecalled(t) \/ MarkUsed(t) \/ Harvest(t) \/ RecordOutcome(t) \/ Settle(t)
      PROVE  UseInv' /\ UsedOncePerTask'
  <2>1. Others(t)
    BY <1>5, OthersKept
  <2>2. crashes' = crashes /\ uses' = uses
    BY <1>5 DEF KeepRecalled, MarkUsed, Harvest, RecordOutcome, Settle, history
  <2>3. at'[t] # "using"
    BY <1>5 DEF KeepRecalled, MarkUsed, Harvest, RecordOutcome, Settle, Goto, At,
       TypeInv, TypeOK
  <2>4. CASE KeepRecalled(t) \/ MarkUsed(t) \/ Settle(t)
    <3>1. mem'[t].approved = mem[t].approved
      <4>1. CASE KeepRecalled(t) \/ Settle(t)
        BY <4>1 DEF KeepRecalled, Settle, Persist, TypeInv, MemoryInv
      <4>2. CASE MarkUsed(t)
        <5>1. PICK h : mem'[t] = [mem[t] EXCEPT !.matches = h]
          BY <4>2 DEF MarkUsed, Persist, TypeInv, MemoryInv
        <5>2. mem[t] = [approved |-> mem[t].approved, copy |-> mem[t].copy,
                        matches |-> mem[t].matches]
          BY DEF TypeInv, MemoryInv, MemoryOK
        <5> QED BY <5>1, <5>2, MatchesReplaced
      <4> QED BY <2>4, <4>1, <4>2
    <3> QED BY <2>1, <2>2, <2>3, <3>1, UseFrame DEF Keeps
  <2>5. CASE RecordOutcome(t)
    <3> DEFINE s == Head(todo[t])
               after == Judged(UsageIn(row[s].usage), t, verdict[t])
    <3>1. mem'[t].approved = mem[t].approved
      <4>1. CASE row[s] = Absent
        BY <2>5, <4>1 DEF RecordOutcome
      <4>2. CASE row[s] # Absent
        <5>1. mem'[t] = Copied(mem[t], s, after)
          BY <2>5, <4>2 DEF RecordOutcome, TypeInv, MemoryInv
        <5>2. todo[t] # <<>> /\ todo[t] \in Seq(Skill) /\ verdict[t] \in BOOLEAN
          BY <2>5 DEF RecordOutcome, TypeInv, TypeOK
        <5>3. s \in Skill
          BY <5>2
        <5>4. after \in Usage
          BY <4>2, <5>2, <5>3, RowKinds, UsageInTypes, JudgedTypes DEF TypeInv, TypeOK
        <5> QED BY <5>1, <5>4, CopiedOK DEF TypeInv, MemoryInv
      <4> QED BY <4>1, <4>2
    <3> QED BY <2>1, <2>2, <2>3, <3>1, UseFrame DEF Keeps
  <2>6. CASE Harvest(t)
    <3>1. PICK new \in {<<Harvested[t]>>, <<>>} : Persist(t, HarvestedMemory(mem[t], new))
      BY <2>6 DEF Harvest
    <3>2. Harvested[t] \in Skill /\ MemoryOK(mem[t])
      BY DEF Skill, TypeInv, MemoryInv
    <3>3. new \in Seq(Skill)
      <4>1. \A s \in Skill : <<s>> \in Seq(Skill)
        OBVIOUS
      <4>2. <<>> \in Seq(Skill)
        OBVIOUS
      <4> QED BY <3>2, <4>1, <4>2
    <3>4. mem'[t] = HarvestedMemory(mem[t], new)
      BY <3>1 DEF Persist, TypeInv, MemoryInv
    <3>5. \A s \in Skill : Keeps(mem[t], s) => Keeps(mem'[t], s)
      <4> DEFINE m == mem[t]
                 h == HarvestedMemory(m, new)
      <4>1. \A i \in DOMAIN m.approved :
              i \in DOMAIN h.approved /\ h.approved[i] = m.approved[i]
        BY <3>2, <3>3, HarvestKeeps
      <4> HIDE DEF h
      <4>2. \A s \in Skill : Keeps(m, s) => Keeps(h, s)
        BY <4>1 DEF Keeps
      <4> QED BY <3>4, <4>2 DEF h
    <3> QED BY <2>1, <2>2, <2>3, <3>5, UseFrame
  <2> QED BY <1>5, <2>4, <2>5, <2>6
<1>6. ASSUME NEW t \in Task,
             \/ HarvestNothing(t) \/ Snapshot(t) \/ Upsert(t) \/ SaveFails(t) \/ EndNode(t)
             \/ Conclude(t) \/ RecordOutcomeFails(t)
      PROVE  UseInv' /\ UsedOncePerTask'
  <2>1. Others(t)
    BY <1>6, OthersKept
  <2>2. crashes' = crashes /\ uses' = uses /\ mem' = mem
    BY <1>6 DEF HarvestNothing, Snapshot, Upsert, SaveFails, EndNode, Conclude,
       RecordOutcomeFails, history
  <2>3. at'[t] # "using"
    BY <1>6 DEF HarvestNothing, Snapshot, Upsert, SaveFails, EndNode, Conclude,
       RecordOutcomeFails, Goto, TypeInv, TypeOK
  <2> QED BY <2>1, <2>2, <2>3, UseFrame
<1>7. ASSUME NEW t \in Task, Crash(t) PROVE UseInv' /\ UsedOncePerTask'
  <2>1. crashes' # 0
    BY <1>7 DEF Crash, TypeInv, HistoryInv
  <2> QED BY <2>1 DEF UseInv, UsedOncePerTask
<1> QED BY <1>1, <1>2, <1>3, <1>4, <1>5, <1>6, <1>7 DEF Next, Finished

\* A skill's use counts once for a task until something is restarted: whatever
\* the task recalls again, it has kept.
THEOREM UsesCountOnce == Spec => []UsedOncePerTask
<1> DEFINE IInv == TypeInv /\ UseInv /\ UsedOncePerTask
<1>1. Init => IInv
  <2> SUFFICES ASSUME Init PROVE IInv
    OBVIOUS
  <2>1. TypeInv
    BY TypeInit, SkillParameters
  <2>2. DOMAIN <<>> = {} /\ ToSet(<<>>) = {}
    BY DEF ToSet
  <2>3. UseInv
    BY <2>2 DEF Init, UseInv
  <2>4. UsedOncePerTask
    BY <2>2 DEF Init, UsedOncePerTask, IsInjective
  <2> QED BY <2>1, <2>3, <2>4
<1>2. IInv /\ [Next]_vars => IInv'
  BY TypeStep, UseStep, SkillParameters
<1>3. IInv => UsedOncePerTask
  OBVIOUS
<1> QED BY <1>1, <1>2, <1>3, PTL DEF Spec

-----------------------------------------------------------------------------
(* Outcomes *)

\* An outcome is told by a task that has concluded, of a skill it has used, and
\* is its verdict; what it still has to judge it has not judged.
JudgeInv ==
  crashes = 0 /\ faults = 0 =>
    \A t \in Task :
      /\ \A s \in Skill : \A i \in DOMAIN told[s] :
           told[s][i][1] = t => /\ at[t] \in {"judging", "done"}
                                /\ told[s][i][2] = verdict[t]
                                /\ s \in UsedInCodegen(mem[t])
      /\ at[t] = "judging" =>
           /\ IsInjective(todo[t])
           /\ \A k \in DOMAIN todo[t] :
                /\ todo[t][k] \in UsedInCodegen(mem[t])
                /\ \A i \in DOMAIN told[todo[t][k]] : told[todo[t][k]][i][1] # t

\* A task judges a skill once.
ToldOnce ==
  crashes = 0 /\ faults = 0 =>
    \A s \in Skill : \A i, j \in DOMAIN told[s] :
      told[s][i][1] = told[s][j][1] => i = j

\* A step of a task that has not concluded, and does not do so.
LEMMA JudgeFrame ==
  ASSUME TypeInv, JudgeInv, ToldOnce, NEW t \in Task,
         \A u \in Task : u # t =>
           /\ mem'[u] = mem[u] /\ at'[u] = at[u] /\ todo'[u] = todo[u]
           /\ verdict'[u] = verdict[u],
         crashes' = crashes, faults' \in Nat, faults <= faults', told' = told,
         at[t] \notin {"judging", "done"}, at'[t] # "judging"
  PROVE  JudgeInv' /\ ToldOnce'
<1>1. faults' = 0 => faults = 0
  BY DEF TypeInv, HistoryInv
<1>2. ToldOnce'
  BY <1>1 DEF ToldOnce
<1>3. ASSUME crashes' = 0, faults' = 0, NEW u \in Task
      PROVE  /\ \A s \in Skill : \A i \in DOMAIN told'[s] :
                  told'[s][i][1] = u => /\ at'[u] \in {"judging", "done"}
                                        /\ told'[s][i][2] = verdict'[u]
                                        /\ s \in UsedInCodegen(mem'[u])
             /\ at'[u] = "judging" =>
                  /\ IsInjective(todo'[u])
                  /\ \A k \in DOMAIN todo'[u] :
                       /\ todo'[u][k] \in UsedInCodegen(mem'[u])
                       /\ \A i \in DOMAIN told'[todo'[u][k]] : told'[todo'[u][k]][i][1] # u
  <2>1. CASE u = t
    BY <1>1, <1>3, <2>1 DEF JudgeInv
  <2>2. CASE u # t
    BY <1>1, <1>3, <2>2 DEF JudgeInv
  <2> QED BY <2>1, <2>2
<1>4. JudgeInv'
  BY <1>3 DEF JudgeInv, UsedInCodegen
<1> QED BY <1>2, <1>4

LEMMA JudgeStep ==
  ASSUME SkillParameters, TypeInv, JudgeInv, ToldOnce, [Next]_vars
  PROVE  JudgeInv' /\ ToldOnce'
<1> DEFINE JudgeOf(u) ==
      /\ \A s \in Skill : \A i \in DOMAIN told[s] :
           told[s][i][1] = u => /\ at[u] \in {"judging", "done"}
                                /\ told[s][i][2] = verdict[u]
                                /\ s \in UsedInCodegen(mem[u])
      /\ at[u] = "judging" =>
           /\ IsInjective(todo[u])
           /\ \A k \in DOMAIN todo[u] :
                /\ todo[u][k] \in UsedInCodegen(mem[u])
                /\ \A i \in DOMAIN told[todo[u][k]] : told[todo[u][k]][i][1] # u
    Others(t) == \A u \in Task : u # t =>
                   /\ mem'[u] = mem[u] /\ at'[u] = at[u] /\ todo'[u] = todo[u]
                   /\ verdict'[u] = verdict[u]
<1>1. CASE UNCHANGED vars
  BY <1>1 DEF vars, flow, history, JudgeInv, ToldOnce, UsedInCodegen
<1>2. ASSUME NEW t \in Task,
             \/ Recall(t) \/ RecordUsage(t) \/ RecordUsageFails(t) \/ KeepRecalled(t)
             \/ MarkUsed(t) \/ HarvestNothing(t) \/ Harvest(t) \/ Snapshot(t) \/ Upsert(t)
             \/ SaveFails(t) \/ EndNode(t)
      PROVE  JudgeInv' /\ ToldOnce'
  <2>1. Others(t)
    BY <1>2, OthersKept
  <2>2. crashes' = crashes /\ told' = told
    BY <1>2 DEF Recall, RecordUsage, RecordUsageFails, KeepRecalled, MarkUsed,
       HarvestNothing, Harvest, Snapshot, Upsert, SaveFails, EndNode, history
  <2>3. faults' \in Nat /\ faults <= faults'
    <3>1. faults \in Nat
      BY DEF TypeInv, HistoryInv
    <3>2. faults' = faults \/ faults' = faults + 1
      <4>1. CASE Recall(t) \/ RecordUsage(t) \/ RecordUsageFails(t) \/ KeepRecalled(t)
        BY <4>1 DEF Recall, RecordUsage, RecordUsageFails, KeepRecalled, Persist, Fault
      <4>2. CASE \/ MarkUsed(t) \/ HarvestNothing(t) \/ Harvest(t) \/ Snapshot(t)
                 \/ Upsert(t) \/ SaveFails(t) \/ EndNode(t)
        BY <4>2 DEF MarkUsed, HarvestNothing, Harvest, Snapshot, Upsert, SaveFails,
           EndNode, Persist, Fault
      <4> QED BY <1>2, <4>1, <4>2
    <3> QED BY <3>1, <3>2
  <2>4. at[t] \notin {"judging", "done"} /\ at'[t] # "judging"
    BY <1>2 DEF Recall, RecordUsage, RecordUsageFails, KeepRecalled, MarkUsed,
       HarvestNothing, Harvest, Snapshot, Upsert, SaveFails, EndNode, At, Goto,
       TypeInv, TypeOK
  <2> QED BY <2>1, <2>2, <2>3, <2>4, JudgeFrame
<1>3. ASSUME NEW t \in Task, Conclude(t) PROVE JudgeInv' /\ ToldOnce'
  <2>1. Others(t)
    BY <1>3, OthersKept
  <2>2. /\ at[t] = "between"
        /\ UNCHANGED <<mem, told, crashes, faults>>
    BY <1>3 DEF Conclude, At, history
  <2> DEFINE used == UsedInCodegen(mem[t])
             list == SetToSeq(used)
  <2>3. \/ at'[t] = "done"
        \/ at'[t] = "judging" /\ todo'[t] = list
    BY <1>3 DEF Conclude, Goto, TypeInv, TypeOK
  <2>4. used \in SUBSET Skill
    BY DEF UsedInCodegen, TypeInv, MemoryInv, MemoryOK
  <2> HIDE DEF used
  <2>5. list \in Seq(Skill) /\ IsInjective(list) /\ \A k \in DOMAIN list : list[k] \in used
    BY <2>4, ListedOnce
  <2> HIDE DEF list
  <2>6. ASSUME crashes' = 0, faults' = 0, NEW u \in Task PROVE JudgeOf(u)'
    <3>1. CASE u = t
      <4>1. \A s \in Skill : \A i \in DOMAIN told[s] : told[s][i][1] # t
        BY <2>2, <2>6 DEF JudgeInv
      <4>2. \A k \in DOMAIN list : list[k] \in Skill
        BY <2>5
      <4>3. UsedInCodegen(mem[t])' = used
        BY <2>2 DEF UsedInCodegen, used
      <4> QED BY <2>2, <2>3, <2>5, <3>1, <4>1, <4>2, <4>3
    <3>2. CASE u # t
      <4>1. UsedInCodegen(mem[u])' = UsedInCodegen(mem[u])
        BY <2>2 DEF UsedInCodegen
      <4>2. /\ at'[u] = at[u] /\ todo'[u] = todo[u] /\ verdict'[u] = verdict[u]
            /\ told' = told /\ crashes = 0 /\ faults = 0
        BY <2>1, <2>2, <2>6, <3>2
      <4>3. JudgeOf(u)
        BY <4>2 DEF JudgeInv
      <4> QED BY <4>1, <4>2, <4>3
    <3> QED BY <3>1, <3>2
  <2> QED BY <2>2, <2>6 DEF JudgeInv, ToldOnce
<1>4. ASSUME NEW t \in Task, RecordOutcome(t) PROVE JudgeInv' /\ ToldOnce'
  <2>1. Others(t)
    BY <1>4, OthersKept
  <2> DEFINE q == todo[t]
             s == Head(q)
             after == Judged(UsageIn(row[s].usage), t, verdict[t])
             e == <<t, verdict[t]>>
  <2>2. /\ at[t] = "judging" /\ q # <<>> /\ q \in Seq(Skill) /\ verdict[t] \in BOOLEAN
        /\ UNCHANGED <<at, verdict, crashes, faults>> /\ todo'[t] = Tail(q)
    BY <1>4 DEF RecordOutcome, At, TypeInv, TypeOK
  <2>3. /\ s = q[1] /\ 1 \in DOMAIN q /\ s \in Skill
        /\ \A k \in DOMAIN Tail(q) : k + 1 \in DOMAIN q /\ Tail(q)[k] = q[k + 1] /\ k + 1 # 1
        /\ \A k, l \in DOMAIN Tail(q) : k + 1 = l + 1 => k = l
    BY <2>2
  <2>4. /\ \A r \in Skill : told[r] \in Seq(Task \X BOOLEAN)
        /\ \A r \in Skill : r # s => told'[r] = told[r]
        /\ told'[s] = told[s] \/ told'[s] = Append(told[s], e)
    <3>1. told' = told \/ told' = [told EXCEPT ![s] = Append(@, e)]
      BY <1>4 DEF RecordOutcome
    <3> HIDE DEF s, e
    <3> QED BY <2>3, <3>1 DEF TypeInv, HistoryInv
  <2>5. mem'[t].matches = mem[t].matches
    <3>1. CASE row[s] = Absent
      BY <1>4, <3>1 DEF RecordOutcome
    <3>2. CASE row[s] # Absent
      <4>1. mem'[t] = Copied(mem[t], s, after)
        BY <1>4, <3>2 DEF RecordOutcome, TypeInv, MemoryInv
      <4>2. after \in Usage
        BY <2>2, <2>3, <3>2, RowKinds, UsageInTypes, JudgedTypes DEF TypeInv, TypeOK
      <4> QED BY <4>1, <4>2, CopiedOK DEF TypeInv, MemoryInv
    <3> QED BY <3>1, <3>2
  <2>6. UsedInCodegen(mem'[t]) = UsedInCodegen(mem[t])
    BY <2>5 DEF UsedInCodegen
  <2>7. e \in Task \X BOOLEAN /\ e[1] = t /\ e[2] = verdict[t]
    BY <2>2
  <2> HIDE DEF s, q, e
  <2>8. ASSUME NEW r \in Skill, NEW i \in DOMAIN told'[r]
        PROVE  \/ i \in DOMAIN told[r] /\ told'[r][i] = told[r][i]
               \/ r = s /\ i = Len(told[r]) + 1 /\ told'[r][i] = e
    <3>1. CASE told'[r] = told[r]
      BY <3>1
    <3>2. CASE r = s /\ told'[r] = Append(told[r], e)
      <4>1. told[r] \in Seq(Task \X BOOLEAN)
        BY <2>4
      <4> QED BY <3>2, <4>1, <2>8
    <3> QED BY <2>4, <3>1, <3>2
  <2>9. ASSUME crashes = 0, faults = 0
        PROVE  /\ s \in UsedInCodegen(mem[t]) /\ IsInjective(q)
               /\ \A i \in DOMAIN told[s] : told[s][i][1] # t
    BY <2>9, <2>2, <2>3 DEF JudgeInv, q
  <2>10. ASSUME crashes' = 0, faults' = 0, NEW u \in Task PROVE JudgeOf(u)'
    <3>1. ASSUME NEW r \in Skill, NEW i \in DOMAIN told'[r], told'[r][i][1] = u
          PROVE  /\ at'[u] \in {"judging", "done"} /\ told'[r][i][2] = verdict'[u]
                 /\ r \in UsedInCodegen(mem'[u])
      <4>1. UsedInCodegen(mem'[u]) = UsedInCodegen(mem[u])
        BY <2>1, <2>6
      <4>2. CASE i \in DOMAIN told[r] /\ told'[r][i] = told[r][i]
        BY <2>2, <2>10, <3>1, <4>1, <4>2 DEF JudgeInv
      <4>3. CASE r = s /\ told'[r][i] = e
        BY <2>2, <2>7, <2>9, <2>10, <3>1, <4>1, <4>3
      <4> QED BY <2>8, <4>2, <4>3
    <3>2. ASSUME at'[u] = "judging"
          PROVE  /\ IsInjective(todo'[u])
                 /\ \A k \in DOMAIN todo'[u] :
                      /\ todo'[u][k] \in UsedInCodegen(mem'[u])
                      /\ \A i \in DOMAIN told'[todo'[u][k]] : told'[todo'[u][k]][i][1] # u
      <4>1. CASE u # t
        <5>1. /\ IsInjective(todo[u]) /\ todo[u] \in Seq(Skill)
              /\ \A k \in DOMAIN todo[u] :
                   /\ todo[u][k] \in UsedInCodegen(mem[u])
                   /\ \A i \in DOMAIN told[todo[u][k]] : told[todo[u][k]][i][1] # u
          BY <2>2, <2>10, <3>2 DEF JudgeInv, TypeInv, TypeOK
        <5>2. todo'[u] = todo[u] /\ mem'[u] = mem[u]
          BY <2>1, <4>1
        <5>3. ASSUME NEW k \in DOMAIN todo[u], NEW i \in DOMAIN told'[todo[u][k]]
              PROVE  told'[todo[u][k]][i][1] # u
          <6>1. todo[u][k] \in Skill
            BY <5>1
          <6> QED BY <2>7, <2>8, <4>1, <5>1, <6>1
        <5> QED BY <5>1, <5>2, <5>3
      <4>2. CASE u = t
        <5>1. IsInjective(Tail(q))
          BY <2>2, <2>3, <2>9, <2>10 DEF IsInjective
        <5>2. ASSUME NEW k \in DOMAIN Tail(q)
              PROVE  /\ Tail(q)[k] \in UsedInCodegen(mem'[t])
                     /\ \A i \in DOMAIN told'[Tail(q)[k]] : told'[Tail(q)[k]][i][1] # t
          <6>1. k + 1 \in DOMAIN q /\ Tail(q)[k] = q[k + 1] /\ k + 1 # 1
            BY <2>3
          <6>2. q[k + 1] # s /\ q[k + 1] \in Skill
            BY <6>1, <2>2, <2>3, <2>9, <2>10 DEF IsInjective
          <6>3. /\ q[k + 1] \in UsedInCodegen(mem[t])
                /\ \A i \in DOMAIN told[q[k + 1]] : told[q[k + 1]][i][1] # t
            BY <6>1, <2>2, <2>10 DEF JudgeInv, q
          <6> QED BY <6>1, <6>2, <6>3, <2>4, <2>6
        <5> QED BY <2>2, <4>2, <5>1, <5>2
      <4> QED BY <4>1, <4>2
    <3> QED BY <3>1, <3>2 DEF UsedInCodegen
  <2>11. ToldOnce'
    <3> SUFFICES ASSUME crashes' = 0, faults' = 0, NEW r \in Skill,
                        NEW i \in DOMAIN told'[r], NEW j \in DOMAIN told'[r],
                        told'[r][i][1] = told'[r][j][1]
                 PROVE  i = j
      BY DEF ToldOnce
    <3>0. crashes = 0 /\ faults = 0
      BY <2>2
    <3>1. CASE /\ i \in DOMAIN told[r] /\ told'[r][i] = told[r][i]
               /\ j \in DOMAIN told[r] /\ told'[r][j] = told[r][j]
      BY <3>0, <3>1 DEF ToldOnce
    <3>2. CASE r = s /\ told'[r][i] = e /\ told'[r][j] # e
      BY <2>7, <2>8, <2>9, <3>0, <3>2
    <3>3. CASE r = s /\ told'[r][j] = e /\ told'[r][i] # e
      BY <2>7, <2>8, <2>9, <3>0, <3>3
    <3>4. CASE r = s /\ told'[r][i] = e /\ told'[r][j] = e
      <4>1. i = Len(told[r]) + 1
        BY <2>7, <2>8, <2>9, <3>0, <3>4
      <4>2. j = Len(told[r]) + 1
        BY <2>7, <2>8, <2>9, <3>0, <3>4
      <4> QED BY <4>1, <4>2
    <3> QED BY <2>8, <3>1, <3>2, <3>3, <3>4
  <2>12. JudgeInv'
    BY <2>10 DEF JudgeInv, UsedInCodegen
  <2> QED BY <2>11, <2>12
<1>5. ASSUME NEW t \in Task, Settle(t) PROVE JudgeInv' /\ ToldOnce'
  <2>1. Others(t)
    BY <1>5, OthersKept
  <2>2. /\ mem'[t] = mem[t] /\ at[t] = "judging" /\ at'[t] = "done" /\ verdict' = verdict
        /\ told' = told /\ crashes' = crashes /\ (faults' = 0 => faults = 0)
    BY <1>5 DEF Settle, At, Goto, Persist, Fault, TypeInv, TypeOK, MemoryInv, HistoryInv,
       history
  <2>3. ASSUME crashes' = 0, faults' = 0, NEW u \in Task PROVE JudgeOf(u)'
    <3>1. /\ mem'[u] = mem[u] /\ verdict'[u] = verdict[u] /\ told' = told
          /\ crashes = 0 /\ faults = 0
      BY <2>1, <2>2, <2>3
    <3>2. UsedInCodegen(mem[u])' = UsedInCodegen(mem[u])
      BY <3>1 DEF UsedInCodegen
    <3>3. JudgeOf(u)
      BY <3>1 DEF JudgeInv
    <3>4. CASE u = t
      BY <2>2, <3>1, <3>2, <3>3, <3>4
    <3>5. CASE u # t
      <4>1. at'[u] = at[u] /\ todo'[u] = todo[u]
        BY <2>1, <3>5
      <4> QED BY <3>1, <3>2, <3>3, <4>1
    <3> QED BY <3>4, <3>5
  <2>4. JudgeInv'
    BY <2>3 DEF JudgeInv
  <2> QED BY <2>2, <2>4 DEF ToldOnce
<1>6. ASSUME NEW t \in Task, RecordOutcomeFails(t) \/ Crash(t)
      PROVE  JudgeInv' /\ ToldOnce'
  <2>1. crashes' # 0 \/ faults' # 0
    BY <1>6 DEF RecordOutcomeFails, Crash, Fault, TypeInv, HistoryInv
  <2> QED BY <2>1 DEF JudgeInv, ToldOnce
<1> QED BY <1>1, <1>2, <1>3, <1>4, <1>5, <1>6 DEF Next, Finished

\* Without restarts and failures each skill that a task used in its code is
\* judged at most once by it, with the verdict of the task.
THEOREM OutcomesToldOnce == Spec => []JudgedOncePerTask
<1> DEFINE IInv == TypeInv /\ JudgeInv /\ ToldOnce
<1>1. Init => IInv
  <2> SUFFICES ASSUME Init PROVE IInv
    OBVIOUS
  <2>1. TypeInv
    BY TypeInit, SkillParameters
  <2>2. DOMAIN <<>> = {}
    OBVIOUS
  <2>3. JudgeInv
    BY <2>2 DEF Init, JudgeInv
  <2>4. ToldOnce
    BY <2>2 DEF Init, ToldOnce
  <2> QED BY <2>1, <2>3, <2>4
<1>2. IInv /\ [Next]_vars => IInv'
  BY TypeStep, JudgeStep, SkillParameters
<1>3. IInv => JudgedOncePerTask
  <2> SUFFICES ASSUME IInv, crashes = 0, faults = 0, NEW s \in Skill, NEW i \in DOMAIN told[s]
               PROVE  LET t == told[s][i][1]
                      IN  /\ \A j \in DOMAIN told[s] : told[s][j][1] = t => j = i
                          /\ told[s][i][2] = verdict[t] /\ mem[t].matches[s].used
    BY DEF JudgedOncePerTask
  <2> DEFINE t == told[s][i][1]
  <2>1. t \in Task
    <3>1. told[s] \in Seq(Task \X BOOLEAN)
      BY DEF TypeInv, HistoryInv
    <3>2. told[s][i] \in Task \X BOOLEAN
      BY <3>1
    <3> QED BY <3>2
  <2>2. told[s][i][2] = verdict[t] /\ s \in UsedInCodegen(mem[t])
    BY <2>1 DEF JudgeInv
  <2> QED BY <2>2 DEF ToldOnce, UsedInCodegen
<1>4. QED BY <1>1, <1>2, <1>3, PTL DEF Spec
=============================================================================
