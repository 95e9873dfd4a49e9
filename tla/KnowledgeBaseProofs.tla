------------------------ MODULE KnowledgeBaseProofs ------------------------
(***************************************************************************)
(* Theorems about KnowledgeBase, for any tasks, documents, queries, files  *)
(* and numbers of troubles.                                                *)
(*                                                                         *)
(* The lists of the node are computed by recursive functions over          *)
(* sequences (Picked, Total, Sorted, Chunked); the first part proves what  *)
(* they return by induction over the length.  Then TypeInv (types),        *)
(* SourceInv (what is on its way to Qdrant or the graph has its rows),     *)
(* MarkInv (the memory is never behind the row, and what is still to do    *)
(* is not parsed), FreshInv (no row is stored twice) and AnswerInv (what a *)
(* task has recorded as parsed can be found, and is carried to the answer),*)
(* one step lemma per action.                                              *)
(***************************************************************************)
EXTENDS KnowledgeBase, FiniteSetTheorems, WellFoundedInduction, TLAPS

-----------------------------------------------------------------------------
(* Induction over the natural numbers, for sets, and the recursive functions  *)
(* over sequences.                                                            *)

LEMMA LessIs ==
  \A x, y \in Nat : <<x, y>> \in OpToRel(<, Nat) <=> x < y
BY DEF OpToRel

\* A set that holds 0 and the successors of its members holds every number.
LEMMA SetInduction ==
  ASSUME NEW S, 0 \in S, \A n \in S : n \in Nat => n + 1 \in S
  PROVE  Nat \subseteq S
<1> DEFINE T == Nat \ S
<1> SUFFICES ASSUME T # {} PROVE FALSE
  OBVIOUS
<1>1. PICK x \in T : \A y \in T : ~ (<<y, x>> \in OpToRel(<, Nat))
  <2>1. T \subseteq Nat
    OBVIOUS
  <2> QED BY <2>1, NatLessThanWellFounded, WFMin
<1>2. x # 0
  OBVIOUS
<1>3. x - 1 \in Nat /\ x - 1 < x
  BY <1>2
<1>4. x - 1 \in S
  BY <1>1, <1>3, LessIs
<1>5. (x - 1) + 1 = x
  OBVIOUS
<1>6. x \in S
  BY <1>3, <1>4, <1>5
<1> QED BY <1>6

Unfolds(g, X, n, b, step) ==
  /\ g \in [0 .. n -> X] /\ g[0] = b
  /\ \A i \in 1 .. n : g[i] = step[<<g[i - 1], i>>]

\* A function over 0 .. n with a given first value and a given step exists.
LEMMA Recursion ==
  ASSUME NEW n \in Nat, NEW X, NEW b \in X, NEW step \in [X \X (1 .. n) -> X]
  PROVE  \E g : Unfolds(g, X, n, b, step)
<1> DEFINE Fits(g, k) == /\ g \in [0 .. k -> X] /\ g[0] = b
                         /\ \A i \in 1 .. k : g[i] = step[<<g[i - 1], i>>]
           K == {k \in Nat : k <= n => \E g : Fits(g, k)}
<1>1. 0 \in K
  <2>1. Fits([i \in 0 .. 0 |-> b], 0)
    OBVIOUS
  <2> QED BY <2>1
<1>2. ASSUME NEW k \in K PROVE k + 1 \in K
  <2> SUFFICES ASSUME k + 1 <= n PROVE \E g : Fits(g, k + 1)
    OBVIOUS
  <2>1. PICK g : Fits(g, k)
    OBVIOUS
  <2> DEFINE h == [i \in 0 .. (k + 1) |-> IF i = k + 1 THEN step[<<g[k], k + 1>>] ELSE g[i]]
  <2>2. g[k] \in X /\ k + 1 \in 1 .. n
    BY <2>1
  <2>3. step[<<g[k], k + 1>>] \in X
    BY <2>2
  <2>4. h \in [0 .. (k + 1) -> X]
    BY <2>1, <2>3
  <2>5. h[0] = b
    BY <2>1
  <2>6. ASSUME NEW i \in 1 .. (k + 1) PROVE h[i] = step[<<h[i - 1], i>>]
    <3>1. CASE i = k + 1
      <4>1. i - 1 = k /\ k \in 0 .. (k + 1) /\ k # k + 1
        BY <3>1
      <4>2. h[i - 1] = g[k] /\ h[i] = step[<<g[k], k + 1>>]
        BY <3>1, <4>1
      <4> QED BY <3>1, <4>2
    <3>2. CASE i \in 1 .. k
      BY <3>2, <2>1
    <3> QED BY <3>1, <3>2
  <2> QED BY <2>4, <2>5, <2>6
<1> HIDE DEF Fits
<1>3. Nat \subseteq K
  BY <1>1, <1>2, SetInduction
<1>4. PICK g : Fits(g, n)
  BY <1>3
<1> QED BY <1>4 DEF Fits, Unfolds

\* Picked is a subsequence: its elements are elements of seq at the positions
\* I, and as distinct as those of seq.
LEMMA PickedPicks ==
  ASSUME NEW S, NEW seq \in Seq(S), NEW I
  PROVE  /\ Picked(seq, I) \in Seq(S)
         /\ \A k \in DOMAIN Picked(seq, I) :
              \E i \in DOMAIN seq : i \in I /\ Picked(seq, I)[k] = seq[i]
         /\ \A i \in DOMAIN seq : i \in I =>
              \E k \in DOMAIN Picked(seq, I) : Picked(seq, I)[k] = seq[i]
         /\ IsInjective(seq) => IsInjective(Picked(seq, I))
<1> DEFINE L == Len(seq)
           body(f) == [n \in 0 .. L |->
                         IF n = 0 THEN <<>>
                         ELSE IF n \in I THEN Append(f[n - 1], seq[n]) ELSE f[n - 1]]
           p == CHOOSE f : f = body(f)
<1>1. Picked(seq, I) = p[L]
  BY DEF Picked
<1>2. L \in Nat /\ DOMAIN seq = 1 .. L
  OBVIOUS
<1>3. p = body(p)
  <2> DEFINE step == [a \in Seq(S) \X (1 .. L) |->
                        IF a[2] \in I THEN Append(a[1], seq[a[2]]) ELSE a[1]]
  <2>1. step \in [Seq(S) \X (1 .. L) -> Seq(S)]
    OBVIOUS
  <2>2. <<>> \in Seq(S)
    OBVIOUS
  <2> HIDE DEF step, L
  <2>3. PICK g : Unfolds(g, Seq(S), L, <<>>, step)
    BY <1>2, <2>1, <2>2, Recursion
  <2>4. ASSUME NEW i \in 1 .. L
        PROVE  g[i] = IF i \in I THEN Append(g[i - 1], seq[i]) ELSE g[i - 1]
    <3>1. i - 1 \in 0 .. L
      BY <1>2
    <3>2. g[i - 1] \in Seq(S)
      BY <2>3, <3>1 DEF Unfolds
    <3> QED BY <2>3, <3>2 DEF step, Unfolds
  <2>5. g = [n \in 0 .. L |-> g[n]]
    BY <2>3 DEF Unfolds
  <2>6. \A n \in 0 .. L : n # 0 => n \in 1 .. L
    BY <1>2
  <2>7. g = body(g)
    BY <2>3, <2>4, <2>5, <2>6 DEF Unfolds
  <2> QED BY <2>7
<1> HIDE DEF p, L
<1>4. p[0] = <<>>
  BY <1>2, <1>3
<1>5. ASSUME NEW n \in 1 .. L
      PROVE  p[n] = IF n \in I THEN Append(p[n - 1], seq[n]) ELSE p[n - 1]
  <2>1. n \in 0 .. L /\ n # 0
    BY <1>2
  <2>2. body(p)[n] = IF n \in I THEN Append(p[n - 1], seq[n]) ELSE p[n - 1]
    BY <2>1
  <2> QED BY <1>3, <2>2
<1> DEFINE Good(n) == /\ p[n] \in Seq(S)
                      /\ \A k \in DOMAIN p[n] : \E i \in 1 .. n : i \in I /\ p[n][k] = seq[i]
                      /\ \A i \in 1 .. n : i \in I => \E k \in DOMAIN p[n] : p[n][k] = seq[i]
                      /\ IsInjective(seq) => IsInjective(p[n])
           K == {n \in Nat : n <= L => Good(n)}
<1>6. 0 \in K
  <2>1. p[0] \in Seq(S) /\ DOMAIN p[0] = {}
    BY <1>4
  <2> QED BY <2>1 DEF IsInjective
<1>7. ASSUME NEW n \in K PROVE n + 1 \in K
  <2> SUFFICES ASSUME n + 1 <= L PROVE Good(n + 1)
    OBVIOUS
  <2>1. Good(n) /\ n + 1 \in 1 .. L /\ (n + 1) - 1 = n
    BY <1>2
  <2>2. CASE n + 1 \notin I
    <3>1. p[n + 1] = p[n]
      BY <2>1, <2>2, <1>5
    <3>2. \A i \in 1 .. (n + 1) : i \in I => i \in 1 .. n
      BY <2>1, <2>2
    <3> QED BY <2>1, <3>1, <3>2
  <2>3. CASE n + 1 \in I
    <3>1. p[n + 1] = Append(p[n], seq[n + 1])
      BY <2>1, <2>3, <1>5
    <3> DEFINE q == p[n]
               x == seq[n + 1]
    <3>2. q \in Seq(S) /\ x \in S /\ p[n + 1] = Append(q, x)
      BY <2>1, <1>2, <3>1
    <3>3. /\ p[n + 1] \in Seq(S) /\ DOMAIN p[n + 1] = 1 .. (Len(q) + 1)
          /\ p[n + 1][Len(q) + 1] = x
          /\ \A k \in 1 .. Len(q) : p[n + 1][k] = q[k]
          /\ DOMAIN q = 1 .. Len(q) /\ Len(q) \in Nat
      <4> HIDE DEF q, x
      <4> QED BY <3>2
    <3>4. \A k \in DOMAIN q : \E i \in 1 .. n : i \in I /\ q[k] = seq[i]
      BY <2>1
    <3> HIDE DEF q, x
    <3>5. ASSUME NEW k \in DOMAIN p[n + 1]
          PROVE  \E i \in 1 .. (n + 1) : i \in I /\ p[n + 1][k] = seq[i]
      <4>1. CASE k = Len(q) + 1
        BY <4>1, <3>3, <2>1, <2>3 DEF x
      <4>2. CASE k \in 1 .. Len(q)
        BY <4>2, <3>3, <3>4
      <4> QED BY <4>1, <4>2, <3>3
    <3>6. ASSUME IsInjective(seq) PROVE IsInjective(p[n + 1])
      <4>1. IsInjective(q)
        BY <3>6, <2>1 DEF q
      <4>2. \A k \in DOMAIN q : q[k] # x
        <5> SUFFICES ASSUME NEW k \in DOMAIN q, q[k] = x PROVE FALSE
          OBVIOUS
        <5>1. PICK i \in 1 .. n : i \in I /\ q[k] = seq[i]
          BY <3>4
        <5>2. i \in DOMAIN seq /\ n + 1 \in DOMAIN seq /\ i # n + 1
          BY <2>1, <1>2
        <5> QED BY <5>1, <5>2, <3>6 DEF x, IsInjective
      <4> QED BY <4>1, <4>2, <3>3 DEF IsInjective
    <3>7. ASSUME NEW i \in 1 .. (n + 1), i \in I
          PROVE  \E k \in DOMAIN p[n + 1] : p[n + 1][k] = seq[i]
      <4>1. CASE i = n + 1
        <5>1. Len(q) + 1 \in DOMAIN p[n + 1]
          BY <3>3
        <5> QED BY <4>1, <5>1, <3>3 DEF x
      <4>2. CASE i \in 1 .. n
        <5>1. PICK k \in DOMAIN q : q[k] = seq[i]
          BY <4>2, <3>7, <2>1 DEF q
        <5>2. k \in DOMAIN p[n + 1] /\ p[n + 1][k] = q[k]
          BY <3>3
        <5> QED BY <5>1, <5>2
      <4> QED BY <4>1, <4>2, <2>1
    <3> QED BY <3>3, <3>5, <3>6, <3>7
  <2> QED BY <2>2, <2>3
<1> HIDE DEF Good
<1>8. Nat \subseteq K
  BY <1>6, <1>7, SetInduction
<1>9. Good(L)
  BY <1>2, <1>8
<1> QED BY <1>1, <1>2, <1>9 DEF Good

\* A set of numbers that is not empty has a least one.
LEMMA LeastOf ==
  ASSUME NEW S \in SUBSET Nat, S # {}
  PROVE  \E x \in S : \A y \in S : x <= y
<1>1. PICK x \in S : \A y \in S : ~ (<<y, x>> \in OpToRel(<, Nat))
  BY NatLessThanWellFounded, WFMin
<1>2. \A y \in S : ~ (y < x)
  BY <1>1, LessIs
<1> QED BY <1>2

LEMMA CutCuts ==
  ASSUME NEW seq \in Seq(ChunkIds), NEW n \in Nat
  PROVE  /\ Cut(n)[seq] \in Seq(ChunkIds) /\ Len(Cut(n)[seq]) <= n
         /\ Cut(n)[seq] = seq \/ Len(Cut(n)[seq]) = n
         /\ \A i \in DOMAIN Cut(n)[seq] : i \in DOMAIN seq /\ Cut(n)[seq][i] = seq[i]
<1> DEFINE c == SubSeq(seq, 1, IF Len(seq) < n THEN Len(seq) ELSE n)
<1>1. Cut(n)[seq] = c
  BY DEF Cut
<1>2. /\ c \in Seq(ChunkIds) /\ Len(c) <= n
      /\ c = seq \/ Len(c) = n
      /\ \A i \in DOMAIN c : i \in DOMAIN seq /\ c[i] = seq[i]
  OBVIOUS
<1> QED BY <1>1, <1>2

\* A list has as many different elements as places if it is injective, else fewer.
LEMMA CountedLists ==
  ASSUME NEW S, NEW seq \in Seq(S)
  PROVE  /\ IsFiniteSet(ToSet(seq)) /\ Cardinality(ToSet(seq)) \in Nat
         /\ Cardinality(ToSet(seq)) <= Len(seq)
         /\ Cardinality(ToSet(seq)) = Len(seq) <=> IsInjective(seq)
<1> DEFINE L == Len(seq)
           T == ToSet(seq)
<1>1. L \in Nat /\ DOMAIN seq = 1 .. L /\ seq = [i \in 1 .. L |-> seq[i]]
  OBVIOUS
<1> HIDE DEF L
<1>2. IsFiniteSet(1 .. L) /\ Cardinality(1 .. L) = L
  <2>1. 1 \in Int /\ L \in Int
    BY <1>1
  <2>2. IsFiniteSet(1 .. L) /\ Cardinality(1 .. L) = IF 1 > L THEN 0 ELSE L - 1 + 1
    BY <2>1, FS_Interval
  <2> QED BY <1>1, <2>2
<1>3. seq \in Surjection(1 .. L, T)
  BY <1>1 DEF Surjection, ToSet
<1> HIDE DEF T
<1>4. /\ IsFiniteSet(T) /\ Cardinality(T) <= L
      /\ Cardinality(T) = L <=> seq \in Injection(1 .. L, T)
  BY <1>2, <1>3, FS_Surjection
<1>5. seq \in Injection(1 .. L, T) <=> IsInjective(seq)
  BY <1>1, <1>3 DEF Injection, Surjection, IsInjective
<1>6. Cardinality(T) \in Nat
  BY <1>4, FS_CardinalityType
<1> QED BY <1>4, <1>5, <1>6 DEF T, L

LEMMA TotalIsNat ==
  ASSUME NEW items, NEW S, items \in Seq(S), \A s \in S : s.size \in Nat
  PROVE  Total(items) \in Nat
<1> DEFINE L == Len(items)
           body(f) == [n \in 0 .. L |-> IF n = 0 THEN 0 ELSE f[n - 1] + items[n].size]
           p == CHOOSE f : f = body(f)
<1>1. Total(items) = p[L]
  BY DEF Total
<1>2. L \in Nat /\ \A n \in 1 .. L : items[n].size \in Nat
  OBVIOUS
<1>3. p = body(p)
  <2> DEFINE step == [a \in Nat \X (1 .. L) |-> a[1] + items[a[2]].size]
  <2>1. step \in [Nat \X (1 .. L) -> Nat]
    BY <1>2
  <2> HIDE DEF step, L
  <2>2. PICK g : Unfolds(g, Nat, L, 0, step)
    BY <1>2, <2>1, Recursion
  <2>3. ASSUME NEW i \in 1 .. L PROVE g[i] = g[i - 1] + items[i].size
    <3>1. i - 1 \in 0 .. L
      BY <1>2
    <3>2. g[i - 1] \in Nat
      BY <2>2, <3>1 DEF Unfolds
    <3> QED BY <2>2, <3>2 DEF step, Unfolds
  <2>4. g = [n \in 0 .. L |-> g[n]]
    BY <2>2 DEF Unfolds
  <2>5. \A n \in 0 .. L : n # 0 => n \in 1 .. L
    BY <1>2
  <2>6. g = body(g)
    BY <2>2, <2>3, <2>4, <2>5 DEF Unfolds
  <2> QED BY <2>6
<1> HIDE DEF p, L
<1>4. p[0] = 0
  BY <1>2, <1>3
<1>5. ASSUME NEW n \in 1 .. L PROVE p[n] = p[n - 1] + items[n].size
  <2>1. n \in 0 .. L /\ n # 0
    BY <1>2
  <2>2. body(p)[n] = p[n - 1] + items[n].size
    BY <2>1
  <2> QED BY <1>3, <2>2
<1> DEFINE K == {n \in Nat : n <= L => p[n] \in Nat}
<1>6. 0 \in K
  BY <1>4
<1>7. ASSUME NEW n \in K PROVE n + 1 \in K
  <2> SUFFICES ASSUME n + 1 <= L PROVE p[n + 1] \in Nat
    OBVIOUS
  <2>1. n + 1 \in 1 .. L /\ (n + 1) - 1 = n /\ p[n] \in Nat
    BY <1>2
  <2>2. p[n + 1] = p[n] + items[n + 1].size
    BY <2>1, <1>5
  <2>3. items[n + 1].size \in Nat
    BY <2>1, <1>2
  <2> HIDE DEF K
  <2> QED BY <2>1, <2>2, <2>3
<1>8. Nat \subseteq K
  BY <1>6, <1>7, SetInduction
<1> QED BY <1>1, <1>2, <1>8

LEMMA InsertInserts ==
  ASSUME NEW S, NEW list \in Seq(S), NEW G \in SUBSET DOMAIN list, NEW e \in S
  PROVE  /\ InsertAt(list, Cardinality(G) + 1, e) \in Seq(S)
         /\ Len(InsertAt(list, Cardinality(G) + 1, e)) = Len(list) + 1
         /\ ToSet(InsertAt(list, Cardinality(G) + 1, e)) = ToSet(list) \union {e}
<1> DEFINE c == Cardinality(G)
           L == Len(list)
           a == SubSeq(list, 1, c)
           b == SubSeq(list, c + 1, L)
           r == InsertAt(list, c + 1, e)
<1>1. DOMAIN list = 1 .. L /\ L \in Nat
  OBVIOUS
<1>2. c \in 0 .. L
  <2>1. IsFiniteSet(1 .. L) /\ Cardinality(1 .. L) = L
    <3>1. 0 \in Int /\ 1 \in Int /\ L \in Int /\ L \in Nat
      BY <1>1
    <3>2. IsFiniteSet(1 .. L) /\ Cardinality(1 .. L) = IF 1 > L THEN 0 ELSE L - 1 + 1
      <4> HIDE DEF L
      <4> QED BY <3>1, FS_Interval
    <3> QED BY <3>1, <3>2
  <2>2. IsFiniteSet(G) /\ Cardinality(G) <= L
    BY <2>1, <1>1, FS_Subset
  <2> QED BY <2>2, <1>1, FS_CardinalityType
<1>3. r = a \o <<e>> \o b
  <2>1. (c + 1) - 1 = c
    BY <1>2
  <2> QED BY <2>1 DEF InsertAt
<1> HIDE DEF c, r, L
<1>4. /\ a \in Seq(S) /\ Len(a) = c /\ \A i \in 1 .. c : a[i] = list[i]
  BY <1>1, <1>2
<1>5. /\ b \in Seq(S) /\ Len(b) = L - c /\ \A i \in 1 .. (L - c) : b[i] = list[c + i]
  BY <1>1, <1>2
<1> HIDE DEF a, b
<1>6. /\ r \in Seq(S) /\ Len(r) = L + 1
      /\ \A i \in 1 .. c : r[i] = list[i]
      /\ r[c + 1] = e
      /\ \A i \in (c + 2) .. (L + 1) : r[i] = list[i - 1]
  <2>1. r \in Seq(S) /\ Len(r) = L + 1
    BY <1>1, <1>2, <1>3, <1>4, <1>5
  <2>2. \A i \in 1 .. c : r[i] = a[i]
    BY <1>1, <1>2, <1>3, <1>4, <1>5
  <2>3. r[c + 1] = e
    <3>1. a \o <<e>> \in Seq(S) /\ Len(a \o <<e>>) = c + 1 /\ (a \o <<e>>)[c + 1] = e
      BY <1>1, <1>2, <1>4
    <3> QED BY <3>1, <1>1, <1>2, <1>3, <1>5
  <2>4. \A i \in (c + 2) .. (L + 1) : r[i] = b[i - (c + 1)]
    BY <1>1, <1>2, <1>3, <1>4, <1>5
  <2>5. \A i \in (c + 2) .. (L + 1) : r[i] = list[i - 1]
    <3> SUFFICES ASSUME NEW i \in (c + 2) .. (L + 1) PROVE r[i] = list[i - 1]
      OBVIOUS
    <3>1. i - (c + 1) \in 1 .. (L - c) /\ c + (i - (c + 1)) = i - 1
      BY <1>1, <1>2
    <3> QED BY <3>1, <2>4, <1>5
  <2> QED BY <2>1, <2>2, <2>3, <2>5, <1>4
<1>7. ToSet(r) \subseteq ToSet(list) \union {e}
  <2> SUFFICES ASSUME NEW i \in 1 .. (L + 1) PROVE r[i] \in ToSet(list) \union {e}
    BY <1>6 DEF ToSet
  <2>1. i \in 1 .. c \/ i = c + 1 \/ i \in (c + 2) .. (L + 1)
    BY <1>1, <1>2
  <2>2. \A j \in 1 .. L : list[j] \in ToSet(list)
    BY <1>1 DEF ToSet
  <2>3. i \in 1 .. c => i \in 1 .. L
    BY <1>1, <1>2
  <2>4. i \in (c + 2) .. (L + 1) => i - 1 \in 1 .. L
    BY <1>1, <1>2
  <2> QED BY <2>1, <2>2, <2>3, <2>4, <1>6
<1>8. ToSet(list) \union {e} \subseteq ToSet(r)
  <2>1. \A j \in 1 .. (L + 1) : r[j] \in ToSet(r)
    BY <1>6, <1>1 DEF ToSet
  <2>2. c + 1 \in 1 .. (L + 1)
    BY <1>1, <1>2
  <2>3. ASSUME NEW j \in 1 .. L PROVE list[j] \in ToSet(r)
    <3>1. CASE j <= c
      <4>1. j \in 1 .. c /\ j \in 1 .. (L + 1)
        BY <3>1, <1>1, <1>2
      <4> QED BY <4>1, <2>1, <1>6
    <3>2. CASE ~ (j <= c)
      <4>1. j + 1 \in (c + 2) .. (L + 1) /\ j + 1 \in 1 .. (L + 1) /\ (j + 1) - 1 = j
        BY <3>2, <1>1, <1>2
      <4> QED BY <4>1, <2>1, <1>6
    <3> QED BY <3>1, <3>2
  <2> QED BY <2>1, <2>2, <2>3, <1>1, <1>6 DEF ToSet
<1> QED BY <1>6, <1>7, <1>8 DEF r, c, L

\* A sorted list has the chunks of the list, and as many.
LEMMA SortedSorts ==
  ASSUME NEW key, NEW chunks \in Seq(ChunkIds)
  PROVE  /\ Sorted(key)[chunks] \in Seq(ChunkIds)
         /\ Len(Sorted(key)[chunks]) = Len(chunks)
         /\ ToSet(Sorted(key)[chunks]) = ToSet(chunks)
<1> DEFINE L == Len(chunks)
           Lists == Seq(ChunkIds)
           greater(list, n) == {k \in DOMAIN list : key[list[k]] > key[chunks[n]]}
           placed(list, n) == InsertAt(list, Cardinality(greater(list, n)) + 1, chunks[n])
           body(f) == [n \in 0 .. L |->
                         [list \in Lists |-> IF n = 0 THEN list ELSE f[n - 1][placed(list, n)]]]
           p == CHOOSE f : f = body(f)
<1>1. Sorted(key)[chunks] = p[L][<<>>]
  BY DEF Sorted
<1>2. L \in Nat /\ DOMAIN chunks = 1 .. L /\ \A n \in 1 .. L : chunks[n] \in ChunkIds
  OBVIOUS
<1>20. <<>> \in Lists /\ Len(<<>>) = 0 /\ ToSet(<<>>) = {}
  BY DEF ToSet
<1>3. ASSUME NEW n \in 1 .. L, NEW list \in Lists
      PROVE  /\ placed(list, n) \in Lists /\ Len(placed(list, n)) = Len(list) + 1
             /\ ToSet(placed(list, n)) = ToSet(list) \union {chunks[n]}
  <2>1. greater(list, n) \in SUBSET DOMAIN list
    OBVIOUS
  <2>2. chunks[n] \in ChunkIds
    BY <1>2
  <2> HIDE DEF greater
  <2> QED BY <2>1, <2>2, InsertInserts
<1> HIDE DEF placed, greater, L, Lists
<1>4. p = body(p)
  <2> DEFINE X == [Lists -> Lists]
             first == [list \in Lists |-> list]
             step == [a \in X \X (1 .. L) |-> [list \in Lists |-> a[1][placed(list, a[2])]]]
  <2>1. first \in X
    OBVIOUS
  <2>2. step \in [X \X (1 .. L) -> X]
    <3> SUFFICES ASSUME NEW a \in X \X (1 .. L), NEW list \in Lists
                 PROVE  a[1][placed(list, a[2])] \in Lists
      OBVIOUS
    <3>1. placed(list, a[2]) \in Lists
      BY <1>3
    <3> QED BY <3>1
  <2>3. PICK g : Unfolds(g, X, L, first, step)
    <3> HIDE DEF X, first, step
    <3> QED BY <1>2, <2>1, <2>2, Recursion
  <2>4. ASSUME NEW i \in 1 .. L
        PROVE  g[i] = [list \in Lists |-> g[i - 1][placed(list, i)]]
    <3>1. i - 1 \in 0 .. L
      BY <1>2
    <3>2. g[i - 1] \in X
      <4> HIDE DEF X, step, first
      <4> QED BY <2>3, <3>1 DEF Unfolds
    <3>3. g[i] = step[<<g[i - 1], i>>]
      BY <2>3 DEF Unfolds
    <3> QED BY <3>2, <3>3
  <2>5. g[0] = first /\ g = [n \in 0 .. L |-> g[n]]
    <3> HIDE DEF X, step, first
    <3> QED BY <2>3 DEF Unfolds
  <2>6. \A n \in 0 .. L : n # 0 => n \in 1 .. L
    BY <1>2
  <2>7. ASSUME NEW n \in 0 .. L
        PROVE  g[n] = [list \in Lists |-> IF n = 0 THEN list ELSE g[n - 1][placed(list, n)]]
    <3>1. CASE n = 0
      BY <3>1, <2>5
    <3>2. CASE n # 0
      BY <3>2, <2>4, <2>6
    <3> QED BY <3>1, <3>2
  <2>8. g = body(g)
    BY <2>5, <2>7
  <2> QED BY <2>8
<1> HIDE DEF p
<1>5. ASSUME NEW list \in Lists PROVE p[0][list] = list
  <2>1. 0 \in 0 .. L
    BY <1>2
  <2>2. body(p)[0][list] = list
    BY <2>1
  <2> QED BY <2>2, <1>4
<1>6. ASSUME NEW n \in 1 .. L, NEW list \in Lists PROVE p[n][list] = p[n - 1][placed(list, n)]
  <2>1. n \in 0 .. L /\ n # 0
    BY <1>2
  <2>2. body(p)[n][list] = p[n - 1][placed(list, n)]
    BY <2>1
  <2> QED BY <1>4, <2>2
<1> DEFINE Good(n, list) ==
             /\ p[n][list] \in Lists /\ Len(p[n][list]) = Len(list) + n
             /\ ToSet(p[n][list]) = ToSet(list) \union {chunks[i] : i \in 1 .. n}
           K == {n \in Nat : n <= L => \A list \in Lists : Good(n, list)}
<1>7. 0 \in K
  <2> SUFFICES ASSUME NEW list \in Lists PROVE Good(0, list)
    OBVIOUS
  <2>1. Len(list) \in Nat
    BY DEF Lists
  <2> QED BY <2>1, <1>5
<1>8. ASSUME NEW n \in K PROVE n + 1 \in K
  <2> SUFFICES ASSUME n + 1 <= L PROVE \A list \in Lists : Good(n + 1, list)
    <3> HIDE DEF Good
    <3> QED BY <1>2
  <2> TAKE list \in Lists
  <2> DEFINE next == placed(list, n + 1)
  <2>1. n + 1 \in 1 .. L /\ (n + 1) - 1 = n /\ n <= L /\ n \in Nat
    BY <1>2
  <2>2. /\ next \in Lists /\ Len(next) = Len(list) + 1
        /\ ToSet(next) = ToSet(list) \union {chunks[n + 1]}
    BY <2>1, <1>3
  <2>3. p[n + 1][list] = p[n][next]
    BY <2>1, <1>6
  <2>4. Good(n, next)
    <3> HIDE DEF Good, next
    <3> QED BY <2>1, <2>2
  <2> HIDE DEF next
  <2>5. Len(list) \in Nat
    BY DEF Lists
  <2>6. {chunks[i] : i \in 1 .. (n + 1)} = {chunks[i] : i \in 1 .. n} \union {chunks[n + 1]}
    <3>1. 1 .. (n + 1) = (1 .. n) \union {n + 1}
      BY <2>1
    <3> QED BY <3>1
  <2>7. Len(p[n][next]) = Len(list) + (n + 1)
    BY <2>1, <2>2, <2>4, <2>5
  <2>8. ToSet(p[n][next]) = ToSet(list) \union {chunks[i] : i \in 1 .. (n + 1)}
    BY <2>2, <2>4, <2>6
  <2> QED BY <2>3, <2>4, <2>7, <2>8
<1> HIDE DEF Good
<1>9. Nat \subseteq K
  BY <1>7, <1>8, SetInduction
<1>10. Good(L, <<>>)
  BY <1>2, <1>20, <1>9
<1>11. ToSet(chunks) = {chunks[i] : i \in 1 .. L}
  BY <1>2 DEF ToSet
<1>12. 0 + L = L
  BY <1>2
<1> QED BY <1>1, <1>10, <1>11, <1>12, <1>20 DEF Good, Lists, L

-----------------------------------------------------------------------------
(* The answers of the query engine *)

LEMMA DistinctKeeps ==
  ASSUME NEW seq \in Seq(ChunkIds)
  PROVE  Distinct[seq] \in Seq(ChunkIds) /\ ToSet(Distinct[seq]) = ToSet(seq)
<1> DEFINE I == {i \in DOMAIN seq : \A j \in 1 .. i - 1 : seq[j] # seq[i]}
           r == Picked(seq, I)
<1>1. Distinct[seq] = r
  BY DEF Distinct
<1>2. DOMAIN seq = 1 .. Len(seq) /\ Len(seq) \in Nat
  OBVIOUS
<1>3. /\ r \in Seq(ChunkIds)
      /\ \A k \in DOMAIN r : \E i \in DOMAIN seq : i \in I /\ r[k] = seq[i]
      /\ \A i \in DOMAIN seq : i \in I => \E k \in DOMAIN r : r[k] = seq[i]
  <2> HIDE DEF I
  <2>1. Picked(seq, I) \in Seq(ChunkIds)
    BY PickedPicks
  <2>2. \A k \in DOMAIN Picked(seq, I) :
          \E i \in DOMAIN seq : i \in I /\ Picked(seq, I)[k] = seq[i]
    BY PickedPicks
  <2>3. ASSUME NEW i \in DOMAIN seq, i \in I
        PROVE  \E k \in DOMAIN Picked(seq, I) : Picked(seq, I)[k] = seq[i]
    BY <2>3, PickedPicks
  <2> QED BY <2>1, <2>2, <2>3
<1>4. ASSUME NEW i \in DOMAIN seq PROVE \E j \in I : seq[j] = seq[i]
  <2> DEFINE A == {j \in DOMAIN seq : seq[j] = seq[i]}
  <2>1. A \in SUBSET Nat /\ A # {}
    BY <1>2
  <2>2. PICK j \in A : \A k \in A : j <= k
    <3> HIDE DEF A
    <3> QED BY <2>1, LeastOf
  <2>3. \A k \in 1 .. j - 1 : seq[k] # seq[j]
    <3> SUFFICES ASSUME NEW k \in 1 .. j - 1, seq[k] = seq[j] PROVE FALSE
      OBVIOUS
    <3>1. k \in A /\ ~ (j <= k)
      BY <1>2
    <3> QED BY <3>1, <2>2
  <2> QED BY <2>2, <2>3
<1> HIDE DEF r, I
<1>5. ToSet(r) \subseteq ToSet(seq)
  BY <1>3 DEF ToSet
<1>6. ToSet(seq) \subseteq ToSet(r)
  <2> SUFFICES ASSUME NEW i \in DOMAIN seq PROVE seq[i] \in ToSet(r)
    BY DEF ToSet
  <2>1. PICK j \in I : seq[j] = seq[i]
    BY <1>4
  <2>2. j \in DOMAIN seq
    BY DEF I
  <2> QED BY <2>1, <2>2, <1>3 DEF ToSet
<1> QED BY <1>1, <1>3, <1>5, <1>6

LEMMA RankedRanks ==
  ASSUME rows \in Seq(ChunkIds), NEW q, NEW I
  PROVE  /\ Ranked(q, I) \in Seq(ChunkIds)
         /\ ToSet(Ranked(q, I)) = {rows[i] : i \in I \intersect DOMAIN rows}
         /\ IsInjective(rows) => IsInjective(Ranked(q, I))
<1> DEFINE r == Picked(rows, I)
           key == [c \in ChunkIds |-> Relevance[q][c.doc]]
<1>1. Ranked(q, I) = Sorted(key)[r]
  BY DEF Ranked, ByWords
<1>2. /\ r \in Seq(ChunkIds)
      /\ \A k \in DOMAIN r : \E i \in DOMAIN rows : i \in I /\ r[k] = rows[i]
      /\ \A i \in DOMAIN rows : i \in I => \E k \in DOMAIN r : r[k] = rows[i]
      /\ IsInjective(rows) => IsInjective(r)
  BY PickedPicks
<1> HIDE DEF r, key
<1>3. ToSet(r) = {rows[i] : i \in I \intersect DOMAIN rows}
  BY <1>2 DEF ToSet
<1>4. /\ Sorted(key)[r] \in Seq(ChunkIds) /\ Len(Sorted(key)[r]) = Len(r)
      /\ ToSet(Sorted(key)[r]) = ToSet(r)
  BY <1>2, SortedSorts
<1>5. IsInjective(r) => IsInjective(Sorted(key)[r])
  BY <1>2, <1>4, CountedLists
<1> QED BY <1>1, <1>2, <1>3, <1>4, <1>5

\* The text search finds every row that matches among the newest, or has so many
\* hits that they fill an answer.
LEMMA TextHitsAre ==
  ASSUME KnowledgeParameters, rows \in Seq(ChunkIds), IsInjective(rows), NEW q
  PROVE  \/ Cardinality(ToSet(TextHits(q))) >= TopK
         \/ \A i \in DOMAIN rows : i <= Window /\ Relevance[q][rows[i].doc] > 0
              => rows[i] \in ToSet(TextHits(q))
<1> DEFINE I == {i \in DOMAIN rows : i <= Window /\ Relevance[q][rows[i].doc] > 0}
           list == Ranked(q, I)
<1>1. TextHits(q) = Cut(TextLimit)[list]
  BY DEF TextHits
<1>2. TextLimit \in Nat /\ TopK \in Nat /\ TopK <= TextLimit
  BY DEF KnowledgeParameters
<1>3. /\ list \in Seq(ChunkIds) /\ IsInjective(list)
      /\ ToSet(list) = {rows[i] : i \in I \intersect DOMAIN rows}
  <2> HIDE DEF I
  <2> QED BY RankedRanks
<1>4. \A i \in I : rows[i] \in ToSet(list)
  BY <1>3
<1> HIDE DEF list
<1> DEFINE hit == Cut(TextLimit)[list]
<1>5. /\ hit \in Seq(ChunkIds)
      /\ hit = list \/ Len(hit) = TextLimit
      /\ \A i \in DOMAIN hit : i \in DOMAIN list /\ hit[i] = list[i]
  BY <1>2, <1>3, CutCuts
<1> HIDE DEF hit
<1>6. CASE hit = list
  BY <1>1, <1>4, <1>6 DEF hit
<1>7. CASE Len(hit) = TextLimit
  <2>1. IsInjective(hit)
    BY <1>3, <1>5 DEF IsInjective
  <2>2. hit \in Seq(ChunkIds)
    BY <1>5
  <2>3. Cardinality(ToSet(hit)) = Len(hit)
    BY <2>1, <2>2, CountedLists
  <2> QED BY <1>1, <1>2, <1>7, <2>3 DEF hit
<1> QED BY <1>5, <1>6, <1>7

LEMMA FactHitsTypes ==
  ASSUME KnowledgeParameters, facts \in [Fact -> ChunkIds \union {None}], NEW q
  PROVE  FactHits(q) \in Seq(ChunkIds)
<1> DEFINE match == {f \in Fact : /\ facts[f] # None
                                  /\ \E d \in Doc : FactOf[d] = f /\ Relevance[q][d] > 0}
           T == {facts[f] : f \in match}
           n == Cardinality(T)
<1>1. FactHits(q) = SetToSeq(T)
  BY DEF FactHits
<1>2. T \subseteq ChunkIds
  OBVIOUS
<1>3. IsFiniteSet(match)
  <2>1. match \in SUBSET Fact
    OBVIOUS
  <2> HIDE DEF match
  <2> QED BY <2>1, FS_Subset DEF KnowledgeParameters
<1>4. IsFiniteSet(T)
  <2> DEFINE g == [f \in match |-> facts[f]]
  <2>1. g \in Surjection(match, T)
    BY DEF Surjection
  <2> HIDE DEF g, match, T
  <2> QED BY <2>1, <1>3, FS_Surjection
<1> HIDE DEF T
<1>5. n \in Nat /\ ExistsBijection(1 .. n, T)
  BY <1>4, FS_CardinalityType
<1>6. \E f \in [1 .. n -> T] : IsInjective(f)
  BY <1>5 DEF ExistsBijection, Bijection, Injection, IsInjective
<1>7. SetToSeq(T) \in [1 .. n -> T]
  BY <1>6 DEF SetToSeq
<1> HIDE DEF n
<1>8. SetToSeq(T) \in Seq(T)
  BY <1>5, <1>7
<1> QED BY <1>1, <1>2, <1>8

LEMMA FusedFuses ==
  ASSUME KnowledgeParameters, NEW lists, NEW l1 \in Seq(ChunkIds), NEW l2 \in Seq(ChunkIds),
         NEW l3 \in Seq(ChunkIds), lists = <<l1, l2, l3>>
  PROVE  /\ Fused(lists) \in Seq(ChunkIds)
         /\ ToSet(l1) \subseteq ToSet(Fused(lists)) \/ Len(Fused(lists)) = 2 * TopK
<1> DEFINE share(l, c) == IF Contains(l, c)
                     THEN 100000 \div (60 + CHOOSE k \in DOMAIN l : l[k] = c) ELSE 0
           weight == [c \in ChunkIds |->
                   share(lists[1], c) + share(lists[2], c) + share(lists[3], c)]
           all == l1 \o l2 \o l3
           r == Sorted(weight)[Distinct[all]]
<1>1. Fused(lists) = Cut(2 * TopK)[r]
  BY DEF Fused
<1>2. all \in Seq(ChunkIds) /\ ToSet(l1) \subseteq ToSet(all)
  <2>1. l1 \o l2 \in Seq(ChunkIds) /\ all \in Seq(ChunkIds)
    OBVIOUS
  <2>2. \A i \in DOMAIN l1 : i \in DOMAIN all /\ all[i] = l1[i]
    OBVIOUS
  <2> QED BY <2>1, <2>2 DEF ToSet
<1> HIDE DEF weight, all
<1>3. Distinct[all] \in Seq(ChunkIds) /\ ToSet(Distinct[all]) = ToSet(all)
  BY <1>2, DistinctKeeps
<1>4. r \in Seq(ChunkIds) /\ ToSet(r) = ToSet(all)
  BY <1>3, SortedSorts
<1>5. 2 * TopK \in Nat
  BY DEF KnowledgeParameters
<1> HIDE DEF r
<1>6. /\ Cut(2 * TopK)[r] \in Seq(ChunkIds)
      /\ Cut(2 * TopK)[r] = r \/ Len(Cut(2 * TopK)[r]) = 2 * TopK
  BY <1>4, <1>5, CutCuts
<1> QED BY <1>1, <1>2, <1>4, <1>6

\* An answer is full, or has everything that was found.
LEMMA KeptKeeps ==
  ASSUME KnowledgeParameters, NEW lists, NEW l1 \in Seq(ChunkIds), NEW l2 \in Seq(ChunkIds),
         NEW l3 \in Seq(ChunkIds), lists = <<l1, l2, l3>>, NEW q
  PROVE  /\ Kept(q, Fused(lists)) \in Seq(ChunkIds) /\ Len(Kept(q, Fused(lists))) <= TopK
         /\ \/ Len(Kept(q, Fused(lists))) = TopK
            \/ ToSet(l1) \subseteq ToSet(Kept(q, Fused(lists)))
<1> DEFINE fused == Fused(lists)
           key == [c \in ChunkIds |-> Relevance[q][c.doc]]
           r == Sorted(key)[fused]
<1>1. Kept(q, fused) = Cut(TopK)[r]
  BY DEF Kept, ByWords
<1>2. /\ fused \in Seq(ChunkIds)
      /\ ToSet(l1) \subseteq ToSet(fused) \/ Len(fused) = 2 * TopK
  BY FusedFuses
<1> HIDE DEF fused, key
<1>3. r \in Seq(ChunkIds) /\ Len(r) = Len(fused) /\ ToSet(r) = ToSet(fused)
  BY <1>2, SortedSorts
<1>4. TopK \in Nat /\ TopK # 0
  BY DEF KnowledgeParameters
<1> HIDE DEF r
<1>5. /\ Cut(TopK)[r] \in Seq(ChunkIds) /\ Len(Cut(TopK)[r]) <= TopK
      /\ Cut(TopK)[r] = r \/ Len(Cut(TopK)[r]) = TopK
  BY <1>3, <1>4, CutCuts
<1>6. CASE Len(Cut(TopK)[r]) = TopK
  BY <1>6, <1>5, <1>1 DEF fused
<1>7. CASE Cut(TopK)[r] = r
  <2>1. Len(fused) # 2 * TopK
    BY <1>7, <1>3, <1>4, <1>5
  <2> QED BY <2>1, <1>7, <1>1, <1>2, <1>3, <1>5 DEF fused
<1> QED BY <1>5, <1>6, <1>7

-----------------------------------------------------------------------------
(* The pieces of a document *)

PieceSet == [type : {"leaf", "parent"}, size : Int]
ItemSet == [label : Labels, level : Nat, size : Nat]
Kinds == {"document_title", "section_header", "synthetic_root", "fallback_fulltext", ""}
SectionSet == [level : Nat, kind : Kinds, size : Nat]

LEMMA DivIsNat ==
  ASSUME NEW a \in Nat, NEW c \in Nat, c > 0
  PROVE  a \div c \in Nat
OBVIOUS

LEMMA ListTypes ==
  ASSUME NEW S, NEW n \in Nat, NEW f, f = [i \in 1 .. n |-> f[i]],
         \A i \in 1 .. n : f[i] \in S
  PROVE  f \in Seq(S)
OBVIOUS

LEMMA SplitTypes ==
  ASSUME KnowledgeParameters, NEW size \in Nat
  PROVE  Split(size) \in Seq(PieceSet)
<1> DEFINE n == (size + ChunkSize - 1) \div ChunkSize
           part(i) == Piece("leaf", IF i < n THEN ChunkSize ELSE size - (n - 1) * ChunkSize)
<1>1. ChunkSize \in Nat /\ ChunkSize > 0
  BY DEF KnowledgeParameters
<1>2. n \in Nat
  <2>1. size + ChunkSize - 1 \in Nat
    BY <1>1
  <2> QED BY <1>1, <2>1, DivIsNat
<1>3. Split(size) = [i \in 1 .. n |-> part(i)]
  BY DEF Split
<1> HIDE DEF n
<1>4. ASSUME NEW i \in 1 .. n PROVE part(i) \in PieceSet
  <2>1. (n - 1) * ChunkSize \in Int
    BY <1>1, <1>2
  <2>2. (IF i < n THEN ChunkSize ELSE size - (n - 1) * ChunkSize) \in Int
    BY <1>1, <2>1
  <2> QED BY <2>2 DEF Piece, PieceSet
<1> HIDE DEF part
<1>5. Split(size) = [i \in 1 .. n |-> Split(size)[i]] /\ \A i \in 1 .. n : Split(size)[i] \in PieceSet
  BY <1>3, <1>4
<1> QED BY <1>2, <1>5, ListTypes

LEMMA PieceTypes ==
  \A size \in Int : Piece("leaf", size) \in PieceSet /\ Piece("parent", size) \in PieceSet
BY DEF Piece, PieceSet

\* The pieces of one section.
CutOf(secs, sec) == IF sec.size = 0 THEN <<>>
                    ELSE IF Layered(secs) THEN Layout(sec) ELSE ParentChild(sec)

LEMMA CutTypes ==
  ASSUME KnowledgeParameters, NEW secs, NEW sec, sec.size \in Nat
  PROVE  CutOf(secs, sec) \in Seq(PieceSet)
<1>1. <<>> \in Seq(PieceSet)
  OBVIOUS
<1>2. Split(sec.size) \in Seq(PieceSet)
  BY SplitTypes
<1>3. Layout(sec) \in Seq(PieceSet)
  <2>1. <<Piece("leaf", sec.size)>> \in Seq(PieceSet)
    BY PieceTypes
  <2> QED BY <2>1, <1>2 DEF Layout
<1>4. ParentChild(sec) \in Seq(PieceSet)
  <2> DEFINE size == IF sec.size < ChunkSize THEN sec.size ELSE ChunkSize
             tail == IF sec.size > ChunkSize THEN Split(sec.size) ELSE <<>>
  <2>1. size \in Int
    BY DEF KnowledgeParameters
  <2>2. tail \in Seq(PieceSet)
    BY <1>1, <1>2
  <2>3. ParentChild(sec) = <<Piece("parent", size)>> \o tail
    BY DEF ParentChild
  <2> HIDE DEF size, tail
  <2>4. <<Piece("parent", size)>> \in Seq(PieceSet)
    BY <2>1, PieceTypes
  <2> QED BY <2>2, <2>3, <2>4
<1> QED BY <1>1, <1>3, <1>4 DEF CutOf

LEMMA ChunkedTypes ==
  ASSUME KnowledgeParameters, NEW secs \in Seq(SectionSet), NEW items \in Seq(ItemSet)
  PROVE  Chunked(secs, items) \in Seq(PieceSet)
<1> DEFINE L == Len(secs)
           X == Seq(PieceSet)
           body(f) == [n \in 0 .. L |->
                         IF n = 0 THEN <<>> ELSE f[n - 1] \o CutOf(secs, secs[n])]
           p == CHOOSE f : f = body(f)
<1>1. Chunked(secs, items) = IF secs = <<>> THEN Split(Total(items)) ELSE p[L]
  BY DEF Chunked, CutOf
<1>2. L \in Nat /\ \A n \in 1 .. L : secs[n] \in SectionSet
  OBVIOUS
<1>20. ASSUME NEW n \in 1 .. L PROVE CutOf(secs, secs[n]) \in X
  <2>1. secs[n].size \in Nat
    BY <1>2 DEF SectionSet
  <2> QED BY <2>1, CutTypes
<1>3. p = body(p)
  <2> DEFINE step == [a \in X \X (1 .. L) |-> a[1] \o CutOf(secs, secs[a[2]])]
  <2>1. step \in [X \X (1 .. L) -> X]
    BY <1>20
  <2>2. <<>> \in X
    OBVIOUS
  <2> HIDE DEF step, L, X
  <2>3. PICK g : Unfolds(g, X, L, <<>>, step)
    BY <1>2, <2>1, <2>2, Recursion
  <2>4. ASSUME NEW i \in 1 .. L PROVE g[i] = g[i - 1] \o CutOf(secs, secs[i])
    <3>1. i - 1 \in 0 .. L
      BY <1>2
    <3>2. g[i - 1] \in X
      BY <2>3, <3>1 DEF Unfolds
    <3> QED BY <2>3, <3>2 DEF step, Unfolds
  <2>5. g = [n \in 0 .. L |-> g[n]]
    BY <2>3 DEF Unfolds
  <2>6. \A n \in 0 .. L : n # 0 => n \in 1 .. L
    BY <1>2
  <2>7. g = body(g)
    BY <2>3, <2>4, <2>5, <2>6 DEF Unfolds
  <2> QED BY <2>7
<1> HIDE DEF p, L
<1>4. p[0] = <<>>
  BY <1>2, <1>3
<1>5. ASSUME NEW n \in 1 .. L PROVE p[n] = p[n - 1] \o CutOf(secs, secs[n])
  <2>1. n \in 0 .. L /\ n # 0
    BY <1>2
  <2>2. body(p)[n] = p[n - 1] \o CutOf(secs, secs[n])
    BY <2>1
  <2> QED BY <1>3, <2>2
<1> DEFINE K == {n \in Nat : n <= L => p[n] \in X}
<1>6. 0 \in K
  <2>1. <<>> \in X
    OBVIOUS
  <2> HIDE DEF X
  <2> QED BY <1>4, <2>1
<1>7. ASSUME NEW n \in K PROVE n + 1 \in K
  <2> SUFFICES ASSUME n + 1 <= L PROVE p[n + 1] \in X
    OBVIOUS
  <2>1. n + 1 \in 1 .. L /\ (n + 1) - 1 = n /\ p[n] \in X
    BY <1>2
  <2>2. p[n + 1] = p[n] \o CutOf(secs, secs[n + 1])
    BY <2>1, <1>5
  <2>3. CutOf(secs, secs[n + 1]) \in X
    BY <2>1, <1>20
  <2> HIDE DEF K
  <2> QED BY <2>1, <2>2, <2>3
<1>8. Nat \subseteq K
  BY <1>6, <1>7, SetInduction
<1>9. Split(Total(items)) \in X
  <2>1. Total(items) \in Nat
    <3>1. \A s \in ItemSet : s.size \in Nat
      BY DEF ItemSet
    <3> QED BY <3>1, TotalIsNat
  <2> QED BY <2>1, SplitTypes
<1> QED BY <1>1, <1>2, <1>8, <1>9

LEMMA SectionsTypes ==
  ASSUME NEW items \in Seq(ItemSet)
  PROVE  SectionsOf(items) \in Seq(SectionSet)
<1> DEFINE some == Picked(items, {i \in DOMAIN items : items[i].size > 0})
           H == {i \in DOMAIN some : some[i].label # "text"}
           places == [i \in DOMAIN some |-> i]
           heads == <<0>> \o Picked(places, H)
           end(k) == IF k = Len(heads) THEN Len(some) ELSE heads[k + 1] - 1
           body(k) == Total(SubSeq(some, heads[k] + 1, end(k)))
           head(k) == IF k = 1 THEN Section(1, "synthetic_root", 0)
                      ELSE HeaderOf(some[heads[k]])
           list == [k \in DOMAIN heads |-> [head(k) EXCEPT !.size = body(k)]]
           B == {k \in DOMAIN heads : body(k) > 0}
           read == Picked(list, B)
<1>1. SectionsOf(items) = IF read = <<>> /\ Total(some) > 0
                          THEN <<Section(1, "fallback_fulltext", Total(some))>> ELSE read
  BY DEF SectionsOf
<1>2. some \in Seq(ItemSet)
  <2> DEFINE I == {i \in DOMAIN items : items[i].size > 0}
  <2> HIDE DEF I
  <2>1. Picked(items, I) \in Seq(ItemSet)
    BY PickedPicks
  <2> QED BY <2>1 DEF I
<1>20. \A s \in ItemSet : s.size \in Nat
  BY DEF ItemSet
<1>3. Total(some) \in Nat
  <2> HIDE DEF some
  <2> QED BY <1>2, <1>20, TotalIsNat
<1> HIDE DEF some
<1> DEFINE N == Len(some)
<1>4. N \in Nat /\ DOMAIN some = 1 .. N /\ \A i \in 1 .. N : some[i] \in ItemSet
  BY <1>2
<1> HIDE DEF N
<1>5. /\ heads \in Seq(0 .. N) /\ DOMAIN heads = 1 .. Len(heads) /\ Len(heads) \in Nat
      /\ Len(heads) >= 1 /\ \A k \in 2 .. Len(heads) : heads[k] \in 1 .. N
  <2>1. places \in Seq(1 .. N)
    BY <1>4
  <2> HIDE DEF places, H
  <2>2. Picked(places, H) \in Seq(1 .. N)
    BY <2>1, PickedPicks
  <2> DEFINE r == Picked(places, H)
  <2>3. r \in Seq(1 .. N)
    BY <2>2
  <2> HIDE DEF r
  <2>4. heads = <<0>> \o r
    BY DEF r
  <2> HIDE DEF heads
  <2>5. r \in Seq(0 .. N) /\ <<0>> \in Seq(0 .. N)
    BY <2>3, <1>4
  <2>6. heads \in Seq(0 .. N) /\ Len(heads) = Len(r) + 1 /\ Len(r) \in Nat
    BY <2>4, <2>5
  <2>7. ASSUME NEW k \in 2 .. Len(heads) PROVE heads[k] \in 1 .. N
    <3>1. k - 1 \in 1 .. Len(r) /\ heads[k] = r[k - 1]
      BY <2>4, <2>5, <2>6
    <3>2. \A S : r \in Seq(S) => \A i \in 1 .. Len(r) : r[i] \in S
      OBVIOUS
    <3>3. r[k - 1] \in 1 .. N
      BY <3>1, <3>2, <2>3
    <3> QED BY <3>1, <3>3
  <2> QED BY <2>6, <2>7
<1> HIDE DEF heads
<1>6. ASSUME NEW k \in DOMAIN heads PROVE body(k) \in Nat
  <2> DEFINE m == heads[k] + 1
             n == end(k)
  <2>1. heads[k] \in 0 .. N
    <3>1. \A S : heads \in Seq(S) => \A i \in 1 .. Len(heads) : heads[i] \in S
      OBVIOUS
    <3> QED BY <3>1, <1>5
  <2>2. n \in Int /\ n <= N
    <3>1. CASE k = Len(heads)
      BY <3>1, <1>4 DEF N
    <3>2. CASE k # Len(heads)
      <4>1. k + 1 \in 2 .. Len(heads)
        BY <3>2, <1>5
      <4>2. heads[k + 1] \in 1 .. N
        BY <4>1, <1>5
      <4> QED BY <3>2, <4>2, <1>4
    <3> QED BY <3>1, <3>2
  <2>3. m \in Int /\ m >= 1
    BY <2>1, <1>4
  <2> HIDE DEF m, n
  <2>4. \A i \in m .. n : some[i] \in ItemSet
    BY <2>2, <2>3, <1>4
  <2>5. SubSeq(some, m, n) \in Seq(ItemSet)
    BY <2>2, <2>3, <2>4
  <2>6. Total(SubSeq(some, m, n)) \in Nat
    BY <2>5, <1>20, TotalIsNat
  <2> QED BY <2>6 DEF m, n
<1>7. ASSUME NEW k \in DOMAIN heads PROVE head(k) \in SectionSet
  <2>1. CASE k = 1
    BY <2>1 DEF Section, SectionSet, Kinds
  <2>2. CASE k # 1
    <3>1. k \in 2 .. Len(heads)
      BY <2>2, <1>5
    <3>2. some[heads[k]] \in ItemSet
      BY <3>1, <1>4, <1>5
    <3>3. HeaderOf(some[heads[k]]) \in SectionSet
      <4>1. ASSUME NEW item \in ItemSet PROVE HeaderOf(item) \in SectionSet
        BY DEF HeaderOf, Section, SectionSet, ItemSet, Kinds
      <4> QED BY <3>2, <4>1
    <3> QED BY <2>2, <3>3
  <2> QED BY <2>1, <2>2
<1> HIDE DEF body, head
<1>8. list \in Seq(SectionSet)
  <2>1. ASSUME NEW k \in DOMAIN heads
        PROVE  [head(k) EXCEPT !.size = body(k)] \in SectionSet
    BY <1>6, <1>7 DEF SectionSet
  <2> QED BY <2>1, <1>5
<1> HIDE DEF list, B
<1>9. read \in Seq(SectionSet)
  BY <1>8, PickedPicks
<1> HIDE DEF read
<1>10. <<Section(1, "fallback_fulltext", Total(some))>> \in Seq(SectionSet)
  BY <1>3 DEF Section, SectionSet, Kinds
<1> QED BY <1>1, <1>9, <1>10

LEMMA ReadingsTypes ==
  ASSUME KnowledgeParameters, NEW d \in Doc, NEW secs \in Readings[d]
  PROVE  secs \in Seq(SectionSet)
<1>1. Items[d] \in Seq(ItemSet)
  BY DEF KnowledgeParameters, ItemSet
<1>2. secs = SectionsOf(Items[d]) \/ secs = AsText(Items[d])
  BY DEF Readings
<1>3. Total(Items[d]) \in Nat
  <2>1. \A s \in ItemSet : s.size \in Nat
    BY DEF ItemSet
  <2> QED BY <2>1, <1>1, TotalIsNat
<1>4. AsText(Items[d]) \in Seq(SectionSet)
  BY <1>3 DEF AsText, Section, SectionSet, Kinds
<1> QED BY <1>1, <1>2, <1>4, SectionsTypes

LEMMA PiecesTypes ==
  ASSUME KnowledgeParameters, NEW d \in Doc, NEW secs \in Readings[d]
  PROVE  Pieces[d][secs] \in Seq(PieceSet)
<1>1. secs \in Seq(SectionSet) /\ Items[d] \in Seq(ItemSet)
  BY ReadingsTypes DEF KnowledgeParameters, ItemSet
<1>2. Pieces[d][secs] = PiecesOf(d, secs)
  BY DEF Pieces
<1>3. <<>> \in Seq(PieceSet)
  OBVIOUS
<1>4. <<Piece("leaf", Total(Items[d]))>> \in Seq(PieceSet)
  <2>1. \A s \in ItemSet : s.size \in Nat
    BY DEF ItemSet
  <2>2. Total(Items[d]) \in Nat
    BY <2>1, <1>1, TotalIsNat
  <2> QED BY <2>2, PieceTypes
<1> DEFINE pieces == Chunked(secs, Items[d])
           I == {i \in DOMAIN pieces : pieces[i].size >= MinChars}
<1>5. pieces \in Seq(PieceSet)
  BY <1>1, ChunkedTypes
<1>6. Picked(pieces, I) \in Seq(PieceSet)
  <2> HIDE DEF I, pieces
  <2> QED BY <1>5, PickedPicks
<1>7. PiecesOf(d, secs) = IF Class(d) = "small"
        THEN IF Total(Items[d]) = 0 THEN <<>> ELSE <<Piece("leaf", Total(Items[d]))>>
        ELSE Picked(pieces, I)
  BY DEF PiecesOf
<1> HIDE DEF pieces, I
<1> QED BY <1>2, <1>3, <1>4, <1>6, <1>7

\* The chunks of an ingestion are chunks of its document, one for each piece.
\* c is a chunk of the n-th ingestion of d.
Ingested(c, d, n) == c.doc = d /\ c.copy = n

LEMMA ChunksTypes ==
  ASSUME KnowledgeParameters, NEW d \in Doc, NEW secs \in Readings[d], NEW n \in Nat
  PROVE  /\ ChunksOf(d, Pieces[d][secs], n) \in Seq(ChunkIds)
         /\ \A c \in ToSet(ChunksOf(d, Pieces[d][secs], n)) : Ingested(c, d, n)
         /\ IsInjective(ChunksOf(d, Pieces[d][secs], n))
         /\ ChunksOf(d, Pieces[d][secs], n) = <<>> => Pieces[d][secs] = <<>>
<1> DEFINE pieces == Pieces[d][secs]
           r == ChunksOf(d, pieces, n)
<1>1. pieces \in Seq(PieceSet)
  BY PiecesTypes
<1> HIDE DEF pieces
<1>2. /\ DOMAIN pieces = 1 .. Len(pieces) /\ Len(pieces) \in Nat
      /\ \A i \in DOMAIN pieces : pieces[i] \in PieceSet
  BY <1>1
<1>3. r = [i \in DOMAIN pieces |-> Chunk(d, pieces, n, i)]
  BY DEF ChunksOf
<1>4. \A i \in DOMAIN pieces :
        /\ Chunk(d, pieces, n, i) \in ChunkIds /\ Chunk(d, pieces, n, i).piece = i
        /\ Ingested(Chunk(d, pieces, n, i), d, n)
  BY <1>2 DEF Chunk, ChunkIds, PieceSet, Ingested
<1>5. r \in Seq(ChunkIds) /\ Len(r) = Len(pieces)
  BY <1>2, <1>3, <1>4
<1>6. \A c \in ToSet(r) : Ingested(c, d, n)
  BY <1>3, <1>4 DEF ToSet
<1>8. IsInjective(r)
  <2>1. DOMAIN r = DOMAIN pieces /\ \A i \in DOMAIN r : r[i].piece = i
    BY <1>3, <1>4
  <2> HIDE DEF r
  <2> QED BY <2>1 DEF IsInjective
<1> HIDE DEF r
<1>7. r = <<>> => pieces = <<>>
  BY <1>1, <1>5
<1> QED BY <1>5, <1>6, <1>7, <1>8 DEF r, pieces

-----------------------------------------------------------------------------
(* The inductive invariants *)

\* Where a task has its memory section: between Enter and its leaving.
Inside == Place \ (Left \union {"start"})

\* A list of at most TopK chunks.
Answers(list) == list \in Seq(ChunkIds) /\ Len(list) <= TopK

StoreTypes ==
  /\ rows \in Seq(ChunkIds) /\ vectors \subseteq ChunkIds
  /\ facts \in [Fact -> ChunkIds \union {None}]
  /\ copies \in [Doc -> Nat]
  /\ \A d \in Doc : parsed[d] = None \/ parsed[d] \in Readings[d]
  /\ \A q \in Query : cache[q] = None \/ Answers(cache[q])
  /\ DOMAIN parsed = Doc /\ parsed = [d \in Doc |-> parsed[d]]
  /\ cache = [q \in Query |-> cache[q]]

SectionTypes ==
  /\ mem = [t \in Task |-> mem[t]] /\ know = [t \in Task |-> know[t]]
  /\ saved = [t \in Task |-> saved[t]] /\ knowSaved = [t \in Task |-> knowSaved[t]]
  /\ \A t \in Task :
       /\ saved[t] \in States(t) /\ mem[t] \in States(t) \union {None}
       /\ know[t] \in States(t) \union {None}
       /\ knowSaved[t] \in States(t) \union {None}
       /\ at[t] \in Inside => mem[t] \in States(t)

FlowTypes ==
  /\ at \in [Task -> Place] /\ todo \in [Task -> Seq(Doc)]
  /\ batch \in [Task -> Seq(ChunkIds)] /\ failed \in [Task -> SUBSET Doc]
  /\ channels \in [Task -> SUBSET Channels] /\ found \in [Task -> Seq(ChunkIds)]
  /\ hits \in [Task -> Seq(ChunkIds)] /\ cached \in [Task -> BOOLEAN]
  /\ round \in [Task -> Nat]
  /\ crashes \in Nat /\ faults \in Nat /\ crashes + faults <= MaxTroubles
  /\ \A t \in Task : /\ ToSet(todo[t]) \subseteq Documents(t)
                     /\ failed[t] \subseteq Documents(t)
                     /\ Len(hits[t]) <= TopK

TypeInv == StoreTypes /\ SectionTypes /\ FlowTypes

\* What is about to be stored in Qdrant is in Postgres; what is about to be
\* cited by a relation is, as long as no call failed.
SourceInv ==
  /\ SourceOfTruth
  /\ \A t \in Task :
       /\ at[t] = "vectors" => ToSet(batch[t]) \subseteq ToSet(rows)
       /\ at[t] = "graph" =>
            /\ Leaves(batch[t]) # {}
            /\ faults = 0 => ToSet(batch[t]) \subseteq ToSet(rows)

\* Where a document is being worked on.
Work == {"next", "rows", "vectors", "graph", "mark"}

\* A task at place, with the states m in memory and s in its row and the documents
\* list to do, of those of D: the memory is never behind the row; what is still to
\* do is not parsed.
Ahead(place, m, s, list, D) ==
  /\ IsInjective(list)
  /\ \A d \in D : s[d] = "parsed" => (m = None /\ place \notin Inside) \/ m[d] = "parsed"
  /\ place \in Work => \A i \in DOMAIN list : m[list[i]] # "parsed"
  /\ place = "know_mark" => \A i \in DOMAIN list : i # 1 => m[list[i]] # "parsed"

MarkInv == \A t \in Task : Ahead(at[t], mem[t], saved[t], todo[t], Documents(t))

\* Every query that d matches can find it: d is given to it as it is, or R has a
\* chunk of it.
Has(R, d) ==
  \A q \in Query : Relevance[q][d] > 0 => Class(d) = "small" \/ \E c \in R : c.doc = d

\* The hits of q have d, or need not have it.
Covers(list, q, d) ==
  Relevance[q][d] > 0 => Class(d) = "small" \/ \E c \in ToSet(list) : c.doc = d

Late == {"recall", "recall_more", "keep", "keep_know", "answered"}

\* What a task at p has recorded as parsed, and all it searches, can be found in
\* the rows R.
Recorded(R, p, m, s, D) ==
  \A d \in D : /\ m[d] = "parsed" => (m = None /\ p \notin Inside) \/ Has(R, d)
               /\ s[d] = "parsed" => Has(R, d)
               /\ p \in Late => Has(R, d)

\* The document at work has its rows before anything else of it is stored.
Storing(R, p, l, b) ==
  l # <<>> =>
    /\ p = "rows" => /\ \A c \in ToSet(b) : c.doc = Head(l)
                     /\ b = <<>> => Has(R, Head(l))
    /\ p \in {"vectors", "graph", "mark"} => Has(R, Head(l))

\* No document is forgotten: it is parsed, to do, or has failed.
Counted(p, m, l, F, D) ==
  /\ p \in Work \union {"know_mark"} =>
       \A d \in D : m[d] = "parsed" \/ d \in ToSet(l) \/ d \in F
  /\ p = "know_mark" /\ l # <<>> => m[Head(l)] = "parsed"

\* The rows R are all different, and of ingestions that the numbers N count.
FreshRows(R, N) == IsInjective(R) /\ \A c \in ToSet(R) : c.copy <= N[c.doc]

\* No chunk is stored twice: what is about to be stored is new.
FreshInv ==
  /\ FreshRows(rows, copies)
  /\ \A t \in Task : at[t] = "rows" =>
       /\ FreshRows(batch[t], copies)
       /\ ToSet(batch[t]) \intersect ToSet(rows) = {}
       /\ \A u \in Task \ {t} : at[u] = "rows" =>
            ToSet(batch[t]) \intersect ToSet(batch[u]) = {}

\* Those of D whose rows are all among the newest of the list R.
Recents(R, D) == {d \in D : \A i \in DOMAIN R : R[i].doc = d => i <= Window}

\* So many hits that they fill an answer.
Full(list) == Cardinality(ToSet(list)) >= TopK

\* What was found, and what of it is kept.
Showing(p, fd, h, c, q, D) ==
  /\ p = "recall_more" => Full(fd) \/ \A d \in D : Covers(fd, q, d)
  /\ p \in {"keep", "keep_know", "answered"} /\ ~c =>
       Len(h) = TopK \/ \A d \in D : Covers(h, q, d)

Sees(t) ==
  /\ Recorded(ToSet(rows), at[t], mem[t], saved[t], Documents(t))
  /\ Storing(ToSet(rows), at[t], todo[t], batch[t])
  /\ Counted(at[t], mem[t], todo[t], failed[t], Documents(t))
  /\ Showing(at[t], found[t], hits[t], cached[t], QueryOf[t], Recents(rows, Documents(t)))

AnswerInv == faults = 0 => \A t \in Task : Sees(t)
-----------------------------------------------------------------------------
(* Types *)

LEMMA TypeInit == KnowledgeParameters /\ Init => TypeInv
<1> SUFFICES ASSUME KnowledgeParameters, Init PROVE TypeInv
  OBVIOUS
<1>1. StoreTypes
  BY DEF Init, StoreTypes
<1>2. SectionTypes
  <2>1. \A t \in Task : Pending(t) \in States(t)
    BY DEF Pending, States
  <2>2. \A t \in Task : mem[t] = Pending(t) /\ know[t] = None
    BY DEF Init
  <2>3. saved = mem /\ mem = [t \in Task |-> mem[t]] /\ know = [t \in Task |-> know[t]]
    BY DEF Init
  <2>4. /\ knowSaved = [t \in Task |-> knowSaved[t]]
        /\ \A t \in Task : knowSaved[t] = None \/ knowSaved[t] = mem[t]
    BY <2>3 DEF Init
  <2> QED BY <2>1, <2>2, <2>3, <2>4 DEF SectionTypes
<1>3. FlowTypes
  <2>1. crashes \in Nat /\ faults \in Nat /\ crashes + faults <= MaxTroubles
    BY DEF Init, KnowledgeParameters
  <2>2. <<>> \in Seq(ChunkIds) /\ <<>> \in Seq(Doc) /\ Len(<<>>) = 0 /\ ToSet(<<>>) = {}
    BY DEF ToSet
  <2>3. TopK \in Nat
    BY DEF KnowledgeParameters
  <2> QED BY <2>1, <2>2, <2>3 DEF Init, FlowTypes, Place
<1> QED BY <1>1, <1>2, <1>3 DEF TypeInv

LEMMA StoreFrame ==
  StoreTypes /\ UNCHANGED <<stores, parsed, cache>> => StoreTypes'
BY DEF StoreTypes, stores

LEMMA SectionFrame ==
  ASSUME SectionTypes, UNCHANGED sections,
         \A t \in Task : at'[t] \in Inside => at[t] \in Inside
  PROVE  SectionTypes'
BY DEF SectionTypes, sections

\* A step of one task within the node leaves it within the node.
LEMMA Moves ==
  ASSUME NEW t \in Task, at \in [Task -> Place], NEW place \in Place, GoTo(t, place),
         at[t] \in Inside
  PROVE  \A u \in Task : at'[u] \in Inside => at[u] \in Inside
BY DEF GoTo

LEMMA TroubleKept ==
  ASSUME FlowTypes, UNCHANGED crashes, UNCHANGED faults \/ Fault, KnowledgeParameters
  PROVE  crashes' \in Nat /\ faults' \in Nat /\ crashes' + faults' <= MaxTroubles
BY DEF FlowTypes, Fault, Trouble, KnowledgeParameters

\* A step that moves one task on, and changes no list but its list of documents
\* to do, its failed documents, its batch and what was found.
FlowMoves(t, place) ==
  /\ place \in Place /\ GoTo(t, place)
  /\ todo' \in [Task -> Seq(Doc)] /\ failed' \in [Task -> SUBSET Doc]
  /\ batch' \in [Task -> Seq(ChunkIds)] /\ found' \in [Task -> Seq(ChunkIds)]
  /\ \A u \in Task : ToSet(todo'[u]) \subseteq Documents(u) /\ failed'[u] \subseteq Documents(u)
  /\ UNCHANGED <<crashes, round>> /\ (UNCHANGED faults \/ Fault)

LEMMA FlowStep ==
  ASSUME KnowledgeParameters, FlowTypes, NEW t \in Task, NEW place, FlowMoves(t, place),
         UNCHANGED <<channels, hits, cached>>
  PROVE  FlowTypes'
<1>1. crashes' \in Nat /\ faults' \in Nat /\ crashes' + faults' <= MaxTroubles
  BY TroubleKept DEF FlowMoves
<1>2. at' \in [Task -> Place]
  BY DEF FlowTypes, FlowMoves, GoTo
<1> QED BY <1>1, <1>2 DEF FlowTypes, FlowMoves

LEMMA PickedHas ==
  ASSUME NEW S, NEW seq \in Seq(S), NEW I, NEW i \in DOMAIN seq, i \in I
  PROVE  \E k \in DOMAIN Picked(seq, I) : Picked(seq, I)[k] = seq[i]
BY PickedPicks

LEMMA UnparsedAre ==
  ASSUME KnowledgeParameters, NEW t \in Task, NEW states
  PROVE  /\ Unparsed(t, states) \in Seq(Doc)
         /\ ToSet(Unparsed(t, states)) \subseteq Documents(t)
         /\ IsInjective(Unparsed(t, states))
         /\ \A i \in DOMAIN Unparsed(t, states) : states[Unparsed(t, states)[i]] # "parsed"
         /\ \A d \in Documents(t) : states[d] = "parsed" \/ d \in ToSet(Unparsed(t, states))
<1> DEFINE seq == DocsOf[t]
           I == {i \in DOMAIN seq : states[seq[i]] # "parsed"}
           r == Picked(seq, I)
<1>1. Unparsed(t, states) = r
  BY DEF Unparsed
<1>2. seq \in Seq(Doc) /\ IsInjective(seq)
  BY DEF KnowledgeParameters
<1> HIDE DEF seq
<1>3. \A i \in I : i \in DOMAIN seq /\ states[seq[i]] # "parsed"
  OBVIOUS
<1>4. \A i \in DOMAIN seq : states[seq[i]] = "parsed" \/ i \in I
  OBVIOUS
<1> HIDE DEF I
<1>5. /\ r \in Seq(Doc)
      /\ \A k \in DOMAIN r : \E i \in DOMAIN seq : i \in I /\ r[k] = seq[i]
      /\ \A i \in DOMAIN seq : i \in I => \E k \in DOMAIN r : r[k] = seq[i]
  <2>1. r \in Seq(Doc)
    BY <1>2, PickedPicks
  <2>2. \A k \in DOMAIN r : \E i \in DOMAIN seq : i \in I /\ r[k] = seq[i]
    BY <1>2, PickedPicks
  <2>3. ASSUME NEW i \in DOMAIN seq, i \in I PROVE \E k \in DOMAIN r : r[k] = seq[i]
    <3>1. \E k \in DOMAIN Picked(seq, I) : Picked(seq, I)[k] = seq[i]
      BY <2>3, <1>2, PickedHas
    <3> QED BY <3>1
  <2> QED BY <2>1, <2>2, <2>3
<1>6. IsInjective(r)
  BY <1>2, PickedPicks
<1> HIDE DEF r
<1>7. Documents(t) = ToSet(seq)
  BY DEF Documents, seq
<1>8. ToSet(r) \subseteq ToSet(seq)
  BY <1>5 DEF ToSet
<1>9. \A k \in DOMAIN r : states[r[k]] # "parsed"
  BY <1>3, <1>5
<1>10. \A d \in ToSet(seq) : states[d] = "parsed" \/ d \in ToSet(r)
  <2> SUFFICES ASSUME NEW i \in DOMAIN seq, states[seq[i]] # "parsed"
               PROVE  seq[i] \in ToSet(r)
    BY DEF ToSet
  <2>1. PICK k \in DOMAIN r : r[k] = seq[i]
    BY <1>4, <1>5
  <2> QED BY <2>1 DEF ToSet
<1> QED BY <1>1, <1>5, <1>6, <1>7, <1>8, <1>9, <1>10

LEMMA TailTypes ==
  ASSUME NEW S, NEW seq \in Seq(S), seq # <<>>
  PROVE  /\ Tail(seq) \in Seq(S) /\ ToSet(Tail(seq)) \subseteq ToSet(seq)
         /\ Head(seq) \in ToSet(seq) /\ Head(seq) \in S
         /\ ToSet(seq) = ToSet(Tail(seq)) \union {Head(seq)}
<1>1. /\ Tail(seq) \in Seq(S) /\ Len(Tail(seq)) = Len(seq) - 1 /\ Len(seq) >= 1
      /\ Len(seq) \in Nat /\ Head(seq) = seq[1] /\ seq[1] \in S
      /\ \A i \in 1 .. Len(Tail(seq)) : Tail(seq)[i] = seq[i + 1]
      /\ DOMAIN seq = 1 .. Len(seq) /\ DOMAIN Tail(seq) = 1 .. Len(Tail(seq))
  OBVIOUS
<1> DEFINE r == Tail(seq)
<1> HIDE DEF r
<1>2. ToSet(r) \subseteq ToSet(seq)
  <2> SUFFICES ASSUME NEW i \in 1 .. Len(r) PROVE r[i] \in ToSet(seq)
    BY <1>1 DEF ToSet, r
  <2>1. i + 1 \in DOMAIN seq /\ r[i] = seq[i + 1]
    BY <1>1 DEF r
  <2> QED BY <2>1 DEF ToSet
<1>3. seq[1] \in ToSet(seq)
  BY <1>1 DEF ToSet
<1>4. ToSet(seq) \subseteq ToSet(r) \union {seq[1]}
  <2> SUFFICES ASSUME NEW i \in 1 .. Len(seq), i # 1 PROVE seq[i] \in ToSet(r)
    BY <1>1 DEF ToSet
  <2>1. i - 1 \in DOMAIN r /\ r[i - 1] = seq[i]
    BY <1>1 DEF r
  <2> QED BY <2>1 DEF ToSet
<1> QED BY <1>1, <1>2, <1>3, <1>4 DEF r

LEMMA AppendTypes ==
  ASSUME NEW S, NEW a \in Seq(S), NEW b \in Seq(S)
  PROVE  /\ Reverse(a) \in Seq(S) /\ Reverse(a) \o b \in Seq(S)
         /\ ToSet(Reverse(a) \o b) = ToSet(a) \union ToSet(b)
         /\ (IsInjective(a) /\ IsInjective(b) /\ ToSet(a) \intersect ToSet(b) = {})
              => IsInjective(Reverse(a) \o b)
<1> DEFINE r == Reverse(a)
           w == r \o b
<1>1. /\ Len(a) \in Nat /\ Len(b) \in Nat /\ DOMAIN a = 1 .. Len(a) /\ DOMAIN b = 1 .. Len(b)
      /\ \A i \in 1 .. Len(a) : a[i] \in S
  OBVIOUS
<1>2. /\ r = [i \in 1 .. Len(a) |-> a[(Len(a) - i) + 1]]
      /\ \A i \in 1 .. Len(a) : (Len(a) - i) + 1 \in 1 .. Len(a)
  BY <1>1 DEF Reverse
<1>3. /\ r \in Seq(S) /\ Len(r) = Len(a)
      /\ \A i \in 1 .. Len(a) : r[i] = a[(Len(a) - i) + 1]
  BY <1>1, <1>2
<1> HIDE DEF r
<1>4. /\ w \in Seq(S) /\ DOMAIN w = 1 .. (Len(a) + Len(b))
      /\ \A i \in 1 .. Len(a) : w[i] = r[i]
      /\ \A i \in 1 .. Len(b) : w[Len(a) + i] = b[i]
  <2>1. w \in Seq(S) /\ Len(w) = Len(a) + Len(b) /\ DOMAIN w = 1 .. Len(w)
    BY <1>3
  <2>2. \A i \in 1 .. Len(a) : w[i] = r[i]
    BY <1>1, <1>3
  <2>3. \A i \in 1 .. Len(b) : w[Len(a) + i] = b[i]
    BY <1>1, <1>3
  <2> QED BY <2>1, <2>2, <2>3
<1> HIDE DEF w
<1>5. ToSet(w) \subseteq ToSet(a) \union ToSet(b)
  <2> SUFFICES ASSUME NEW i \in 1 .. (Len(a) + Len(b))
               PROVE  w[i] \in ToSet(a) \union ToSet(b)
    BY <1>4 DEF ToSet
  <2>1. CASE i \in 1 .. Len(a)
    <3>1. w[i] = a[(Len(a) - i) + 1] /\ (Len(a) - i) + 1 \in 1 .. Len(a)
      BY <2>1, <1>2, <1>3, <1>4
    <3> QED BY <3>1, <1>1 DEF ToSet
  <2>2. CASE i \notin 1 .. Len(a)
    <3>1. i - Len(a) \in 1 .. Len(b) /\ Len(a) + (i - Len(a)) = i
      BY <2>2, <1>1
    <3>2. w[i] = b[i - Len(a)]
      BY <3>1, <1>4
    <3> QED BY <3>1, <3>2, <1>1 DEF ToSet
  <2> QED BY <2>1, <2>2
<1>6. ToSet(a) \subseteq ToSet(w)
  <2> SUFFICES ASSUME NEW i \in 1 .. Len(a) PROVE a[i] \in ToSet(w)
    BY <1>1 DEF ToSet
  <2>1. (Len(a) - i) + 1 \in 1 .. Len(a) /\ (Len(a) - ((Len(a) - i) + 1)) + 1 = i
    BY <1>1
  <2>2. w[(Len(a) - i) + 1] = a[i]
    BY <2>1, <1>3, <1>4
  <2>3. (Len(a) - i) + 1 \in 1 .. (Len(a) + Len(b))
    BY <1>1
  <2> QED BY <2>2, <2>3, <1>4 DEF ToSet
<1>7. ToSet(b) \subseteq ToSet(w)
  <2> SUFFICES ASSUME NEW i \in 1 .. Len(b) PROVE b[i] \in ToSet(w)
    BY <1>1 DEF ToSet
  <2>1. Len(a) + i \in 1 .. (Len(a) + Len(b))
    BY <1>1
  <2> QED BY <2>1, <1>4 DEF ToSet
<1>8. ASSUME IsInjective(a), IsInjective(b), ToSet(a) \intersect ToSet(b) = {}
      PROVE  IsInjective(w)
  <2>1. \A i \in 1 .. (Len(a) + Len(b)) :
          \/ /\ i \in 1 .. Len(a) /\ w[i] = a[(Len(a) - i) + 1] /\ w[i] \in ToSet(a)
             /\ (Len(a) - i) + 1 \in DOMAIN a
          \/ /\ i - Len(a) \in DOMAIN b /\ w[i] = b[i - Len(a)] /\ w[i] \in ToSet(b)
    <3> SUFFICES ASSUME NEW i \in 1 .. (Len(a) + Len(b))
                 PROVE  \/ /\ i \in 1 .. Len(a) /\ w[i] = a[(Len(a) - i) + 1]
                           /\ w[i] \in ToSet(a) /\ (Len(a) - i) + 1 \in DOMAIN a
                        \/ /\ i - Len(a) \in DOMAIN b /\ w[i] = b[i - Len(a)]
                           /\ w[i] \in ToSet(b)
      OBVIOUS
    <3>1. CASE i \in 1 .. Len(a)
      BY <3>1, <1>1, <1>2, <1>3, <1>4 DEF ToSet
    <3>2. CASE i \notin 1 .. Len(a)
      <4>1. i - Len(a) \in 1 .. Len(b) /\ Len(a) + (i - Len(a)) = i
        BY <3>2, <1>1
      <4>2. w[i] = b[i - Len(a)]
        BY <4>1, <1>4
      <4> QED BY <4>1, <4>2, <1>1 DEF ToSet
    <3> QED BY <3>1, <3>2
  <2> SUFFICES ASSUME NEW i \in 1 .. (Len(a) + Len(b)), NEW j \in 1 .. (Len(a) + Len(b)),
                      w[i] = w[j]
               PROVE  i = j
    BY <1>4 DEF IsInjective
  <2>2. CASE w[i] \in ToSet(a)
    <3>1. /\ i \in 1 .. Len(a) /\ j \in 1 .. Len(a)
          /\ (Len(a) - i) + 1 \in DOMAIN a /\ (Len(a) - j) + 1 \in DOMAIN a
          /\ a[(Len(a) - i) + 1] = a[(Len(a) - j) + 1]
      BY <1>8, <2>1, <2>2
    <3>2. (Len(a) - i) + 1 = (Len(a) - j) + 1
      BY <1>8, <3>1 DEF IsInjective
    <3> QED BY <1>1, <3>1, <3>2
  <2>3. CASE w[i] \notin ToSet(a)
    <3>1. /\ i - Len(a) \in DOMAIN b /\ j - Len(a) \in DOMAIN b
          /\ b[i - Len(a)] = b[j - Len(a)]
      BY <2>1, <2>3
    <3>2. i - Len(a) = j - Len(a)
      BY <1>8, <3>1 DEF IsInjective
    <3> QED BY <1>1, <3>2
  <2> QED BY <2>2, <2>3
<1> QED BY <1>3, <1>4, <1>5, <1>6, <1>7, <1>8 DEF w, r

LEMMA PlacesAre ==
  /\ {"rows", "vectors", "graph", "mark", "know_mark", "next", "recall", "recall_more", "keep",
      "keep_know"} \subseteq Inside
  /\ Inside \subseteq Place /\ {"start", "answered", "blocked"} \subseteq Place
  /\ "start" \notin Inside /\ "answered" \notin Inside /\ "blocked" \notin Inside
BY DEF Place, Inside, Left

LEMMA EnterTypes ==
  ASSUME KnowledgeParameters, TypeInv, NEW t \in Task, Enter(t) PROVE TypeInv'
<1> USE DEF TypeInv
<1>1. StoreTypes'
  BY StoreFrame DEF Enter
<1>2. FlowTypes'
  <2>1. todo' = [todo EXCEPT ![t] = Unparsed(t, mem'[t])]
    BY DEF Enter
  <2>2. /\ Unparsed(t, mem'[t]) \in Seq(Doc) /\ ToSet(Unparsed(t, mem'[t])) \subseteq Documents(t)
    BY UnparsedAre
  <2>3. GoTo(t, "next") /\ UNCHANGED <<batch, found, crashes, round, faults>>
    BY DEF Enter
  <2>4. failed' = [failed EXCEPT ![t] = {}]
    BY DEF Enter
  <2>5. FlowMoves(t, "next")
    BY <2>1, <2>2, <2>3, <2>4, PlacesAre DEF FlowMoves, FlowTypes
  <2> QED BY <2>5, FlowStep DEF Enter
<1>3. SectionTypes'
  <2>1. mem' = [mem EXCEPT ![t] = IF mem[t] = None THEN saved[t] ELSE mem[t]]
    BY DEF Enter
  <2>2. know' = [know EXCEPT ![t] =
          CASE know[t] # None -> know[t]
            [] know[t] = None /\ knowSaved[t] # None -> knowSaved[t]
            [] OTHER -> mem'[t]]
    BY DEF Enter
  <2>3. UNCHANGED <<saved, knowSaved>> /\ at' = [at EXCEPT ![t] = "next"]
    BY DEF Enter, GoTo
  <2>4. mem'[t] \in States(t)
    BY <2>1 DEF SectionTypes
  <2>5. know'[t] \in States(t) \union {None}
    BY <2>2, <2>4 DEF SectionTypes
  <2>6. /\ mem' = [u \in Task |-> mem'[u]] /\ know' = [u \in Task |-> know'[u]]
        /\ \A u \in Task : u # t => mem'[u] = mem[u] /\ know'[u] = know[u] /\ at'[u] = at[u]
    BY <2>1, <2>2, <2>3 DEF SectionTypes, FlowTypes
  <2> QED BY <2>3, <2>4, <2>5, <2>6 DEF SectionTypes
<1> QED BY <1>1, <1>2, <1>3

LEMMA ParseTypes ==
  ASSUME KnowledgeParameters, TypeInv, NEW t \in Task, Parse(t) PROVE TypeInv'
<1> USE DEF TypeInv
<1> DEFINE d == Head(todo[t])
<1>1. at[t] = "next" /\ todo[t] # <<>> /\ todo[t] \in Seq(Doc)
  BY DEF Parse, Doing, FlowTypes
<1>2. d \in Doc
  BY <1>1
<1>3. PICK secs \in IF parsed[d] = None THEN Readings[d] ELSE {parsed[d]} :
        /\ parsed' = [parsed EXCEPT ![d] = secs]
        /\ UNCHANGED faults \/ Fault
        /\ batch' = [batch EXCEPT ![t] = ChunksOf(d, Pieces[d][secs], copies[d] + 1)]
  BY DEF Parse
<1>4. secs \in Readings[d]
  BY <1>2, <1>3 DEF StoreTypes
<1> HIDE DEF d
<1>5. ChunksOf(d, Pieces[d][secs], copies[d] + 1) \in Seq(ChunkIds)
  <2>1. copies[d] + 1 \in Nat
    BY <1>2 DEF StoreTypes
  <2> QED BY <1>2, <1>4, <2>1, ChunksTypes
<1>6. copies' = [copies EXCEPT ![d] = @ + 1]
  BY DEF Parse, d
<1>7. StoreTypes'
  <2>1. copies' \in [Doc -> Nat]
    BY <1>2, <1>6 DEF StoreTypes
  <2>2. UNCHANGED <<rows, vectors, facts, cache>>
    BY DEF Parse
  <2>3. /\ parsed' = [e \in Doc |-> parsed'[e]] /\ DOMAIN parsed' = Doc
        /\ \A e \in Doc : parsed'[e] = None \/ parsed'[e] \in Readings[e]
    BY <1>2, <1>3, <1>4 DEF StoreTypes
  <2> QED BY <2>1, <2>2, <2>3 DEF StoreTypes
<1>8. "rows" \in Place /\ "next" \in Inside
  BY DEF Place, Inside, Left
<1>9. FlowTypes'
  <2>1. FlowMoves(t, "rows")
    BY <1>3, <1>5, <1>8 DEF Parse, FlowMoves, FlowTypes
  <2> QED BY <2>1, FlowStep DEF Parse
<1>10. SectionTypes'
  <2>1. \A u \in Task : at'[u] \in Inside => at[u] \in Inside
    BY <1>1, <1>8, Moves DEF Parse, FlowTypes
  <2>2. UNCHANGED sections
    BY DEF Parse
  <2> QED BY <2>1, <2>2, SectionFrame
<1> QED BY <1>7, <1>9, <1>10

\* Steps that leave the sections alone and move within the node.
LEMMA InsideStep ==
  ASSUME KnowledgeParameters, TypeInv, NEW t \in Task, NEW place, FlowMoves(t, place),
         at[t] \in Inside, UNCHANGED <<sections, channels, hits, cached>>, StoreTypes'
  PROVE  TypeInv'
<1>1. FlowTypes'
  BY FlowStep DEF TypeInv
<1>2. \A u \in Task : at'[u] \in Inside => at[u] \in Inside
  BY Moves DEF FlowMoves, FlowTypes, TypeInv
<1>3. SectionTypes'
  BY <1>2, SectionFrame DEF TypeInv
<1> QED BY <1>1, <1>3 DEF TypeInv

LEMMA GiveUpMoves ==
  ASSUME KnowledgeParameters, TypeInv, NEW t \in Task, todo[t] # <<>>, GiveUp(t),
         UNCHANGED <<batch, found, crashes, round>>, UNCHANGED faults \/ Fault
  PROVE  FlowMoves(t, "next")
<1>1. todo[t] \in Seq(Doc) /\ ToSet(todo[t]) \subseteq Documents(t)
  BY DEF TypeInv, FlowTypes
<1>2. /\ Tail(todo[t]) \in Seq(Doc) /\ ToSet(Tail(todo[t])) \subseteq Documents(t)
      /\ Head(todo[t]) \in Documents(t) /\ Head(todo[t]) \in Doc
  BY <1>1, TailTypes
<1>3. todo' = [todo EXCEPT ![t] = Tail(todo[t])]
  BY DEF GiveUp
<1>4. failed' = [failed EXCEPT ![t] = failed[t] \union {Head(todo[t])}]
  BY DEF GiveUp
<1>5. GoTo(t, "next")
  BY DEF GiveUp
<1> QED BY <1>2, <1>3, <1>4, <1>5, PlacesAre DEF FlowMoves, TypeInv, FlowTypes

LEMMA ParseFailsTypes ==
  ASSUME KnowledgeParameters, TypeInv, NEW t \in Task, ParseFails(t) PROVE TypeInv'
<1>1. at[t] = "next" /\ todo[t] # <<>>
  BY DEF ParseFails, Doing
<1>2. FlowMoves(t, "next")
  BY <1>1, GiveUpMoves DEF ParseFails
<1>3. StoreTypes'
  BY StoreFrame DEF ParseFails, TypeInv
<1> QED BY <1>1, <1>2, <1>3, InsideStep, PlacesAre DEF ParseFails


LEMMA StayMoves ==
  ASSUME TypeInv, NEW t \in Task, NEW place \in Place, GoTo(t, place),
         UNCHANGED <<todo, failed, batch, found, crashes, round>>,
         UNCHANGED faults \/ Fault
  PROVE  FlowMoves(t, place)
BY DEF TypeInv, FlowTypes, FlowMoves

LEMMA AfterSaveIs == \A t : AfterSave(t) \in {"graph", "mark"}
BY DEF AfterSave

\* The end of save_chunks_and_embeddings, when the rows are in Seq(ChunkIds).
LEMMA StoringTypes ==
  ASSUME KnowledgeParameters, TypeInv, NEW t \in Task, NEW place \in Inside, GoTo(t, place),
         at[t] \in Inside, UNCHANGED <<todo, failed, rest>>, UNCHANGED faults \/ Fault,
         rows' \in Seq(ChunkIds), vectors' \subseteq ChunkIds,
         facts' \in [Fact -> ChunkIds \union {None}]
  PROVE  TypeInv'
<1>1. FlowMoves(t, place)
  BY StayMoves, PlacesAre DEF rest
<1>2. StoreTypes'
  BY DEF TypeInv, StoreTypes, rest
<1> QED BY <1>1, <1>2, InsideStep DEF rest

LEMMA SavesTypes ==
  ASSUME KnowledgeParameters, TypeInv, NEW t \in Task,
         StoreRows(t) \/ StoreNothing(t) \/ RowsFail(t) \/ StoreVectors(t) \/ VectorsFail(t)
  PROVE  TypeInv'
<1>1. at[t] \in Inside /\ batch[t] \in Seq(ChunkIds)
  BY PlacesAre
     DEF StoreRows, StoreNothing, RowsFail, StoreVectors, VectorsFail, Doing, TypeInv, FlowTypes
<1>2. AfterSave(t) \in Inside /\ "vectors" \in Inside
  BY AfterSaveIs, PlacesAre
<1>3. /\ rows \in Seq(ChunkIds) /\ vectors \subseteq ChunkIds
      /\ facts \in [Fact -> ChunkIds \union {None}]
  BY DEF TypeInv, StoreTypes
<1>4. CASE StoreRows(t)
  <2>1. rows' \in Seq(ChunkIds)
    BY <1>1, <1>3, <1>4, AppendTypes DEF StoreRows
  <2> QED BY <1>1, <1>2, <1>3, <1>4, <2>1, StoringTypes DEF StoreRows
<1>5. CASE StoreNothing(t)
  BY <1>1, <1>2, <1>3, <1>5, StoringTypes DEF StoreNothing
<1>6. CASE RowsFail(t)
  BY <1>1, <1>2, <1>3, <1>6, StoringTypes DEF RowsFail
<1>7. CASE StoreVectors(t)
  <2>1. Leaves(batch[t]) \subseteq ChunkIds
    BY <1>1 DEF Leaves, ToSet
  <2> QED BY <1>1, <1>2, <1>3, <1>7, <2>1, StoringTypes DEF StoreVectors
<1>8. CASE VectorsFail(t)
  BY <1>1, <1>2, <1>3, <1>8, StoringTypes DEF VectorsFail
<1> QED BY <1>4, <1>5, <1>6, <1>7, <1>8

\* A relation cites a leaf of the batch.
LEMMA SupportingIs ==
  ASSUME NEW chunks \in Seq(ChunkIds), Leaves(chunks) # {}
  PROVE  Supporting(chunks) \in Leaves(chunks)
<1> DEFINE L == Leaves(chunks)
           S == {c.piece : c \in L}
<1>1. L \subseteq ChunkIds
  BY DEF Leaves, ToSet
<1>2. S \in SUBSET Nat /\ S # {}
  BY <1>1 DEF ChunkIds
<1>3. PICK x \in S : \A y \in S : x <= y
  BY <1>2, LeastOf
<1>4. PICK c \in L : c.piece = x
  BY <1>3
<1>5. \A other \in L : c.piece <= other.piece
  BY <1>3, <1>4
<1> QED BY <1>4, <1>5 DEF Supporting

LEMMA FactsTypes ==
  ASSUME KnowledgeParameters, TypeInv, SourceInv, NEW t \in Task,
         StoreFacts(t) \/ FactsFail(t)
  PROVE  TypeInv'
<1>1. at[t] = "graph" /\ batch[t] \in Seq(ChunkIds)
  BY DEF StoreFacts, FactsFail, Doing, TypeInv, FlowTypes
<1>2. at[t] \in Inside /\ "mark" \in Inside
  BY <1>1, PlacesAre
<1>3. /\ rows \in Seq(ChunkIds) /\ vectors \subseteq ChunkIds
      /\ facts \in [Fact -> ChunkIds \union {None}]
  BY DEF TypeInv, StoreTypes
<1>4. CASE StoreFacts(t)
  <2>1. Leaves(batch[t]) # {}
    BY <1>1 DEF SourceInv
  <2>2. Supporting(batch[t]) \in ChunkIds
    <3>1. Supporting(batch[t]) \in Leaves(batch[t])
      BY <1>1, <2>1, SupportingIs
    <3>2. Leaves(batch[t]) \subseteq ChunkIds
      BY <1>1 DEF Leaves, ToSet
    <3> QED BY <3>1, <3>2
  <2>3. facts' \in [Fact -> ChunkIds \union {None}]
    BY <1>3, <1>4, <2>2 DEF StoreFacts
  <2> QED BY <1>2, <1>3, <1>4, <2>3, StoringTypes DEF StoreFacts
<1>5. CASE FactsFail(t)
  BY <1>2, <1>3, <1>5, StoringTypes DEF FactsFail
<1> QED BY <1>4, <1>5

LEMMA ExtractionTypes ==
  ASSUME KnowledgeParameters, TypeInv, NEW t \in Task, ExtractionRaises(t) PROVE TypeInv'
<1>1. at[t] = "graph" /\ todo[t] # <<>> /\ at[t] \in Inside
  BY PlacesAre DEF ExtractionRaises, Doing
<1>2. FlowMoves(t, "next")
  BY <1>1, GiveUpMoves DEF ExtractionRaises, rest
<1>3. StoreTypes'
  BY StoreFrame DEF ExtractionRaises, TypeInv, rest, stores
<1> QED BY <1>1, <1>2, <1>3, InsideStep DEF ExtractionRaises, rest

\* A step that writes the documents of one task in the sections.
LEMMA SectionStep ==
  ASSUME SectionTypes, at \in [Task -> Place], NEW t \in Task, NEW place, GoTo(t, place),
         NEW m \in States(t), mem' = [mem EXCEPT ![t] = m],
         NEW k \in States(t) \union {None}, know' = [know EXCEPT ![t] = k],
         NEW s \in States(t), saved' = [saved EXCEPT ![t] = s],
         NEW ks \in States(t) \union {None}, knowSaved' = [knowSaved EXCEPT ![t] = ks]
  PROVE  SectionTypes'
<1>1. /\ mem' = [u \in Task |-> mem'[u]] /\ know' = [u \in Task |-> know'[u]]
      /\ saved' = [u \in Task |-> saved'[u]] /\ knowSaved' = [u \in Task |-> knowSaved'[u]]
  BY DEF SectionTypes
<1>2. /\ mem'[t] = m /\ know'[t] = k /\ saved'[t] = s /\ knowSaved'[t] = ks
  BY DEF SectionTypes
<1>3. \A u \in Task : u # t =>
        /\ mem'[u] = mem[u] /\ know'[u] = know[u] /\ saved'[u] = saved[u]
        /\ knowSaved'[u] = knowSaved[u] /\ at'[u] = at[u]
  BY DEF SectionTypes, GoTo
<1> QED BY <1>1, <1>2, <1>3 DEF SectionTypes

LEMMA ExceptSame ==
  ASSUME NEW S, NEW f, f = [x \in S |-> f[x]], NEW x \in S
  PROVE  f = [f EXCEPT ![x] = f[x]]
OBVIOUS

\* What the sections hold of a task in the node.
LEMMA SectionsAre ==
  ASSUME TypeInv, NEW t \in Task, at[t] \in Inside
  PROVE  /\ mem[t] \in States(t) /\ know[t] \in States(t) \union {None}
         /\ saved[t] \in States(t) /\ knowSaved[t] \in States(t) \union {None}
         /\ mem = [mem EXCEPT ![t] = mem[t]] /\ know = [know EXCEPT ![t] = know[t]]
         /\ saved = [saved EXCEPT ![t] = saved[t]]
         /\ knowSaved = [knowSaved EXCEPT ![t] = knowSaved[t]]
<1>1. /\ mem = [u \in Task |-> mem[u]] /\ know = [u \in Task |-> know[u]]
      /\ saved = [u \in Task |-> saved[u]] /\ knowSaved = [u \in Task |-> knowSaved[u]]
  BY DEF TypeInv, SectionTypes
<1>2. /\ mem[t] \in States(t) /\ know[t] \in States(t) \union {None}
      /\ saved[t] \in States(t) /\ knowSaved[t] \in States(t) \union {None}
  BY DEF TypeInv, SectionTypes
<1> QED BY <1>1, <1>2, ExceptSame

LEMMA SaveIs ==
  ASSUME TypeInv, NEW t \in Task, at[t] \in Inside, Save(t)
  PROVE  /\ UNCHANGED faults \/ Fault
         /\ \E s \in States(t) : /\ s = mem[t] \/ s = saved[t]
                                 /\ saved' = [saved EXCEPT ![t] = s]
BY SectionsAre DEF Save

LEMMA SaveKnowIs ==
  ASSUME TypeInv, NEW t \in Task, at[t] \in Inside, SaveKnow(t)
  PROVE  /\ UNCHANGED faults \/ Fault
         /\ \E s \in States(t) \union {None} : knowSaved' = [knowSaved EXCEPT ![t] = s]
BY SectionsAre DEF SaveKnow

\* Steps that write the sections.
LEMMA MarkingTypes ==
  ASSUME KnowledgeParameters, TypeInv, NEW t \in Task, at[t] \in Inside, NEW place \in Place,
         GoTo(t, place), SectionTypes', UNCHANGED marking, UNCHANGED faults \/ Fault,
         todo' \in [Task -> Seq(Doc)], \A u \in Task : ToSet(todo'[u]) \subseteq Documents(u)
  PROVE  TypeInv'
<1>1. FlowMoves(t, place)
  BY DEF TypeInv, FlowTypes, FlowMoves, marking
<1>2. FlowTypes'
  BY <1>1, FlowStep DEF TypeInv, marking
<1>3. StoreTypes'
  BY StoreFrame DEF TypeInv, marking
<1> QED BY <1>2, <1>3 DEF TypeInv

LEMMA AtTypes == TypeInv => at \in [Task -> Place] /\ SectionTypes
BY DEF TypeInv, FlowTypes

LEMMA MarkTypes ==
  ASSUME KnowledgeParameters, TypeInv, NEW t \in Task, Mark(t) PROVE TypeInv'
<1>1. at[t] \in Inside /\ todo[t] # <<>> /\ "know_mark" \in Place
  BY PlacesAre DEF Mark, Doing
<1>2. todo \in [Task -> Seq(Doc)] /\ \A u \in Task : ToSet(todo[u]) \subseteq Documents(u)
  BY DEF TypeInv, FlowTypes
<1> DEFINE m == [mem[t] EXCEPT ![Head(todo[t])] = "parsed"]
<1>3. m \in States(t)
  BY <1>1, SectionsAre DEF States
<1>4. mem' = [mem EXCEPT ![t] = m]
  BY DEF Mark
<1>5. mem'[t] = m
  BY <1>4 DEF TypeInv, SectionTypes
<1> HIDE DEF m
<1>6. know' = [know EXCEPT ![t] = m]
  BY <1>5 DEF Mark
<1>7. (UNCHANGED faults \/ Fault) /\ \E s \in States(t) : saved' = [saved EXCEPT ![t] = s]
  BY <1>1, <1>3, <1>5, SectionsAre DEF Mark
<1>8. knowSaved' = [knowSaved EXCEPT ![t] = knowSaved[t]] /\ knowSaved[t] \in States(t) \union {None}
  BY <1>1, SectionsAre DEF Mark
<1>9. GoTo(t, "know_mark") /\ UNCHANGED <<todo, marking>>
  BY DEF Mark
<1>10. SectionTypes'
  BY <1>3, <1>4, <1>6, <1>7, <1>8, <1>9, SectionStep, AtTypes
<1> QED BY <1>1, <1>2, <1>7, <1>9, <1>10, MarkingTypes

\* Steps that only save a section.
LEMMA SavingTypes ==
  ASSUME KnowledgeParameters, TypeInv, NEW t \in Task, at[t] \in Inside, NEW place \in Place,
         GoTo(t, place), UNCHANGED <<mem, know, marking>>,
         \/ Save(t) /\ UNCHANGED knowSaved
         \/ SaveKnow(t) /\ UNCHANGED saved,
         todo' \in [Task -> Seq(Doc)], \A u \in Task : ToSet(todo'[u]) \subseteq Documents(u)
  PROVE  TypeInv'
<1>1. /\ mem' = [mem EXCEPT ![t] = mem[t]] /\ know' = [know EXCEPT ![t] = know[t]]
      /\ mem[t] \in States(t) /\ know[t] \in States(t) \union {None}
      /\ saved[t] \in States(t) /\ knowSaved[t] \in States(t) \union {None}
  BY SectionsAre
<1>2. /\ UNCHANGED faults \/ Fault
      /\ \E s \in States(t) : saved' = [saved EXCEPT ![t] = s]
      /\ \E ks \in States(t) \union {None} : knowSaved' = [knowSaved EXCEPT ![t] = ks]
  <2>1. CASE Save(t) /\ UNCHANGED knowSaved
    BY <2>1, SaveIs, SectionsAre
  <2>2. CASE SaveKnow(t) /\ UNCHANGED saved
    BY <2>2, SaveKnowIs, SectionsAre
  <2> QED BY <2>1, <2>2
<1>3. SectionTypes'
  BY <1>1, <1>2, SectionStep, AtTypes
<1> QED BY <1>2, <1>3, MarkingTypes

LEMMA SaveTypes ==
  ASSUME KnowledgeParameters, TypeInv, NEW t \in Task,
         KnowMark(t) \/ Block(t) \/ Keep(t) \/ KeepKnow(t)
  PROVE  TypeInv'
<1>1. todo \in [Task -> Seq(Doc)] /\ \A u \in Task : ToSet(todo[u]) \subseteq Documents(u)
  BY DEF TypeInv, FlowTypes
<1>2. at[t] \in Inside
  BY PlacesAre DEF KnowMark, Block, Keep, KeepKnow, Doing
<1>3. {"next", "blocked", "keep_know", "answered"} \subseteq Place
  BY PlacesAre
<1>4. CASE KnowMark(t)
  <2>1. todo[t] # <<>> /\ todo[t] \in Seq(Doc)
    BY <1>1, <1>4 DEF KnowMark, Doing
  <2>2. Tail(todo[t]) \in Seq(Doc) /\ ToSet(Tail(todo[t])) \subseteq Documents(t)
    BY <1>1, <2>1, TailTypes
  <2>3. todo' = [todo EXCEPT ![t] = Tail(todo[t])]
    BY <1>4 DEF KnowMark
  <2>4. todo' \in [Task -> Seq(Doc)] /\ \A u \in Task : ToSet(todo'[u]) \subseteq Documents(u)
    BY <1>1, <2>2, <2>3
  <2> QED BY <1>2, <1>3, <1>4, <2>4, SavingTypes DEF KnowMark
<1>5. CASE Block(t)
  BY <1>1, <1>2, <1>3, <1>5, SavingTypes DEF Block
<1>6. CASE Keep(t)
  BY <1>1, <1>2, <1>3, <1>6, SavingTypes DEF Keep
<1>7. CASE KeepKnow(t)
  BY <1>1, <1>2, <1>3, <1>7, SavingTypes DEF KeepKnow
<1> QED BY <1>4, <1>5, <1>6, <1>7

\* Steps of the retrieval.
LEMMA SearchingTypes ==
  ASSUME KnowledgeParameters, TypeInv, NEW t \in Task, at[t] \in Inside, NEW place \in Place,
         GoTo(t, place), UNCHANGED <<sections, searching>>, UNCHANGED faults \/ Fault,
         channels' \in [Task -> SUBSET Channels], found' \in [Task -> Seq(ChunkIds)],
         hits' \in [Task -> Seq(ChunkIds)], cached' \in [Task -> BOOLEAN],
         \A u \in Task : Len(hits'[u]) <= TopK,
         cache' = [q \in Query |-> cache'[q]],
         \A q \in Query : cache'[q] = None \/ Answers(cache'[q])
  PROVE  TypeInv'
<1>1. FlowTypes /\ StoreTypes /\ SectionTypes
  BY DEF TypeInv
<1>2. crashes' \in Nat /\ faults' \in Nat /\ crashes' + faults' <= MaxTroubles
  BY <1>1, TroubleKept DEF searching
<1>3. at' \in [Task -> Place]
  BY <1>1 DEF FlowTypes, GoTo
<1>4. FlowTypes'
  BY <1>1, <1>2, <1>3 DEF FlowTypes, searching
<1>5. StoreTypes'
  BY <1>1 DEF StoreTypes, searching, stores
<1>6. \A u \in Task : at'[u] \in Inside => at[u] \in Inside
  BY <1>1, Moves DEF FlowTypes
<1>7. SectionTypes'
  BY <1>1, <1>6, SectionFrame
<1> QED BY <1>4, <1>5, <1>7 DEF TypeInv

LEMMA RetrievalIs ==
  ASSUME TypeInv
  PROVE  /\ channels \in [Task -> SUBSET Channels] /\ found \in [Task -> Seq(ChunkIds)]
         /\ hits \in [Task -> Seq(ChunkIds)] /\ cached \in [Task -> BOOLEAN]
         /\ \A u \in Task : Len(hits[u]) <= TopK
         /\ cache = [q \in Query |-> cache[q]]
         /\ \A q \in Query : cache[q] = None \/ Answers(cache[q])
         /\ rows \in Seq(ChunkIds) /\ facts \in [Fact -> ChunkIds \union {None}]
BY DEF TypeInv, FlowTypes, StoreTypes

LEMMA EmptyIs == <<>> \in Seq(ChunkIds) /\ Len(<<>>) = 0
OBVIOUS

LEMMA PlanTypes ==
  ASSUME KnowledgeParameters, TypeInv, NEW t \in Task, Plan(t) PROVE TypeInv'
<1>1. at[t] \in Inside /\ QueryOf[t] \in Query
  BY PlacesAre DEF Plan, KnowledgeParameters
<1>2. Indexed \subseteq Channels
  BY DEF Indexed
<1>3. channels' \in [Task -> SUBSET Channels] /\ (UNCHANGED faults \/ Fault)
  BY <1>2, RetrievalIs DEF Plan
<1> DEFINE entry == cache[QueryOf[t]]
<1>4. /\ cached' = [cached EXCEPT ![t] = entry # None]
      /\ hits' = [hits EXCEPT ![t] = IF entry = None THEN <<>> ELSE entry]
      /\ GoTo(t, IF entry = None THEN "recall" ELSE "keep")
      /\ UNCHANGED <<cache, sections, found, searching>>
  BY DEF Plan
<1>5. entry = None \/ Answers(entry)
  BY <1>1, RetrievalIs
<1> HIDE DEF entry
<1>6. TopK \in Nat
  BY DEF KnowledgeParameters
<1>7. cached' \in [Task -> BOOLEAN]
  BY <1>4, RetrievalIs
<1>8. hits' \in [Task -> Seq(ChunkIds)] /\ \A u \in Task : Len(hits'[u]) <= TopK
  BY <1>4, <1>5, <1>6, RetrievalIs, EmptyIs DEF Answers
<1>9. (IF entry = None THEN "recall" ELSE "keep") \in Place
  BY PlacesAre
<1>10. found' \in [Task -> Seq(ChunkIds)] /\ cache' = [q \in Query |-> cache'[q]]
       /\ \A q \in Query : cache'[q] = None \/ Answers(cache'[q])
  BY <1>4, RetrievalIs
<1> QED BY <1>1, <1>3, <1>4, <1>7, <1>8, <1>9, <1>10, SearchingTypes

LEMMA RecallTypes ==
  ASSUME KnowledgeParameters, TypeInv, NEW t \in Task, RecallText(t) PROVE TypeInv'
<1>1. at[t] \in Inside /\ "recall_more" \in Place
  BY PlacesAre DEF RecallText
<1>2. TextHits(QueryOf[t]) \in Seq(ChunkIds)
  <2>1. rows \in Seq(ChunkIds) /\ TextLimit \in Nat
    BY RetrievalIs DEF KnowledgeParameters
  <2>2. \A I : Ranked(QueryOf[t], I) \in Seq(ChunkIds)
    BY <2>1, RankedRanks
  <2>3. \A I : Cut(TextLimit)[Ranked(QueryOf[t], I)] \in Seq(ChunkIds)
    BY <2>1, <2>2, CutCuts
  <2> QED BY <2>3 DEF TextHits
<1>3. found' \in [Task -> Seq(ChunkIds)] /\ (UNCHANGED faults \/ Fault)
  <2>1. \/ found' = [found EXCEPT ![t] = TextHits(QueryOf[t])] /\ UNCHANGED faults
        \/ found' = [found EXCEPT ![t] = <<>>] /\ Fault
    BY DEF RecallText
  <2>2. \A list \in Seq(ChunkIds) :
          found' = [found EXCEPT ![t] = list] => found' \in [Task -> Seq(ChunkIds)]
    BY RetrievalIs
  <2> QED BY <1>2, <2>1, <2>2, EmptyIs
<1>4. /\ GoTo(t, "recall_more")
      /\ UNCHANGED <<cache, sections, channels, hits, cached, searching>>
  BY DEF RecallText
<1> QED BY <1>1, <1>3, <1>4, RetrievalIs, SearchingTypes

\* What the other channels give, and the answer.
LEMMA RankIs ==
  ASSUME KnowledgeParameters, TypeInv, NEW t \in Task, Rank(t)
  PROVE  \E list : /\ Answers(list)
                   /\ hits' = [hits EXCEPT ![t] = list]
                   /\ cache' = [cache EXCEPT ![QueryOf[t]] = list]
                   /\ Len(list) = TopK \/ ToSet(found[t]) \subseteq ToSet(list)
<1> DEFINE q == QueryOf[t]
           used == Wanted(q) \intersect channels[t]
           near == IF "vector" \in used THEN VectorHits(q) ELSE <<>>
           known == IF "graph" \in used THEN FactHits(q) ELSE <<>>
           list == Kept(q, Fused(<<found[t], near, known>>))
<1>1. hits' = [hits EXCEPT ![t] = list] /\ cache' = [cache EXCEPT ![q] = hits'[t]]
  BY DEF Rank
<1>2. hits'[t] = list
  BY <1>1, RetrievalIs
<1>3. found[t] \in Seq(ChunkIds) /\ near \in Seq(ChunkIds) /\ known \in Seq(ChunkIds)
  <2>1. rows \in Seq(ChunkIds)
    BY RetrievalIs
  <2>2. VectorHits(q) \in Seq(ChunkIds)
    BY <2>1, RankedRanks DEF VectorHits
  <2> QED BY <2>2, RetrievalIs, FactHitsTypes, EmptyIs
<1> HIDE DEF near, known
<1>4. Answers(list) /\ (Len(list) = TopK \/ ToSet(found[t]) \subseteq ToSet(list))
  BY <1>3, KeptKeeps DEF Answers
<1> QED BY <1>1, <1>2, <1>4

LEMMA RankTypes ==
  ASSUME KnowledgeParameters, TypeInv, NEW t \in Task, Rank(t) PROVE TypeInv'
<1>1. at[t] \in Inside /\ "keep" \in Place /\ QueryOf[t] \in Query
  BY PlacesAre DEF Rank, KnowledgeParameters
<1>2. PICK list : /\ Answers(list)
                  /\ hits' = [hits EXCEPT ![t] = list]
                  /\ cache' = [cache EXCEPT ![QueryOf[t]] = list]
  BY RankIs
<1>3. /\ found' = [found EXCEPT ![t] = <<>>] /\ GoTo(t, "keep")
      /\ UNCHANGED <<sections, channels, cached, faults, searching>>
  BY DEF Rank
<1>4. hits' \in [Task -> Seq(ChunkIds)] /\ \A u \in Task : Len(hits'[u]) <= TopK
  BY <1>2, RetrievalIs DEF Answers
<1>5. /\ cache' = [q \in Query |-> cache'[q]]
      /\ \A q \in Query : cache'[q] = None \/ Answers(cache'[q])
  BY <1>1, <1>2, RetrievalIs
<1>6. found' \in [Task -> Seq(ChunkIds)]
  BY <1>3, RetrievalIs, EmptyIs
<1>7. channels' \in [Task -> SUBSET Channels] /\ cached' \in [Task -> BOOLEAN]
  BY <1>3, RetrievalIs
<1> QED BY <1>1, <1>3, <1>4, <1>5, <1>6, <1>7, SearchingTypes

LEMMA AgainTypes ==
  ASSUME KnowledgeParameters, TypeInv, NEW t \in Task, Again(t) PROVE TypeInv'
<1>1. FlowTypes /\ StoreTypes /\ SectionTypes
  BY DEF TypeInv
<1>2. at' = [at EXCEPT ![t] = "start"] /\ round' = [round EXCEPT ![t] = round[t] + 1]
  BY DEF Again, GoTo
<1>3. FlowTypes'
  <2>1. /\ UNCHANGED <<todo, batch, failed, channels, found, hits, cached>>
        /\ UNCHANGED <<crashes, faults>>
    BY DEF Again
  <2>2. at' \in [Task -> Place] /\ round' \in [Task -> Nat]
    BY <1>1, <1>2, PlacesAre DEF FlowTypes
  <2> QED BY <1>1, <2>1, <2>2 DEF FlowTypes
<1>4. StoreTypes'
  BY <1>1, StoreFrame DEF Again
<1>5. \A u \in Task : at'[u] \in Inside => at[u] \in Inside
  BY <1>1, <1>2, PlacesAre DEF FlowTypes
<1>6. SectionTypes'
  BY <1>1, <1>5, SectionFrame DEF Again
<1> QED BY <1>3, <1>4, <1>6 DEF TypeInv

LEMMA ExpireTypes ==
  ASSUME TypeInv, NEW q \in Query, Expire(q) PROVE TypeInv'
<1>1. StoreTypes'
  BY DEF TypeInv, StoreTypes, Expire, stores
<1>2. UNCHANGED <<sections, flow, crashes, faults>>
  BY DEF Expire
<1>3. SectionTypes'
  BY <1>2 DEF TypeInv, SectionTypes, sections, flow
<1>4. FlowTypes'
  BY <1>2 DEF TypeInv, FlowTypes, flow
<1> QED BY <1>1, <1>3, <1>4 DEF TypeInv

LEMMA CrashTypes ==
  ASSUME KnowledgeParameters, TypeInv, Crash PROVE TypeInv'
<1>1. FlowTypes /\ StoreTypes /\ SectionTypes
  BY DEF TypeInv
<1>2. StoreTypes'
  BY <1>1 DEF StoreTypes, Crash, stores
<1>3. at' = [t \in Task |-> IF at[t] \in Left THEN at[t] ELSE "start"]
  BY DEF Crash
<1>4. at' \in [Task -> Place] /\ \A t \in Task : at'[t] \notin Inside
  BY <1>1, <1>3 DEF Inside, Left, Place, FlowTypes
<1>5. crashes' \in Nat /\ faults' \in Nat /\ crashes' + faults' <= MaxTroubles
  BY <1>1 DEF FlowTypes, Crash, Trouble, KnowledgeParameters
<1>6. <<>> \in Seq(ChunkIds) /\ <<>> \in Seq(Doc) /\ ToSet(<<>>) = {}
  BY DEF ToSet
<1>7. FlowTypes'
  BY <1>1, <1>4, <1>5, <1>6 DEF FlowTypes, Crash
<1>8. SectionTypes'
  BY <1>1, <1>4 DEF SectionTypes, Crash
<1> QED BY <1>2, <1>7, <1>8 DEF TypeInv

LEMMA SameTypes == TypeInv /\ UNCHANGED vars => TypeInv'
<1> SUFFICES ASSUME TypeInv, UNCHANGED vars PROVE TypeInv'
  OBVIOUS
<1>1. UNCHANGED <<stores, parsed, cache, sections, flow, crashes, faults>>
  BY DEF vars
<1>2. StoreTypes'
  BY <1>1, StoreFrame DEF TypeInv
<1>3. SectionTypes'
  BY <1>1 DEF TypeInv, SectionTypes, sections, flow
<1>4. FlowTypes'
  BY <1>1 DEF TypeInv, FlowTypes, flow
<1> QED BY <1>2, <1>3, <1>4 DEF TypeInv

LEMMA TypeStep ==
  ASSUME KnowledgeParameters, TypeInv, SourceInv, Next PROVE TypeInv'
<1>1. ASSUME NEW t \in Task, Step(t) PROVE TypeInv'
  <2>1. CASE Enter(t)
    BY <2>1, EnterTypes
  <2>2. CASE Parse(t)
    BY <2>2, ParseTypes
  <2>3. CASE ParseFails(t)
    BY <2>3, ParseFailsTypes
  <2>4. CASE StoreRows(t) \/ StoreNothing(t) \/ RowsFail(t) \/ StoreVectors(t) \/ VectorsFail(t)
    BY <2>4, SavesTypes
  <2>5. CASE StoreFacts(t) \/ FactsFail(t)
    BY <2>5, FactsTypes
  <2>6. CASE ExtractionRaises(t)
    BY <2>6, ExtractionTypes
  <2>7. CASE Mark(t)
    BY <2>7, MarkTypes
  <2>8. CASE KnowMark(t) \/ Block(t) \/ Keep(t) \/ KeepKnow(t)
    BY <2>8, SaveTypes
  <2>9. CASE Plan(t)
    BY <2>9, PlanTypes
  <2>10. CASE RecallText(t)
    BY <2>10, RecallTypes
  <2>11. CASE Rank(t)
    BY <2>11, RankTypes
  <2> QED BY <1>1, <2>1, <2>2, <2>3, <2>4, <2>5, <2>6, <2>7, <2>8, <2>9, <2>10, <2>11
          DEF Step, Ingest, Retrieve
<1>2. ASSUME NEW t \in Task, Again(t) PROVE TypeInv'
  BY <1>2, AgainTypes
<1>3. ASSUME NEW q \in Query, Expire(q) PROVE TypeInv'
  BY <1>3, ExpireTypes
<1>4. CASE Crash
  BY <1>4, CrashTypes
<1>5. CASE AllLeft
  BY <1>5, SameTypes DEF AllLeft
<1> QED BY <1>1, <1>2, <1>3, <1>4, <1>5 DEF Next

LEMMA ImpliesTypeOK == TypeInv => TypeOK
<1> SUFFICES ASSUME TypeInv PROVE TypeOK
  OBVIOUS
<1>1. /\ ToSet(rows) \subseteq ChunkIds /\ vectors \subseteq ChunkIds
      /\ \A f \in Fact : facts[f] = None \/ facts[f] \in ChunkIds
      /\ copies \in [Doc -> Nat]
  BY DEF TypeInv, StoreTypes, ToSet
<1>2. \A t \in Task :
        /\ saved[t] \in States(t) /\ mem[t] \in States(t) \union {None}
        /\ know[t] \in States(t) \union {None} /\ knowSaved[t] \in States(t) \union {None}
  BY DEF TypeInv, SectionTypes
<1>3. \A t \in Task :
        /\ ToSet(todo[t]) \subseteq Documents(t) /\ failed[t] \subseteq Documents(t)
        /\ batch[t] \in Seq(ChunkIds) /\ hits[t] \in Seq(ChunkIds) /\ Len(hits[t]) <= TopK
  BY DEF TypeInv, FlowTypes
<1>4. \A t \in Task : ToSet(batch[t]) \subseteq ChunkIds /\ ToSet(hits[t]) \subseteq ChunkIds
  BY <1>3 DEF ToSet
<1>5. /\ at \in [Task -> Place] /\ channels \in [Task -> SUBSET Channels]
      /\ round \in [Task -> Nat]
  BY DEF TypeInv, FlowTypes
<1>6. {crashes, faults} \subseteq 0 .. MaxTroubles
  <2>1. MaxTroubles \in Nat
    BY KnowledgeParameters DEF KnowledgeParameters
  <2>2. crashes \in Nat /\ faults \in Nat /\ crashes + faults <= MaxTroubles
    BY DEF TypeInv, FlowTypes
  <2> QED BY <2>1, <2>2
<1> QED BY <1>1, <1>2, <1>3, <1>4, <1>5, <1>6 DEF TypeOK

-----------------------------------------------------------------------------
(* The source of truth *)

LEMMA SourceInit == KnowledgeParameters /\ Init => SourceInv
BY DEF Init, SourceInv, SourceOfTruth

LEMMA FaultCounts ==
  ASSUME TypeInv, UNCHANGED faults \/ Fault
  PROVE  /\ faults' = 0 => faults = 0
         /\ Fault => faults' # 0
BY DEF TypeInv, FlowTypes, Fault

\* Steps that store nothing.
LEMMA SourceFrame ==
  ASSUME SourceInv, UNCHANGED <<rows, vectors, facts>>, faults' = 0 => faults = 0,
         \A u \in Task : at'[u] \in {"vectors", "graph"} =>
           at'[u] = at[u] /\ batch'[u] = batch[u]
  PROVE  SourceInv'
<1>1. SourceOfTruth'
  BY DEF SourceInv, SourceOfTruth
<1> SUFFICES ASSUME NEW u \in Task
             PROVE  /\ at'[u] = "vectors" => ToSet(batch'[u]) \subseteq ToSet(rows')
                    /\ at'[u] = "graph" =>
                         /\ Leaves(batch'[u]) # {}
                         /\ faults' = 0 => ToSet(batch'[u]) \subseteq ToSet(rows')
  BY <1>1 DEF SourceInv, Leaves
<1>2. CASE at'[u] \notin {"vectors", "graph"}
  BY <1>2
<1>3. CASE at'[u] \in {"vectors", "graph"}
  BY <1>3 DEF SourceInv
<1> QED BY <1>2, <1>3

\* A step of one task to another place than those of the stores.
LEMMA SourceElsewhere ==
  ASSUME TypeInv, SourceInv, NEW t \in Task, NEW place, GoTo(t, place),
         place \notin {"vectors", "graph"}, UNCHANGED <<rows, vectors, facts>>,
         UNCHANGED faults \/ Fault, \A u \in Task : u # t => batch'[u] = batch[u]
  PROVE  SourceInv'
<1>1. faults' = 0 => faults = 0
  BY FaultCounts
<1>2. \A u \in Task : at'[u] = IF u = t THEN place ELSE at[u]
  BY DEF GoTo, TypeInv, FlowTypes
<1> QED BY <1>1, <1>2, SourceFrame

\* A step of save_chunks_and_embeddings or of the graph.
LEMMA SourceStoring ==
  ASSUME TypeInv, SourceInv, NEW t \in Task, NEW place, GoTo(t, place), UNCHANGED rest,
         ToSet(rows) \subseteq ToSet(rows'), vectors' \subseteq ToSet(rows'),
         UNCHANGED faults \/ Fault,
         faults' = 0 => \A f \in Fact : facts'[f] # None => facts'[f] \in ToSet(rows'),
         place = "vectors" => ToSet(batch[t]) \subseteq ToSet(rows'),
         place = "graph" => /\ Leaves(batch[t]) # {}
                            /\ faults' = 0 => ToSet(batch[t]) \subseteq ToSet(rows')
  PROVE  SourceInv'
<1>1. faults' = 0 => faults = 0
  BY FaultCounts
<1>2. \A u \in Task : at'[u] = IF u = t THEN place ELSE at[u]
  BY DEF GoTo, TypeInv, FlowTypes
<1>3. batch' = batch
  BY DEF rest
<1>4. SourceOfTruth'
  BY DEF SourceOfTruth
<1>5. ASSUME NEW u \in Task
      PROVE  /\ at'[u] = "vectors" => ToSet(batch[u]) \subseteq ToSet(rows')
             /\ at'[u] = "graph" =>
                  /\ Leaves(batch[u]) # {}
                  /\ faults' = 0 => ToSet(batch[u]) \subseteq ToSet(rows')
  <2>1. CASE u = t
    BY <1>2, <2>1
  <2>2. CASE u # t
    <3>1. /\ at[u] = "vectors" => ToSet(batch[u]) \subseteq ToSet(rows)
          /\ at[u] = "graph" =>
               /\ Leaves(batch[u]) # {}
               /\ faults = 0 => ToSet(batch[u]) \subseteq ToSet(rows)
      BY DEF SourceInv
    <3> QED BY <1>1, <1>2, <2>2, <3>1
  <2> QED BY <2>1, <2>2
<1> QED BY <1>3, <1>4, <1>5 DEF SourceInv, Leaves

LEMMA SourceOfSaves ==
  ASSUME TypeInv, SourceInv, NEW t \in Task,
         StoreRows(t) \/ StoreNothing(t) \/ RowsFail(t) \/ StoreVectors(t) \/ VectorsFail(t)
  PROVE  SourceInv'
<1>1. /\ vectors \subseteq ToSet(rows)
      /\ faults = 0 => \A f \in Fact : facts[f] # None => facts[f] \in ToSet(rows)
  BY DEF SourceInv, SourceOfTruth
<1>2. /\ AfterSave(t) # "vectors"
      /\ AfterSave(t) = "graph" => Leaves(batch[t]) # {}
  BY DEF AfterSave
<1>3. rows \in Seq(ChunkIds) /\ batch[t] \in Seq(ChunkIds)
  BY DEF TypeInv, StoreTypes, FlowTypes
<1>4. CASE StoreRows(t)
  <2>1. rows' = Reverse(batch[t]) \o rows
    BY <1>4 DEF StoreRows
  <2>2. ToSet(Reverse(batch[t]) \o rows) = ToSet(batch[t]) \union ToSet(rows)
    BY <1>3, AppendTypes
  <2>3. ToSet(rows') = ToSet(batch[t]) \union ToSet(rows)
    BY <2>1, <2>2
  <2>4. /\ UNCHANGED <<vectors, facts, faults, rest>>
        /\ GoTo(t, IF Leaves(batch[t]) # {} THEN "vectors" ELSE AfterSave(t))
    BY <1>4 DEF StoreRows
  <2>5. /\ ToSet(rows) \subseteq ToSet(rows') /\ vectors' \subseteq ToSet(rows')
        /\ ToSet(batch[t]) \subseteq ToSet(rows')
        /\ faults' = 0 => \A f \in Fact : facts'[f] # None => facts'[f] \in ToSet(rows')
    BY <1>1, <2>3, <2>4
  <2>6. (IF Leaves(batch[t]) # {} THEN "vectors" ELSE AfterSave(t)) = "graph" =>
          Leaves(batch[t]) # {}
    BY <1>2
  <2> QED BY <2>4, <2>5, <2>6, SourceStoring
<1>5. CASE StoreNothing(t)
  <2>1. AfterSave(t) # "graph"
    BY <1>2, <1>5 DEF StoreNothing, Leaves, ToSet
  <2> QED BY <1>1, <1>2, <1>5, <2>1, SourceStoring DEF StoreNothing
<1>6. CASE RowsFail(t)
  <2>1. faults' # 0
    BY <1>6, FaultCounts DEF RowsFail
  <2> QED BY <1>1, <1>2, <1>6, <2>1, SourceStoring DEF RowsFail
<1>7. CASE StoreVectors(t)
  <2>1. ToSet(batch[t]) \subseteq ToSet(rows)
    BY <1>7 DEF StoreVectors, Doing, SourceInv
  <2>2. vectors' \subseteq ToSet(rows)
    BY <1>1, <1>7, <2>1 DEF StoreVectors, Leaves
  <2> QED BY <1>1, <1>2, <1>7, <2>1, <2>2, SourceStoring DEF StoreVectors
<1>8. CASE VectorsFail(t)
  <2>1. faults' # 0
    BY <1>8, FaultCounts DEF VectorsFail
  <2> QED BY <1>1, <1>2, <1>8, <2>1, SourceStoring DEF VectorsFail
<1> QED BY <1>4, <1>5, <1>6, <1>7, <1>8

LEMMA SourceOfFacts ==
  ASSUME KnowledgeParameters, TypeInv, SourceInv, NEW t \in Task,
         StoreFacts(t) \/ FactsFail(t)
  PROVE  SourceInv'
<1>1. /\ vectors \subseteq ToSet(rows)
      /\ faults = 0 => \A f \in Fact : facts[f] # None => facts[f] \in ToSet(rows)
  BY DEF SourceInv, SourceOfTruth
<1>2. at[t] = "graph"
  BY DEF StoreFacts, FactsFail, Doing
<1>3. Leaves(batch[t]) # {} /\ (faults = 0 => ToSet(batch[t]) \subseteq ToSet(rows))
  BY <1>2 DEF SourceInv
<1>4. batch[t] \in Seq(ChunkIds)
  BY DEF TypeInv, FlowTypes
<1>5. CASE StoreFacts(t)
  <2>1. Supporting(batch[t]) \in ToSet(batch[t])
    <3>1. Supporting(batch[t]) \in Leaves(batch[t])
      BY <1>3, <1>4, SupportingIs
    <3> QED BY <3>1 DEF Leaves
  <2>2. facts \in [Fact -> ChunkIds \union {None}]
    BY DEF TypeInv, StoreTypes
  <2>3. /\ facts' = [facts EXCEPT ![FactOf[Head(todo[t])]] = Supporting(batch[t])]
        /\ UNCHANGED <<rows, vectors, faults, rest>> /\ GoTo(t, "mark")
    BY <1>5 DEF StoreFacts
  <2>4. ASSUME faults' = 0, NEW f \in Fact, facts'[f] # None
        PROVE  facts'[f] \in ToSet(rows')
    <3>1. facts'[f] = Supporting(batch[t]) \/ facts'[f] = facts[f]
      BY <2>2, <2>3
    <3> QED BY <1>1, <1>3, <2>1, <2>3, <2>4, <3>1
  <2> QED BY <1>1, <2>3, <2>4, SourceStoring
<1>6. CASE FactsFail(t)
  BY <1>6, SourceElsewhere DEF FactsFail, rest
<1> QED BY <1>5, <1>6

LEMMA SourceStep ==
  ASSUME KnowledgeParameters, TypeInv, SourceInv, Next PROVE SourceInv'
<1>1. ASSUME NEW t \in Task, Step(t) PROVE SourceInv'
  <2>1. CASE Enter(t)
    BY <2>1, SourceElsewhere DEF Enter, stores
  <2>2. CASE Parse(t)
    <3>1. UNCHANGED faults \/ Fault
      BY <2>2 DEF Parse
    <3>2. \A u \in Task : u # t => batch'[u] = batch[u]
      BY <2>2 DEF Parse, TypeInv, FlowTypes
    <3> QED BY <2>2, <3>1, <3>2, SourceElsewhere DEF Parse
  <2>3. CASE ParseFails(t)
    BY <2>3, SourceElsewhere DEF ParseFails, GiveUp, stores
  <2>4. CASE StoreRows(t) \/ StoreNothing(t) \/ RowsFail(t) \/ StoreVectors(t) \/ VectorsFail(t)
    BY <2>4, SourceOfSaves
  <2>5. CASE StoreFacts(t) \/ FactsFail(t)
    BY <2>5, SourceOfFacts
  <2>6. CASE ExtractionRaises(t)
    BY <2>6, SourceElsewhere DEF ExtractionRaises, GiveUp, rest
  <2>7. CASE Mark(t)
    BY <2>7, SourceElsewhere DEF Mark, marking, stores
  <2>8. CASE KnowMark(t)
    BY <2>8, SourceElsewhere DEF KnowMark, SaveKnow, marking, stores
  <2>9. CASE Block(t)
    BY <2>9, SourceElsewhere DEF Block, Save, marking, stores
  <2>10. CASE Plan(t)
    <3>1. UNCHANGED faults \/ Fault
      BY <2>10 DEF Plan
    <3>2. /\ GoTo(t, IF cache[QueryOf[t]] = None THEN "recall" ELSE "keep")
          /\ UNCHANGED <<rows, vectors, facts, batch>>
      BY <2>10 DEF Plan, searching, stores
    <3> QED BY <3>1, <3>2, SourceElsewhere
  <2>11. CASE RecallText(t)
    <3>1. UNCHANGED faults \/ Fault
      BY <2>11 DEF RecallText
    <3> QED BY <2>11, <3>1, SourceElsewhere DEF RecallText, searching, stores
  <2>12. CASE Rank(t)
    BY <2>12, SourceElsewhere DEF Rank, searching, stores
  <2>13. CASE Keep(t)
    BY <2>13, SourceElsewhere DEF Keep, Save, marking, stores
  <2>14. CASE KeepKnow(t)
    BY <2>14, SourceElsewhere DEF KeepKnow, SaveKnow, marking, stores
  <2> QED BY <1>1, <2>1, <2>2, <2>3, <2>4, <2>5, <2>6, <2>7, <2>8, <2>9, <2>10, <2>11, <2>12,
             <2>13, <2>14 DEF Step, Ingest, Retrieve
<1>2. ASSUME NEW t \in Task, Again(t) PROVE SourceInv'
  BY <1>2, SourceElsewhere DEF Again, stores
<1>3. ASSUME NEW q \in Query, Expire(q) PROVE SourceInv'
  BY <1>3, SourceFrame DEF Expire, stores, flow
<1>4. CASE Crash
  <2>1. \A u \in Task : at'[u] \notin {"vectors", "graph"}
    BY <1>4 DEF Crash, Left
  <2> QED BY <1>4, <2>1, SourceFrame DEF Crash, stores
<1>5. CASE AllLeft
  BY <1>5, SourceFrame DEF AllLeft, vars, stores, flow
<1> QED BY <1>1, <1>2, <1>3, <1>4, <1>5 DEF Next

\* Any step, a stuttering one included.
LEMMA StoreStep ==
  ASSUME KnowledgeParameters, TypeInv, SourceInv, [Next]_vars PROVE TypeInv' /\ SourceInv'
<1>1. CASE Next
  BY <1>1, TypeStep, SourceStep
<1>2. CASE UNCHANGED vars
  BY <1>2, SameTypes, SourceFrame DEF vars, stores, flow
<1> QED BY <1>1, <1>2

\* The invariant of the theorems.
Inv == TypeInv /\ SourceInv

LEMMA Invariance == Spec => []Inv
<1>1. Init => Inv
  BY TypeInit, SourceInit, KnowledgeParameters DEF Inv
<1>2. Inv /\ [Next]_vars => Inv'
  BY StoreStep, KnowledgeParameters DEF Inv
<1> QED BY <1>1, <1>2, PTL DEF Spec

\* The variables keep their types: the chunks of every list are chunks of documents,
\* an answer has at most as many hits as the plan allows, and a task's lists have only
\* its own documents.
THEOREM TypeCorrect == Spec => []TypeOK
<1>1. Inv => TypeOK
  BY ImpliesTypeOK DEF Inv
<1> QED BY <1>1, Invariance, PTL

\* Whatever fails or dies, in whatever order the tasks store, a point in Qdrant
\* belongs to a row in Postgres; so does what a relation cites as long as no call
\* failed (save_chunks_and_embeddings, save_graph_triples).
THEOREM QdrantIsInPostgres == Spec => []SourceOfTruth
<1>1. Inv => SourceOfTruth
  BY DEF Inv, SourceInv
<1> QED BY <1>1, Invariance, PTL

-----------------------------------------------------------------------------
(* What is recorded is not ingested again *)

LEMMA EmptyInjective == IsInjective(<<>>) /\ \A i \in DOMAIN <<>> : FALSE
BY DEF IsInjective

LEMMA TailInjective ==
  ASSUME NEW S, NEW list \in Seq(S), list # <<>>, IsInjective(list)
  PROVE  /\ IsInjective(Tail(list))
         /\ \A i \in DOMAIN Tail(list) : \E k \in DOMAIN list : k # 1 /\ Tail(list)[i] = list[k]
         /\ \A i \in DOMAIN list : i # 1 => list[i] # Head(list)
<1>1. /\ Tail(list) \in Seq(S) /\ Len(Tail(list)) = Len(list) - 1 /\ Len(list) >= 1
      /\ Len(list) \in Nat /\ Head(list) = list[1]
      /\ \A i \in 1 .. Len(Tail(list)) : Tail(list)[i] = list[i + 1]
      /\ DOMAIN list = 1 .. Len(list) /\ DOMAIN Tail(list) = 1 .. Len(Tail(list))
  OBVIOUS
<1> DEFINE r == Tail(list)
<1> HIDE DEF r
<1>2. \A i \in DOMAIN r : i + 1 \in DOMAIN list /\ i + 1 # 1 /\ r[i] = list[i + 1] /\ i \in Nat
  BY <1>1 DEF r
<1>3. \A i, k \in DOMAIN list : list[i] = list[k] => i = k
  BY DEF IsInjective
<1>4. IsInjective(r)
  BY <1>2, <1>3 DEF IsInjective
<1>5. \A i \in DOMAIN r : \E k \in DOMAIN list : k # 1 /\ r[i] = list[k]
  BY <1>2
<1>6. \A i \in DOMAIN list : i # 1 => list[i] # Head(list)
  BY <1>1, <1>3
<1> QED BY <1>4, <1>5, <1>6 DEF r

LEMMA MarkFrame ==
  ASSUME MarkInv, NEW t \in Task,
         \A u \in Task : u # t => /\ at'[u] = at[u] /\ mem'[u] = mem[u]
                                  /\ saved'[u] = saved[u] /\ todo'[u] = todo[u],
         Ahead(at'[t], mem'[t], saved'[t], todo'[t], Documents(t))
  PROVE  MarkInv'
<1>1. ASSUME NEW u \in Task PROVE Ahead(at'[u], mem'[u], saved'[u], todo'[u], Documents(u))
  <2>1. CASE u = t
    BY <2>1
  <2>2. CASE u # t
    BY <2>2 DEF MarkInv
  <2> QED BY <2>1, <2>2
<1> QED BY <1>1 DEF MarkInv, Documents

LEMMA AheadMoves ==
  ASSUME NEW p, NEW q, NEW m, NEW s, NEW list, NEW D, Ahead(p, m, s, list, D),
         q \in Inside => p \in Inside, q \in Work => p \in Work,
         q = "know_mark" => p = "know_mark"
  PROVE  Ahead(q, m, s, list, D)
BY DEF Ahead

\* A step of one task with the same documents, states and list.
LEMMA MarkMoves ==
  ASSUME TypeInv, MarkInv, NEW t \in Task, NEW q, GoTo(t, q),
         q \in Inside => at[t] \in Inside, q \in Work => at[t] \in Work,
         q = "know_mark" => at[t] = "know_mark", UNCHANGED <<mem, saved, todo>>
  PROVE  MarkInv'
<1>1. at' = [at EXCEPT ![t] = q] /\ at \in [Task -> Place]
  BY DEF GoTo, TypeInv, FlowTypes
<1>2. Ahead(at[t], mem[t], saved[t], todo[t], Documents(t))
  BY DEF MarkInv
<1>3. Ahead(q, mem[t], saved[t], todo[t], Documents(t))
  BY <1>2, AheadMoves
<1>4. at'[t] = q /\ mem'[t] = mem[t] /\ saved'[t] = saved[t] /\ todo'[t] = todo[t]
  BY <1>1
<1>5. Ahead(at'[t], mem'[t], saved'[t], todo'[t], Documents(t))
  BY <1>3, <1>4
<1>6. \A u \in Task : u # t => /\ at'[u] = at[u] /\ mem'[u] = mem[u]
                               /\ saved'[u] = saved[u] /\ todo'[u] = todo[u]
  BY <1>1
<1> QED BY <1>5, <1>6, MarkFrame

LEMMA AheadTail ==
  ASSUME NEW p, NEW m, NEW s, NEW list \in Seq(Doc), NEW D, Ahead(p, m, s, list, D),
         list # <<>>, p \in Work \union {"know_mark"}
  PROVE  Ahead("next", m, s, Tail(list), D)
<1>1. IsInjective(list) /\ \A i \in DOMAIN list : i # 1 => m[list[i]] # "parsed"
  BY DEF Ahead, Work
<1>2. \A d \in D : s[d] = "parsed" => m[d] = "parsed"
  BY PlacesAre DEF Ahead, Work
<1>3. /\ IsInjective(Tail(list))
      /\ \A i \in DOMAIN Tail(list) : \E k \in DOMAIN list : k # 1 /\ Tail(list)[i] = list[k]
  BY <1>1, TailInjective
<1>4. \A i \in DOMAIN Tail(list) : m[Tail(list)[i]] # "parsed"
  BY <1>1, <1>3
<1> QED BY <1>2, <1>3, <1>4 DEF Ahead

\* A step that is done with a document.
LEMMA MarkTail ==
  ASSUME TypeInv, MarkInv, NEW t \in Task, at[t] \in Work \union {"know_mark"},
         todo[t] # <<>>, GoTo(t, "next"), todo' = [todo EXCEPT ![t] = Tail(todo[t])],
         UNCHANGED <<mem, saved>>
  PROVE  MarkInv'
<1>1. at' = [at EXCEPT ![t] = "next"] /\ at \in [Task -> Place] /\ todo \in [Task -> Seq(Doc)]
  BY DEF GoTo, TypeInv, FlowTypes
<1>2. Ahead(at[t], mem[t], saved[t], todo[t], Documents(t))
  BY DEF MarkInv
<1>3. Ahead("next", mem[t], saved[t], Tail(todo[t]), Documents(t))
  BY <1>1, <1>2, AheadTail
<1>4. at'[t] = "next" /\ mem'[t] = mem[t] /\ saved'[t] = saved[t] /\ todo'[t] = Tail(todo[t])
  BY <1>1
<1>5. Ahead(at'[t], mem'[t], saved'[t], todo'[t], Documents(t))
  BY <1>3, <1>4
<1>6. \A u \in Task : u # t => /\ at'[u] = at[u] /\ mem'[u] = mem[u]
                               /\ saved'[u] = saved[u] /\ todo'[u] = todo[u]
  BY <1>1
<1> QED BY <1>5, <1>6, MarkFrame

\* A step that saves what is in memory, or nothing.
LEMMA MarkSaves ==
  ASSUME TypeInv, MarkInv, NEW t \in Task, NEW q, GoTo(t, q), at[t] \in Inside, q \notin Work,
         q # "know_mark", Save(t), UNCHANGED <<mem, todo>>
  PROVE  MarkInv'
<1>1. at' = [at EXCEPT ![t] = q] /\ at \in [Task -> Place]
  BY DEF GoTo, TypeInv, FlowTypes
<1>2. Ahead(at[t], mem[t], saved[t], todo[t], Documents(t))
  BY DEF MarkInv
<1>3. PICK s \in States(t) : (s = mem[t] \/ s = saved[t]) /\ saved' = [saved EXCEPT ![t] = s]
  BY SaveIs
<1>4. /\ at'[t] = q /\ mem'[t] = mem[t] /\ saved'[t] = s /\ todo'[t] = todo[t]
  BY <1>1, <1>3 DEF TypeInv, SectionTypes
<1>5. Ahead(q, mem[t], s, todo[t], Documents(t))
  BY <1>2, <1>3 DEF Ahead
<1>6. Ahead(at'[t], mem'[t], saved'[t], todo'[t], Documents(t))
  BY <1>4, <1>5
<1>7. \A u \in Task : u # t => /\ at'[u] = at[u] /\ mem'[u] = mem[u]
                               /\ saved'[u] = saved[u] /\ todo'[u] = todo[u]
  BY <1>1, <1>3 DEF TypeInv, SectionTypes
<1> QED BY <1>6, <1>7, MarkFrame

LEMMA MarkEnter ==
  ASSUME KnowledgeParameters, TypeInv, MarkInv, NEW t \in Task, Enter(t) PROVE MarkInv'
<1> DEFINE m == IF mem[t] = None THEN saved[t] ELSE mem[t]
           list == Unparsed(t, m)
<1>1. at[t] = "start" /\ at' = [at EXCEPT ![t] = "next"] /\ mem' = [mem EXCEPT ![t] = m]
      /\ UNCHANGED saved
  BY DEF Enter, GoTo
<1>2. /\ at'[t] = "next" /\ mem'[t] = m
      /\ \A u \in Task : u # t => at'[u] = at[u] /\ mem'[u] = mem[u]
  BY <1>1 DEF TypeInv, FlowTypes, SectionTypes
<1>3. todo' = [todo EXCEPT ![t] = Unparsed(t, mem'[t])]
  BY DEF Enter
<1>4. todo'[t] = list /\ \A u \in Task : u # t => todo'[u] = todo[u]
  BY <1>2, <1>3 DEF TypeInv, FlowTypes
<1>5. \A d \in Documents(t) : saved[t][d] = "parsed" => m[d] = "parsed"
  BY DEF MarkInv, Ahead
<1>6. IsInjective(list) /\ \A i \in DOMAIN list : m[list[i]] # "parsed"
  BY UnparsedAre
<1> HIDE DEF m, list
<1>7. Ahead("next", m, saved[t], list, Documents(t))
  BY <1>5, <1>6 DEF Ahead
<1>8. Ahead(at'[t], mem'[t], saved'[t], todo'[t], Documents(t))
  BY <1>1, <1>2, <1>4, <1>7
<1> QED BY <1>1, <1>2, <1>4, <1>8, MarkFrame

LEMMA MarkMark ==
  ASSUME KnowledgeParameters, TypeInv, MarkInv, NEW t \in Task, Mark(t) PROVE MarkInv'
<1>1. at[t] = "mark" /\ todo[t] # <<>> /\ todo[t] \in Seq(Doc) /\ at[t] \in Inside
      /\ ToSet(todo[t]) \subseteq Documents(t)
  BY PlacesAre DEF Mark, Doing, TypeInv, FlowTypes
<1> DEFINE list == todo[t]
           d == Head(list)
           m == [mem[t] EXCEPT ![d] = "parsed"]
<1>2. /\ mem' = [mem EXCEPT ![t] = m] /\ GoTo(t, "know_mark") /\ UNCHANGED todo
      /\ saved' = saved \/ saved' = [saved EXCEPT ![t] = mem'[t]]
  BY DEF Mark
<1>3. mem[t] \in States(t) /\ d \in Documents(t)
  BY <1>1, SectionsAre, TailTypes
<1>4. m[d] = "parsed" /\ \A e \in Documents(t) : e # d => m[e] = mem[t][e]
  BY <1>3 DEF States
<1>5. /\ at'[t] = "know_mark" /\ mem'[t] = m
      /\ saved'[t] = saved[t] \/ saved'[t] = m
      /\ \A u \in Task : u # t => /\ at'[u] = at[u] /\ mem'[u] = mem[u]
                                  /\ saved'[u] = saved[u] /\ todo'[u] = todo[u]
  BY <1>2 DEF TypeInv, FlowTypes, SectionTypes, GoTo
<1>6. Ahead(at[t], mem[t], saved[t], list, Documents(t))
  BY DEF MarkInv
<1>7. /\ IsInjective(list)
      /\ \A e \in Documents(t) : saved[t][e] = "parsed" => mem[t][e] = "parsed"
      /\ \A i \in DOMAIN list : mem[t][list[i]] # "parsed"
  BY <1>1, <1>6 DEF Ahead, Work
<1>8. \A i \in DOMAIN list : list[i] \in Documents(t) /\ (i # 1 => list[i] # d)
  BY <1>1, <1>7, TailInjective DEF ToSet
<1> HIDE DEF m, d
<1>9. \A i \in DOMAIN list : i # 1 => m[list[i]] # "parsed"
  BY <1>4, <1>7, <1>8
<1>10. \A e \in Documents(t) : saved'[t][e] = "parsed" => m[e] = "parsed"
  BY <1>4, <1>5, <1>7
<1>11. Ahead("know_mark", m, saved'[t], list, Documents(t))
  BY <1>7, <1>9, <1>10 DEF Ahead, Work
<1>12. Ahead(at'[t], mem'[t], saved'[t], todo'[t], Documents(t))
  BY <1>2, <1>5, <1>11
<1> QED BY <1>5, <1>12, MarkFrame

LEMMA MarkSame ==
  ASSUME MarkInv, UNCHANGED <<at, mem, saved, todo>> PROVE MarkInv'
BY DEF MarkInv, Documents

LEMMA MarkCrash ==
  ASSUME TypeInv, MarkInv, Crash PROVE MarkInv'
<1>1. /\ at' = [t \in Task |-> IF at[t] \in Left THEN at[t] ELSE "start"]
      /\ mem' = [t \in Task |-> None] /\ todo' = [t \in Task |-> <<>>]
  BY DEF Crash
<1> SUFFICES ASSUME NEW t \in Task
             PROVE  Ahead(at'[t], mem'[t], saved'[t], todo'[t], Documents(t))
  BY DEF MarkInv, Documents
<1>2. mem'[t] = None /\ todo'[t] = <<>>
  BY <1>1
<1>3. at'[t] \in Left \union {"start"}
  BY <1>1
<1>4. at'[t] \notin Inside /\ at'[t] \notin Work /\ at'[t] # "know_mark"
  BY <1>3 DEF Inside, Left, Work
<1> QED BY <1>2, <1>4, EmptyInjective DEF Ahead

LEMMA MarkStep ==
  ASSUME KnowledgeParameters, TypeInv, MarkInv, Next PROVE MarkInv'
<1>0. Work \subseteq Inside
  BY PlacesAre DEF Work
<1>1. ASSUME NEW t \in Task, Step(t) PROVE MarkInv'
  <2>0. {"vectors", "mark", "rows", AfterSave(t)} \subseteq Work
    BY AfterSaveIs DEF Work
  <2>1. CASE Enter(t)
    BY <2>1, MarkEnter
  <2>2. CASE Parse(t)
    BY <1>0, <2>0, <2>2, MarkMoves DEF Parse, Doing, sections, Work
  <2>3. CASE ParseFails(t)
    BY <2>3, MarkTail DEF ParseFails, Doing, GiveUp, sections, Work
  <2>4. CASE StoreRows(t)
    <3>1. (IF Leaves(batch[t]) # {} THEN "vectors" ELSE AfterSave(t)) \in Work
      BY <2>0
    <3>2. at[t] \in Work
      BY <2>4 DEF StoreRows, Doing, Work
    <3>3. /\ GoTo(t, IF Leaves(batch[t]) # {} THEN "vectors" ELSE AfterSave(t))
          /\ UNCHANGED <<mem, saved, todo>>
      BY <2>4 DEF StoreRows, rest, sections
    <3> QED BY <1>0, <3>1, <3>2, <3>3, MarkMoves DEF Work
  <2>5. CASE StoreNothing(t) \/ RowsFail(t) \/ StoreVectors(t) \/ VectorsFail(t)
    <3>1. /\ GoTo(t, AfterSave(t)) /\ UNCHANGED <<mem, saved, todo>> /\ at[t] \in Work
      BY <2>5 DEF StoreNothing, RowsFail, StoreVectors, VectorsFail, Doing, rest, sections, Work
    <3> QED BY <1>0, <2>0, <3>1, MarkMoves DEF Work
  <2>6. CASE StoreFacts(t) \/ FactsFail(t)
    <3>1. /\ GoTo(t, "mark") /\ UNCHANGED <<mem, saved, todo>> /\ at[t] \in Work
      BY <2>6 DEF StoreFacts, FactsFail, Doing, rest, sections, Work
    <3> QED BY <1>0, <2>0, <3>1, MarkMoves DEF Work
  <2>7. CASE ExtractionRaises(t)
    BY <2>7, MarkTail DEF ExtractionRaises, Doing, GiveUp, rest, sections, Work
  <2>8. CASE Mark(t)
    BY <2>8, MarkMark
  <2>9. CASE KnowMark(t)
    BY <2>9, MarkTail DEF KnowMark, Doing
  <2>10. CASE Block(t)
    BY <2>10, MarkSaves, PlacesAre DEF Block, Work
  <2>11. CASE Plan(t)
    <3> DEFINE q == IF cache[QueryOf[t]] = None THEN "recall" ELSE "keep"
    <3>1. GoTo(t, q) /\ UNCHANGED <<mem, saved, todo>> /\ at[t] = "next"
      BY <2>11 DEF Plan, searching, sections
    <3>2. q \notin Work /\ q # "know_mark" /\ at[t] \in Inside
      BY <3>1, PlacesAre DEF Work
    <3> QED BY <3>1, <3>2, MarkMoves
  <2>12. CASE RecallText(t)
    BY <2>12, MarkMoves, PlacesAre DEF RecallText, searching, sections, Work
  <2>13. CASE Rank(t)
    BY <2>13, MarkMoves, PlacesAre DEF Rank, searching, sections, Work
  <2>14. CASE Keep(t)
    BY <2>14, MarkSaves, PlacesAre DEF Keep, Work
  <2>15. CASE KeepKnow(t)
    BY <2>15, MarkMoves, PlacesAre DEF KeepKnow, Work
  <2> QED BY <1>1, <2>1, <2>2, <2>3, <2>4, <2>5, <2>6, <2>7, <2>8, <2>9, <2>10, <2>11, <2>12,
             <2>13, <2>14, <2>15 DEF Step, Ingest, Retrieve
<1>2. ASSUME NEW t \in Task, Again(t) PROVE MarkInv'
  BY <1>2, MarkMoves, PlacesAre DEF Again, sections, Work
<1>3. ASSUME NEW q \in Query, Expire(q) PROVE MarkInv'
  BY <1>3, MarkSame DEF Expire, sections, flow
<1>4. CASE Crash
  BY <1>4, MarkCrash
<1>5. CASE AllLeft
  BY <1>5, MarkSame DEF AllLeft, vars, sections, flow
<1> QED BY <1>1, <1>2, <1>3, <1>4, <1>5 DEF Next

LEMMA MarkInit == KnowledgeParameters /\ Init => MarkInv
<1> SUFFICES ASSUME Init, NEW t \in Task
             PROVE  Ahead(at[t], mem[t], saved[t], todo[t], Documents(t))
  BY DEF MarkInv
<1>1. at[t] = "start" /\ saved = mem /\ mem[t] = Pending(t) /\ todo[t] = <<>>
  BY DEF Init
<1>2. \A d \in Documents(t) : saved[t][d] = "pending"
  BY <1>1 DEF Pending
<1> QED BY <1>1, <1>2, EmptyInjective DEF Ahead, Work

\* Only Parse takes a document from the list to the stores.
LEMMA OnlyParse ==
  ASSUME TypeInv, NEW t \in Task, Next, at[t] = "next", at'[t] = "rows"
  PROVE  Parse(t)
<1>1. at \in [Task -> Place]
  BY DEF TypeInv, FlowTypes
<1>2. \A u \in Task : \A q : GoTo(u, q) => u = t /\ q = "rows"
  BY <1>1 DEF GoTo
<1>3. AfterSave(t) # "rows"
  BY AfterSaveIs
<1>4. ASSUME NEW u \in Task, Step(u) PROVE Parse(t)
  <2>1. \A q \in {"next", "mark", "know_mark", "blocked", "recall", "keep", "recall_more",
                  "keep_know", "answered"} : ~ GoTo(u, q)
    BY <1>2
  <2>2. CASE Enter(u)
    BY <2>1, <2>2 DEF Enter
  <2>3. CASE Parse(u)
    BY <1>2, <2>3 DEF Parse
  <2>4. CASE ParseFails(u)
    BY <2>1, <2>4 DEF ParseFails, GiveUp
  <2>5. CASE StoreRows(u) \/ StoreNothing(u) \/ RowsFail(u) \/ StoreVectors(u) \/ VectorsFail(u)
    <3>1. u = t
      BY <1>2, <2>5 DEF StoreRows, StoreNothing, RowsFail, StoreVectors, VectorsFail
    <3> QED BY <2>5, <3>1 DEF StoreRows, StoreNothing, RowsFail, StoreVectors, VectorsFail, Doing
  <2>6. CASE StoreFacts(u) \/ FactsFail(u)
    BY <2>1, <2>6 DEF StoreFacts, FactsFail
  <2>7. CASE ExtractionRaises(u)
    BY <2>1, <2>7 DEF ExtractionRaises, GiveUp
  <2>8. CASE Mark(u) \/ KnowMark(u) \/ Block(u)
    BY <2>1, <2>8 DEF Mark, KnowMark, Block
  <2>9. CASE Plan(u)
    <3>1. \E q \in {"recall", "keep"} : GoTo(u, q)
      BY <2>9 DEF Plan
    <3> QED BY <2>1, <3>1
  <2>10. CASE RecallText(u) \/ Rank(u) \/ Keep(u) \/ KeepKnow(u)
    BY <2>1, <2>10 DEF RecallText, Rank, Keep, KeepKnow
  <2> QED BY <1>4, <2>2, <2>3, <2>4, <2>5, <2>6, <2>7, <2>8, <2>9, <2>10
          DEF Step, Ingest, Retrieve
<1>5. ASSUME NEW u \in Task PROVE ~ Again(u)
  BY <1>2 DEF Again
<1>6. ASSUME NEW q \in Query PROVE ~ Expire(q)
  BY DEF Expire, flow
<1>7. ~ Crash
  BY DEF Crash, Left
<1>8. ~ AllLeft
  BY DEF AllLeft, vars, flow
<1> QED BY <1>4, <1>5, <1>6, <1>7, <1>8 DEF Next

\* A document whose parsed mark reached the row is never ingested again by its task:
\* the node restores the execution section, never the knowledge section, to decide.
THEOREM RecordedOnce == Spec => IngestedOnceRecorded
<1> DEFINE All == Inv /\ MarkInv
           Once == \A t \in Task : at[t] = "next" /\ at'[t] = "rows" =>
                     saved[t][Head(todo[t])] # "parsed"
<1>1. Init => All
  BY TypeInit, SourceInit, MarkInit, KnowledgeParameters DEF Inv
<1>2. All /\ [Next]_vars => All'
  <2>1. All /\ Next => All'
    BY TypeStep, SourceStep, MarkStep, KnowledgeParameters DEF Inv
  <2>2. All /\ UNCHANGED vars => All'
    BY StoreStep, MarkSame, KnowledgeParameters DEF Inv, vars, sections, flow
  <2> QED BY <2>1, <2>2
<1>3. All /\ [Next]_vars => [Once]_vars
  <2> SUFFICES ASSUME All, Next, NEW t \in Task, at[t] = "next", at'[t] = "rows",
                      saved[t][Head(todo[t])] = "parsed"
               PROVE  FALSE
    OBVIOUS
  <2>1. todo[t] # <<>> /\ TypeInv /\ MarkInv
    BY OnlyParse DEF Inv, Parse, Doing
  <2>2. todo[t] \in Seq(Doc) /\ ToSet(todo[t]) \subseteq Documents(t)
    BY <2>1 DEF TypeInv, FlowTypes
  <2>3. Head(todo[t]) \in Documents(t) /\ 1 \in DOMAIN todo[t] /\ Head(todo[t]) = todo[t][1]
    BY <2>1, <2>2, TailTypes
  <2>4. Ahead("next", mem[t], saved[t], todo[t], Documents(t))
    BY <2>1 DEF MarkInv
  <2> QED BY <2>3, <2>4, PlacesAre DEF Ahead, Work
<1> HIDE DEF All
<1> QED BY <1>1, <1>2, <1>3, PTL DEF Spec, IngestedOnceRecorded

-----------------------------------------------------------------------------
(* The answers *)

LEMMA HasMore ==
  ASSUME NEW R, NEW R2, R \subseteq R2, NEW d, Has(R, d) PROVE Has(R2, d)
BY DEF Has

LEMMA RecordedMore ==
  ASSUME NEW R, NEW R2, R \subseteq R2, NEW p, NEW q, NEW m, NEW s, NEW D,
         Recorded(R, p, m, s, D), q \in Inside => p \in Inside, q \in Late => p \in Late
  PROVE  Recorded(R2, q, m, s, D)
BY HasMore DEF Recorded

LEMMA StoringMore ==
  ASSUME NEW R, NEW R2, R \subseteq R2, NEW p, NEW l, NEW b, Storing(R, p, l, b)
  PROVE  Storing(R2, p, l, b)
BY HasMore DEF Storing

\* The other tasks' part of the process and of the row is left alone.
Others(t) ==
  \A u \in Task : u # t =>
    /\ at'[u] = at[u] /\ mem'[u] = mem[u] /\ saved'[u] = saved[u] /\ todo'[u] = todo[u]
    /\ batch'[u] = batch[u] /\ failed'[u] = failed[u] /\ found'[u] = found[u]
    /\ hits'[u] = hits[u] /\ cached'[u] = cached[u]

\* New rows push older ones down.
LEMMA RecentsLess ==
  ASSUME NEW R \in Seq(ChunkIds), NEW b \in Seq(ChunkIds), NEW D, Window \in Nat
  PROVE  Recents(b \o R, D) \subseteq Recents(R, D)
<1> DEFINE w == b \o R
<1>1. \A i \in DOMAIN R : /\ Len(b) + i \in DOMAIN w /\ w[Len(b) + i] = R[i]
                          /\ i <= Len(b) + i /\ i \in Nat /\ Len(b) \in Nat
  OBVIOUS
<1> HIDE DEF w
<1> SUFFICES ASSUME NEW d \in Recents(w, D), NEW i \in DOMAIN R, R[i].doc = d PROVE i <= Window
  BY DEF Recents, w
<1>2. Len(b) + i <= Window
  BY <1>1 DEF Recents
<1> QED BY <1>1, <1>2

LEMMA RowsGrow ==
  ASSUME KnowledgeParameters, TypeInv,
         rows' = rows \/ \E b \in Seq(ChunkIds) : rows' = b \o rows
  PROVE  /\ ToSet(rows) \subseteq ToSet(rows')
         /\ \A D : Recents(rows', D) \subseteq Recents(rows, D)
<1>1. rows \in Seq(ChunkIds) /\ Window \in Nat
  BY DEF TypeInv, StoreTypes, KnowledgeParameters
<1>2. CASE rows' = rows
  BY <1>2
<1>3. ASSUME NEW b \in Seq(ChunkIds), rows' = b \o rows
      PROVE  /\ ToSet(rows) \subseteq ToSet(rows')
             /\ \A D : Recents(rows', D) \subseteq Recents(rows, D)
  <2>1. \A i \in DOMAIN rows : Len(b) + i \in DOMAIN rows' /\ rows'[Len(b) + i] = rows[i]
    BY <1>1, <1>3
  <2> QED BY <1>1, <1>3, <2>1, RecentsLess DEF ToSet
<1> QED BY <1>2, <1>3

LEMMA ShowingLess ==
  ASSUME NEW p, NEW fd, NEW h, NEW c, NEW q, NEW D, NEW E, D \subseteq E,
         Showing(p, fd, h, c, q, E)
  PROVE  Showing(p, fd, h, c, q, D)
BY DEF Showing

LEMMA AnswerFrame ==
  ASSUME KnowledgeParameters, TypeInv, AnswerInv, NEW t \in Task, UNCHANGED faults \/ Fault,
         rows' = rows \/ \E b \in Seq(ChunkIds) : rows' = b \o rows, Others(t),
         faults = 0 /\ UNCHANGED faults /\ Sees(t) => Sees(t)'
  PROVE  AnswerInv'
<1>0. /\ ToSet(rows) \subseteq ToSet(rows')
      /\ \A D : Recents(rows', D) \subseteq Recents(rows, D)
  BY RowsGrow
<1> SUFFICES ASSUME faults' = 0, NEW u \in Task PROVE Sees(u)'
  BY DEF AnswerInv
<1>1. faults = 0 /\ UNCHANGED faults
  BY FaultCounts
<1>2. Sees(u) /\ Sees(t)
  BY <1>1 DEF AnswerInv
<1>3. CASE u = t
  BY <1>1, <1>2, <1>3
<1>4. CASE u # t
  <2>1. /\ at'[u] = at[u] /\ mem'[u] = mem[u] /\ saved'[u] = saved[u] /\ todo'[u] = todo[u]
        /\ batch'[u] = batch[u] /\ failed'[u] = failed[u] /\ found'[u] = found[u]
        /\ hits'[u] = hits[u] /\ cached'[u] = cached[u]
    BY <1>4 DEF Others
  <2>2. /\ Recorded(ToSet(rows), at[u], mem[u], saved[u], Documents(u))
        /\ Storing(ToSet(rows), at[u], todo[u], batch[u])
        /\ Counted(at[u], mem[u], todo[u], failed[u], Documents(u))
        /\ Showing(at[u], found[u], hits[u], cached[u], QueryOf[u], Recents(rows, Documents(u)))
    BY <1>2 DEF Sees
  <2>3. Recorded(ToSet(rows'), at[u], mem[u], saved[u], Documents(u))
    BY <1>0, <2>2, RecordedMore
  <2>4. Storing(ToSet(rows'), at[u], todo[u], batch[u])
    BY <1>0, <2>2, StoringMore
  <2>5. Showing(at[u], found[u], hits[u], cached[u], QueryOf[u], Recents(rows', Documents(u)))
    BY <1>0, <2>2, ShowingLess
  <2> QED BY <2>1, <2>2, <2>3, <2>4, <2>5 DEF Sees, Documents
<1> QED BY <1>3, <1>4

\* Every variable of a task is a function on the tasks.
LEMMA Functions ==
  ASSUME TypeInv
  PROVE  /\ at = [u \in Task |-> at[u]] /\ todo = [u \in Task |-> todo[u]]
         /\ batch = [u \in Task |-> batch[u]] /\ failed = [u \in Task |-> failed[u]]
         /\ found = [u \in Task |-> found[u]] /\ hits = [u \in Task |-> hits[u]]
         /\ cached = [u \in Task |-> cached[u]]
         /\ mem = [u \in Task |-> mem[u]] /\ saved = [u \in Task |-> saved[u]]
BY DEF TypeInv, FlowTypes, SectionTypes

LEMMA OthersOfIngest ==
  ASSUME TypeInv, NEW t \in Task, Ingest(t) PROVE Others(t)
<1> USE Functions DEF GoTo, Others
<1>1. CASE Enter(t)
  BY <1>1 DEF Enter
<1>2. CASE Parse(t)
  BY <1>2 DEF Parse, sections
<1>3. CASE ParseFails(t)
  BY <1>3 DEF ParseFails, GiveUp, sections
<1>4. CASE StoreRows(t) \/ StoreNothing(t) \/ RowsFail(t) \/ StoreVectors(t) \/ VectorsFail(t)
           \/ StoreFacts(t) \/ FactsFail(t)
  <2>1. UNCHANGED <<todo, failed, rest>> /\ \E q : GoTo(t, q)
    BY <1>4 DEF StoreRows, StoreNothing, RowsFail, StoreVectors, VectorsFail, StoreFacts, FactsFail
  <2> QED BY <2>1 DEF rest, sections
<1>5. CASE ExtractionRaises(t)
  BY <1>5 DEF ExtractionRaises, GiveUp, rest, sections
<1>6. CASE Mark(t)
  BY <1>6 DEF Mark, marking
<1>7. CASE KnowMark(t)
  BY <1>7 DEF KnowMark, marking
<1>8. CASE Block(t)
  BY <1>8 DEF Block, Save, marking
<1> QED BY <1>1, <1>2, <1>3, <1>4, <1>5, <1>6, <1>7, <1>8 DEF Ingest

LEMMA OthersOfRetrieve ==
  ASSUME TypeInv, NEW t \in Task, Retrieve(t) \/ Again(t) PROVE Others(t)
<1> USE Functions DEF GoTo, Others
<1>1. CASE Plan(t)
  BY <1>1 DEF Plan, searching, sections
<1>2. CASE RecallText(t)
  BY <1>2 DEF RecallText, searching, sections
<1>3. CASE Rank(t)
  BY <1>3 DEF Rank, searching, sections
<1>4. CASE Keep(t)
  BY <1>4 DEF Keep, Save, marking
<1>5. CASE KeepKnow(t)
  BY <1>5 DEF KeepKnow, marking
<1>6. CASE Again(t)
  BY <1>6 DEF Again, sections
<1> QED BY <1>1, <1>2, <1>3, <1>4, <1>5, <1>6 DEF Retrieve

LEMMA SeesIs ==
  ASSUME NEW t \in Task, Sees(t)
  PROVE  /\ Recorded(ToSet(rows), at[t], mem[t], saved[t], Documents(t))
         /\ Storing(ToSet(rows), at[t], todo[t], batch[t])
         /\ Counted(at[t], mem[t], todo[t], failed[t], Documents(t))
         /\ Showing(at[t], found[t], hits[t], cached[t], QueryOf[t], Recents(rows, Documents(t)))
BY DEF Sees

LEMMA HeadOfTodo ==
  ASSUME TypeInv, NEW t \in Task, todo[t] # <<>>
  PROVE  /\ Head(todo[t]) \in Documents(t) /\ Head(todo[t]) \in Doc
         /\ ToSet(todo[t]) = ToSet(Tail(todo[t])) \union {Head(todo[t])}
<1>1. todo[t] \in Seq(Doc) /\ ToSet(todo[t]) \subseteq Documents(t)
  BY DEF TypeInv, FlowTypes
<1> QED BY <1>1, TailTypes

\* A step that begins no ingestion and stores no rows.
LEMMA FreshFrame ==
  ASSUME FreshInv, UNCHANGED <<rows, copies>>,
         \A u \in Task : at'[u] = "rows" => at[u] = "rows" /\ batch'[u] = batch[u]
  PROVE  FreshInv'
BY DEF FreshInv

LEMMA FreshMore ==
  ASSUME NEW R \in Seq(ChunkIds), NEW N \in [Doc -> Nat], NEW d \in Doc, FreshRows(R, N)
  PROVE  FreshRows(R, [N EXCEPT ![d] = @ + 1])
<1> DEFINE N2 == [N EXCEPT ![d] = @ + 1]
<1>1. \A c \in ToSet(R) : c.doc \in Doc /\ c.copy \in Nat
  <2>1. \A i \in DOMAIN R : R[i] \in ChunkIds
    OBVIOUS
  <2> QED BY <2>1 DEF ToSet, ChunkIds
<1>2. \A e \in Doc : N[e] <= N2[e] /\ N[e] \in Nat /\ N2[e] \in Nat
  OBVIOUS
<1> HIDE DEF N2
<1>3. \A c \in ToSet(R) : c.copy <= N2[c.doc]
  BY <1>1, <1>2 DEF FreshRows
<1> QED BY <1>3 DEF FreshRows, N2

LEMMA FreshOfParse ==
  ASSUME KnowledgeParameters, TypeInv, FreshInv, NEW t \in Task, Parse(t) PROVE FreshInv'
<1> DEFINE d == Head(todo[t])
<1>1. todo[t] # <<>> /\ UNCHANGED rows /\ copies' = [copies EXCEPT ![d] = @ + 1]
  BY DEF Parse, Doing
<1>2. d \in Doc
  BY <1>1, HeadOfTodo
<1>3. PICK secs \in IF parsed[d] = None THEN Readings[d] ELSE {parsed[d]} :
        batch' = [batch EXCEPT ![t] = ChunksOf(d, Pieces[d][secs], copies[d] + 1)]
  BY DEF Parse
<1> HIDE DEF d
<1> DEFINE b == ChunksOf(d, Pieces[d][secs], copies[d] + 1)
<1>4. /\ rows \in Seq(ChunkIds) /\ copies \in [Doc -> Nat] /\ copies[d] \in Nat
      /\ parsed[d] = None \/ parsed[d] \in Readings[d]
  BY <1>2 DEF TypeInv, StoreTypes
<1>5. /\ b \in Seq(ChunkIds) /\ IsInjective(b)
      /\ \A c \in ToSet(b) : c.doc = d /\ c.copy = copies[d] + 1
  <2> DEFINE n == copies[d] + 1
  <2>1. secs \in Readings[d] /\ n \in Nat
    BY <1>3, <1>4
  <2> HIDE DEF n
  <2>2. /\ ChunksOf(d, Pieces[d][secs], n) \in Seq(ChunkIds)
        /\ IsInjective(ChunksOf(d, Pieces[d][secs], n))
        /\ \A c \in ToSet(ChunksOf(d, Pieces[d][secs], n)) : Ingested(c, d, n)
    BY <1>2, <2>1, ChunksTypes
  <2> QED BY <2>2 DEF n, Ingested
<1>6. batch'[t] = b
  BY <1>3, Functions
<1> HIDE DEF b
<1>7. copies' \in [Doc -> Nat] /\ copies'[d] = copies[d] + 1
  BY <1>1, <1>2, <1>4
<1>8. FreshRows(b, copies')
  BY <1>4, <1>5, <1>7 DEF FreshRows
<1>9. ASSUME NEW R \in Seq(ChunkIds), FreshRows(R, copies)
      PROVE  FreshRows(R, copies') /\ ToSet(b) \intersect ToSet(R) = {}
  <2>1. FreshRows(R, copies')
    BY <1>1, <1>2, <1>4, <1>9, FreshMore
  <2>2. \A c \in ToSet(R) : c.copy <= copies[c.doc]
    BY <1>9 DEF FreshRows
  <2>3. \A c \in ToSet(R) : ~ (c.doc = d /\ c.copy = copies[d] + 1)
    BY <1>4, <2>2
  <2> QED BY <1>5, <2>1, <2>3
<1>10. Others(t)
  BY OthersOfIngest DEF Ingest
<1>11. \A u \in Task \ {t} : at'[u] = at[u] /\ batch'[u] = batch[u] /\ batch[u] \in Seq(ChunkIds)
  BY <1>10 DEF Others, TypeInv, FlowTypes
<1>12. FreshRows(rows', copies') /\ ToSet(b) \intersect ToSet(rows') = {}
  BY <1>1, <1>4, <1>9 DEF FreshInv
<1>13. ASSUME NEW u \in Task \ {t}, at'[u] = "rows"
       PROVE  /\ FreshRows(batch'[u], copies') /\ ToSet(batch'[u]) \intersect ToSet(rows') = {}
              /\ ToSet(b) \intersect ToSet(batch'[u]) = {}
              /\ \A v \in Task \ {t, u} : at'[v] = "rows" =>
                   ToSet(batch'[u]) \intersect ToSet(batch'[v]) = {}
  <2>1. at[u] = "rows" /\ batch'[u] = batch[u] /\ batch[u] \in Seq(ChunkIds)
    BY <1>11, <1>13
  <2>2. FreshRows(batch[u], copies) /\ ToSet(batch[u]) \intersect ToSet(rows) = {}
    BY <2>1 DEF FreshInv
  <2>3. \A v \in Task \ {t, u} : at'[v] = "rows" =>
          ToSet(batch'[u]) \intersect ToSet(batch'[v]) = {}
    BY <1>11, <2>1 DEF FreshInv
  <2> QED BY <1>1, <1>9, <2>1, <2>2, <2>3
<1> QED BY <1>6, <1>8, <1>12, <1>13 DEF FreshInv

LEMMA FreshOfStoreRows ==
  ASSUME KnowledgeParameters, TypeInv, FreshInv, NEW t \in Task, StoreRows(t) PROVE FreshInv'
<1>1. /\ at[t] = "rows" /\ rows' = Reverse(batch[t]) \o rows /\ UNCHANGED <<copies, batch>>
      /\ \E p \in {"vectors", "graph", "mark"} : GoTo(t, p)
  BY AfterSaveIs DEF StoreRows, Doing, rest
<1>2. at'[t] # "rows"
  BY <1>1, Functions DEF GoTo
<1>3. rows \in Seq(ChunkIds) /\ batch[t] \in Seq(ChunkIds)
  BY DEF TypeInv, StoreTypes, FlowTypes
<1>4. /\ FreshRows(rows, copies) /\ FreshRows(batch[t], copies)
      /\ ToSet(batch[t]) \intersect ToSet(rows) = {}
  BY <1>1 DEF FreshInv
<1>5. ToSet(rows') = ToSet(batch[t]) \union ToSet(rows) /\ IsInjective(rows')
  <2>1. IsInjective(batch[t]) /\ IsInjective(rows)
    BY <1>4 DEF FreshRows
  <2> DEFINE w == Reverse(batch[t]) \o rows
  <2>2. ToSet(w) = ToSet(batch[t]) \union ToSet(rows) /\ IsInjective(w)
    BY <1>3, <1>4, <2>1, AppendTypes
  <2> HIDE DEF w
  <2>3. rows' = w
    BY <1>1 DEF w
  <2> QED BY <2>2, <2>3
<1>6. FreshRows(rows', copies')
  BY <1>1, <1>4, <1>5 DEF FreshRows
<1>7. Others(t)
  BY OthersOfIngest DEF Ingest
<1>8. ASSUME NEW u \in Task, at'[u] = "rows"
      PROVE  /\ FreshRows(batch'[u], copies')
             /\ ToSet(batch'[u]) \intersect ToSet(rows') = {}
             /\ \A v \in Task \ {u} : at'[v] = "rows" =>
                  ToSet(batch'[u]) \intersect ToSet(batch'[v]) = {}
  <2>1. u # t /\ at[u] = "rows"
    BY <1>2, <1>7, <1>8 DEF Others
  <2>2. /\ FreshRows(batch[u], copies) /\ ToSet(batch[u]) \intersect ToSet(rows) = {}
        /\ ToSet(batch[u]) \intersect ToSet(batch[t]) = {}
    BY <1>1, <2>1 DEF FreshInv
  <2>3. \A v \in Task \ {u} : at'[v] = "rows" => v # t /\ at[v] = "rows"
    BY <1>2, <1>7 DEF Others
  <2>4. \A v \in Task \ {u} : at[v] = "rows" => ToSet(batch[u]) \intersect ToSet(batch[v]) = {}
    BY <2>1 DEF FreshInv
  <2> QED BY <1>1, <1>5, <2>2, <2>3, <2>4
<1> QED BY <1>6, <1>8 DEF FreshInv

LEMMA FreshInit == KnowledgeParameters /\ Init => FreshInv
<1> SUFFICES ASSUME Init PROVE FreshInv
  OBVIOUS
<1>1. rows = <<>> /\ ToSet(<<>>) = {} /\ \A t \in Task : at[t] # "rows"
  BY DEF Init, ToSet
<1> QED BY <1>1, EmptyInjective DEF FreshInv, FreshRows

LEMMA FreshStep ==
  ASSUME KnowledgeParameters, TypeInv, FreshInv, [Next]_vars PROVE FreshInv'
<1>1. ASSUME NEW t \in Task, Others(t), UNCHANGED <<rows, copies>>, at'[t] # "rows"
      PROVE  FreshInv'
  <2>1. \A u \in Task : at'[u] = "rows" => at[u] = "rows" /\ batch'[u] = batch[u]
    BY <1>1 DEF Others
  <2> QED BY <1>1, <2>1, FreshFrame
<1>2. ASSUME NEW t \in Task, NEW p, GoTo(t, p), p # "rows" PROVE at'[t] # "rows"
  BY <1>2, Functions DEF GoTo
<1>3. ASSUME NEW t \in Task, Ingest(t) PROVE FreshInv'
  <2>1. Others(t)
    BY <1>3, OthersOfIngest
  <2>2. CASE Parse(t)
    BY <2>2, FreshOfParse
  <2>3. CASE StoreRows(t)
    BY <2>3, FreshOfStoreRows
  <2>4. CASE Enter(t)
    BY <1>1, <1>2, <2>1, <2>4 DEF Enter, stores
  <2>5. CASE ParseFails(t)
    BY <1>1, <1>2, <2>1, <2>5 DEF ParseFails, GiveUp, stores
  <2>6. CASE StoreNothing(t) \/ RowsFail(t) \/ StoreVectors(t) \/ VectorsFail(t)
             \/ StoreFacts(t) \/ FactsFail(t)
    <3>1. UNCHANGED <<rows, copies>> /\ \E p \in {"graph", "mark"} : GoTo(t, p)
      BY <2>6, AfterSaveIs
         DEF StoreNothing, RowsFail, StoreVectors, VectorsFail, StoreFacts, FactsFail, rest
    <3> QED BY <1>1, <1>2, <2>1, <3>1
  <2>7. CASE ExtractionRaises(t)
    BY <1>1, <1>2, <2>1, <2>7 DEF ExtractionRaises, GiveUp, rest
  <2>8. CASE Mark(t)
    BY <1>1, <1>2, <2>1, <2>8 DEF Mark, marking, stores
  <2>9. CASE KnowMark(t)
    BY <1>1, <1>2, <2>1, <2>9 DEF KnowMark, marking, stores
  <2>10. CASE Block(t)
    BY <1>1, <1>2, <2>1, <2>10 DEF Block, marking, stores
  <2> QED BY <1>3, <2>2, <2>3, <2>4, <2>5, <2>6, <2>7, <2>8, <2>9, <2>10 DEF Ingest
<1>4. ASSUME NEW t \in Task, Retrieve(t) \/ Again(t) PROVE FreshInv'
  <2>1. Others(t)
    BY <1>4, OthersOfRetrieve
  <2>2. /\ UNCHANGED <<rows, copies>>
        /\ \E p \in {"recall", "keep", "recall_more", "keep_know", "answered", "start"} :
             GoTo(t, p)
    <3>1. CASE Plan(t)
      BY <3>1 DEF Plan, searching, stores
    <3>2. CASE RecallText(t) \/ Rank(t)
      BY <3>2 DEF RecallText, Rank, searching, stores
    <3>3. CASE Keep(t) \/ KeepKnow(t)
      BY <3>3 DEF Keep, KeepKnow, marking, stores
    <3>4. CASE Again(t)
      BY <3>4 DEF Again, stores
    <3> QED BY <1>4, <3>1, <3>2, <3>3, <3>4 DEF Retrieve
  <2> QED BY <1>1, <1>2, <2>1, <2>2
<1>5. ASSUME NEW q \in Query, Expire(q) PROVE FreshInv'
  BY <1>5, FreshFrame DEF Expire, stores, flow
<1>6. CASE Crash
  <2>1. \A u \in Task : at'[u] # "rows"
    BY <1>6 DEF Crash, Left
  <2> QED BY <1>6, <2>1, FreshFrame DEF Crash, stores
<1>7. CASE UNCHANGED vars
  BY <1>7, FreshFrame DEF vars, stores, flow
<1> QED BY <1>3, <1>4, <1>5, <1>6, <1>7 DEF Next, Step, AllLeft

LEMMA AnswerOfEnter ==
  ASSUME KnowledgeParameters, TypeInv, AnswerInv, NEW t \in Task, Enter(t) PROVE AnswerInv'
<1>1. Others(t)
  BY OthersOfIngest DEF Ingest
<1> DEFINE m == IF mem[t] = None THEN saved[t] ELSE mem[t]
           list == Unparsed(t, m)
<1>2. /\ at[t] = "start" /\ mem' = [mem EXCEPT ![t] = m] /\ at' = [at EXCEPT ![t] = "next"]
      /\ todo' = [todo EXCEPT ![t] = Unparsed(t, mem'[t])]
      /\ UNCHANGED <<rows, saved, batch, found, hits, cached, faults>>
  BY DEF Enter, GoTo, stores
<1>3. at'[t] = "next" /\ mem'[t] = m
  BY <1>2, Functions
<1>4. todo'[t] = list
  BY <1>2, <1>3, Functions
<1>5. ASSUME Sees(t) PROVE Sees(t)'
  <2>1. Recorded(ToSet(rows), at[t], mem[t], saved[t], Documents(t))
    BY <1>5, SeesIs
  <2>2. \A d \in Documents(t) : m[d] = "parsed" => Has(ToSet(rows), d)
    BY <2>1 DEF Recorded
  <2>3. \A d \in Documents(t) : m[d] = "parsed" \/ d \in ToSet(list)
    BY UnparsedAre
  <2> HIDE DEF m, list
  <2>4. Recorded(ToSet(rows), "next", m, saved[t], Documents(t))
    BY <2>1, <2>2 DEF Recorded, Late
  <2>5. Storing(ToSet(rows), "next", list, batch[t])
    BY DEF Storing
  <2>6. Counted("next", m, list, failed'[t], Documents(t))
    BY <2>3 DEF Counted
  <2>7. Showing("next", found[t], hits[t], cached[t], QueryOf[t], Recents(rows, Documents(t)))
    BY DEF Showing
  <2> QED BY <1>2, <1>3, <1>4, <2>4, <2>5, <2>6, <2>7 DEF Sees, Documents
<1> QED BY <1>1, <1>2, <1>5, AnswerFrame

\* What a document is read as holds it, if a query asks for it.
LEMMA ParsedHas ==
  ASSUME KnowledgeParameters, Searchable, NEW d \in Doc, Class(d) # "unknown",
         NEW secs \in Readings[d], NEW n \in Nat, NEW R,
         ChunksOf(d, Pieces[d][secs], n) = <<>>
  PROVE  Has(R, d)
<1> SUFFICES ASSUME NEW q \in Query, Relevance[q][d] > 0, Class(d) # "small" PROVE FALSE
  BY DEF Has
<1>1. Class(d) \in {"medium", "large"}
  BY DEF Class, ClassBy, KnowledgeParameters, Files
<1>2. Pieces[d][secs] # <<>>
  BY <1>1 DEF Searchable
<1> QED BY <1>2, ChunksTypes

LEMMA AnswerOfParse ==
  ASSUME KnowledgeParameters, Searchable, TypeInv, AnswerInv, NEW t \in Task, Parse(t)
  PROVE  AnswerInv'
<1>1. Others(t)
  BY OthersOfIngest DEF Ingest
<1> DEFINE d == Head(todo[t])
<1>2. at[t] = "next" /\ todo[t] # <<>> /\ Class(d) # "unknown"
  BY DEF Parse, Doing
<1>3. d \in Doc
  BY <1>2, HeadOfTodo
<1>4. PICK secs \in IF parsed[d] = None THEN Readings[d] ELSE {parsed[d]} :
        batch' = [batch EXCEPT ![t] = ChunksOf(d, Pieces[d][secs], copies[d] + 1)]
  BY DEF Parse
<1> HIDE DEF d
<1>5. secs \in Readings[d] /\ copies[d] + 1 \in Nat
  <2>1. (parsed[d] = None \/ parsed[d] \in Readings[d]) /\ copies[d] \in Nat
    BY <1>3 DEF TypeInv, StoreTypes
  <2> QED BY <1>4, <2>1
<1>6. /\ UNCHANGED <<rows, mem, saved, todo, failed, found, hits, cached>>
      /\ GoTo(t, "rows") /\ (UNCHANGED faults \/ Fault)
  BY DEF Parse, sections
<1>7. at'[t] = "rows" /\ batch'[t] = ChunksOf(d, Pieces[d][secs], copies[d] + 1)
  BY <1>4, <1>6, Functions DEF GoTo
<1>8. \A c \in ToSet(batch'[t]) : c.doc = Head(todo[t])
  <2>1. \A c \in ToSet(ChunksOf(d, Pieces[d][secs], copies[d] + 1)) : c.doc = d
    <3> DEFINE n == copies[d] + 1
    <3>1. n \in Nat
      BY <1>5
    <3> HIDE DEF n
    <3>2. \A c \in ToSet(ChunksOf(d, Pieces[d][secs], n)) : Ingested(c, d, n)
      BY <1>3, <1>5, <3>1, ChunksTypes
    <3> QED BY <3>2 DEF n, Ingested
  <2> QED BY <1>7, <2>1 DEF d
<1>9. batch'[t] = <<>> => Has(ToSet(rows), Head(todo[t]))
  <2>1. batch'[t] = <<>> => Has(ToSet(rows), d)
    BY <1>2, <1>3, <1>5, <1>7, ParsedHas
  <2> QED BY <2>1 DEF d
<1>10. ASSUME Sees(t) PROVE Sees(t)'
  <2>0. Recorded(ToSet(rows), "next", mem[t], saved[t], Documents(t))
    BY <1>2, <1>10, SeesIs
  <2>1. Recorded(ToSet(rows), "rows", mem[t], saved[t], Documents(t))
    BY <2>0, RecordedMore, PlacesAre DEF Late
  <2>2. Storing(ToSet(rows), "rows", todo[t], batch'[t])
    BY <1>8, <1>9 DEF Storing
  <2>3. Counted("rows", mem[t], todo[t], failed[t], Documents(t))
    BY <1>2, <1>10, SeesIs DEF Counted, Work
  <2>4. Showing("rows", found[t], hits[t], cached[t], QueryOf[t], Recents(rows, Documents(t)))
    BY DEF Showing
  <2> QED BY <1>6, <1>7, <2>1, <2>2, <2>3, <2>4 DEF Sees, Documents
<1> QED BY <1>1, <1>6, <1>10, AnswerFrame

\* A document that is refused has failed.
LEMMA AnswerOfGivingUp ==
  ASSUME KnowledgeParameters, TypeInv, AnswerInv, NEW t \in Task, ParseFails(t) \/ ExtractionRaises(t)
  PROVE  AnswerInv'
<1>1. Others(t)
  BY OthersOfIngest DEF Ingest
<1>2. at[t] \in {"next", "graph"} /\ todo[t] # <<>>
  BY DEF ParseFails, ExtractionRaises, Doing
<1>3. /\ GiveUp(t) /\ (UNCHANGED faults \/ Fault)
      /\ UNCHANGED <<rows, mem, saved, batch, found, hits, cached>>
  BY DEF ParseFails, ExtractionRaises, rest, stores, sections
<1>4. /\ at'[t] = "next" /\ todo'[t] = Tail(todo[t])
      /\ failed'[t] = failed[t] \union {Head(todo[t])}
  BY <1>3, Functions DEF GiveUp, GoTo
<1>5. ASSUME Sees(t) PROVE Sees(t)'
  <2>1. Recorded(ToSet(rows), "next", mem[t], saved[t], Documents(t))
    BY <1>2, <1>5, SeesIs, RecordedMore, PlacesAre DEF Late
  <2>2. Storing(ToSet(rows), "next", Tail(todo[t]), batch[t])
    BY DEF Storing
  <2>3. Counted(at[t], mem[t], todo[t], failed[t], Documents(t))
    BY <1>5, SeesIs
  <2>4. \A d \in Documents(t) : mem[t][d] = "parsed" \/ d \in ToSet(todo[t]) \/ d \in failed[t]
    BY <1>2, <2>3 DEF Counted, Work
  <2>5. \A d \in Documents(t) :
          mem[t][d] = "parsed" \/ d \in ToSet(todo'[t]) \/ d \in failed'[t]
    BY <1>2, <1>4, <2>4, HeadOfTodo
  <2>6. Counted("next", mem[t], todo'[t], failed'[t], Documents(t))
    BY <2>5 DEF Counted
  <2>7. Showing("next", found[t], hits[t], cached[t], QueryOf[t], Recents(rows, Documents(t)))
    BY DEF Showing
  <2> QED BY <1>3, <1>4, <2>1, <2>2, <2>6, <2>7 DEF Sees, Documents
<1> QED BY <1>1, <1>3, <1>5, AnswerFrame

\* A step of the stores, with the document in the rows after it.
LEMMA AnswerOfStoring ==
  ASSUME KnowledgeParameters, TypeInv, AnswerInv, NEW t \in Task, Others(t), UNCHANGED <<todo, failed, rest>>,
         NEW place \in {"vectors", "graph", "mark"}, GoTo(t, place),
         UNCHANGED faults \/ Fault, rows' = rows \/ \E b \in Seq(ChunkIds) : rows' = b \o rows,
         at[t] \in {"rows", "vectors", "graph"},
         faults = 0 /\ UNCHANGED faults /\ Sees(t) => Has(ToSet(rows'), Head(todo[t]))
  PROVE  AnswerInv'
<1>1. UNCHANGED <<mem, saved, todo, batch, failed, found, hits, cached>>
  BY DEF rest, sections
<1>2. at'[t] = place
  BY Functions DEF GoTo
<1>3. ASSUME faults = 0, UNCHANGED faults, Sees(t) PROVE Sees(t)'
  <2>0. ToSet(rows) \subseteq ToSet(rows')
    BY RowsGrow
  <2>1. Recorded(ToSet(rows'), place, mem[t], saved[t], Documents(t))
    <3>1. Recorded(ToSet(rows), at[t], mem[t], saved[t], Documents(t))
      BY <1>3, SeesIs
    <3>2. place \in Inside /\ at[t] \in Inside /\ place \notin Late
      BY PlacesAre DEF Late
    <3> QED BY <2>0, <3>1, <3>2, RecordedMore
  <2>2. Storing(ToSet(rows'), place, todo[t], batch[t])
    BY <1>3 DEF Storing
  <2>3. Counted(place, mem[t], todo[t], failed[t], Documents(t))
    BY <1>3, SeesIs DEF Counted, Work
  <2>4. Showing(place, found[t], hits[t], cached[t], QueryOf[t], Recents(rows', Documents(t)))
    BY DEF Showing
  <2> QED BY <1>1, <1>2, <2>1, <2>2, <2>3, <2>4 DEF Sees, Documents
<1> QED BY <1>3, AnswerFrame

LEMMA AnswerOfStores ==
  ASSUME KnowledgeParameters, TypeInv, AnswerInv, NEW t \in Task,
         StoreRows(t) \/ StoreNothing(t) \/ RowsFail(t) \/ StoreVectors(t) \/ VectorsFail(t)
           \/ StoreFacts(t) \/ FactsFail(t)
  PROVE  AnswerInv'
<1>1. Others(t)
  BY OthersOfIngest DEF Ingest
<1>2. AfterSave(t) \in {"vectors", "graph", "mark"}
  BY AfterSaveIs
<1>3. UNCHANGED <<todo, failed, rest>> /\ (UNCHANGED faults \/ Fault)
  BY DEF StoreRows, StoreNothing, RowsFail, StoreVectors, VectorsFail, StoreFacts, FactsFail
<1>4. todo[t] # <<>> /\ at[t] \in {"rows", "vectors", "graph"}
  BY DEF StoreRows, StoreNothing, RowsFail, StoreVectors, VectorsFail, StoreFacts, FactsFail, Doing
<1>5. Sees(t) => Storing(ToSet(rows), at[t], todo[t], batch[t])
  BY SeesIs
<1>6. CASE StoreRows(t)
  <2> DEFINE place == IF Leaves(batch[t]) # {} THEN "vectors" ELSE AfterSave(t)
  <2>1. /\ rows' = Reverse(batch[t]) \o rows /\ GoTo(t, place) /\ at[t] = "rows"
        /\ batch[t] # <<>>
    BY <1>6 DEF StoreRows, Doing
  <2>2. place \in {"vectors", "graph", "mark"}
    BY <1>2
  <2>3. rows \in Seq(ChunkIds) /\ batch[t] \in Seq(ChunkIds)
    BY DEF TypeInv, StoreTypes, FlowTypes
  <2>4. ToSet(rows') = ToSet(batch[t]) \union ToSet(rows)
    <3>1. ToSet(Reverse(batch[t]) \o rows) = ToSet(batch[t]) \union ToSet(rows)
      BY <2>3, AppendTypes
    <3> QED BY <2>1, <3>1
  <2>5. batch[t][1] \in ToSet(batch[t])
    BY <2>1, <2>3 DEF ToSet
  <2>6. Sees(t) => Has(ToSet(rows'), Head(todo[t]))
    BY <1>4, <1>5, <2>1, <2>4, <2>5 DEF Storing, Has
  <2>7. Reverse(batch[t]) \in Seq(ChunkIds)
    BY <2>3, AppendTypes
  <2> HIDE DEF place
  <2> QED BY <1>1, <1>3, <1>4, <2>1, <2>2, <2>6, <2>7, AnswerOfStoring
<1>7. CASE StoreNothing(t)
  <2>1. at[t] = "rows" /\ batch[t] = <<>> /\ GoTo(t, AfterSave(t)) /\ UNCHANGED rows
    BY <1>7 DEF StoreNothing, Doing
  <2>2. Sees(t) => Has(ToSet(rows'), Head(todo[t]))
    BY <1>4, <1>5, <2>1 DEF Storing
  <2> QED BY <1>1, <1>2, <1>3, <1>4, <2>1, <2>2, AnswerOfStoring
<1>8. CASE RowsFail(t)
  <2>1. GoTo(t, AfterSave(t)) /\ UNCHANGED rows /\ Fault
    BY <1>8 DEF RowsFail
  <2>2. ~(faults = 0 /\ UNCHANGED faults)
    BY <2>1, FaultCounts
  <2> QED BY <1>1, <1>2, <1>3, <1>4, <2>1, <2>2, AnswerOfStoring
<1>9. CASE StoreVectors(t) \/ VectorsFail(t)
  <2>1. at[t] = "vectors" /\ GoTo(t, AfterSave(t)) /\ UNCHANGED rows
    BY <1>9 DEF StoreVectors, VectorsFail, Doing
  <2>2. Sees(t) => Has(ToSet(rows'), Head(todo[t]))
    BY <1>4, <1>5, <2>1 DEF Storing
  <2> QED BY <1>1, <1>2, <1>3, <1>4, <2>1, <2>2, AnswerOfStoring
<1>10. CASE StoreFacts(t) \/ FactsFail(t)
  <2>1. at[t] = "graph" /\ GoTo(t, "mark") /\ UNCHANGED rows
    BY <1>10 DEF StoreFacts, FactsFail, Doing
  <2>2. Sees(t) => Has(ToSet(rows'), Head(todo[t]))
    BY <1>4, <1>5, <2>1 DEF Storing
  <2> QED BY <1>1, <1>3, <1>4, <2>1, <2>2, AnswerOfStoring
<1> QED BY <1>6, <1>7, <1>8, <1>9, <1>10

LEMMA RecordedSaved ==
  ASSUME NEW R, NEW p \in Inside, NEW m, NEW s, NEW D, Recorded(R, p, m, s, D)
  PROVE  Recorded(R, p, m, m, D)
BY DEF Recorded

LEMMA AnswerOfMark ==
  ASSUME KnowledgeParameters, TypeInv, AnswerInv, NEW t \in Task, Mark(t) PROVE AnswerInv'
<1>1. Others(t)
  BY OthersOfIngest DEF Ingest
<1> DEFINE d == Head(todo[t])
           m == [mem[t] EXCEPT ![d] = "parsed"]
           R == ToSet(rows)
           D == Documents(t)
<1>2. at[t] = "mark" /\ todo[t] # <<>> /\ at[t] \in Inside
  BY PlacesAre DEF Mark, Doing
<1>3. /\ mem' = [mem EXCEPT ![t] = m] /\ GoTo(t, "know_mark") /\ UNCHANGED <<todo, marking>>
      /\ saved' = saved \/ saved' = [saved EXCEPT ![t] = mem'[t]]
      /\ UNCHANGED faults \/ Fault
  BY DEF Mark
<1>4. mem[t] \in States(t) /\ d \in D
  BY <1>2, SectionsAre, HeadOfTodo
<1>5. m[d] = "parsed" /\ \A e \in D : e # d => m[e] = mem[t][e]
  BY <1>4 DEF States
<1>6. at'[t] = "know_mark" /\ mem'[t] = m /\ (saved'[t] = saved[t] \/ saved'[t] = m)
  BY <1>3, Functions DEF GoTo
<1>7. UNCHANGED <<rows, todo, batch, failed, found, hits, cached>>
  BY <1>3 DEF marking, stores
<1> HIDE DEF m
<1>8. ASSUME Sees(t) PROVE Sees(t)'
  <2>1. Recorded(R, at[t], mem[t], saved[t], D)
    BY <1>8, SeesIs
  <2>2. Has(R, d)
    <3>1. Storing(R, at[t], todo[t], batch[t])
      BY <1>8, SeesIs
    <3> QED BY <1>2, <3>1 DEF Storing
  <2>3. \A e \in D : m[e] = "parsed" => Has(R, e)
    BY <1>2, <1>5, <2>1, <2>2 DEF Recorded
  <2>4. \A e \in D : saved'[t][e] = "parsed" => Has(R, e)
    BY <1>6, <2>1, <2>3 DEF Recorded
  <2>5. Recorded(R, "know_mark", m, saved'[t], D)
    BY <2>3, <2>4 DEF Recorded, Late
  <2>6. Storing(R, "know_mark", todo[t], batch[t])
    BY DEF Storing
  <2>7. Counted(at[t], mem[t], todo[t], failed[t], D)
    BY <1>8, SeesIs
  <2>8. \A e \in D : m[e] = "parsed" \/ e \in ToSet(todo[t]) \/ e \in failed[t]
    BY <1>2, <1>5, <2>7 DEF Counted, Work
  <2>9. Counted("know_mark", m, todo[t], failed[t], D)
    BY <1>5, <2>8 DEF Counted
  <2>10. Showing("know_mark", found[t], hits[t], cached[t], QueryOf[t], Recents(rows, D))
    BY DEF Showing
  <2> HIDE DEF d
  <2> QED BY <1>6, <1>7, <2>5, <2>6, <2>9, <2>10 DEF Sees, Documents
<1> QED BY <1>1, <1>3, <1>7, <1>8, AnswerFrame

LEMMA AnswerOfKnowMark ==
  ASSUME KnowledgeParameters, TypeInv, AnswerInv, NEW t \in Task, KnowMark(t) PROVE AnswerInv'
<1>1. Others(t)
  BY OthersOfIngest DEF Ingest
<1>2. at[t] = "know_mark" /\ todo[t] # <<>>
  BY DEF KnowMark, Doing
<1>3. /\ todo' = [todo EXCEPT ![t] = Tail(todo[t])] /\ GoTo(t, "next")
      /\ UNCHANGED <<mem, saved, rows, batch, failed, found, hits, cached>>
      /\ UNCHANGED faults \/ Fault
  BY DEF KnowMark, SaveKnow, marking, stores
<1>4. at'[t] = "next" /\ todo'[t] = Tail(todo[t])
  BY <1>3, Functions DEF GoTo
<1>5. ASSUME Sees(t) PROVE Sees(t)'
  <2>0. Recorded(ToSet(rows), "know_mark", mem[t], saved[t], Documents(t))
    BY <1>2, <1>5, SeesIs
  <2>1. Recorded(ToSet(rows), "next", mem[t], saved[t], Documents(t))
    BY <2>0, RecordedMore, PlacesAre DEF Late
  <2>2. Storing(ToSet(rows), "next", todo'[t], batch[t])
    BY DEF Storing
  <2>3. Counted("know_mark", mem[t], todo[t], failed[t], Documents(t))
    BY <1>2, <1>5, SeesIs
  <2>4. \A d \in Documents(t) :
          mem[t][d] = "parsed" \/ d \in ToSet(todo[t]) \/ d \in failed[t]
    BY <2>3 DEF Counted
  <2>5. mem[t][Head(todo[t])] = "parsed"
    BY <1>2, <2>3 DEF Counted
  <2>6. \A d \in Documents(t) :
          mem[t][d] = "parsed" \/ d \in ToSet(todo'[t]) \/ d \in failed[t]
    BY <1>2, <1>4, <2>4, <2>5, HeadOfTodo
  <2>7. Counted("next", mem[t], todo'[t], failed[t], Documents(t))
    BY <2>6 DEF Counted
  <2>8. Showing("next", found[t], hits[t], cached[t], QueryOf[t], Recents(rows, Documents(t)))
    BY DEF Showing
  <2> QED BY <1>3, <1>4, <2>1, <2>2, <2>7, <2>8 DEF Sees, Documents
<1> QED BY <1>1, <1>3, <1>5, AnswerFrame

\* A step that saves a section, or leaves the node.
LEMMA AnswerOfLeaving ==
  ASSUME KnowledgeParameters, TypeInv, AnswerInv, NEW t \in Task, Others(t), NEW p, GoTo(t, p),
         <<at[t], p>> \in {<<"next", "blocked">>, <<"keep", "keep_know">>,
                           <<"keep_know", "answered">>, <<"answered", "start">>},
         UNCHANGED faults \/ Fault, UNCHANGED <<rows, mem, todo, batch, failed, found, hits, cached>>,
         saved'[t] = saved[t] \/ (saved'[t] = mem[t] /\ at[t] \in Inside)
  PROVE  AnswerInv'
<1>1. at'[t] = p
  BY Functions DEF GoTo
<1>2. ASSUME Sees(t) PROVE Sees(t)'
  <2>1. Recorded(ToSet(rows), at[t], mem[t], saved[t], Documents(t))
    BY <1>2, SeesIs
  <2>2. Recorded(ToSet(rows), at[t], mem[t], saved'[t], Documents(t))
    BY <2>1, RecordedSaved
  <2>3. (p \in Inside => at[t] \in Inside) /\ (p \in Late => at[t] \in Late)
    BY PlacesAre DEF Late
  <2>4. Recorded(ToSet(rows), p, mem[t], saved'[t], Documents(t))
    BY <2>2, <2>3, RecordedMore
  <2>5. p \in {"blocked", "keep_know", "answered", "start"}
    OBVIOUS
  <2>6. Storing(ToSet(rows), p, todo[t], batch[t])
    BY <2>5 DEF Storing
  <2>7. Counted(p, mem[t], todo[t], failed[t], Documents(t))
    BY <2>5 DEF Counted, Work
  <2>8. Showing(at[t], found[t], hits[t], cached[t], QueryOf[t], Recents(rows, Documents(t)))
    BY <1>2, SeesIs
  <2>9. Showing(p, found[t], hits[t], cached[t], QueryOf[t], Recents(rows, Documents(t)))
    BY <2>8 DEF Showing
  <2> QED BY <1>1, <2>4, <2>6, <2>7, <2>9 DEF Sees, Documents
<1> QED BY <1>2, AnswerFrame

LEMMA AnswerOfSaving ==
  ASSUME KnowledgeParameters, TypeInv, AnswerInv, NEW t \in Task, Block(t) \/ Keep(t) \/ KeepKnow(t) \/ Again(t)
  PROVE  AnswerInv'
<1>1. Save(t) => /\ UNCHANGED faults \/ Fault
                 /\ saved'[t] = saved[t] \/ saved'[t] = mem[t]
  BY Functions DEF Save
<1>2. CASE Block(t)
  <2>1. Others(t)
    BY <1>2, OthersOfIngest DEF Ingest
  <2>2. at[t] = "next" /\ GoTo(t, "blocked") /\ Save(t) /\ UNCHANGED <<mem, todo, marking>>
    BY <1>2 DEF Block
  <2> QED BY <1>1, <2>1, <2>2, PlacesAre, AnswerOfLeaving DEF marking, stores
<1>3. CASE Keep(t)
  <2>1. Others(t)
    BY <1>3, OthersOfRetrieve DEF Retrieve
  <2>2. at[t] = "keep" /\ GoTo(t, "keep_know") /\ Save(t) /\ UNCHANGED <<mem, todo, marking>>
    BY <1>3 DEF Keep
  <2> QED BY <1>1, <2>1, <2>2, PlacesAre, AnswerOfLeaving DEF marking, stores
<1>4. CASE KeepKnow(t)
  <2>1. Others(t)
    BY <1>4, OthersOfRetrieve DEF Retrieve
  <2>2. /\ at[t] = "keep_know" /\ GoTo(t, "answered") /\ UNCHANGED <<mem, saved, todo, marking>>
        /\ UNCHANGED faults \/ Fault
    BY <1>4 DEF KeepKnow, SaveKnow
  <2> QED BY <2>1, <2>2, AnswerOfLeaving DEF marking, stores
<1>5. CASE Again(t)
  <2>1. Others(t)
    BY <1>5, OthersOfRetrieve
  <2>2. /\ at[t] = "answered" /\ GoTo(t, "start")
        /\ UNCHANGED <<rows, mem, saved, todo, batch, failed, found, hits, cached, faults>>
    BY <1>5 DEF Again, sections, stores
  <2> QED BY <2>1, <2>2, AnswerOfLeaving
<1> QED BY <1>2, <1>3, <1>4, <1>5

LEMMA AnswerOfPlan ==
  ASSUME KnowledgeParameters, TypeInv, AnswerInv, NEW t \in Task, Plan(t) PROVE AnswerInv'
<1>1. Others(t)
  BY OthersOfRetrieve DEF Retrieve
<1> DEFINE entry == cache[QueryOf[t]]
           p == IF entry = None THEN "recall" ELSE "keep"
<1>2. /\ at[t] = "next" /\ todo[t] = <<>> /\ failed[t] = {} /\ GoTo(t, p)
      /\ cached' = [cached EXCEPT ![t] = entry # None]
      /\ UNCHANGED <<rows, mem, saved, todo, batch, failed, found>>
      /\ UNCHANGED faults \/ Fault
  BY DEF Plan, searching, sections, stores
<1>3. at'[t] = p /\ (cached'[t] <=> entry # None)
  BY <1>2, Functions DEF GoTo
<1>4. p = "recall" \/ (p = "keep" /\ cached'[t])
  BY <1>3
<1> HIDE DEF entry, p
<1>5. ASSUME Sees(t) PROVE Sees(t)'
  <2>1. Recorded(ToSet(rows), "next", mem[t], saved[t], Documents(t))
    BY <1>2, <1>5, SeesIs
  <2>2. Counted("next", mem[t], <<>>, {}, Documents(t))
    BY <1>2, <1>5, SeesIs
  <2>3. \A d \in Documents(t) : mem[t][d] = "parsed"
    BY <2>2 DEF Counted, Work, ToSet
  <2>4. Recorded(ToSet(rows), p, mem[t], saved[t], Documents(t))
    BY <2>1, <2>3, PlacesAre DEF Recorded
  <2>5. Storing(ToSet(rows), p, todo[t], batch[t])
    BY <1>2 DEF Storing
  <2>6. Counted(p, mem[t], todo[t], failed[t], Documents(t))
    BY <1>4 DEF Counted, Work
  <2>7. Showing(p, found[t], hits'[t], cached'[t], QueryOf[t], Recents(rows, Documents(t)))
    BY <1>4 DEF Showing
  <2> QED BY <1>2, <1>3, <2>4, <2>5, <2>6, <2>7 DEF Sees, Documents
<1> QED BY <1>1, <1>2, <1>5, AnswerFrame

LEMMA AnswerOfRecall ==
  ASSUME KnowledgeParameters, TypeInv, FreshInv, AnswerInv, NEW t \in Task, RecallText(t)
  PROVE  AnswerInv'
<1>1. Others(t)
  BY OthersOfRetrieve DEF Retrieve
<1>2. /\ at[t] = "recall" /\ GoTo(t, "recall_more")
      /\ UNCHANGED <<rows, mem, saved, todo, batch, failed, hits, cached>>
      /\ UNCHANGED faults \/ Fault
      /\ Fault \/ found' = [found EXCEPT ![t] = TextHits(QueryOf[t])]
  BY DEF RecallText, searching, sections, stores
<1>3. at'[t] = "recall_more"
  BY <1>2, Functions DEF GoTo
<1> DEFINE q == QueryOf[t]
<1>4. q \in Query
  BY DEF KnowledgeParameters
<1>5. \/ Full(TextHits(q))
      \/ \A i \in DOMAIN rows : i <= Window /\ Relevance[q][rows[i].doc] > 0
           => rows[i] \in ToSet(TextHits(q))
  BY RetrievalIs, TextHitsAre DEF FreshInv, FreshRows, Full
<1>6. ASSUME faults = 0, UNCHANGED faults, Sees(t) PROVE Sees(t)'
  <2>0. found'[t] = TextHits(q)
    BY <1>2, <1>6, FaultCounts, Functions
  <2>1. Recorded(ToSet(rows), "recall", mem[t], saved[t], Documents(t))
    BY <1>2, <1>6, SeesIs
  <2>2. Recorded(ToSet(rows), "recall_more", mem[t], saved[t], Documents(t))
    BY <2>1, RecordedMore, PlacesAre DEF Late
  <2>3. \A d \in Documents(t) : Has(ToSet(rows), d)
    BY <2>1 DEF Recorded, Late
  <2>4. ASSUME NEW d \in Recents(rows, Documents(t)), ~ Full(TextHits(q))
        PROVE  Covers(TextHits(q), q, d)
    <3>1. SUFFICES ASSUME Relevance[q][d] > 0, Class(d) # "small"
                   PROVE  \E c \in ToSet(TextHits(q)) : c.doc = d
      BY DEF Covers
    <3>2. d \in Documents(t) /\ \A i \in DOMAIN rows : rows[i].doc = d => i <= Window
      BY DEF Recents
    <3>3. PICK c \in ToSet(rows) : c.doc = d
      BY <1>4, <2>3, <3>1, <3>2 DEF Has
    <3>4. PICK i \in DOMAIN rows : rows[i] = c
      BY DEF ToSet
    <3>5. rows[i] \in ToSet(TextHits(q))
      BY <1>5, <2>4, <3>1, <3>2, <3>3, <3>4
    <3> QED BY <3>3, <3>4, <3>5
  <2>5. Storing(ToSet(rows), "recall_more", todo[t], batch[t])
    BY DEF Storing
  <2>6. Counted("recall_more", mem[t], todo[t], failed[t], Documents(t))
    BY DEF Counted, Work
  <2>7. Showing("recall_more", found'[t], hits[t], cached[t], QueryOf[t], Recents(rows, Documents(t)))
    BY <2>0, <2>4 DEF Showing
  <2> QED BY <1>2, <1>3, <2>2, <2>5, <2>6, <2>7 DEF Sees, Documents
<1> QED BY <1>1, <1>2, <1>6, AnswerFrame

LEMMA AnswerOfRank ==
  ASSUME KnowledgeParameters, TypeInv, AnswerInv, NEW t \in Task, Rank(t) PROVE AnswerInv'
<1>1. Others(t)
  BY OthersOfRetrieve DEF Retrieve
<1>2. /\ at[t] = "recall_more" /\ GoTo(t, "keep")
      /\ UNCHANGED <<rows, mem, saved, todo, batch, failed, cached, faults>>
  BY DEF Rank, searching, sections, stores
<1>3. PICK list : /\ hits' = [hits EXCEPT ![t] = list] /\ Answers(list)
                  /\ Len(list) = TopK \/ ToSet(found[t]) \subseteq ToSet(list)
  BY RankIs
<1>4. at'[t] = "keep" /\ hits'[t] = list
  BY <1>2, <1>3, Functions DEF GoTo
<1>5. ASSUME Sees(t) PROVE Sees(t)'
  <2>1. Recorded(ToSet(rows), "recall_more", mem[t], saved[t], Documents(t))
    BY <1>2, <1>5, SeesIs
  <2>2. Recorded(ToSet(rows), "keep", mem[t], saved[t], Documents(t))
    BY <2>1, RecordedMore, PlacesAre DEF Late
  <2>3. Showing("recall_more", found[t], hits[t], cached[t], QueryOf[t], Recents(rows, Documents(t)))
    BY <1>2, <1>5, SeesIs
  <2>4. Len(list) = TopK \/ \A d \in Recents(rows, Documents(t)) : Covers(list, QueryOf[t], d)
    <3> SUFFICES ASSUME Len(list) # TopK
                 PROVE  \A d \in Recents(rows, Documents(t)) : Covers(list, QueryOf[t], d)
      OBVIOUS
    <3>1. ToSet(found[t]) \subseteq ToSet(list)
      BY <1>3
    <3>2. ~ Full(found[t])
      <4>1. list \in Seq(ChunkIds) /\ Len(list) < TopK /\ TopK \in Nat
        BY <1>3 DEF Answers, KnowledgeParameters
      <4>2. IsFiniteSet(ToSet(list)) /\ Cardinality(ToSet(list)) <= Len(list)
        BY <4>1, CountedLists
      <4>3. Cardinality(ToSet(list)) \in Nat /\ Len(list) \in Nat
        BY <4>1, <4>2, FS_CardinalityType
      <4>4. /\ Cardinality(ToSet(found[t])) <= Cardinality(ToSet(list))
            /\ Cardinality(ToSet(found[t])) \in Nat
        BY <3>1, <4>2, FS_Subset, FS_CardinalityType
      <4>5. ~ (Cardinality(ToSet(found[t])) >= TopK)
        BY <4>1, <4>2, <4>3, <4>4
      <4> QED BY <4>5 DEF Full
    <3>3. \A d \in Recents(rows, Documents(t)) : Covers(found[t], QueryOf[t], d)
      BY <2>3, <3>2 DEF Showing
    <3> QED BY <3>1, <3>3 DEF Covers
  <2>5. Storing(ToSet(rows), "keep", todo[t], batch[t])
    BY DEF Storing
  <2>6. Counted("keep", mem[t], todo[t], failed[t], Documents(t))
    BY DEF Counted, Work
  <2>7. Showing("keep", found'[t], list, cached[t], QueryOf[t], Recents(rows, Documents(t)))
    BY <2>4 DEF Showing
  <2> QED BY <1>2, <1>4, <2>2, <2>5, <2>6, <2>7 DEF Sees, Documents
<1> QED BY <1>1, <1>2, <1>5, AnswerFrame

LEMMA AnswerSame ==
  ASSUME AnswerInv,
         UNCHANGED <<rows, at, mem, saved, todo, batch, failed, found, hits, cached, faults>>
  PROVE  AnswerInv'
BY DEF AnswerInv, Sees, Documents

LEMMA AnswerOfCrash ==
  ASSUME TypeInv, AnswerInv, Crash PROVE AnswerInv'
<1>1. /\ at' = [t \in Task |-> IF at[t] \in Left THEN at[t] ELSE "start"]
      /\ mem' = [t \in Task |-> None] /\ todo' = [t \in Task |-> <<>>]
      /\ UNCHANGED <<rows, saved, hits, cached, faults>>
  BY DEF Crash, stores
<1> SUFFICES ASSUME faults = 0, NEW t \in Task PROVE Sees(t)'
  BY <1>1 DEF AnswerInv
<1>2. Sees(t)
  BY DEF AnswerInv
<1> DEFINE p == IF at[t] \in Left THEN at[t] ELSE "start"
<1>3. at'[t] = p /\ mem'[t] = None /\ todo'[t] = <<>>
  BY <1>1
<1>4. (p = at[t] /\ p \in Left) \/ p = "start"
  OBVIOUS
<1> HIDE DEF p
<1>5. p \notin Inside /\ p \notin Work \union {"know_mark"} /\ (p \in Late => p = at[t])
  BY <1>4 DEF Inside, Left, Work, Late
<1>6. Recorded(ToSet(rows), at[t], mem[t], saved[t], Documents(t))
  BY <1>2, SeesIs
<1>7. Recorded(ToSet(rows), p, None, saved[t], Documents(t))
  BY <1>5, <1>6 DEF Recorded
<1>8. Storing(ToSet(rows), p, <<>>, batch'[t])
  BY DEF Storing
<1>9. Counted(p, None, <<>>, failed'[t], Documents(t))
  BY <1>5 DEF Counted
<1>10. Showing(at[t], found[t], hits[t], cached[t], QueryOf[t], Recents(rows, Documents(t)))
  BY <1>2, SeesIs
<1>11. Showing(p, found'[t], hits[t], cached[t], QueryOf[t], Recents(rows, Documents(t)))
  BY <1>4, <1>10 DEF Showing, Left
<1> QED BY <1>1, <1>3, <1>7, <1>8, <1>9, <1>11 DEF Sees, Documents

LEMMA AnswerInit == KnowledgeParameters /\ Init => AnswerInv
<1> SUFFICES ASSUME Init, NEW t \in Task PROVE Sees(t)
  BY DEF AnswerInv
<1>1. at[t] = "start" /\ saved = mem /\ mem[t] = Pending(t) /\ todo[t] = <<>>
  BY DEF Init
<1>2. \A d \in Documents(t) : mem[t][d] = "pending" /\ saved[t][d] = "pending"
  BY <1>1 DEF Pending
<1> QED BY <1>1, <1>2 DEF Sees, Recorded, Storing, Counted, Showing, Late, Work

LEMMA AnswerStep ==
  ASSUME KnowledgeParameters, Searchable, TypeInv, FreshInv, AnswerInv, [Next]_vars
  PROVE  AnswerInv'
<1>1. ASSUME NEW t \in Task, Step(t) PROVE AnswerInv'
  <2>1. CASE Enter(t)
    BY <2>1, AnswerOfEnter
  <2>2. CASE Parse(t)
    BY <2>2, AnswerOfParse
  <2>3. CASE ParseFails(t) \/ ExtractionRaises(t)
    BY <2>3, AnswerOfGivingUp
  <2>4. CASE StoreRows(t) \/ StoreNothing(t) \/ RowsFail(t) \/ StoreVectors(t)
               \/ VectorsFail(t) \/ StoreFacts(t) \/ FactsFail(t)
    BY <2>4, AnswerOfStores
  <2>5. CASE Mark(t)
    BY <2>5, AnswerOfMark
  <2>6. CASE KnowMark(t)
    BY <2>6, AnswerOfKnowMark
  <2>7. CASE Block(t) \/ Keep(t) \/ KeepKnow(t)
    BY <2>7, AnswerOfSaving
  <2>8. CASE Plan(t)
    BY <2>8, AnswerOfPlan
  <2>9. CASE RecallText(t)
    BY <2>9, AnswerOfRecall
  <2>10. CASE Rank(t)
    BY <2>10, AnswerOfRank
  <2> QED BY <1>1, <2>1, <2>2, <2>3, <2>4, <2>5, <2>6, <2>7, <2>8, <2>9, <2>10
          DEF Step, Ingest, Retrieve
<1>2. ASSUME NEW t \in Task, Again(t) PROVE AnswerInv'
  BY <1>2, AnswerOfSaving
<1>3. ASSUME NEW q \in Query, Expire(q) PROVE AnswerInv'
  BY <1>3, AnswerSame DEF Expire, stores, sections, flow
<1>4. CASE Crash
  BY <1>4, AnswerOfCrash
<1>5. CASE UNCHANGED vars
  BY <1>5, AnswerSame DEF vars, stores, sections, flow
<1> QED BY <1>1, <1>2, <1>3, <1>4, <1>5 DEF Next, AllLeft

LEMMA ShownAre ==
  ASSUME TypeInv, AnswerInv PROVE AnswerSeesDocuments
<1> SUFFICES ASSUME NEW t \in Task, at[t] = "answered", ~cached[t], faults = 0,
                    Len(hits[t]) # TopK, NEW d \in Documents(t), Relevance[QueryOf[t]][d] > 0,
                    Class(d) = "small" \/ Recent(d)
             PROVE  d \in Shown(t)
  BY DEF AnswerSeesDocuments
<1>1. Showing(at[t], found[t], hits[t], cached[t], QueryOf[t], Recents(rows, Documents(t)))
  BY DEF AnswerInv, Sees
<1>2. Class(d) = "small" \/ \E c \in ToSet(hits[t]) : c.doc = d
  <2> SUFFICES ASSUME Class(d) # "small" PROVE \E c \in ToSet(hits[t]) : c.doc = d
    OBVIOUS
  <2>1. d \in Recents(rows, Documents(t))
    BY DEF Recent, Recents
  <2> QED BY <1>1, <2>1 DEF Showing, Covers
<1> QED BY <1>2 DEF Shown, Injected

\* A task answers from its documents, if those that a query matches leave chunks
\* (Searchable): from the mark on, each has its rows; the text search loses those
\* alone that newer rows have pushed out of what it reads, or has better hits enough
\* to fill the answer; the fusion, the cut and the sorting lose none but for better
\* hits either.
THEOREM AnswersFromDocuments ==
  ASSUME Searchable PROVE Spec => []AnswerSeesDocuments
<1> DEFINE All == Inv /\ FreshInv /\ AnswerInv
<1>1. Init => All
  BY TypeInit, SourceInit, FreshInit, AnswerInit, KnowledgeParameters DEF Inv
<1>2. All /\ [Next]_vars => All'
  BY StoreStep, FreshStep, AnswerStep, Searchable, KnowledgeParameters DEF Inv
<1>3. All => AnswerSeesDocuments
  BY ShownAre DEF Inv
<1> HIDE DEF All
<1> QED BY <1>1, <1>2, <1>3, PTL DEF Spec
=============================================================================
