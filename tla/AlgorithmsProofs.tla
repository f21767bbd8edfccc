-------------------------- MODULE AlgorithmsProofs ---------------------------
(***************************************************************************)
(* Proofs about the algorithms: for any messages, machine, registry,       *)
(* limits, file system and options that the assumptions of Algorithms      *)
(* allow.                                                                  *)
(*                                                                         *)
(* A behaviour holds one input, of a known shape; each theorem is then a   *)
(* fact about the operators, applied to that input.                        *)
(***************************************************************************)
EXTENDS Algorithms, SequenceTheorems, WellFoundedInduction, TLAPS

-----------------------------------------------------------------------------
(* Least and largest elements.                                             *)

LEMMA LeastOf ==
  ASSUME NEW S \in SUBSET Nat, S # {}
  PROVE  \E x \in S : \A y \in S : x <= y
<1>1. PICK x \in S : \A y \in S : ~(<<y, x>> \in OpToRel(<, Nat))
  BY NatLessThanWellFounded, WFMin, Zenon
<1>2. \A y \in S : ~(y < x)
  BY <1>1 DEF OpToRel
<1>. QED
  BY <1>2

LEMMA MinIs ==
  ASSUME NEW S \in SUBSET Nat, S # {}
  PROVE  Min(S) \in S /\ \A y \in S : Min(S) <= y
<1>1. PICK x \in S : \A y \in S : x <= y
  BY LeastOf
<1>. QED
  BY <1>1 DEF Min

LEMMA NoneLeast ==
  ASSUME NEW T \in SUBSET Nat, \A n \in T : n # 0 /\ n - 1 \in T
  PROVE  T = {}
<1>. SUFFICES ASSUME T # {} PROVE FALSE
  OBVIOUS
<1>1. PICK n \in T : \A k \in T : n <= k
  BY LeastOf
<1>. QED
  BY <1>1

\* A list that is not empty has a largest element.
LEMMA Largest ==
  ASSUME NEW N \in Nat \ {0}, NEW f \in [1..N -> Nat]
  PROVE  \E i \in 1..N : \A j \in 1..N : f[j] <= f[i]
<1>. DEFINE Has(n) == n = 0 \/ \E i \in 1..n : \A j \in 1..n : f[j] <= f[i]
            T == {n \in 0..N : ~Has(n)}
<1>1. T \in SUBSET Nat
  OBVIOUS
<1>2. ASSUME NEW n \in T
      PROVE  n # 0 /\ n - 1 \in T
  <2>1. n \in 0..N /\ n # 0 /\ ~\E i \in 1..n : \A j \in 1..n : f[j] <= f[i]
    OBVIOUS
  <2>2. ASSUME Has(n - 1) PROVE FALSE
    <3>1. CASE n - 1 = 0
      <4>1. \A j \in 1..n : f[j] <= f[1]
        BY <2>1, <3>1
      <4>. QED
        BY <2>1, <3>1, <4>1
    <3>2. CASE \E i \in 1..(n - 1) : \A j \in 1..(n - 1) : f[j] <= f[i]
      <4>1. PICK i \in 1..(n - 1) : \A j \in 1..(n - 1) : f[j] <= f[i]
        BY <3>2
      <4>2. \A j \in 1..n : j = n \/ j \in 1..(n - 1)
        BY <2>1
      <4>3. /\ i \in 1..n /\ n \in 1..n /\ f[i] \in Nat /\ f[n] \in Nat
            /\ \A j \in 1..n : f[j] \in Nat
        BY <2>1
      <4>4. CASE f[n] <= f[i]
        BY <2>1, <4>1, <4>2, <4>3, <4>4
      <4>5. CASE f[i] < f[n]
        <5>1. \A j \in 1..n : f[j] <= f[n]
          BY <4>1, <4>2, <4>3, <4>5
        <5>. QED
          BY <2>1, <4>3, <5>1
      <4>. QED
        BY <4>3, <4>4, <4>5
    <3>. QED
      BY <2>2, <3>1, <3>2
  <2>. QED
    BY <2>1, <2>2
<1>3. T = {}
  <2>. HIDE DEF T
  <2>. QED
    BY <1>1, <1>2, NoneLeast
<1>4. N \in 0..N
  OBVIOUS
<1>. QED
  BY <1>3, <1>4

-----------------------------------------------------------------------------
(* Loops.                                                                  *)

\* g is what a loop goes through: a before it, then step after step.
Iterates(n, S, a, step, g) ==
  /\ g \in [0..n -> S]
  /\ g[0] = a
  /\ \A i \in 1..n : g[i] = step[i][g[i - 1]]

LEMMA IteratesStart ==
  ASSUME NEW S, NEW a \in S, NEW step
  PROVE  \E g : Iterates(0, S, a, step, g)
<1>. DEFINE g == [i \in 0..0 |-> a]
<1>1. g \in [0..0 -> S] /\ g[0] = a
  OBVIOUS
<1>2. \A i \in 1..0 : FALSE
  OBVIOUS
<1>. HIDE DEF g
<1>. QED
  BY <1>1, <1>2 DEF Iterates

LEMMA IteratesOn ==
  ASSUME NEW N \in Nat, NEW S, NEW a \in S, NEW step \in [1..N -> [S -> S]],
         NEW n \in 1..N, NEW g, Iterates(n - 1, S, a, step, g)
  PROVE  \E h : Iterates(n, S, a, step, h)
<1>0. n \in Nat /\ n # 0 /\ n - 1 \in 0..(n - 1) /\ step[n] \in [S -> S]
  OBVIOUS
<1>1. /\ g \in [0..(n - 1) -> S] /\ g[0] = a
      /\ \A i \in 1..(n - 1) : g[i] = step[i][g[i - 1]]
  BY DEF Iterates
<1>2. PICK x \in S : x = step[n][g[n - 1]]
  BY <1>0, <1>1
<1>. DEFINE h == [i \in 0..n |-> IF i = n THEN x ELSE g[i]]
<1>3. h \in [0..n -> S]
  BY <1>0, <1>1
<1>4. h[n] = x /\ \A i \in 0..(n - 1) : h[i] = g[i]
  BY <1>0
<1>. HIDE DEF h
<1>5. h[0] = a
  BY <1>0, <1>1, <1>4
<1>6. ASSUME NEW i \in 1..n PROVE h[i] = step[i][h[i - 1]]
  <2>1. CASE i = n
    <3>1. h[n - 1] = g[n - 1]
      BY <1>0, <1>4
    <3>. QED
      BY <1>2, <1>4, <2>1, <3>1
  <2>2. CASE i # n
    <3>1. i \in 1..(n - 1) /\ i \in 0..(n - 1) /\ i - 1 \in 0..(n - 1)
      BY <1>0, <2>2
    <3>2. h[i] = g[i] /\ h[i - 1] = g[i - 1]
      BY <3>1, <1>4
    <3>. QED
      BY <1>1, <3>1, <3>2
  <2>. QED
    BY <2>1, <2>2
<1>. QED
  BY <1>3, <1>5, <1>6 DEF Iterates

LEMMA LoopRuns ==
  ASSUME NEW N \in Nat, NEW S, NEW a \in S, NEW step \in [1..N -> [S -> S]]
  PROVE  \E g : Iterates(N, S, a, step, g)
<1>. DEFINE T == {n \in 0..N : ~\E g : Iterates(n, S, a, step, g)}
<1>1. \A n \in T : n # 0 /\ n - 1 \in T
  <2>. TAKE n \in T
  <2>1. n # 0
    BY IteratesStart
  <2>2. n \in 1..N /\ n - 1 \in 0..N
    BY <2>1
  <2>. QED
    BY <2>1, <2>2, IteratesOn
<1>2. T \in SUBSET Nat
  OBVIOUS
<1>. HIDE DEF T
<1>3. T = {}
  BY <1>1, <1>2, NoneLeast
<1>4. N \in 0..N /\ N \notin T
  BY <1>3
<1>. QED
  BY <1>4 DEF T

-----------------------------------------------------------------------------
(* Joining.                                                                *)

\* g is the result of joining the first of the sequences, one by one.
Joins(S, fs, g) ==
  /\ g \in [0..Len(fs) -> Seq(S)]
  /\ g[0] = <<>>
  /\ \A i \in 1..Len(fs) : g[i] = g[i - 1] \o fs[i]

LEMMA JoinsExist ==
  ASSUME NEW S, NEW fs \in Seq(Seq(S))
  PROVE  \E g : Joins(S, fs, g)
<1>. DEFINE n == Len(fs)
            X == Seq(S)
            step == [i \in 1..n |-> [x \in X |-> x \o fs[i]]]
<1>0. n \in Nat
  OBVIOUS
<1>1. step \in [1..n -> [X -> X]]
  <2>1. ASSUME NEW i \in 1..n PROVE [x \in X |-> x \o fs[i]] \in [X -> X]
    <3>1. fs[i] \in Seq(S)
      OBVIOUS
    <3>2. \A x \in X : x \o fs[i] \in X
      BY <3>1
    <3>. QED
      BY <3>2
  <2>. QED
    BY <2>1
<1>2. \A i \in 1..n, x \in X : step[i][x] = x \o fs[i]
  OBVIOUS
<1>3. <<>> \in X
  OBVIOUS
<1>. HIDE DEF step, X, n
<1>4. PICK g : Iterates(n, X, <<>>, step, g)
  BY <1>0, <1>1, <1>3, LoopRuns
<1>5. g \in [0..n -> X] /\ g[0] = <<>> /\ \A i \in 1..n : g[i] = step[i][g[i - 1]]
  BY <1>4 DEF Iterates
<1>6. ASSUME NEW i \in 1..n PROVE g[i] = g[i - 1] \o fs[i]
  <2>1. i - 1 \in 0..n
    BY <1>0
  <2>2. g[i - 1] \in X
    BY <1>5, <2>1
  <2>. QED
    BY <1>2, <1>5, <2>2
<1>. QED
  BY <1>5, <1>6 DEF Joins, n, X

\* Any two go through the same.
LEMMA JoinsUnique ==
  ASSUME NEW S, NEW fs \in Seq(Seq(S)), NEW g, NEW h, Joins(S, fs, g), Joins(S, fs, h),
         NEW k \in 0..Len(fs)
  PROVE  g[k] = h[k]
<1>. DEFINE n == Len(fs)
            T == {i \in 0..n : g[i] # h[i]}
<1>0. n \in Nat
  OBVIOUS
<1>1. /\ g[0] = h[0]
      /\ \A i \in 1..n : g[i] = g[i - 1] \o fs[i] /\ h[i] = h[i - 1] \o fs[i]
  BY DEF Joins
<1>2. ASSUME NEW i \in T PROVE i # 0 /\ i - 1 \in T
  <2>1. i # 0
    BY <1>1
  <2>2. i \in 1..n /\ i - 1 \in 0..n
    BY <1>0, <2>1
  <2>3. g[i - 1] # h[i - 1]
    BY <1>1, <2>2
  <2>. QED
    BY <2>1, <2>2, <2>3
<1>3. T \in SUBSET Nat
  BY <1>0
<1>. HIDE DEF T
<1>4. T = {}
  BY <1>2, <1>3, NoneLeast
<1>. QED
  BY <1>4 DEF T

\* FlattenSeq joins.
LEMMA FlattenIs ==
  ASSUME NEW S, NEW fs \in Seq(Seq(S)), NEW g, Joins(S, fs, g)
  PROVE  FlattenSeq(fs) = g[Len(fs)]
<1>. DEFINE n == Len(fs)
            F(x) == [i \in 1..n |-> IF i = 1 THEN fs[i] ELSE x[i - 1] \o fs[i]]
            f == CHOOSE x : x = F(x)
<1>0. n \in Nat /\ \A i \in 1..n : fs[i] \in Seq(S)
  OBVIOUS
<1>1. /\ g \in [0..n -> Seq(S)] /\ g[0] = <<>>
      /\ \A i \in 1..n : g[i] = g[i - 1] \o fs[i]
  BY DEF Joins
<1>2. CASE n = 0
  <2>1. fs = <<>>
    BY <1>2
  <2>. QED
    BY <1>1, <1>2, <2>1 DEF FlattenSeq
<1>3. CASE n # 0
  <2>0. 1 \in 1..n /\ fs[1] \in Seq(S) /\ g[1] = <<>> \o fs[1]
    <3>1. 1 \in 1..n /\ 1 - 1 = 0
      BY <1>0, <1>3
    <3>. QED
      BY <1>0, <1>1, <3>1
  <2>1. FlattenSeq(fs) = f[n]
    BY <1>3 DEF FlattenSeq
  <2>2. \E x : x = F(x)
    <3>. DEFINE x == [i \in 1..n |-> g[i]]
    <3>1. ASSUME NEW i \in 1..n PROVE x[i] = F(x)[i]
      <4>1. CASE i = 1
        <5>1. g[1] = <<>> \o fs[1] /\ fs[1] \in Seq(S)
          BY <2>0
        <5>2. <<>> \o fs[1] = fs[1]
          BY <5>1
        <5>. QED
          BY <4>1, <5>1, <5>2
      <4>2. CASE i # 1
        <5>1. i - 1 \in 1..n
          BY <1>0, <4>2
        <5>. QED
          BY <1>1, <4>2, <5>1
      <4>. QED
        BY <4>1, <4>2
    <3>2. x = F(x)
      BY <3>1
    <3>. QED
      BY <3>2
  <2>3. f = F(f)
    BY <2>2
  <2>. HIDE DEF f
  <2>4. \A i \in 1..n : f[i] = IF i = 1 THEN fs[i] ELSE f[i - 1] \o fs[i]
    BY <2>3
  <2>. DEFINE T == {i \in 0..n : i # 0 /\ f[i] # g[i]}
  <2>5. ASSUME NEW i \in T PROVE i # 0 /\ i - 1 \in T
    <3>1. i \in 1..n /\ i - 1 \in 0..n
      BY <1>0
    <3>2. i # 1
      <4>1. ASSUME i = 1 PROVE f[i] = g[i]
        <5>1. g[1] = <<>> \o fs[1] /\ fs[1] \in Seq(S) /\ f[1] = fs[1]
          BY <2>0, <2>4
        <5>2. <<>> \o fs[1] = fs[1]
          BY <5>1
        <5>. QED
          BY <4>1, <5>1, <5>2
      <4>. QED
        BY <4>1
    <3>3. f[i] = f[i - 1] \o fs[i] /\ g[i] = g[i - 1] \o fs[i]
      BY <1>1, <2>4, <3>1, <3>2
    <3>4. f[i - 1] # g[i - 1]
      BY <3>3
    <3>. QED
      BY <3>1, <3>2, <3>4
  <2>6. T \in SUBSET Nat
    BY <1>0
  <2>. HIDE DEF T
  <2>7. T = {}
    BY <2>5, <2>6, NoneLeast
  <2>8. n \in 0..n /\ f[n] = g[n]
    BY <1>0, <1>3, <2>7 DEF T
  <2>. QED
    BY <2>1, <2>8
<1>. QED
  BY <1>2, <1>3

LEMMA FlattenEmpty == FlattenSeq(<<>>) = <<>>
BY DEF FlattenSeq

LEMMA FlattenTyped ==
  ASSUME NEW S, NEW fs \in Seq(Seq(S))
  PROVE  FlattenSeq(fs) \in Seq(S)
<1>1. PICK g : Joins(S, fs, g)
  BY JoinsExist
<1>2. FlattenSeq(fs) = g[Len(fs)]
  BY <1>1, FlattenIs
<1>. QED
  BY <1>1, <1>2 DEF Joins

\* One sequence more.
LEMMA FlattenAppend ==
  ASSUME NEW S, NEW fs \in Seq(Seq(S)), NEW t \in Seq(S)
  PROVE  FlattenSeq(Append(fs, t)) = FlattenSeq(fs) \o t
<1>. DEFINE n == Len(fs)
            all == Append(fs, t)
<1>0. /\ n \in Nat /\ all \in Seq(Seq(S)) /\ Len(all) = n + 1
      /\ all[n + 1] = t /\ \A i \in 1..n : all[i] = fs[i]
  OBVIOUS
<1>. HIDE DEF all
<1>1. PICK g : Joins(S, all, g)
  BY <1>0, JoinsExist
<1>2. /\ g \in [0..(n + 1) -> Seq(S)] /\ g[0] = <<>>
      /\ \A i \in 1..(n + 1) : g[i] = g[i - 1] \o all[i]
  BY <1>0, <1>1 DEF Joins
<1>. DEFINE h == [i \in 0..n |-> g[i]]
<1>3. /\ h \in [0..n -> Seq(S)] /\ h[0] = <<>> /\ h[n] = g[n]
      /\ \A i \in 1..n : h[i] = h[i - 1] \o fs[i]
  <2>1. /\ \A i \in 1..n : i \in 0..n /\ i - 1 \in 0..n /\ i \in 1..(n + 1)
        /\ 0 \in 0..n /\ n \in 0..n /\ \A i \in 0..n : i \in 0..(n + 1)
    BY <1>0
  <2>2. \A i \in 0..n : h[i] = g[i] /\ g[i] \in Seq(S)
    BY <1>2, <2>1
  <2>3. h \in [0..n -> Seq(S)]
    BY <2>2
  <2>. HIDE DEF h
  <2>4. ASSUME NEW i \in 1..n PROVE h[i] = h[i - 1] \o fs[i]
    BY <1>0, <1>2, <2>1, <2>2
  <2>. QED
    BY <1>2, <2>1, <2>2, <2>3, <2>4
<1>. HIDE DEF h
<1>4. Joins(S, fs, h)
  BY <1>3 DEF Joins
<1>5. FlattenSeq(fs) = g[n]
  BY <1>3, <1>4, FlattenIs
<1>6. FlattenSeq(all) = g[n + 1]
  BY <1>0, <1>1, FlattenIs
<1>7. g[n + 1] = g[n] \o t
  <2>1. n + 1 \in 1..(n + 1) /\ (n + 1) - 1 = n
    BY <1>0
  <2>. QED
    BY <1>0, <1>2, <2>1
<1>. QED
  BY <1>5, <1>6, <1>7 DEF all

LEMMA SameSeq ==
  ASSUME NEW S, NEW s \in Seq(S), NEW t \in Seq(S), Len(s) = Len(t),
         \A i \in 1..Len(s) : s[i] = t[i]
  PROVE  s = t
<1>1. s \in [1..Len(s) -> S] /\ t \in [1..Len(s) -> S]
  OBVIOUS
<1>. QED
  BY <1>1

\* A name for \o, which the provers rewrite when they see it.
Cat(a, b) == a \o b

LEMMA CatInTurn ==
  \A S : \A a, b, c \in Seq(S) : Cat(Cat(a, b), c) = Cat(a, Cat(b, c))
<1>. SUFFICES ASSUME NEW S, NEW a \in Seq(S), NEW b \in Seq(S), NEW c \in Seq(S)
              PROVE  (a \o b) \o c = a \o (b \o c)
  BY DEF Cat
<1>. QED
  BY ConcatAssociative

LEMMA FrontAndLast ==
  ASSUME NEW S, NEW s \in Seq(S), s # <<>>
  PROVE  /\ Len(s) \in Nat \ {0}
         /\ SubSeq(s, 1, Len(s) - 1) \in Seq(S) /\ s[Len(s)] \in S
         /\ Append(SubSeq(s, 1, Len(s) - 1), s[Len(s)]) = s
<1>. DEFINE n == Len(s)
            front == SubSeq(s, 1, n - 1)
<1>1. n \in Nat \ {0}
  OBVIOUS
<1>2. s[n] \in S /\ front \in Seq(S) /\ Len(front) = n - 1 /\ \A i \in 1..(n - 1) : front[i] = s[i]
  <2>1. n \in 1..n /\ n - 1 \in Nat /\ n - 1 <= n
    BY <1>1
  <2>2. s[n] \in S
    BY <2>1
  <2>3. front \in Seq(S)
    <3>1. \A i \in 1..(n - 1) : s[i] \in S
      BY <2>1
    <3>. QED
      BY <2>1, <3>1
  <2>4. Len(front) = n - 1
    <3>1. \A i \in 1..(n - 1) : s[i] \in S
      BY <2>1
    <3>2. Len(front) = IF 1 <= n - 1 THEN (n - 1) - 1 + 1 ELSE 0
      BY <2>1, <3>1, SubSeqProperties
    <3>3. \A k \in Nat \ {0} : (IF 1 <= k - 1 THEN (k - 1) - 1 + 1 ELSE 0) = k - 1
      OBVIOUS
    <3>. HIDE DEF front
    <3>. QED
      BY <1>1, <3>2, <3>3
  <2>5. \A i \in 1..(n - 1) : front[i] = s[i]
    BY <2>1
  <2>. QED
    BY <2>2, <2>3, <2>4, <2>5
<1>. HIDE DEF front
<1>. DEFINE t == Append(front, s[n])
<1>3. /\ t \in Seq(S) /\ Len(t) = (n - 1) + 1
      /\ \A i \in 1..(n - 1) : t[i] = front[i]
      /\ t[(n - 1) + 1] = s[n]
  BY <1>2, AppendProperties
<1>4. Len(t) = n /\ \A i \in 1..n : t[i] = s[i]
  <2>1. (n - 1) + 1 = n /\ \A i \in 1..n : i = n \/ i \in 1..(n - 1)
    BY <1>1
  <2>. QED
    BY <1>2, <1>3, <2>1
<1>. HIDE DEF t
<1>5. t = s
  BY <1>3, <1>4, SameSeq
<1>. QED
  BY <1>1, <1>2, <1>5 DEF t, front

\* The last sequence is longer.
LEMMA FlattenGrow ==
  ASSUME NEW S, NEW fs \in Seq(Seq(S)), NEW gs \in Seq(Seq(S)), NEW x \in Seq(S),
         fs # <<>>, Len(gs) = Len(fs), \A i \in 1..(Len(fs) - 1) : gs[i] = fs[i],
         gs[Len(fs)] = fs[Len(fs)] \o x
  PROVE  FlattenSeq(gs) = FlattenSeq(fs) \o x
<1>. DEFINE n == Len(fs)
            front == SubSeq(fs, 1, n - 1)
<1>1. /\ n \in Nat \ {0} /\ front \in Seq(Seq(S)) /\ fs[n] \in Seq(S)
      /\ Append(front, fs[n]) = fs
  BY FrontAndLast
<1>2. gs # <<>>
  BY <1>1
<1>3. SubSeq(gs, 1, n - 1) = front
  <2>1. /\ SubSeq(gs, 1, n - 1) \in Seq(Seq(S)) /\ Len(SubSeq(gs, 1, n - 1)) = n - 1
        /\ \A i \in 1..(n - 1) : SubSeq(gs, 1, n - 1)[i] = gs[i]
    BY <1>1
  <2>2. Len(front) = n - 1 /\ \A i \in 1..(n - 1) : front[i] = fs[i]
    BY <1>1
  <2>. HIDE DEF front
  <2>. QED
    BY <1>1, <2>1, <2>2, SameSeq
<1>4. gs[n] \in Seq(S) /\ Append(front, gs[n]) = gs
  BY <1>2, <1>3, FrontAndLast
<1>. HIDE DEF front
<1>5. FlattenSeq(fs) = FlattenSeq(front) \o fs[n]
  BY <1>1, FlattenAppend
<1>6. FlattenSeq(gs) = FlattenSeq(front) \o gs[n]
  BY <1>1, <1>4, FlattenAppend
<1>7. FlattenSeq(front) \in Seq(S)
  BY <1>1, FlattenTyped
<1>8. (FlattenSeq(front) \o fs[n]) \o x = FlattenSeq(front) \o (fs[n] \o x)
  <2>1. Cat(Cat(FlattenSeq(front), fs[n]), x) = Cat(FlattenSeq(front), Cat(fs[n], x))
    BY <1>1, <1>7, CatInTurn
  <2>. QED
    BY <2>1 DEF Cat
<1>. QED
  BY <1>5, <1>6, <1>8

\* What comes first stays first.
LEMMA JoinsPrefix ==
  ASSUME NEW S, NEW fs \in Seq(Seq(S)), NEW g, Joins(S, fs, g), NEW k \in 0..Len(fs)
  PROVE  /\ Len(g[k]) <= Len(g[Len(fs)])
         /\ \A i \in 1..Len(g[k]) : g[k][i] = g[Len(fs)][i]
<1>. DEFINE n == Len(fs)
            Q(j) == Len(g[j]) <= Len(g[n]) /\ \A i \in 1..Len(g[j]) : g[j][i] = g[n][i]
            T == {d \in 0..n : ~Q(n - d)}
<1>0. n \in Nat
  OBVIOUS
<1>1. g \in [0..n -> Seq(S)] /\ \A i \in 1..n : g[i] = g[i - 1] \o fs[i]
  BY DEF Joins
<1>2. ASSUME NEW d \in T PROVE d # 0 /\ d - 1 \in T
  <2>1. d # 0
    <3>0. n - 0 = n /\ n \in 0..n
      BY <1>0
    <3>1. n - 0 = n /\ g[n] \in Seq(S)
      BY <1>1, <3>0
    <3>2. Q(n - 0)
      BY <3>1
    <3>. QED
      BY <3>2
  <2>2. d \in 1..n /\ d - 1 \in 0..n
    BY <1>0, <2>1
  <2>. DEFINE j == n - (d - 1)
  <2>3. j \in 1..n /\ j - 1 = n - d /\ j - 1 \in 0..n /\ j \in 0..n
    BY <1>0, <2>2
  <2>. HIDE DEF j
  <2>4. PICK a \in Seq(S), b \in Seq(S), c \in Seq(S) :
          a = g[j - 1] /\ b = g[j] /\ c = g[n] /\ b = a \o fs[j]
    <3>1. n \in 0..n
      BY <1>0
    <3>2. g[j - 1] \in Seq(S) /\ g[j] \in Seq(S) /\ g[n] \in Seq(S)
      BY <1>1, <2>3, <3>1
    <3>3. g[j] = g[j - 1] \o fs[j]
      BY <1>1, <2>3
    <3>. QED
      BY <3>2, <3>3
  <2>5. Len(a) <= Len(b) /\ \A i \in 1..Len(a) : i \in 1..Len(b) /\ b[i] = a[i]
    <3>1. fs[j] \in Seq(S)
      BY <2>3
    <3>2. /\ Len(b) = Len(a) + Len(fs[j])
          /\ \A i \in 1..(Len(a) + Len(fs[j])) : b[i] = IF i <= Len(a) THEN a[i] ELSE fs[j][i - Len(a)]
      <4>1. \A u, v \in Seq(S) :
              /\ Len(u \o v) = Len(u) + Len(v)
              /\ \A i \in 1..(Len(u) + Len(v)) : (u \o v)[i] = IF i <= Len(u) THEN u[i] ELSE v[i - Len(u)]
        BY ConcatProperties, Zenon
      <4>2. b = a \o fs[j]
        BY <2>4
      <4>. QED
        BY <3>1, <4>1, <4>2, Zenon
    <3>3. Len(a) \in Nat /\ Len(fs[j]) \in Nat
      BY <3>1
    <3>. QED
      BY <3>2, <3>3
  <2>6. Q(j) => Q(j - 1)
    <3>1. ASSUME Len(b) <= Len(c), \A i \in 1..Len(b) : b[i] = c[i]
          PROVE  Len(a) <= Len(c) /\ \A i \in 1..Len(a) : a[i] = c[i]
      <4>1. Len(a) \in Nat /\ Len(b) \in Nat /\ Len(c) \in Nat
        OBVIOUS
      <4>2. Len(a) <= Len(c)
        BY <2>5, <3>1, <4>1
      <4>. QED
        BY <2>5, <3>1, <4>2
    <3>. QED
      BY <2>4, <3>1
  <2>7. ~Q(j)
    <3>1. ~Q(n - d)
      OBVIOUS
    <3>. HIDE DEF Q
    <3>. QED
      BY <2>3, <2>6, <3>1
  <2>. QED
    BY <2>1, <2>2, <2>7 DEF j
<1>3. T \in SUBSET Nat
  BY <1>0
<1>4. T = {}
  <2>. HIDE DEF T
  <2>. QED
    BY <1>2, <1>3, NoneLeast
<1>5. n - k \in 0..n /\ n - (n - k) = k
  BY <1>0
<1>. QED
  BY <1>4, <1>5

-----------------------------------------------------------------------------
(* Paths.                                                                  *)

LEMMA SamePath ==
  ASSUME NEW s \in Path, NEW t \in Path, Len(s) = Len(t), \A i \in 1..Len(s) : s[i] = t[i]
  PROVE  s = t
<1>1. s \in [1..Len(s) -> Names] /\ t \in [1..Len(s) -> Names]
  BY DEF Path
<1>. QED
  BY <1>1

LEMMA PrefixIs ==
  ASSUME NEW s \in Path, NEW t \in Path
  PROVE  IsPrefix(s, t) <=> Len(s) <= Len(t) /\ \A i \in 1..Len(s) : s[i] = t[i]
<1>1. CASE Len(s) <= Len(t)
  <2>1. /\ Len(SubSeq(s, 1, Len(s))) = Len(s)
        /\ \A i \in 1..Len(s) : SubSeq(s, 1, Len(s))[i] = s[i]
    BY DEF Path
  <2>2. /\ Len(SubSeq(t, 1, Len(s))) = Len(s)
        /\ \A i \in 1..Len(s) : SubSeq(t, 1, Len(s))[i] = t[i]
    BY <1>1 DEF Path
  <2>. QED
    BY <1>1, <2>1, <2>2 DEF IsPrefix, Path
<1>. QED
  BY <1>1 DEF IsPrefix

\* A path below another is that path and the rest.
LEMMA RelativeIs ==
  ASSUME NEW path \in Path, NEW parent \in Path, IsRelativeTo(path, parent)
  PROVE  Relative(path, parent) \in Path /\ parent \o Relative(path, parent) = path
<1>1. /\ Len(parent) \in Nat /\ Len(path) \in Nat
      /\ Len(parent) <= Len(path) /\ \A i \in 1..Len(parent) : parent[i] = path[i]
  BY PrefixIs DEF IsRelativeTo, Path
<1>. DEFINE rest == Relative(path, parent)
<1>2. /\ rest \in Path
      /\ Len(rest) = Len(path) - Len(parent)
      /\ \A i \in 1..(Len(path) - Len(parent)) : rest[i] = path[Len(parent) + i]
  BY <1>1 DEF Relative, Path
<1>. HIDE DEF rest
<1>3. parent \o rest \in Path /\ Len(parent \o rest) = Len(path)
  BY <1>1, <1>2 DEF Path
<1>4. \A i \in 1..Len(path) : (parent \o rest)[i] = path[i]
  BY <1>1, <1>2 DEF Path
<1>5. parent \o rest = path
  <2>. DEFINE whole == parent \o rest
  <2>1. whole \in Path /\ Len(whole) = Len(path) /\ \A i \in 1..Len(whole) : whole[i] = path[i]
    BY <1>3, <1>4
  <2>. HIDE DEF whole
  <2>2. whole = path
    BY <2>1, SamePath
  <2>. QED
    BY <2>2 DEF whole
<1>. QED
  BY <1>2, <1>5 DEF rest

LEMMA BelowIs ==
  ASSUME NEW parent \in Path, NEW rest \in Path
  PROVE  /\ parent \o rest \in Path
         /\ IsRelativeTo(parent \o rest, parent)
         /\ Relative(parent \o rest, parent) = rest
<1>. DEFINE path == parent \o rest
<1>1. /\ Len(parent) \in Nat /\ Len(rest) \in Nat
      /\ path \in Path /\ Len(path) = Len(parent) + Len(rest)
      /\ \A i \in 1..Len(parent) : path[i] = parent[i]
      /\ \A i \in 1..Len(rest) : path[Len(parent) + i] = rest[i]
  BY DEF Path
<1>. HIDE DEF path
<1>2. IsRelativeTo(path, parent)
  BY <1>1, PrefixIs DEF IsRelativeTo
<1>3. Relative(path, parent) = rest
  <2>1. /\ Relative(path, parent) \in Path /\ Len(Relative(path, parent)) = Len(rest)
        /\ \A i \in 1..Len(rest) : Relative(path, parent)[i] = path[Len(parent) + i]
    BY <1>1 DEF Relative, Path
  <2>. QED
    BY <1>1, <2>1 DEF Path
<1>. QED
  BY <1>1, <1>2, <1>3 DEF path

LEMMA SameFirstName ==
  ASSUME NEW path \in Path, NEW a \in Path, NEW b \in Path, a # <<>>, b # <<>>,
         IsRelativeTo(path, a), IsRelativeTo(path, b)
  PROVE  a[1] = b[1]
<1>1. Len(a) \in Nat \ {0} /\ Len(b) \in Nat \ {0}
  BY DEF Path
<1>2. a[1] = path[1] /\ b[1] = path[1]
  BY <1>1, PrefixIs DEF IsRelativeTo
<1>. QED
  BY <1>2

Workspace == <<"home", Agent, "workspace">>

LEMMA WorkspaceIs == Workspace \in Path /\ Workspace # <<>> /\ Workspace[1] = "home"
<1>1. Agent \in Names /\ "home" \in Names /\ "workspace" \in Names
  BY PathAssumption
<1>2. \A a, b, c \in Names :
        <<a, b, c>> \in Seq(Names) /\ <<a, b, c>> # <<>> /\ <<a, b, c>>[1] = a
  OBVIOUS
<1>. QED
  BY <1>1, <1>2 DEF Workspace, Path

-----------------------------------------------------------------------------
(* The root directory.                                                     *)

\* Of two paths above a third, one is above the other.
LEMMA Comparable ==
  ASSUME NEW f \in Path, NEW a \in Path, NEW b \in Path, IsRelativeTo(f, a), IsRelativeTo(f, b)
  PROVE  IsRelativeTo(a, b) \/ IsRelativeTo(b, a)
<1>1. /\ Len(a) \in Nat /\ Len(b) \in Nat
      /\ Len(a) <= Len(f) /\ \A i \in 1..Len(a) : a[i] = f[i]
      /\ Len(b) <= Len(f) /\ \A i \in 1..Len(b) : b[i] = f[i]
  BY PrefixIs DEF IsRelativeTo, Path
<1>2. CASE Len(a) <= Len(b)
  <2>1. \A i \in 1..Len(a) : a[i] = b[i]
    BY <1>1, <1>2
  <2>. QED
    BY <1>2, <2>1, PrefixIs DEF IsRelativeTo
<1>3. CASE Len(b) <= Len(a)
  <2>1. \A i \in 1..Len(b) : b[i] = a[i]
    BY <1>1, <1>3
  <2>. QED
    BY <1>3, <2>1, PrefixIs DEF IsRelativeTo
<1>. QED
  BY <1>1, <1>2, <1>3

LEMMA BelowBelow ==
  ASSUME NEW f \in Path, NEW a \in Path, NEW b \in Path, IsRelativeTo(f, a), IsRelativeTo(a, b)
  PROVE  IsRelativeTo(f, b)
<1>1. /\ Len(a) \in Nat /\ Len(b) \in Nat /\ Len(f) \in Nat
      /\ Len(a) <= Len(f) /\ \A i \in 1..Len(a) : a[i] = f[i]
      /\ Len(b) <= Len(a) /\ \A i \in 1..Len(b) : b[i] = a[i]
  BY PrefixIs DEF IsRelativeTo, Path
<1>2. Len(b) <= Len(f) /\ \A i \in 1..Len(b) : b[i] = f[i]
  BY <1>1
<1>. QED
  BY <1>2, PrefixIs DEF IsRelativeTo

LEMMA ExamplesIs == ASSUME NEW t \in Path PROVE Append(t, "examples") \in Path
  BY PathAssumption DEF Path

\* What lies below a root that passes.
OpensOnly(host, root, f) ==
  /\ \A p \in ProtectedRoots \cup {<<>>} : f # p /\ (p # <<>> => ~IsRelativeTo(f, p))
  /\ (host.checkout # NoPath /\ IsRelativeTo(f, host.checkout)) => IsAllowedSourceWorkspace(f, host.checkout)
  /\ \A t \in host.trees : IsInnermostTree(host, root, t) => IsAllowedSourceWorkspace(f, t)

\* A root that passes is safe.
LEMMA ValidRootIsSafe ==
  ASSUME NEW host \in Hosts, NEW root \in Path, ValidateWritableRoot(host, root),
         NEW f \in Path, IsRelativeTo(f, root)
  PROVE  OpensOnly(host, root, f)
<1>1. Len(root) \in Nat \ {0}
  BY DEF ValidateWritableRoot, Path
<1>2. ASSUME NEW p \in ProtectedRoots \cup {<<>>}
      PROVE  f # p /\ (p # <<>> => ~IsRelativeTo(f, p))
  <2>1. CASE p = <<>>
    <3>1. Len(root) <= Len(f)
      BY PrefixIs DEF IsRelativeTo
    <3>2. Len(<<>>) = 0
      OBVIOUS
    <3>3. f # <<>>
      BY <1>1, <3>1, <3>2
    <3>. QED
      BY <2>1, <3>3
  <2>2. CASE p \in ProtectedRoots
    <3>1. p \in Path /\ Len(p) = 1
      BY <2>2, PathAssumption
    <3>2. ~IsRelativeTo(root, p)
      BY <2>2 DEF ValidateWritableRoot
    <3>3. ASSUME IsRelativeTo(f, p) PROVE FALSE
      <4>1. IsRelativeTo(p, root)
        BY <3>1, <3>2, <3>3, Comparable
      <4>2. Len(root) <= Len(p) /\ \A i \in 1..Len(root) : root[i] = p[i]
        <5>1. IsPrefix(root, p)
          BY <4>1 DEF IsRelativeTo
        <5>2. \A a, b \in Path : IsPrefix(a, b) => Len(a) <= Len(b) /\ \A i \in 1..Len(a) : a[i] = b[i]
          BY PrefixIs
        <5>. QED
          BY <3>1, <5>1, <5>2, Zenon
      <4>3. Len(root) = 1
        <5>1. Len(root) \in Nat /\ Len(root) # 0
          BY <1>1
        <5>2. Len(root) <= 1
          BY <3>1, <4>2, Zenon
        <5>3. \A k \in Nat : k # 0 /\ k <= 1 => k = 1
          OBVIOUS
        <5>. QED
          BY <5>1, <5>2, <5>3, Zenon
      <4>4. Len(p) <= Len(root) /\ \A i \in 1..Len(p) : p[i] = root[i]
        BY <3>1, <4>2, <4>3
      <4>5. IsRelativeTo(root, p)
        BY <3>1, <4>4, PrefixIs DEF IsRelativeTo
      <4>. QED
        BY <3>2, <4>5
    <3>4. IsRelativeTo(p, p)
      BY <3>1, PrefixIs DEF IsRelativeTo, Path
    <3>. QED
      BY <3>3, <3>4
  <2>. QED
    BY <2>1, <2>2
<1>3. ASSUME host.checkout # NoPath, IsRelativeTo(f, host.checkout)
      PROVE  IsAllowedSourceWorkspace(f, host.checkout)
  <2>1. host.checkout \in Path
    BY <1>3, PathAssumption
  <2>2. ~IsRelativeTo(host.checkout, root)
    BY <1>3 DEF ValidateWritableRoot
  <2>3. IsRelativeTo(root, host.checkout)
    BY <1>3, <2>1, <2>2, Comparable
  <2>4. IsRelativeTo(root, Append(host.checkout, "examples"))
    BY <1>3, <2>3 DEF ValidateWritableRoot, IsAllowedSourceWorkspace
  <2>. QED
    BY <2>1, <2>4, BelowBelow, ExamplesIs DEF IsAllowedSourceWorkspace
<1>4. ASSUME NEW t \in host.trees, IsInnermostTree(host, root, t)
      PROVE  IsAllowedSourceWorkspace(f, t)
  <2>. DEFINE around == {u \in host.trees : IsRelativeTo(root, u)}
              inner == SourceTreeFor(host, root)
  <2>1. t \in around /\ \A u \in around : Len(u) <= Len(t)
    BY <1>4 DEF IsInnermostTree
  <2>2. inner \in around /\ \A u \in around : Len(u) <= Len(inner)
    <3>1. around # {}
      BY <2>1
    <3>2. inner = CHOOSE u \in around : \A v \in around : Len(v) <= Len(u)
      BY <3>1 DEF SourceTreeFor
    <3>. HIDE DEF inner, around
    <3>. QED
      BY <2>1, <3>2
  <2>3. t \in Path /\ inner \in Path
    BY <1>4, <2>2, PathAssumption
  <2>4. inner = t
    <3>. HIDE DEF inner
    <3>1. Len(t) = Len(inner)
      <4>1. Len(t) <= Len(inner) /\ Len(inner) <= Len(t)
        BY <2>1, <2>2
      <4>. QED
        BY <2>3, <4>1 DEF Path
    <3>2. /\ \A i \in 1..Len(t) : t[i] = root[i]
          /\ \A i \in 1..Len(inner) : inner[i] = root[i]
      BY <2>1, <2>2, <2>3, PrefixIs DEF IsRelativeTo
    <3>. QED
      BY <2>3, <3>1, <3>2, SamePath
  <2>5. t # NoPath
    BY <2>3, PathAssumption
  <2>6. IsRelativeTo(root, Append(t, "examples"))
    BY <2>4, <2>5 DEF ValidateWritableRoot, IsAllowedSourceWorkspace
  <2>. QED
    BY <2>3, <2>6, BelowBelow, ExamplesIs DEF IsAllowedSourceWorkspace
<1>. QED
  BY <1>2, <1>3, <1>4 DEF OpensOnly

\* What is not refused has no root, or one that passes and contains the working
\* directory.
LEMMA ResolvedPaths ==
  ASSUME NEW host \in Hosts, NEW root \in Roots, NEW workdir \in Workdirs,
         NEW paths, paths = ResolveSandboxPaths(host, root, workdir),
         "refused" \notin DOMAIN paths
  PROVE  /\ root = NoPath => paths.root = NoPath
         /\ root # NoPath =>
              LET dir == IF workdir = NoPath THEN root ELSE workdir
              IN  /\ paths.root = root /\ root \in Path /\ root \in host.dirs
                  /\ ValidateWritableRoot(host, root)
                  /\ dir \in Path /\ IsRelativeTo(dir, root)
                  /\ paths.inside = <<"workspace">> \o Relative(dir, root)
<1>. DEFINE dir == IF workdir = NoPath THEN root ELSE workdir
<1>1. ASSUME root = NoPath PROVE paths.root = NoPath
  BY <1>1 DEF ResolveSandboxPaths
<1>2. ASSUME root # NoPath
      PROVE  /\ paths.root = root /\ root \in Path /\ root \in host.dirs
             /\ ValidateWritableRoot(host, root)
             /\ dir \in Path /\ IsRelativeTo(dir, root)
             /\ paths.inside = <<"workspace">> \o Relative(dir, root)
  <2>1. root \in Path /\ dir \in Path
    BY <1>2, PathAssumption
  <2>2. "refused" \in DOMAIN Refused("root") /\ "refused" \in DOMAIN Refused("workdir")
    BY DEF Refused
  <2>. HIDE DEF dir
  <2>3. root \in host.dirs /\ ValidateWritableRoot(host, root)
    BY <1>2, <2>2 DEF ResolveSandboxPaths
  <2>4. IsRelativeTo(dir, root)
    BY <1>2, <2>2, <2>3 DEF ResolveSandboxPaths, dir
  <2>5. paths = [workdir |-> dir, inside |-> <<"workspace">> \o Relative(dir, root), root |-> root]
    BY <1>2, <2>3, <2>4 DEF ResolveSandboxPaths, dir
  <2>. QED
    BY <2>1, <2>3, <2>4, <2>5
<1>. QED
  BY <1>1, <1>2

-----------------------------------------------------------------------------
(* The binary.                                                             *)

\* What is found is a file.
LEMMA BinaryIsFile ==
  ASSUME NEW host \in Hosts, NEW binary \in Binaries, NEW workdir,
         ResolveBinary(host, binary, workdir) # NoPath
  PROVE  /\ ResolveBinary(host, binary, workdir) \in host.files
         /\ ResolveBinary(host, binary, workdir) \in Path
         /\ ResolveBinary(host, binary, workdir) # <<>>
<1>. DEFINE candidates == BinaryCandidates(host, binary, workdir)
            found == {i \in DOMAIN candidates : candidates[i] \in host.files}
<1>1. DOMAIN candidates \in SUBSET Nat
  <2>1. binary.kind \in {"absolute", "relative", "bare"} /\ host.path \in Seq(Path)
    BY PathAssumption
  <2>2. CASE binary.kind = "absolute"
    BY <2>2 DEF BinaryCandidates
  <2>3. CASE binary.kind = "relative"
    BY <2>3 DEF BinaryCandidates
  <2>4. CASE binary.kind = "bare"
    <3>. DEFINE first == workdir \o <<"node_modules", ".bin">> \o binary.path
                others == [i \in DOMAIN host.path |-> host.path[i] \o binary.path]
    <3>1. candidates = <<first>> \o others
      BY <2>4 DEF BinaryCandidates
    <3>2. DOMAIN others = 1..Len(host.path) /\ Len(host.path) \in Nat
      BY <2>1
    <3>. HIDE DEF first
    <3>3. others \in Seq({others[i] : i \in 1..Len(host.path)})
      <4>. DEFINE V == {others[i] : i \in 1..Len(host.path)}
      <4>1. others \in [1..Len(host.path) -> V]
        BY <3>2
      <4>. HIDE DEF V, others
      <4>2. others \in Seq(V)
        BY <3>2, <4>1
      <4>. QED
        BY <4>2 DEF V
    <3>. HIDE DEF others
    <3>4. Len(others) \in Nat /\ DOMAIN (<<first>> \o others) = 1..(1 + Len(others))
      BY <3>3
    <3>. QED
      BY <3>1, <3>4
  <2>. QED
    BY <2>1, <2>2, <2>3, <2>4
<1>. HIDE DEF candidates
<1>2. found \in SUBSET Nat /\ found # {}
  BY <1>1 DEF ResolveBinary, candidates
<1>3. ResolveBinary(host, binary, workdir) = candidates[Min(found)]
  BY <1>2 DEF ResolveBinary, candidates
<1>4. Min(found) \in found
  <2>. HIDE DEF found
  <2>. QED
    BY <1>2, MinIs
<1>5. candidates[Min(found)] \in host.files
  BY <1>4
<1>. QED
  BY <1>3, <1>5, PathAssumption

\* A system binary is not in the workspace.
LEMMA SystemIsOutside ==
  ASSUME NEW path \in Path, IsSandboxSystemBinary(path)
  PROVE  ~IsRelativeTo(path, Workspace)
<1>1. PICK p \in SystemPrefixes : IsRelativeTo(path, p)
  BY DEF IsSandboxSystemBinary
<1>2. p \in Path /\ p # <<>> /\ p[1] # "home"
  BY PathAssumption
<1>. QED
  BY <1>1, <1>2, SameFirstName, WorkspaceIs

\* The path a file below the root has inside leads back to the file.
LEMMA InsideAndBack ==
  ASSUME NEW path \in Path, NEW root \in Path, IsRelativeTo(path, root)
  PROVE  /\ IsRelativeTo(SandboxWorkspacePath(path, root), Workspace)
         /\ HostFile(SandboxWorkspacePath(path, root), root) = path
<1>. DEFINE rest == Relative(path, root)
<1>1. rest \in Path /\ root \o rest = path
  BY RelativeIs
<1>2. SandboxWorkspacePath(path, root) = Workspace \o rest
  BY DEF SandboxWorkspacePath, Workspace
<1>. HIDE DEF rest
<1>3. IsRelativeTo(Workspace \o rest, Workspace) /\ Relative(Workspace \o rest, Workspace) = rest
  BY <1>1, BelowIs, WorkspaceIs
<1>4. root # NoPath
  BY PathAssumption
<1>5. HostFile(Workspace \o rest, root) = root \o rest
  BY <1>3, <1>4 DEF HostFile, Workspace
<1>. QED
  BY <1>1, <1>2, <1>3, <1>5

\* It has the same name inside.
LEMMA NameInside ==
  ASSUME NEW path \in Path, NEW root \in Path, IsRelativeTo(path, root), path # root
  PROVE  /\ SandboxWorkspacePath(path, root) \in Path /\ SandboxWorkspacePath(path, root) # <<>>
         /\ Last(SandboxWorkspacePath(path, root)) = Last(path)
<1>. DEFINE rest == Relative(path, root)
<1>1. /\ Len(root) \in Nat /\ Len(path) \in Nat
      /\ Len(root) <= Len(path) /\ \A i \in 1..Len(root) : root[i] = path[i]
  BY PrefixIs DEF IsRelativeTo, Path
<1>2. Len(root) # Len(path)
  BY <1>1, SamePath
<1>3. /\ rest \in Path /\ Len(rest) = Len(path) - Len(root)
      /\ \A i \in 1..(Len(path) - Len(root)) : rest[i] = path[Len(root) + i]
  BY <1>1 DEF Relative, Path
<1>4. SandboxWorkspacePath(path, root) = Workspace \o rest
  BY DEF SandboxWorkspacePath, Workspace
<1>. HIDE DEF rest
<1>5. Len(rest) \in Nat \ {0} /\ rest[Len(rest)] = path[Len(path)]
  <2>1. Len(path) - Len(root) \in 1..(Len(path) - Len(root))
    BY <1>1, <1>2
  <2>2. rest[Len(path) - Len(root)] = path[Len(root) + (Len(path) - Len(root))]
    BY <1>3, <2>1
  <2>3. Len(root) + (Len(path) - Len(root)) = Len(path)
    BY <1>1
  <2>. QED
    BY <1>1, <1>2, <1>3, <2>2, <2>3
<1>6. /\ Workspace \o rest \in Path /\ Len(Workspace \o rest) = Len(Workspace) + Len(rest)
      /\ Len(Workspace) \in Nat
      /\ \A i \in 1..Len(rest) : (Workspace \o rest)[Len(Workspace) + i] = rest[i]
  <2>1. \A a, b \in Seq(Names) :
          /\ a \o b \in Seq(Names) /\ Len(a \o b) = Len(a) + Len(b) /\ Len(a) \in Nat
          /\ \A i \in 1..Len(b) : (a \o b)[Len(a) + i] = b[i]
    OBVIOUS
  <2>. QED
    BY <1>3, <2>1, WorkspaceIs DEF Path
<1>. DEFINE whole == Workspace \o rest
<1>. HIDE DEF whole
<1>7. /\ whole \in Path /\ Len(whole) = Len(Workspace) + Len(rest)
      /\ whole[Len(whole)] = path[Len(path)]
  <2>1. Len(rest) \in 1..Len(rest)
    BY <1>5
  <2>2. whole[Len(Workspace) + Len(rest)] = rest[Len(rest)]
    BY <1>6, <2>1 DEF whole
  <2>. QED
    BY <1>5, <1>6, <2>2 DEF whole
<1>8. whole # <<>>
  <2>1. Len(whole) > 0 /\ Len(<<>>) = 0
    BY <1>5, <1>6, <1>7
  <2>. QED
    BY <2>1
<1>. QED
  BY <1>4, <1>7, <1>8 DEF Last, whole

-----------------------------------------------------------------------------
(* The launch.                                                             *)

\* What a binary that is not refused becomes.
PreparedWell(binary, paths, ready) ==
  \/ ready = [paths |-> paths, binary |-> binary, staged |-> NoPath] /\ IsSandboxSystemBinary(binary)
  \/ /\ paths.root # NoPath /\ IsRelativeTo(binary, paths.root)
     /\ ready = [paths |-> paths, binary |-> SandboxWorkspacePath(binary, paths.root), staged |-> NoPath]
  \/ /\ paths.root = NoPath
     /\ ready = [paths  |-> [workdir |-> Staging, inside |-> <<"workspace">>, root |-> Staging],
                 binary |-> SandboxWorkspacePath(Append(Staging, Last(binary)), Staging),
                 staged |-> Append(Staging, Last(binary))]

LEMMA Prepared ==
  ASSUME NEW binary, NEW paths, NEW ready, ready = PrepareSandboxBinary(binary, paths),
         "refused" \notin DOMAIN ready
  PROVE  PreparedWell(binary, paths, ready)
<1>1. "refused" \in DOMAIN Refused("binary")
  BY DEF Refused
<1>2. CASE IsSandboxSystemBinary(binary)
  BY <1>2 DEF PrepareSandboxBinary, PreparedWell
<1>3. CASE ~IsSandboxSystemBinary(binary) /\ paths.root # NoPath
  <2>1. IsRelativeTo(binary, paths.root)
    BY <1>1, <1>3 DEF PrepareSandboxBinary
  <2>. QED
    BY <1>3, <2>1 DEF PrepareSandboxBinary, PreparedWell
<1>4. CASE ~IsSandboxSystemBinary(binary) /\ paths.root = NoPath
  BY <1>4 DEF PrepareSandboxBinary, PreparedWell
<1>. QED
  BY <1>2, <1>3, <1>4

\* The copy is below the temporary directory.
LEMMA CopyIsBelow ==
  ASSUME NEW binary \in Path, binary # <<>>
  PROVE  /\ Append(Staging, Last(binary)) \in Path
         /\ IsRelativeTo(Append(Staging, Last(binary)), Staging)
<1>1. Staging \in Path /\ Last(binary) \in Names
  BY PathAssumption DEF Path, Last
<1>. DEFINE name == Last(binary)
<1>. HIDE DEF name
<1>2. name \in Names
  BY <1>1 DEF name
<1>3. /\ Append(Staging, name) \in Path /\ Len(Append(Staging, name)) = Len(Staging) + 1
      /\ Len(Staging) \in Nat
      /\ \A i \in 1..Len(Staging) : Append(Staging, name)[i] = Staging[i]
  BY <1>1, <1>2 DEF Path
<1>. DEFINE copy == Append(Staging, name)
<1>. HIDE DEF copy
<1>4. IsPrefix(Staging, copy)
  <2>1. copy \in Path /\ Len(Staging) <= Len(copy) /\ \A i \in 1..Len(Staging) : Staging[i] = copy[i]
    BY <1>3 DEF copy
  <2>. QED
    BY <1>1, <2>1, PrefixIs
<1>. QED
  BY <1>3, <1>4 DEF copy, name, IsRelativeTo

LEMMA LaunchIsSafe ==
  ASSUME NEW host \in Hosts, NEW env,
         NEW root \in Roots, NEW workdir \in Workdirs, NEW binary \in Binaries,
         NEW request, request = [root |-> root, workdir |-> workdir, binary |-> binary],
         NEW launch, launch = Launch(host, env, request), "refused" \notin DOMAIN launch
  PROVE  RootIsSafe(host, launch) /\ SeesWhatWasNamed(host, request, launch)
<1>. DEFINE paths == ResolveSandboxPaths(host, root, workdir)
            rootfs == ResolveRootfsDir(env)
            file == ResolveBinary(host, binary, paths.workdir)
            ready == PrepareSandboxBinary(file, paths)
            own == rootfs = "image" /\ ready.paths.root = NoPath
<1>1. "refused" \in DOMAIN Refused("rootfs") /\ "refused" \in DOMAIN Refused("binary")
  BY DEF Refused
<1>2. /\ request.root = root /\ request.workdir = workdir /\ request.binary = binary
  OBVIOUS
<1>3. launch =
        IF "refused" \in DOMAIN paths THEN paths
        ELSE IF rootfs = "refused" THEN Refused("rootfs")
        ELSE IF file = NoPath THEN Refused("binary")
        ELSE IF "refused" \in DOMAIN ready THEN ready
        ELSE [workdir |-> IF own THEN <<"workspace">> ELSE ready.paths.inside,
              root    |-> IF own THEN Staging ELSE ready.paths.root,
              rootfs  |-> rootfs,
              overlay |-> rootfs = "image",
              argv    |-> ArgvForBinary(host, ready.binary),
              host_binary |-> file, staged |-> ready.staged]
  BY <1>2, Zenon DEF Launch
<1>. HIDE DEF paths, rootfs, file, ready
<1>4. /\ "refused" \notin DOMAIN paths /\ rootfs # "refused" /\ file # NoPath
      /\ "refused" \notin DOMAIN ready
  BY <1>1, <1>3
<1>5. /\ launch.root = IF own THEN Staging ELSE ready.paths.root
      /\ launch.workdir = IF own THEN <<"workspace">> ELSE ready.paths.inside
      /\ launch.argv = ArgvForBinary(host, ready.binary) /\ launch.host_binary = file /\ launch.staged = ready.staged
  BY <1>3, <1>4
<1>6. file \in Path /\ file # <<>> /\ file \notin host.dirs
  BY <1>4, BinaryIsFile, PathAssumption DEF file
<1>7. PreparedWell(file, paths, ready)
  BY <1>4, Prepared DEF ready
<1>8. /\ root = NoPath => paths.root = NoPath
      /\ root # NoPath =>
           LET dir == IF workdir = NoPath THEN root ELSE workdir
           IN  /\ paths.root = root /\ root \in Path /\ root \in host.dirs
               /\ ValidateWritableRoot(host, root)
               /\ dir \in Path /\ IsRelativeTo(dir, root)
               /\ paths.inside = <<"workspace">> \o Relative(dir, root)
  BY <1>4, ResolvedPaths DEF paths
<1>9. Staging \in Path /\ NoPath \notin Path
  BY PathAssumption
<1>10. launch.root = (IF root # NoPath THEN root ELSE launch.root)
       /\ (root = NoPath => launch.root \in {NoPath, Staging})
  BY <1>5, <1>7, <1>8, <1>9 DEF PreparedWell
<1>11. RootIsSafe(host, launch)
  <2>. SUFFICES ASSUME launch.root \notin {NoPath, Staging},
                       NEW f \in host.dirs \cup host.files, IsRelativeTo(f, launch.root)
                PROVE  OpensOnly(host, launch.root, f)
    BY DEF RootIsSafe, OpensOnly
  <2>1. launch.root = root /\ root # NoPath
    BY <1>10
  <2>2. root \in Path /\ ValidateWritableRoot(host, root)
    BY <1>8, <2>1
  <2>3. f \in Path
    BY PathAssumption
  <2>. QED
    BY <2>1, <2>2, <2>3, ValidRootIsSafe
<1>. DEFINE named == ready.binary
<1>12. /\ HostFile(named, launch.root)
            = IF launch.staged # NoPath THEN launch.staged ELSE launch.host_binary
       /\ \/ IsSandboxSystemBinary(named)
          \/ launch.root # NoPath /\ IsRelativeTo(named, Workspace)
       /\ named # <<>> /\ Last(named) = Last(file)
  <2>1. CASE /\ ready = [paths |-> paths, binary |-> file, staged |-> NoPath]
             /\ IsSandboxSystemBinary(file)
    <3>1. named = file /\ launch.host_binary = file /\ launch.staged = NoPath
      BY <1>5, <2>1
    <3>2. ~IsRelativeTo(file, Workspace)
      BY <1>6, <2>1, SystemIsOutside
    <3>3. HostFile(file, launch.root) = file
      BY <3>2 DEF HostFile, Workspace
    <3>. HIDE DEF named
    <3>. QED
      BY <1>6, <2>1, <3>1, <3>3
  <2>2. CASE /\ paths.root # NoPath /\ IsRelativeTo(file, paths.root)
             /\ ready = [paths |-> paths, binary |-> SandboxWorkspacePath(file, paths.root), staged |-> NoPath]
    <3>1. paths.root = root /\ root \in Path /\ root \in host.dirs
      BY <1>8, <2>2
    <3>2. named = SandboxWorkspacePath(file, root) /\ launch.host_binary = file
          /\ launch.staged = NoPath /\ launch.root = root
      BY <1>5, <2>2, <3>1
    <3>3. /\ IsRelativeTo(SandboxWorkspacePath(file, root), Workspace)
          /\ HostFile(SandboxWorkspacePath(file, root), root) = file
      BY <1>6, <2>2, <3>1, InsideAndBack
    <3>4. root # NoPath
      BY <1>9, <3>1
    <3>5. /\ SandboxWorkspacePath(file, root) # <<>>
          /\ Last(SandboxWorkspacePath(file, root)) = Last(file)
      <4>1. file # root
        BY <1>6, <3>1
      <4>. QED
        BY <1>6, <2>2, <3>1, <4>1, NameInside
    <3>. HIDE DEF named
    <3>. QED
      BY <3>2, <3>3, <3>4, <3>5
  <2>3. CASE /\ paths.root = NoPath
             /\ ready = [paths  |-> [workdir |-> Staging, inside |-> <<"workspace">>, root |-> Staging],
                         binary |-> SandboxWorkspacePath(Append(Staging, Last(file)), Staging),
                         staged |-> Append(Staging, Last(file))]
    <3>. DEFINE copy == Append(Staging, Last(file))
    <3>1. copy \in Path /\ IsRelativeTo(copy, Staging)
      BY <1>6, CopyIsBelow
    <3>0. copy # Staging /\ Last(copy) = Last(file)
      <4>1. Len(Staging) \in Nat /\ Len(copy) = Len(Staging) + 1 /\ copy[Len(Staging) + 1] = Last(file)
        <5>. DEFINE name == Last(file)
        <5>1. name \in Names
          BY <1>6 DEF Path, Last
        <5>. HIDE DEF name
        <5>2. Len(Append(Staging, name)) = Len(Staging) + 1 /\ Append(Staging, name)[Len(Staging) + 1] = name
              /\ Len(Staging) \in Nat
          BY <1>9, <5>1 DEF Path
        <5>. QED
          BY <5>2 DEF name
      <4>. HIDE DEF copy
      <4>2. Last(copy) = copy[Len(copy)]
        BY DEF Last
      <4>. QED
        BY <4>1, <4>2
    <3>. HIDE DEF copy
    <3>2. named = SandboxWorkspacePath(copy, Staging) /\ launch.staged = copy
          /\ launch.root = Staging
      <4>1. ready.paths.root = Staging /\ ready.binary = SandboxWorkspacePath(copy, Staging)
            /\ ready.staged = copy
        BY <2>3 DEF copy
      <4>. QED
        BY <1>5, <4>1
    <3>3. /\ IsRelativeTo(SandboxWorkspacePath(copy, Staging), Workspace)
          /\ HostFile(SandboxWorkspacePath(copy, Staging), Staging) = copy
      BY <1>9, <3>1, InsideAndBack
    <3>4. copy # NoPath /\ Staging # NoPath
      BY <1>9, <3>1
    <3>5. /\ SandboxWorkspacePath(copy, Staging) # <<>>
          /\ Last(SandboxWorkspacePath(copy, Staging)) = Last(file)
      BY <1>9, <3>0, <3>1, NameInside
    <3>. HIDE DEF named
    <3>. QED
      BY <3>2, <3>3, <3>4, <3>5
  <2>. HIDE DEF named
  <2>. QED
    BY <1>7, <2>1, <2>2, <2>3 DEF PreparedWell
<1>15. /\ Last(launch.argv) = named
       /\ Len(launch.argv) = IF Last(launch.host_binary) \in PyNames THEN 2 ELSE 1
       /\ Len(launch.argv) = 2 => launch.argv[1] = BubblehubPython(host)
  <2>1. launch.argv = ArgvForBinary(host, named) /\ launch.host_binary = file
    BY <1>5
  <2>2. named # <<>> /\ Last(named) = Last(file)
    BY <1>12
  <2>. HIDE DEF named
  <2>3. \A x, y : Last(<<x, y>>) = y /\ Len(<<x, y>>) = 2 /\ <<x, y>>[1] = x
    BY DEF Last
  <2>4. \A x : Last(<<x>>) = x /\ Len(<<x>>) = 1
    BY DEF Last
  <2>5. CASE Last(file) \in PyNames
    <3>1. launch.argv = <<BubblehubPython(host), named>>
      BY <2>1, <2>2, <2>5 DEF ArgvForBinary
    <3>. QED
      BY <2>1, <2>3, <2>5, <3>1
  <2>6. CASE Last(file) \notin PyNames
    <3>1. launch.argv = <<named>>
      BY <2>1, <2>2, <2>6 DEF ArgvForBinary
    <3>2. Last(launch.argv) = named /\ Len(launch.argv) = 1
      BY <2>4, <3>1
    <3>3. Last(launch.host_binary) \notin PyNames
      BY <2>1, <2>6
    <3>4. Len(launch.argv) # 2
      BY <3>2
    <3>. QED
      BY <3>2, <3>3, <3>4, Zenon
  <2>. QED
    BY <2>5, <2>6
<1>16. ASSUME IsSandboxSystemBinary(BubblehubPython(host))
       PROVE  HostFile(BubblehubPython(host), launch.root) = BubblehubPython(host)
  <2>1. BubblehubPython(host) \in Path
    BY PathAssumption DEF BubblehubPython
  <2>2. ~IsRelativeTo(BubblehubPython(host), Workspace)
    BY <1>16, <2>1, SystemIsOutside
  <2>. QED
    BY <2>2 DEF HostFile, Workspace
<1>13. ASSUME root # NoPath
       PROVE  launch.root \o Tail(launch.workdir) = IF workdir = NoPath THEN root ELSE workdir
  <2>. DEFINE dir == IF workdir = NoPath THEN root ELSE workdir
              rest == Relative(dir, root)
  <2>1. /\ paths.root = root /\ root \in Path /\ dir \in Path /\ IsRelativeTo(dir, root)
        /\ paths.inside = <<"workspace">> \o rest
    BY <1>8, <1>13
  <2>2. rest \in Path /\ root \o rest = dir
    BY <2>1, RelativeIs
  <2>. HIDE DEF rest, dir
  <2>3. launch.root = root /\ launch.workdir = <<"workspace">> \o rest
    BY <1>5, <1>7, <1>13, <2>1 DEF PreparedWell
  <2>4. Tail(<<"workspace">> \o rest) = rest
    <3>1. "workspace" \in Names
      BY PathAssumption
    <3>2. \A name \in Names : /\ Tail(<<name>> \o rest) \in Path /\ Len(Tail(<<name>> \o rest)) = Len(rest)
                              /\ \A i \in 1..Len(rest) : Tail(<<name>> \o rest)[i] = rest[i]
      BY <2>2 DEF Path
    <3>. QED
      BY <2>2, <3>1, <3>2, SamePath
  <2>. QED
    BY <2>2, <2>3, <2>4 DEF dir
<1>. HIDE DEF named
<1>14. SeesWhatWasNamed(host, request, launch)
  BY <1>2, <1>12, <1>13, <1>15, <1>16 DEF SeesWhatWasNamed, Workspace
<1>. QED
  BY <1>11, <1>14

-----------------------------------------------------------------------------
(* The GPU.                                                                *)

\* The card that is chosen has the most free memory.
LEMMA BestCardIs ==
  ASSUME NEW cards \in Seq(Cards), cards # <<>>
  PROVE  /\ BestCard(cards) \in DOMAIN cards
         /\ \A j \in DOMAIN cards : cards[j].free <= cards[BestCard(cards)].free
<1>. DEFINE N == Len(cards)
            f == [i \in 1..N |-> cards[i].free]
<1>1. N \in Nat \ {0} /\ DOMAIN cards = 1..N
  OBVIOUS
<1>2. f \in [1..N -> Nat] /\ \A i \in 1..N : f[i] = cards[i].free
  <2>1. \A i \in 1..N : cards[i] \in Cards
    BY <1>1
  <2>. QED
    BY <2>1 DEF Cards
<1>. HIDE DEF N, f
<1>. DEFINE best == {i \in 1..N : \A j \in 1..N : f[j] <= f[i]}
<1>3. best \in SUBSET Nat /\ best # {}
  <2>1. PICK i \in 1..N : \A j \in 1..N : f[j] <= f[i]
    BY <1>1, <1>2, Largest
  <2>. QED
    BY <1>1, <2>1
<1>4. PICK i \in best : \A j \in best : i <= j
  <2>. HIDE DEF best
  <2>. QED
    BY <1>3, LeastOf
<1>5. \A j \in 1..(i - 1) : f[j] < f[i]
  <2>. SUFFICES ASSUME NEW j \in 1..(i - 1), ~(f[j] < f[i]) PROVE FALSE
    OBVIOUS
  <2>1. i \in 1..N /\ j \in 1..N /\ f[i] \in Nat /\ f[j] \in Nat
    BY <1>1, <1>2, <1>4
  <2>2. \A k \in 1..N : f[k] \in Nat /\ f[k] <= f[i]
    BY <1>2, <1>4
  <2>3. f[j] = f[i]
    BY <2>1, <2>2
  <2>4. j \in best
    BY <2>1, <2>2, <2>3
  <2>. QED
    BY <1>1, <1>4, <2>1, <2>4
<1>6. /\ i \in DOMAIN cards
      /\ \A j \in DOMAIN cards : cards[j].free <= cards[i].free
      /\ \A j \in 1..(i - 1) : cards[j].free < cards[i].free
  <2>1. i \in 1..N /\ \A j \in 1..(i - 1) : j \in 1..N
    BY <1>1, <1>4
  <2>. QED
    BY <1>1, <1>2, <1>4, <1>5, <2>1
<1>. QED
  BY <1>6 DEF BestCard

LEMMA NativeVramIsNat ==
  ASSUME NEW machine \in Machines
  PROVE  NativeVram(machine) \in Nat
<1>. DEFINE cards == machine.nvidia
<1>1. cards \in Seq(Cards)
  BY MachineAssumption
<1>. HIDE DEF cards
<1>2. CASE cards = <<>>
  BY <1>2 DEF NativeVram, cards
<1>3. CASE cards # <<>>
  <2>. DEFINE N == Len(cards)
              f == [i \in 1..N |-> cards[i].total]
              S == {cards[i].total : i \in DOMAIN cards}
  <2>1. N \in Nat \ {0} /\ DOMAIN cards = 1..N
    BY <1>1, <1>3
  <2>2. f \in [1..N -> Nat] /\ \A i \in 1..N : f[i] = cards[i].total
    <3>1. \A i \in 1..N : cards[i] \in Cards
      BY <1>1, <2>1
    <3>. QED
      BY <3>1 DEF Cards
  <2>. HIDE DEF N, f
  <2>3. PICK i \in 1..N : \A j \in 1..N : f[j] <= f[i]
    BY <2>1, <2>2, Largest
  <2>4. S \in SUBSET Nat /\ f[i] \in S /\ \A y \in S : y <= f[i]
    BY <2>1, <2>2, <2>3
  <2>5. NativeVram(machine) = Max(S)
    BY <1>3 DEF NativeVram, cards
  <2>. HIDE DEF S
  <2>6. Max(S) \in S
    BY <2>4 DEF Max
  <2>. QED
    BY <2>4, <2>5, <2>6
<1>. QED
  BY <1>2, <1>3

\* What a machine has: the profile that is found is one of the five.
LEMMA ProfileIs ==
  ASSUME NEW machine \in Machines
  PROVE  LET gpu == DetectGpuProfile(machine)
         IN  \/ gpu = GpuProfileFromEnv(machine.env) /\ machine.env # NoProfile
             \/ gpu = DetectNvidiaGpu(machine) /\ machine.nvidia # <<>> /\ machine.answers
             \/ \E b \in {"rocm-llama", "sycl-llama", "vulkan-llama"} :
                  gpu.vram = NativeVram(machine) /\ gpu.backends = {b}
             \/ gpu.vram = NativeVram(machine) /\ gpu.backends = {}
<1>. DEFINE probes == <<GpuProfileFromEnv(machine.env), DetectNvidiaGpu(machine),
                        DetectAmdGpu(machine), DetectIntelGpu(machine), DetectVulkanGpu(machine)>>
            found == {i \in DOMAIN probes : probes[i] # NoProfile}
<1>1. DOMAIN probes = 1..5
  OBVIOUS
<1>2. /\ probes[1] = GpuProfileFromEnv(machine.env) /\ probes[2] = DetectNvidiaGpu(machine)
      /\ probes[3] = DetectAmdGpu(machine) /\ probes[4] = DetectIntelGpu(machine)
      /\ probes[5] = DetectVulkanGpu(machine)
  OBVIOUS
<1>3. DetectGpuProfile(machine) =
        IF found # {} THEN probes[Min(found)]
        ELSE Profile("none", NativeVram(machine), NativeFreeVram(machine), {})
  BY Zenon DEF DetectGpuProfile
<1>. HIDE DEF probes
<1>4. CASE found = {}
  BY <1>3, <1>4 DEF Profile
<1>5. CASE found # {}
  <2>1. found \in SUBSET Nat
    BY <1>1
  <2>2. Min(found) \in found
    <3>. HIDE DEF found
    <3>. QED
      BY <1>5, <2>1, MinIs
  <2>3. PICK i \in 1..5 : DetectGpuProfile(machine) = probes[i] /\ probes[i] # NoProfile
    BY <1>1, <1>3, <1>5, <2>2
  <2>4. CASE i = 1
    BY <1>2, <2>3, <2>4 DEF GpuProfileFromEnv
  <2>5. CASE i = 2
    BY <1>2, <2>3, <2>5 DEF DetectNvidiaGpu
  <2>6. \A tool, vendor, backend :
          DetectOtherGpu(machine, tool, vendor, backend) # NoProfile =>
            /\ DetectOtherGpu(machine, tool, vendor, backend).vram = NativeVram(machine)
            /\ DetectOtherGpu(machine, tool, vendor, backend).backends = {backend}
    BY DEF DetectOtherGpu, Profile
  <2>7. CASE i = 3
    BY <1>2, <2>3, <2>6, <2>7 DEF DetectAmdGpu
  <2>8. CASE i = 4
    BY <1>2, <2>3, <2>6, <2>8 DEF DetectIntelGpu
  <2>9. CASE i = 5
    BY <1>2, <2>3, <2>6, <2>9 DEF DetectVulkanGpu
  <2>. QED
    BY <2>3, <2>4, <2>5, <2>7, <2>8, <2>9
<1>. QED
  BY <1>4, <1>5

\* The profile of the card with the most free memory.
LEMMA NvidiaIs ==
  ASSUME NEW machine \in Machines, machine.nvidia # <<>>, machine.answers
  PROVE  \E i \in DOMAIN machine.nvidia :
           /\ \A j \in DOMAIN machine.nvidia : machine.nvidia[j].free <= machine.nvidia[i].free
           /\ machine.nvidia[i] \in Cards
           /\ DetectNvidiaGpu(machine).vram = machine.nvidia[i].total
           /\ "vllm" \in DetectNvidiaGpu(machine).backends => machine.nvidia[i].major >= 8
<1>. DEFINE cards == machine.nvidia
            i == BestCard(cards)
<1>1. cards \in Seq(Cards)
  BY MachineAssumption
<1>2. i \in DOMAIN cards /\ \A j \in DOMAIN cards : cards[j].free <= cards[i].free
  BY <1>1, BestCardIs
<1>3. cards[i] \in Cards
  BY <1>1, <1>2
<1>4. DetectNvidiaGpu(machine) =
        Profile("nvidia", cards[i].total, cards[i].free,
                {"cuda-llama"} \cup IF SupportsVllmCompute(cards[i].major) THEN {"vllm"} ELSE {})
  BY DEF DetectNvidiaGpu
<1>. HIDE DEF i
<1>5. /\ DetectNvidiaGpu(machine).vram = cards[i].total
      /\ DetectNvidiaGpu(machine).backends =
           {"cuda-llama"} \cup IF SupportsVllmCompute(cards[i].major) THEN {"vllm"} ELSE {}
  BY <1>4 DEF Profile
<1>6. "vllm" \in DetectNvidiaGpu(machine).backends => cards[i].major >= 8
  BY <1>5 DEF SupportsVllmCompute
<1>. QED
  BY <1>2, <1>3, <1>5, <1>6

LEMMA HardwareIs ==
  ASSUME NEW machine \in Machines
  PROVE  /\ DetectHardware(machine).ram = machine.ram
         /\ DetectHardware(machine).vram = DetectGpuProfile(machine).vram
         /\ DetectHardware(machine).backends = DetectGpuProfile(machine).backends
         /\ DetectHardware(machine).ram \in Nat /\ DetectHardware(machine).vram \in Nat
<1>1. /\ DetectHardware(machine).ram = machine.ram
      /\ DetectHardware(machine).vram = DetectGpuProfile(machine).vram
      /\ DetectHardware(machine).backends = DetectGpuProfile(machine).backends
  BY DEF DetectHardware
<1>2. machine.ram \in Nat
  BY MachineAssumption
<1>3. DetectGpuProfile(machine).vram \in Nat
  <2>1. ASSUME machine.env # NoProfile PROVE GpuProfileFromEnv(machine.env).vram \in Nat
    <3>1. machine.env.vram \in Nat
      BY <2>1, MachineAssumption
    <3>2. GpuProfileFromEnv(machine.env).vram = machine.env.vram
      BY <2>1 DEF GpuProfileFromEnv, Profile
    <3>. QED
      BY <3>1, <3>2
  <2>2. ASSUME machine.nvidia # <<>>, machine.answers PROVE DetectNvidiaGpu(machine).vram \in Nat
    BY <2>2, NvidiaIs DEF Cards
  <2>. QED
    BY <2>1, <2>2, ProfileIs, NativeVramIsNat
<1>. QED
  BY <1>1, <1>2, <1>3

\* An automatic choice is a backend the machine has.
LEMMA ChosenIsThere ==
  ASSUME NEW hw
  PROVE  LET known == <<"vllm">> \o LlamaBackends
             usable == {i \in DOMAIN known : known[i] \in hw.backends}
         IN  usable # {} => known[Min(usable)] \in hw.backends
<1>. DEFINE known == <<"vllm">> \o LlamaBackends
            usable == {i \in DOMAIN known : known[i] \in hw.backends}
<1>1. \A x, S, t : t \in Seq(S) => DOMAIN (<<x>> \o t) \subseteq Nat
  <2>. SUFFICES ASSUME NEW x, NEW S, NEW t \in Seq(S) PROVE DOMAIN (<<x>> \o t) \subseteq Nat
    OBVIOUS
  <2>. DEFINE U == S \cup {x}
  <2>1. S \subseteq U /\ x \in U
    OBVIOUS
  <2>. HIDE DEF U
  <2>2. <<x>> \in Seq(U) /\ t \in Seq(U)
    BY <2>1
  <2>. QED
    BY <2>2
<1>2. DOMAIN known \subseteq Nat
  BY <1>1, MachineAssumption
<1>. HIDE DEF known
<1>3. ASSUME usable # {} PROVE known[Min(usable)] \in hw.backends
  <2>1. usable \in SUBSET Nat
    BY <1>2
  <2>2. Min(usable) \in usable
    <3>. HIDE DEF usable
    <3>. QED
      BY <1>3, <2>1, MinIs
  <2>. QED
    BY <2>2
<1>. QED
  BY <1>3 DEF known

\* What the installer settles on.
LEMMA InstallIs ==
  ASSUME NEW hw, NEW mode, NEW may_install, NEW wheel, NEW pip
  PROVE  LET profile == ChooseInstallProfile(hw, mode)
             status == GpuSetupStatus(hw, mode, may_install, wheel, pip)
         IN  /\ status = 0 => profile.backend \in hw.backends \cup {"cpu"}
             /\ profile.install_vllm /\ profile.supported => "vllm" \in hw.backends
             /\ mode \in GpuModes \ {"auto", "cpu"} => (status = 0 => profile.backend = mode)
<1>. DEFINE profile == ChooseInstallProfile(hw, mode)
            status == GpuSetupStatus(hw, mode, may_install, wheel, pip)
            known == <<"vllm">> \o LlamaBackends
            usable == {i \in DOMAIN known : known[i] \in hw.backends}
            best == known[Min(usable)]
<1>1. profile =
        CASE mode \notin GpuModes -> InstallProfile("cpu", FALSE, FALSE)
          [] mode = "cpu" -> InstallProfile("cpu", FALSE, TRUE)
          [] mode \in GpuModes \ {"auto", "cpu"} ->
               InstallProfile(mode, mode = "vllm", mode \in hw.backends)
          [] mode = "auto" /\ usable # {} -> InstallProfile(best, best = "vllm", TRUE)
          [] OTHER -> InstallProfile("cpu", FALSE, TRUE)
  BY DEF ChooseInstallProfile
<1>2. usable # {} => best \in hw.backends
  BY ChosenIsThere
<1>3. status = 0 => profile.supported \/ mode = "auto"
  BY DEF GpuSetupStatus
<1>. HIDE DEF known, usable, best, profile, status
<1>4. "auto" \in GpuModes /\ "cpu" \in GpuModes
  BY DEF GpuModes
<1>5. CASE mode \notin GpuModes
  <2>1. profile = InstallProfile("cpu", FALSE, FALSE)
    BY <1>1, <1>4, <1>5
  <2>. QED
    BY <1>5, <2>1 DEF InstallProfile, profile, status
<1>6. CASE mode = "cpu"
  <2>1. profile = InstallProfile("cpu", FALSE, TRUE)
    BY <1>1, <1>4, <1>6
  <2>. QED
    BY <1>6, <2>1 DEF InstallProfile, profile, status
<1>7. CASE mode \in GpuModes \ {"auto", "cpu"}
  <2>1. profile = InstallProfile(mode, mode = "vllm", mode \in hw.backends)
    BY <1>1, <1>7
  <2>2. /\ profile.backend = mode /\ profile.install_vllm = (mode = "vllm")
        /\ profile.supported = (mode \in hw.backends)
    BY <2>1 DEF InstallProfile
  <2>3. status = 0 => profile.supported
    BY <1>3, <1>7
  <2>. QED
    BY <2>2, <2>3 DEF profile, status
<1>8. CASE mode = "auto" /\ usable # {}
  <2>1. profile = InstallProfile(best, best = "vllm", TRUE)
    BY <1>1, <1>4, <1>8
  <2>2. profile.backend = best /\ profile.install_vllm = (best = "vllm")
    BY <2>1 DEF InstallProfile
  <2>. QED
    BY <1>2, <1>8, <2>2 DEF profile, status
<1>9. CASE mode = "auto" /\ usable = {}
  <2>1. profile = InstallProfile("cpu", FALSE, TRUE)
    BY <1>1, <1>4, <1>9
  <2>2. profile.backend = "cpu" /\ profile.install_vllm = FALSE
    BY <2>1 DEF InstallProfile
  <2>. QED
    BY <1>9, <2>2 DEF profile, status
<1>. QED
  BY <1>5, <1>6, <1>7, <1>8, <1>9

\* vLLM is there only with a card that can run it.
LEMMA VllmNeedsCard ==
  ASSUME NEW machine \in Machines, machine.env = NoProfile,
         "vllm" \in DetectHardware(machine).backends
  PROVE  \E i \in DOMAIN machine.nvidia :
           /\ machine.nvidia[i].major >= 8 /\ machine.nvidia[i].total = DetectHardware(machine).vram
           /\ \A j \in DOMAIN machine.nvidia : machine.nvidia[j].free <= machine.nvidia[i].free
<1>1. "vllm" \in DetectGpuProfile(machine).backends
  BY HardwareIs
<1>2. DetectGpuProfile(machine) = DetectNvidiaGpu(machine) /\ machine.nvidia # <<>> /\ machine.answers
  BY <1>1, ProfileIs
<1>3. /\ DetectHardware(machine).vram = DetectNvidiaGpu(machine).vram
      /\ "vllm" \in DetectNvidiaGpu(machine).backends
  BY <1>1, <1>2, HardwareIs
<1>. QED
  BY <1>2, <1>3, NvidiaIs

-----------------------------------------------------------------------------
(* The choice of a model.                                                  *)

\* The order of the tiers is one of four tuples, so that ranks are numbers.
LEMMA TierOrders ==
  ASSUME NEW hw
  PROVE  \/ SelectTier(hw) = <<"tiny">>
         \/ SelectTier(hw) = <<"large", "medium", "small", "tiny">>
         \/ SelectTier(hw) = <<"medium", "small", "tiny">>
         \/ SelectTier(hw) = <<"small", "tiny">>
BY DEF SelectTier

LEMMA TierRankIsNat ==
  ASSUME NEW hw, NEW m
  PROVE  TierRank(m, SelectTier(hw)) \in Nat
<1>. DEFINE ranks == {i \in DOMAIN SelectTier(hw) : SelectTier(hw)[i] = m.tier} \cup {1000}
<1>1. DOMAIN SelectTier(hw) \subseteq Nat
  BY TierOrders
<1>2. ranks \in SUBSET Nat /\ ranks # {}
  BY <1>1
<1>3. TierRank(m, SelectTier(hw)) = Min(ranks)
  BY DEF TierRank
<1>4. Min(ranks) \in ranks
  <2>. HIDE DEF ranks
  <2>1. PICK x \in ranks : \A y \in ranks : x <= y
    BY <1>2, LeastOf
  <2>. QED
    BY <2>1 DEF Min
<1>. QED
  BY <1>2, <1>3, <1>4

\* Of the models of a list one sorts before all others.
LEMMA FirstOfIsMember ==
  ASSUME NEW registry \in Registries, NEW S \in SUBSET registry.models, S # {}, NEW hw
  PROVE  FirstOf(S, SelectTier(hw)) \in S
<1>. DEFINE order == SelectTier(hw)
            places == {PlacementRank(m) : m \in S}
<1>1. places \in SUBSET Nat /\ places # {}
  BY DEF PlacementRank
<1>2. PICK a \in S : \A m \in S : PlacementRank(a) <= PlacementRank(m)
  <2>. HIDE DEF places
  <2>1. PICK x \in places : \A y \in places : x <= y
    BY <1>1, LeastOf
  <2>. QED
    BY <2>1 DEF places
<1>. DEFINE T == {m \in S : PlacementRank(m) = PlacementRank(a)}
            tiers == {TierRank(m, order) : m \in T}
<1>3. tiers \in SUBSET Nat /\ tiers # {}
  BY TierRankIsNat
<1>4. PICK b \in T : \A m \in T : TierRank(b, order) <= TierRank(m, order)
  <2>. HIDE DEF tiers, T
  <2>1. PICK x \in tiers : \A y \in tiers : x <= y
    BY <1>3, LeastOf
  <2>. QED
    BY <2>1 DEF tiers
<1>. DEFINE U == {m \in T : TierRank(m, order) = TierRank(b, order)}
            names == {m.name : m \in U}
<1>5. names \in SUBSET Nat /\ names # {}
  BY RegistryAssumption
<1>6. PICK d \in U : \A m \in U : d.name <= m.name
  <2>. HIDE DEF names, U
  <2>1. PICK x \in names : \A y \in names : x <= y
    BY <1>5, LeastOf
  <2>. QED
    BY <2>1 DEF names
<1>. DEFINE W == {m \in U : m.name = d.name}
            indices == {m.place : m \in W}
<1>8. indices \in SUBSET Nat /\ indices # {}
  BY RegistryAssumption
<1>9. PICK c \in W : \A m \in W : c.place <= m.place
  <2>. HIDE DEF indices, W
  <2>1. PICK x \in indices : \A y \in indices : x <= y
    BY <1>8, LeastOf
  <2>. QED
    BY <2>1 DEF indices
<1>7. ASSUME NEW n \in S \ {c}
      PROVE  SortsBefore(c, n, order)
  <2>1. /\ PlacementRank(c) \in Nat /\ PlacementRank(n) \in Nat
        /\ TierRank(c, order) \in Nat /\ TierRank(n, order) \in Nat
        /\ c.name \in Nat /\ n.name \in Nat /\ c.place \in Nat /\ n.place \in Nat
    BY TierRankIsNat, RegistryAssumption DEF PlacementRank
  <2>. HIDE DEF order
  <2>2. CASE PlacementRank(c) < PlacementRank(n)
    <3>1. \E k \in 1..4 : k = 1
      OBVIOUS
    <3>. QED
      BY <2>2, <3>1 DEF SortsBefore
  <2>3. CASE PlacementRank(c) = PlacementRank(n) /\ TierRank(c, order) < TierRank(n, order)
    BY <2>3 DEF SortsBefore
  <2>4. CASE /\ PlacementRank(c) = PlacementRank(n) /\ TierRank(c, order) = TierRank(n, order)
             /\ c.name < n.name
    BY <2>4 DEF SortsBefore
  <2>5. CASE /\ PlacementRank(c) = PlacementRank(n) /\ TierRank(c, order) = TierRank(n, order)
             /\ c.name = n.name /\ c.place < n.place
    BY <2>5 DEF SortsBefore
  <2>6. PlacementRank(c) <= PlacementRank(n)
    BY <1>2
  <2>7. PlacementRank(c) = PlacementRank(n) => TierRank(c, order) <= TierRank(n, order)
    BY <1>4
  <2>8. PlacementRank(c) = PlacementRank(n) /\ TierRank(c, order) = TierRank(n, order) => c.name <= n.name
    BY <1>6
  <2>9. /\ PlacementRank(c) = PlacementRank(n) /\ TierRank(c, order) = TierRank(n, order)
        /\ c.name = n.name
        => c.place <= n.place
    BY <1>9
  <2>10. c.place # n.place
    BY RegistryAssumption
  <2>. QED
    BY <2>1, <2>2, <2>3, <2>4, <2>5, <2>6, <2>7, <2>8, <2>9, <2>10
<1>. QED
  BY <1>7 DEF FirstOf

\* The limits a session counts with: at least 1 GB of RAM, and those that admission
\* reports.
LEMMA SessionLimits ==
  ASSUME NEW machine \in Machines, NEW limits \in Limits
  PROVE  LET reported == ReportedLimits(machine, limits)
             hw == DetectHardware(machine)
         IN  /\ LimitGb(reported.ram, hw.ram) = reported.ram
             /\ reported.vram > 0 => LimitGb(reported.vram, hw.vram) = reported.vram
             /\ limits.ram = 0 =>
                  /\ reported.ram \in Nat /\ machine.ram <= reported.ram
                  /\ machine.ram > 0 => reported.ram = machine.ram
             /\ limits.vram = 0 => reported.vram = NativeVram(machine)
<1>. DEFINE reported == ReportedLimits(machine, limits)
            hw == DetectHardware(machine)
<1>1. limits.ram \in Nat /\ limits.vram \in Nat /\ machine.ram \in Nat
  BY MachineAssumption
<1>. DEFINE most == Max({machine.ram, 1})
<1>2. most = IF machine.ram > 1 THEN machine.ram ELSE 1
  <2>. DEFINE S == {machine.ram, 1}
              top == IF machine.ram > 1 THEN machine.ram ELSE 1
  <2>1. top \in S /\ (\A y \in S : y <= top) /\ \A x \in S : (\A y \in S : y <= x) => x = top
    BY <1>1
  <2>2. most = CHOOSE x \in S : \A y \in S : x >= y
    BY DEF Max
  <2>3. \A x, y \in S : x >= y <=> y <= x
    BY <1>1
  <2>. HIDE DEF S, top, most
  <2>4. most \in S /\ \A y \in S : most >= y
    BY <2>1, <2>2, <2>3
  <2>5. most = top
    BY <2>1, <2>3, <2>4
  <2>. QED
    BY <2>5 DEF top
<1>. HIDE DEF most
<1>3. /\ reported.ram = IF limits.ram > 0 THEN limits.ram ELSE most
      /\ reported.vram = IF limits.vram > 0 THEN limits.vram ELSE NativeVram(machine)
  BY DEF ReportedLimits, most
<1>. HIDE DEF reported
<1>4. reported.ram \in Nat /\ reported.ram > 0
  BY <1>1, <1>2, <1>3
<1>5. LimitGb(reported.ram, hw.ram) = reported.ram
  BY <1>4 DEF LimitGb
<1>6. reported.vram > 0 => LimitGb(reported.vram, hw.vram) = reported.vram
  BY DEF LimitGb
<1>7. limits.ram = 0 => machine.ram <= reported.ram /\ (machine.ram > 0 => reported.ram = machine.ram)
  BY <1>1, <1>2, <1>3
<1>8. limits.vram = 0 => reported.vram = NativeVram(machine)
  BY <1>3
<1>. QED
  BY <1>4, <1>5, <1>6, <1>7, <1>8 DEF reported

\* A model on a GPU has a backend that the machine supports.
LEMMA BackendsOf ==
  ASSUME NEW registry \in Registries, NEW m \in registry.models, NEW supported,
         ModelBackendSupported(m, supported)
  PROVE  BackendIsThere(m, supported)
<1>. SUFFICES ASSUME m.vram > 0, m.placement \in {"auto", "gpu"}, m.backend \in {"vllm", "llama"}
              PROVE  \E b \in supported :
                       IF m.gpu_backends # {} THEN b \in m.gpu_backends
                       ELSE IF m.backend = "vllm" THEN b = "vllm"
                            ELSE \E i \in DOMAIN LlamaBackends : b = LlamaBackends[i]
  BY DEF BackendIsThere
<1>1. OnGpu(m) /\ Placement(m) = "gpu"
  BY DEF OnGpu, Placement
<1>2. PICK b \in supported : b \in ModelGpuBackends(m)
  BY <1>1 DEF ModelBackendSupported
<1>3. CASE m.gpu_backends # {}
  BY <1>2, <1>3 DEF ModelGpuBackends
<1>4. CASE m.gpu_backends = {} /\ m.backend = "vllm"
  <2>1. ModelGpuBackends(m) = {"vllm"}
    BY <1>1, <1>4 DEF ModelGpuBackends
  <2>. QED
    BY <1>2, <1>4, <2>1
<1>5. CASE m.gpu_backends = {} /\ m.backend = "llama"
  <2>1. ModelGpuBackends(m) = {LlamaBackends[i] : i \in DOMAIN LlamaBackends}
    BY <1>1, <1>5 DEF ModelGpuBackends
  <2>. QED
    BY <1>2, <1>5, <2>1
<1>. QED
  BY <1>3, <1>4, <1>5

\* What a session starts is one of the candidates.
LEMMA SessionModelFits ==
  ASSUME NEW registry \in Registries, NEW s, NEW machine \in Machines, NEW limits \in Limits, NEW m,
         m = SessionModel(registry, s, machine, limits), m # NoModel
  PROVE  LET hw == DetectHardware(machine)
             reported == ReportedLimits(machine, limits)
         IN  /\ m \in registry.models
             /\ Fits(m, LimitGb(reported.ram, hw.ram), LimitGb(reported.vram, hw.vram), hw.backends)
<1>. DEFINE hw == DetectHardware(machine)
            reported == ReportedLimits(machine, limits)
            ram == LimitGb(reported.ram, hw.ram)
            vram == LimitGb(reported.vram, hw.vram)
            S == ResolveCandidates(registry, s, ram, vram, hw.backends)
<1>1. m = FirstOf(S, SelectTier(hw))
  BY DEF SessionModel
<1>2. S \subseteq {n \in registry.models : Fits(n, ram, vram, hw.backends)}
  <2>. HIDE DEF ram, vram, hw
  <2>. QED
    BY DEF ResolveCandidates
<1>. HIDE DEF S
<1>3. S # {}
  BY <1>1 DEF FirstOf
<1>4. S \in SUBSET registry.models
  BY <1>2
<1>5. m \in S
  <2>. HIDE DEF hw
  <2>. QED
    BY <1>1, <1>3, <1>4, FirstOfIsMember
<1>. QED
  BY <1>2, <1>5

LEMMA SessionStarts ==
  ASSUME NEW registry \in Registries, NEW s, NEW machine \in Machines, NEW limits \in Limits, NEW m,
         m = SessionModel(registry, s, machine, limits), m # NoModel
  PROVE  /\ Admissible(m, machine, limits)
         /\ BackendIsThere(m, DetectHardware(machine).backends)
<1>. DEFINE hw == DetectHardware(machine)
            reported == ReportedLimits(machine, limits)
            ram == LimitGb(reported.ram, hw.ram)
            vram == LimitGb(reported.vram, hw.vram)
<1>1. m \in registry.models /\ Fits(m, ram, vram, hw.backends)
  BY SessionModelFits
<1>2. ram = reported.ram /\ (reported.vram > 0 => vram = reported.vram)
  BY SessionLimits
<1>. HIDE DEF ram, vram, reported, hw
<1>3. m.ram <= ram /\ m.vram <= vram /\ ModelBackendSupported(m, hw.backends)
  BY <1>1 DEF Fits
<1>4. m.ram <= reported.ram /\ (m.vram > 0 /\ reported.vram > 0 => m.vram <= reported.vram)
  BY <1>2, <1>3
<1>5. Admissible(m, machine, limits)
  BY <1>4 DEF Admissible, reported
<1>. QED
  BY <1>1, <1>3, <1>5, BackendsOf DEF hw

LEMMA ShownAndUsed ==
  ASSUME NEW registry \in Registries, NEW s, NEW machine \in Machines, NEW limits \in Limits
  PROVE  ShownIsUsed(registry, s, machine, limits)
<1>. DEFINE hw == DetectHardware(machine)
            reported == ReportedLimits(machine, limits)
<1>. SUFFICES ASSUME limits.ram = 0, limits.vram = 0, machine.ram > 0, hw.vram = NativeVram(machine)
              PROVE  SelectedModel(registry, s, machine) = SessionModel(registry, s, machine, limits)
  BY DEF ShownIsUsed
<1>1. reported.ram = machine.ram /\ LimitGb(reported.ram, hw.ram) = reported.ram
  BY SessionLimits
<1>2. reported.vram = hw.vram
  BY SessionLimits
<1>3. hw.ram = machine.ram
  BY HardwareIs
<1>4. LimitGb(reported.vram, hw.vram) = hw.vram
  <2>. HIDE DEF hw, reported
  <2>. QED
    BY <1>2 DEF LimitGb
<1>5. LimitGb(reported.ram, hw.ram) = hw.ram
  BY <1>1, <1>3
<1>. QED
  BY <1>4, <1>5, Zenon DEF SelectedModel, SessionModel, SetupCandidates

\* Once chosen, a model is the only candidate.
LEMMA ChoiceIsStarted ==
  ASSUME NEW registry \in Registries, NEW s \in DOMAIN registry.specialties, NEW machine \in Machines, NEW limits \in Limits,
         limits.ram = 0, limits.vram = 0,
         NativeVram(machine) # 0 => DetectHardware(machine).vram <= NativeVram(machine),
         NEW m \in SetupCandidates(registry, s, machine),
         \A n \in registry.models : n.name = m.name => n = m
  PROVE  SessionModel(WithChoice(registry, s, m), s, machine, limits) = m
<1>. DEFINE hw == DetectHardware(machine)
            reported == ReportedLimits(machine, limits)
            ram == LimitGb(reported.ram, hw.ram)
            vram == LimitGb(reported.vram, hw.vram)
            chosen == WithChoice(registry, s, m)
            S == ResolveCandidates(chosen, s, ram, vram, hw.backends)
<1>1. SessionModel(chosen, s, machine, limits) = FirstOf(S, SelectTier(hw))
  BY DEF SessionModel
<1>2. m \in registry.models /\ Fits(m, hw.ram, hw.vram, hw.backends)
  <2>. HIDE DEF hw
  <2>. QED
    BY DEF SetupCandidates, ResolveCandidates, hw
<1>3. Fits(m, ram, vram, hw.backends)
  <2>1. /\ hw.ram \in Nat /\ hw.vram \in Nat /\ NativeVram(machine) \in Nat
        /\ m.ram \in Nat /\ m.vram \in Nat /\ hw.ram = machine.ram
    BY <1>2, HardwareIs, NativeVramIsNat, RegistryAssumption
  <2>2. ram = reported.ram /\ reported.ram \in Nat /\ hw.ram <= reported.ram
    BY <2>1, SessionLimits
  <2>3. reported.vram = NativeVram(machine)
    BY SessionLimits
  <2>4. vram = IF NativeVram(machine) > 0 THEN NativeVram(machine) ELSE hw.vram
    BY <2>3 DEF LimitGb
  <2>5. NativeVram(machine) # 0 => hw.vram <= NativeVram(machine)
    OBVIOUS
  <2>. HIDE DEF hw, ram, vram, reported
  <2>6. vram \in Nat /\ hw.vram <= vram
    BY <2>1, <2>4, <2>5
  <2>. QED
    BY <1>2, <2>1, <2>2, <2>6 DEF Fits
<1>. HIDE DEF hw, ram, vram, reported
<1>4. /\ chosen.models = registry.models
      /\ s \in DOMAIN chosen.specialties
      /\ chosen.specialties[s].model = m.name
  <2>. DEFINE entries == [t \in DOMAIN registry.specialties \cup {s} |->
                IF t = s THEN [capability |-> m.capability, flavor |-> AnyValue,
                               min_context |-> AnyValue, model |-> m.name]
                ELSE registry.specialties[t]]
  <2>1. chosen = [registry EXCEPT !.specialties = entries]
    BY DEF WithChoice
  <2>2. s \in DOMAIN entries /\ entries[s].model = m.name
    OBVIOUS
  <2>. HIDE DEF entries, chosen
  <2>3. chosen.models = registry.models /\ chosen.specialties = entries
    BY <2>1, RegistryAssumption
  <2>. QED
    BY <2>2, <2>3
<1>. HIDE DEF chosen
<1>5. m.name # AnyValue /\ \A n \in registry.models : IsModelName(chosen, n, m.name) <=> n = m
  <2>1. m.name \in Nat /\ m.place \in Nat /\ AnyValue \notin Nat
    BY <1>2, RegistryAssumption
  <2>2. m.place <= m.place
    BY <2>1
  <2>. QED
    BY <1>2, <1>4, <2>1, <2>2 DEF IsModelName
<1>6. S = {m}
  BY <1>2, <1>3, <1>4, <1>5 DEF ResolveCandidates
<1>. HIDE DEF S
<1>7. FirstOf(S, SelectTier(hw)) = m
  BY <1>6 DEF FirstOf
<1>. QED
  BY <1>1, <1>7 DEF chosen

-----------------------------------------------------------------------------
(* One item.                                                               *)

LEMMA TextIs ==
  ASSUME NEW S, NEW parts \in Seq(S)
  PROVE  ContentToText(parts) \in Seq(S \ {Blank})
<1>. DEFINE fs == [i \in DOMAIN parts |-> IF parts[i] = Blank THEN <<>> ELSE <<parts[i]>>]
            U == S \ {Blank}
<1>1. DOMAIN parts = 1..Len(parts) /\ Len(parts) \in Nat
  OBVIOUS
<1>2. ASSUME NEW i \in 1..Len(parts)
      PROVE  (IF parts[i] = Blank THEN <<>> ELSE <<parts[i]>>) \in Seq(U)
  <2>1. parts[i] \in S
    OBVIOUS
  <2>2. parts[i] # Blank => parts[i] \in U
    BY <2>1
  <2>. HIDE DEF U
  <2>. QED
    BY <2>2
<1>. HIDE DEF U
<1>3. fs \in Seq(Seq(U))
  BY <1>1, <1>2
<1>. HIDE DEF fs
<1>4. FlattenSeq(fs) \in Seq(U)
  BY <1>3, FlattenTyped
<1>. QED
  BY <1>4 DEF ContentToText, fs, U

\* Nothing more goes from a text.
LEMMA TextOfText ==
  ASSUME NEW S, NEW parts \in Seq(S \ {Blank})
  PROVE  ContentToText(parts) = parts
<1>. DEFINE fs == [i \in DOMAIN parts |-> IF parts[i] = Blank THEN <<>> ELSE <<parts[i]>>]
            U == S \ {Blank}
            n == Len(parts)
            g == [k \in 0..n |-> SubSeq(parts, 1, k)]
<1>1. DOMAIN parts = 1..n /\ n \in Nat /\ \A i \in 1..n : parts[i] # Blank /\ parts[i] \in U
  OBVIOUS
<1>. HIDE DEF U
<1>2. \A i \in 1..n : fs[i] = <<parts[i]>>
  BY <1>1
<1>3. fs \in Seq(Seq(U)) /\ Len(fs) = n
  <2>1. \A i \in 1..n : <<parts[i]>> \in Seq(U)
    BY <1>1
  <2>2. fs \in [1..n -> Seq(U)]
    BY <1>1, <2>1
  <2>. QED
    BY <1>1, <2>2
<1>. HIDE DEF fs
<1>4. \A k \in 0..n : g[k] \in Seq(U) /\ Len(g[k]) = k /\ \A i \in 1..k : g[k][i] = parts[i]
  BY <1>1 DEF U
<1>. HIDE DEF g
<1>5. ASSUME NEW k \in 1..n PROVE g[k] = g[k - 1] \o fs[k]
  <2>1. k \in 0..n /\ k - 1 \in 0..n /\ (k - 1) + 1 = k /\ k \in Nat /\ k - 1 \in Nat
    BY <1>1
  <2>2. fs[k] = <<parts[k]>> /\ <<parts[k]>> \in Seq(U)
    BY <1>1, <1>2
  <2>3. /\ g[k - 1] \in Seq(U) /\ Len(g[k - 1]) = k - 1
        /\ \A i \in 1..(k - 1) : g[k - 1][i] = parts[i]
    BY <1>4, <2>1
  <2>. DEFINE t == g[k - 1] \o <<parts[k]>>
  <2>4. /\ t \in Seq(U) /\ Len(t) = k
        /\ \A i \in 1..k : t[i] = IF i <= k - 1 THEN g[k - 1][i] ELSE <<parts[k]>>[i - (k - 1)]
    <3>1. /\ t \in Seq(U) /\ Len(t) = Len(g[k - 1]) + Len(<<parts[k]>>)
          /\ \A i \in 1..(Len(g[k - 1]) + Len(<<parts[k]>>)) :
               t[i] = IF i <= Len(g[k - 1]) THEN g[k - 1][i] ELSE <<parts[k]>>[i - Len(g[k - 1])]
      BY <2>2, <2>3, ConcatProperties
    <3>2. Len(<<parts[k]>>) = 1
      OBVIOUS
    <3>. HIDE DEF t
    <3>. QED
      BY <2>1, <2>3, <3>1, <3>2
  <2>. HIDE DEF t
  <2>5. ASSUME NEW i \in 1..k PROVE t[i] = parts[i]
    <3>1. CASE i = k
      <4>1. ~(k <= k - 1) /\ k - (k - 1) = 1 /\ k \in 1..k
        BY <2>1
      <4>. QED
        BY <2>4, <3>1, <4>1
    <3>2. CASE i # k
      <4>1. i <= k - 1 /\ i \in 1..(k - 1)
        BY <2>1, <3>2
      <4>. QED
        BY <2>3, <2>4, <4>1
    <3>. QED
      BY <3>1, <3>2
  <2>6. g[k] \in Seq(U) /\ Len(g[k]) = k /\ \A i \in 1..k : g[k][i] = parts[i]
    BY <1>4, <2>1
  <2>7. g[k] = t
    BY <2>4, <2>5, <2>6, SameSeq
  <2>. QED
    BY <2>2, <2>7 DEF t
<1>6. g[0] = <<>> /\ g \in [0..n -> Seq(U)]
  <2>1. 0 \in 0..n
    BY <1>1
  <2>2. g[0] = <<>>
    BY <1>4, <2>1
  <2>3. g \in [0..n -> Seq(U)]
    BY <1>4 DEF g
  <2>. QED
    BY <2>2, <2>3
<1>7. Joins(U, fs, g)
  BY <1>3, <1>5, <1>6 DEF Joins
<1>8. FlattenSeq(fs) = g[n]
  BY <1>3, <1>7, FlattenIs
<1>9. g[n] = parts
  <2>1. n \in 0..n
    BY <1>1
  <2>2. g[n] \in Seq(U) /\ Len(g[n]) = n /\ \A i \in 1..n : g[n][i] = parts[i]
    BY <1>4, <2>1
  <2>. QED
    BY <2>2, SameSeq DEF U
<1>. QED
  BY <1>8, <1>9 DEF ContentToText, fs

Text == Seq(Pieces)
AnyMessage == [role : {"system", "user", "assistant"}, text : Text]
Talk == [role : {"user", "assistant"}, text : Text \ {<<>>}]

LEMMA ItemIs ==
  ASSUME NEW item \in Items
  PROVE  /\ item.kind \in {"string", "message", "other"}
         /\ ContentToText(item.parts) \in Text
         /\ Role(item) \in {"system", "user", "assistant"}
         /\ Content(item) \in Text
         /\ ~Dropped(item) => Content(item) # <<>>
         /\ Messages(item) \in Seq(Talk)
         /\ SystemParts(item) \in Seq(Text \ {<<>>})
<1>1. item.kind \in {"string", "message", "other"} /\ item.parts \in Seq(Pieces)
  BY ItemsAssumption
<1>2. ContentToText(item.parts) \in Seq(Pieces)
  <2>1. ContentToText(item.parts) \in Seq(Pieces \ {Blank})
    BY <1>1, TextIs
  <2>. QED
    BY <2>1, SeqMonotonic
<1>3. Role(item) \in {"system", "user", "assistant"}
  BY DEF Role, NormalizeRole
<1>4. item.heading \in Pieces
  BY DEF Pieces
<1>. DEFINE t == ContentToText(item.parts)
<1>. HIDE DEF t
<1>5. <<item.heading>> \o t \in Seq(Pieces) /\ <<item.heading>> \o t # <<>>
  <2>1. t \in Seq(Pieces)
    BY <1>2 DEF t
  <2>. QED
    BY <1>4, <2>1
<1>6. Content(item) \in Seq(Pieces)
  BY <1>2, <1>5 DEF Content, t
<1>7. ASSUME ~Dropped(item) PROVE Content(item) # <<>>
  <2>1. t # <<>>
    BY <1>7 DEF Dropped, t
  <2>. QED
    BY <1>5, <2>1 DEF Content, t
<1>8. Messages(item) \in Seq(Talk)
  <2>1. CASE Dropped(item) \/ Role(item) = "system"
    BY <2>1 DEF Messages
  <2>2. CASE ~(Dropped(item) \/ Role(item) = "system")
    <3>. DEFINE m == Message(Role(item), Content(item))
    <3>1. Messages(item) = <<m>>
      BY <2>2 DEF Messages
    <3>2. m \in Talk
      BY <1>3, <1>6, <1>7, <2>2 DEF Message, Talk, Text
    <3>. HIDE DEF m
    <3>. QED
      BY <3>1, <3>2
  <2>. QED
    BY <2>1, <2>2
<1>9. SystemParts(item) \in Seq(Text \ {<<>>})
  <2>1. CASE Dropped(item) \/ Role(item) # "system"
    BY <2>1 DEF SystemParts
  <2>2. CASE ~(Dropped(item) \/ Role(item) # "system")
    <3>1. SystemParts(item) = <<Content(item)>>
      BY <2>2 DEF SystemParts
    <3>2. Content(item) \in Text \ {<<>>}
      BY <1>6, <1>7, <2>2 DEF Text
    <3>. QED
      BY <3>1, <3>2
  <2>. QED
    BY <2>1, <2>2
<1>. QED
  BY <1>1, <1>2, <1>3, <1>6, <1>7, <1>8, <1>9 DEF Text

\* What an item adds to the reference.
SystemPiece(item) ==
  IF item.kind = "message" /\ item.role \in {"system", "developer"}
  THEN ContentToText(item.parts) ELSE <<>>

LEMMA SystemPieceIs ==
  ASSUME NEW item \in Items
  PROVE  /\ SystemPiece(item) \in Text
         /\ SystemParts(item) = IF SystemPiece(item) = <<>> THEN <<>> ELSE <<SystemPiece(item)>>
<1>. DEFINE t == ContentToText(item.parts)
<1>1. item.kind \in {"string", "message", "other"} /\ t \in Text
  BY ItemIs
<1>. HIDE DEF t
<1>2. Role(item) = "system" <=> item.kind # "string" /\ item.role \in {"system", "developer"}
  BY DEF Role, NormalizeRole
<1>3. <<>> \in Text
  BY DEF Text
<1>4. SystemPiece(item) = IF item.kind = "message" /\ item.role \in {"system", "developer"} THEN t ELSE <<>>
  BY DEF SystemPiece, t
<1>5. CASE item.kind = "message" /\ item.role \in {"system", "developer"}
  <2>1. Role(item) = "system" /\ Content(item) = t
    BY <1>2, <1>5 DEF Content, t
  <2>2. Dropped(item) <=> t = <<>>
    BY <1>5, <2>1 DEF Dropped, t
  <2>. QED
    BY <1>1, <1>4, <1>5, <2>1, <2>2 DEF SystemParts
<1>6. CASE ~(item.kind = "message" /\ item.role \in {"system", "developer"})
  <2>1. Dropped(item) \/ Role(item) # "system"
    BY <1>1, <1>2, <1>6 DEF Dropped
  <2>. QED
    BY <1>3, <1>4, <1>6, <2>1 DEF SystemParts
<1>. QED
  BY <1>5, <1>6

SystemOf(items) == FlattenSeq([i \in DOMAIN items |-> SystemParts(items[i])])

LEMMA SystemIs ==
  ASSUME NEW items \in Seq(Items)
  PROVE  /\ SystemOf(items) \in Seq(Text \ {<<>>})
         /\ FlattenSeq(SystemOf(items)) \in Text
         /\ FlattenSeq(SystemOf(items)) = SystemPieces(items)
         /\ SystemOf(items) # <<>> => FlattenSeq(SystemOf(items)) # <<>>
<1>. DEFINE n == Len(items)
            X == Text \ {<<>>}
            fs == [i \in DOMAIN items |-> SystemParts(items[i])]
            rs == [i \in DOMAIN items |-> SystemPiece(items[i])]
<1>1. n \in Nat /\ DOMAIN items = 1..n /\ \A i \in 1..n : items[i] \in Items
  OBVIOUS
<1>2. \A i \in 1..n : fs[i] = SystemParts(items[i]) /\ rs[i] = SystemPiece(items[i])
  BY <1>1
<1>3. /\ \A i \in 1..n : SystemParts(items[i]) \in Seq(X) /\ SystemPiece(items[i]) \in Text
      /\ \A i \in 1..n : fs[i] = IF rs[i] = <<>> THEN <<>> ELSE <<rs[i]>>
  BY <1>1, <1>2, ItemIs, SystemPieceIs
<1>4. fs \in Seq(Seq(X)) /\ Len(fs) = n /\ rs \in Seq(Text) /\ Len(rs) = n
  <2>1. fs \in [1..n -> Seq(X)] /\ rs \in [1..n -> Text]
    BY <1>1, <1>3
  <2>. QED
    BY <1>1, <2>1
<1>5. SystemOf(items) = FlattenSeq(fs) /\ SystemPieces(items) = FlattenSeq(rs)
  BY DEF SystemOf, SystemPieces, SystemPiece
<1>. HIDE DEF fs, rs
<1>6. PICK g : Joins(X, fs, g)
  BY <1>4, JoinsExist
<1>7. /\ g \in [0..n -> Seq(X)] /\ g[0] = <<>> /\ \A i \in 1..n : g[i] = g[i - 1] \o fs[i]
      /\ FlattenSeq(fs) = g[n]
  <2>1. FlattenSeq(fs) = g[n]
    BY <1>4, <1>6, FlattenIs
  <2>. QED
    BY <1>4, <1>6, <2>1 DEF Joins
<1>8. \A s \in Seq(X) : s \in Seq(Seq(Pieces)) /\ FlattenSeq(s) \in Seq(Pieces)
  <2>. TAKE s \in Seq(X)
  <2>1. s \in Seq(Seq(Pieces))
    BY SeqMonotonic DEF Text
  <2>. QED
    BY <2>1, FlattenTyped
<1>. DEFINE r == [k \in 0..n |-> FlattenSeq(g[k])]
<1>9. \A k \in 0..n : r[k] = FlattenSeq(g[k]) /\ r[k] \in Seq(Pieces)
  BY <1>7, <1>8
<1>10. r \in [0..n -> Seq(Pieces)]
  BY <1>9
<1>. HIDE DEF r
<1>11. ASSUME NEW k \in 1..n PROVE r[k] = r[k - 1] \o rs[k]
  <2>1. k \in 0..n /\ k - 1 \in 0..n
    BY <1>1
  <2>2. g[k] = g[k - 1] \o fs[k] /\ g[k - 1] \in Seq(X) /\ rs[k] \in Seq(Pieces)
    <3>1. g[k] = g[k - 1] \o fs[k] /\ g[k - 1] \in Seq(X)
      BY <1>7, <2>1
    <3>2. rs[k] \in Text
      BY <1>4
    <3>. QED
      BY <3>1, <3>2 DEF Text
  <2>3. r[k - 1] \in Seq(Pieces)
    BY <1>9, <2>1
  <2>4. CASE rs[k] = <<>>
    <3>1. fs[k] = <<>>
      BY <1>3, <2>4
    <3>2. g[k] = g[k - 1]
      BY <2>2, <3>1, ConcatEmptySeq
    <3>3. r[k - 1] \o <<>> = r[k - 1]
      BY <2>3, ConcatEmptySeq
    <3>. QED
      BY <1>9, <2>1, <2>4, <3>2, <3>3
  <2>5. CASE rs[k] # <<>>
    <3>1. fs[k] = <<rs[k]>> /\ rs[k] \in X
      BY <1>3, <2>2, <2>5 DEF Text
    <3>2. g[k] = Append(g[k - 1], rs[k])
      BY <2>2, <3>1, AppendIsConcat
    <3>3. g[k - 1] \in Seq(Seq(Pieces))
      BY <1>8, <2>2
    <3>4. FlattenSeq(g[k]) = FlattenSeq(g[k - 1]) \o rs[k]
      BY <2>2, <3>2, <3>3, FlattenAppend
    <3>. QED
      BY <1>9, <2>1, <3>4
  <2>. QED
    BY <2>4, <2>5
<1>12. r[0] = <<>>
  <2>1. 0 \in 0..n
    BY <1>1
  <2>. QED
    BY <1>7, <1>9, <2>1, FlattenEmpty
<1>13. Joins(Pieces, rs, r)
  BY <1>4, <1>10, <1>11, <1>12 DEF Joins
<1>14. FlattenSeq(rs) = r[n]
  BY <1>4, <1>13, FlattenIs DEF Text
<1>15. n \in 0..n
  BY <1>1
<1>16. SystemOf(items) = g[n] /\ g[n] \in Seq(X) /\ FlattenSeq(g[n]) = SystemPieces(items)
  BY <1>5, <1>7, <1>9, <1>14, <1>15
<1>17. ASSUME g[n] # <<>> PROVE FlattenSeq(g[n]) # <<>>
  <2>. DEFINE s == g[n]
              front == SubSeq(s, 1, Len(s) - 1)
              end == s[Len(s)]
  <2>1. front \in Seq(X) /\ end \in X /\ Append(front, end) = s
    BY <1>16, <1>17, FrontAndLast
  <2>. HIDE DEF front, end, s
  <2>2. front \in Seq(Seq(Pieces)) /\ end \in Seq(Pieces) /\ end # <<>>
    BY <1>8, <2>1 DEF Text
  <2>3. FlattenSeq(s) = FlattenSeq(front) \o end
    BY <2>1, <2>2, FlattenAppend
  <2>4. FlattenSeq(front) \in Seq(Pieces)
    BY <2>2, FlattenTyped
  <2>5. FlattenSeq(front) \o end # <<>>
    BY <2>2, <2>4, ConcatEqualIffEmpty
  <2>. QED
    BY <2>3, <2>5 DEF s
<1>. QED
  BY <1>8, <1>16, <1>17 DEF Text

-----------------------------------------------------------------------------
(* The order of the messages.                                              *)

Talking == {"user", "assistant"}
Turn(k) == IF k % 2 = 1 THEN "user" ELSE "assistant"

\* What the loop begins with: the system message, if there is one.
IsStart(start) == start = <<>> \/ \E t \in Text \ {<<>>} : start = <<Message("system", t)>>

\* What it keeps: questions and answers in turn after that.
InTurn(start, o) ==
  /\ o \in Seq(AnyMessage) /\ Len(start) <= Len(o)
  /\ \A i \in 1..Len(start) : o[i] = start[i]
  /\ \A i \in 1..Len(o) : i > Len(start) => o[i].text # <<>> /\ o[i].role = Turn(i - Len(start))

LEMMA StartIs ==
  ASSUME NEW start, IsStart(start)
  PROVE  /\ start \in Seq(AnyMessage) /\ Len(start) \in {0, 1}
         /\ \A i \in 1..Len(start) : start[i].role = "system" /\ start[i].text # <<>>
         /\ InTurn(start, start)
<1>1. CASE start = <<>>
  BY <1>1 DEF InTurn
<1>2. CASE start # <<>>
  <2>1. PICK t \in Text \ {<<>>} : start = <<Message("system", t)>>
    BY <1>2 DEF IsStart
  <2>. DEFINE m == Message("system", t)
  <2>2. m \in AnyMessage /\ m.role = "system" /\ m.text # <<>>
    BY DEF Message, AnyMessage
  <2>. HIDE DEF m
  <2>3. start = <<m>>
    BY <2>1 DEF m
  <2>4. start \in Seq(AnyMessage) /\ Len(start) = 1 /\ start[1] = m
    BY <2>2, <2>3
  <2>5. \A i \in 1..Len(start) : i = 1
    BY <2>4
  <2>6. InTurn(start, start)
    BY <2>4, <2>5 DEF InTurn
  <2>. QED
    BY <2>2, <2>4, <2>5, <2>6
<1>. QED
  BY <1>1, <1>2

TextIn(m, roles) == IF m.role \in roles THEN m.text ELSE <<>>

LEMMA PiecesList ==
  ASSUME NEW o \in Seq(AnyMessage), NEW roles
  PROVE  LET fs == [i \in DOMAIN o |-> TextIn(o[i], roles)]
         IN  /\ fs \in Seq(Seq(Pieces)) /\ Len(fs) = Len(o)
             /\ \A i \in 1..Len(o) : fs[i] = TextIn(o[i], roles)
             /\ PiecesOf(o, roles) = FlattenSeq(fs)
             /\ PiecesOf(o, roles) \in Seq(Pieces)
<1>. DEFINE fs == [i \in DOMAIN o |-> TextIn(o[i], roles)]
<1>1. Len(o) \in Nat /\ DOMAIN o = 1..Len(o) /\ \A i \in 1..Len(o) : o[i] \in AnyMessage
  OBVIOUS
<1>2. \A i \in 1..Len(o) : TextIn(o[i], roles) \in Seq(Pieces)
  <2>. TAKE i \in 1..Len(o)
  <2>1. o[i].text \in Seq(Pieces)
    BY <1>1 DEF AnyMessage, Text
  <2>. QED
    BY <2>1 DEF TextIn
<1>3. \A i \in 1..Len(o) : fs[i] = TextIn(o[i], roles)
  BY <1>1
<1>4. fs \in [1..Len(o) -> Seq(Pieces)]
  BY <1>1, <1>2
<1>5. PiecesOf(o, roles) = FlattenSeq(fs)
  BY DEF PiecesOf, TextIn
<1>. HIDE DEF fs
<1>6. fs \in Seq(Seq(Pieces)) /\ Len(fs) = Len(o)
  BY <1>1, <1>4
<1>7. FlattenSeq(fs) \in Seq(Pieces)
  BY <1>6, FlattenTyped
<1>. QED
  BY <1>3, <1>5, <1>6, <1>7 DEF fs

LEMMA PiecesAppend ==
  ASSUME NEW o \in Seq(AnyMessage), NEW m \in AnyMessage, NEW roles
  PROVE  PiecesOf(Append(o, m), roles) = PiecesOf(o, roles) \o TextIn(m, roles)
<1>. DEFINE n == Len(o)
            p == Append(o, m)
            fs == [i \in DOMAIN o |-> TextIn(o[i], roles)]
            gs == [i \in DOMAIN p |-> TextIn(p[i], roles)]
            t == TextIn(m, roles)
<1>1. /\ n \in Nat /\ p \in Seq(AnyMessage) /\ Len(p) = n + 1 /\ p[n + 1] = m
      /\ \A i \in 1..n : p[i] = o[i]
  OBVIOUS
<1>. HIDE DEF p
<1>2. /\ fs \in Seq(Seq(Pieces)) /\ Len(fs) = n /\ PiecesOf(o, roles) = FlattenSeq(fs)
      /\ \A i \in 1..n : fs[i] = TextIn(o[i], roles)
  BY PiecesList
<1>3. /\ gs \in Seq(Seq(Pieces)) /\ Len(gs) = n + 1 /\ PiecesOf(p, roles) = FlattenSeq(gs)
      /\ \A i \in 1..(n + 1) : gs[i] = TextIn(p[i], roles)
  BY <1>1, PiecesList
<1>4. t \in Seq(Pieces)
  <2>1. m.text \in Seq(Pieces)
    BY DEF AnyMessage, Text
  <2>. QED
    BY <2>1 DEF TextIn
<1>. HIDE DEF fs, gs, t
<1>. DEFINE hs == Append(fs, t)
<1>5. /\ hs \in Seq(Seq(Pieces)) /\ Len(hs) = n + 1 /\ hs[n + 1] = t
      /\ \A i \in 1..n : hs[i] = fs[i]
  BY <1>2, <1>4, AppendProperties
<1>6. FlattenSeq(hs) = FlattenSeq(fs) \o t
  BY <1>2, <1>4, FlattenAppend
<1>. HIDE DEF hs
<1>7. \A i \in 1..(n + 1) : gs[i] = hs[i]
  <2>1. \A i \in 1..(n + 1) : i \in 1..n \/ i = n + 1
    BY <1>1
  <2>. QED
    BY <1>1, <1>2, <1>3, <1>5, <2>1 DEF t
<1>8. gs = hs
  BY <1>3, <1>5, <1>7, SameSeq
<1>. QED
  BY <1>2, <1>3, <1>6, <1>8 DEF p, t

LEMMA Turns ==
  \A k \in Nat : /\ Turn(k + 1) \in Talking /\ Turn(1) = "user"
                 /\ Turn(k + 1) # Turn(k) /\ Turn(k) \in Talking
BY DEF Turn, Talking

LEMMA UserIsThere ==
  ASSUME NEW start, IsStart(start), NEW o, InTurn(start, o)
  PROVE  HasUser(o) <=> Len(o) > Len(start)
<1>1. /\ o \in Seq(AnyMessage) /\ Len(start) <= Len(o) /\ DOMAIN o = 1..Len(o) /\ Len(o) \in Nat
      /\ \A i \in 1..Len(start) : o[i] = start[i]
      /\ \A i \in 1..Len(o) : i > Len(start) => o[i].role = Turn(i - Len(start))
  BY DEF InTurn
<1>2. Len(start) \in {0, 1} /\ \A i \in 1..Len(start) : start[i].role = "system"
  BY StartIs
<1>3. ASSUME Len(o) > Len(start) PROVE HasUser(o)
  <2>. DEFINE i == Len(start) + 1
  <2>1. i \in 1..Len(o) /\ i > Len(start) /\ i - Len(start) = 1
    BY <1>1, <1>2, <1>3
  <2>. HIDE DEF i
  <2>2. o[i].role = Turn(1)
    BY <1>1, <2>1
  <2>3. Turn(1) = "user"
    BY DEF Turn
  <2>. QED
    BY <1>1, <2>1, <2>2, <2>3 DEF HasUser
<1>4. ASSUME HasUser(o) PROVE Len(o) > Len(start)
  <2>1. PICK i \in 1..Len(o) : o[i].role = "user"
    BY <1>1, <1>4 DEF HasUser
  <2>2. i \notin 1..Len(start)
    BY <1>1, <1>2, <2>1
  <2>. QED
    BY <1>1, <1>2, <2>1, <2>2
<1>. QED
  BY <1>3, <1>4

\* An answer before the first question goes.
Skips(start, o, m) == m.role = "assistant" /\ Len(o) = Len(start)

LEMMA OrderedSkips ==
  ASSUME NEW start, IsStart(start), NEW o, InTurn(start, o), NEW m \in Talk, Skips(start, o, m)
  PROVE  Ordered(o, m) = o
<1>1. o \in Seq(AnyMessage) /\ Len(o) = Len(start) /\ Len(o) \in Nat
  BY DEF InTurn, Skips
<1>2. ~HasUser(o)
  <2>1. HasUser(o) <=> Len(o) > Len(start)
    BY UserIsThere
  <2>. QED
    BY <1>1, <2>1
<1>3. m.role = "assistant"
  BY DEF Skips
<1>4. o # <<>> => Last(o).role # m.role
  <2>1. ASSUME o # <<>> PROVE Last(o).role = "system"
    <3>1. Len(o) \in 1..Len(start)
      BY <1>1, <2>1
    <3>2. o[Len(o)] = start[Len(o)] /\ start[Len(o)].role = "system"
      BY <3>1, StartIs DEF InTurn
    <3>. QED
      BY <3>2 DEF Last
  <2>. QED
    BY <1>3, <2>1
<1>. QED
  BY <1>2, <1>3, <1>4 DEF Ordered

\* A message of the same role is added to the last.
LEMMA OrderedMerges ==
  ASSUME NEW start, IsStart(start), NEW o, InTurn(start, o), NEW m \in Talk,
         ~Skips(start, o, m), o # <<>>, Last(o).role = m.role
  PROVE  /\ InTurn(start, Ordered(o, m))
         /\ Len(Ordered(o, m)) > Len(start)
         /\ PiecesOf(Ordered(o, m), Talking) = PiecesOf(o, Talking) \o m.text
<1>. DEFINE n == Len(o)
            p == Ordered(o, m)
<1>1. /\ o \in Seq(AnyMessage) /\ Len(start) <= n
      /\ \A i \in 1..Len(start) : o[i] = start[i]
      /\ \A i \in 1..n : i > Len(start) => o[i].text # <<>> /\ o[i].role = Turn(i - Len(start))
  BY DEF InTurn
<1>2. n \in Nat \ {0} /\ o[n] \in AnyMessage /\ o[n].role = m.role
  <2>1. n \in Nat \ {0}
    BY <1>1
  <2>2. o[n] \in AnyMessage
    BY <1>1, <2>1
  <2>. QED
    BY <2>1, <2>2 DEF Last
<1>3. m.role \in Talking /\ m.text \in Seq(Pieces) /\ m.text # <<>>
  BY DEF Talk, Talking, Text
<1>4. Len(start) \in {0, 1} /\ \A i \in 1..Len(start) : start[i].role = "system"
  BY StartIs
<1>5. Len(start) < n
  <2>1. n \notin 1..Len(start)
    BY <1>1, <1>2, <1>3, <1>4 DEF Talking
  <2>. QED
    BY <1>1, <1>2, <1>4, <2>1
<1>6. HasUser(o)
  BY <1>5, UserIsThere
<1>7. p = [o EXCEPT ![n].text = @ \o m.text]
  BY <1>6 DEF Ordered
<1>8. o[n].text \in Seq(Pieces)
  BY <1>2 DEF AnyMessage, Text
<1>. DEFINE x == [o[n] EXCEPT !.text = @ \o m.text]
<1>9. x \in AnyMessage /\ x.role = o[n].role /\ x.text = o[n].text \o m.text /\ x.text # <<>>
  <2>1. o[n].text \o m.text \in Seq(Pieces) /\ o[n].text \o m.text # <<>>
    BY <1>3, <1>8, ConcatEqualIffEmpty, ConcatProperties
  <2>. QED
    BY <1>2, <2>1 DEF AnyMessage, Text
<1>10. p = [o EXCEPT ![n] = x]
  BY <1>7
<1>. HIDE DEF x, p
<1>11. /\ p \in Seq(AnyMessage) /\ Len(p) = n /\ p[n] = x
       /\ \A i \in 1..(n - 1) : p[i] = o[i]
  BY <1>1, <1>2, <1>9, <1>10
<1>12. InTurn(start, p)
  <2>1. ASSUME NEW i \in 1..Len(start) PROVE p[i] = start[i]
    <3>1. i \in 1..(n - 1)
      BY <1>2, <1>4, <1>5
    <3>. QED
      BY <1>1, <1>11, <3>1
  <2>2. ASSUME NEW i \in 1..n, i > Len(start)
        PROVE  p[i].text # <<>> /\ p[i].role = Turn(i - Len(start))
    <3>1. CASE i = n
      BY <1>1, <1>9, <1>11, <2>2, <3>1
    <3>2. CASE i # n
      <4>1. i \in 1..(n - 1)
        BY <1>2, <3>2
      <4>. QED
        BY <1>1, <1>11, <2>2, <4>1
    <3>. QED
      BY <3>1, <3>2
  <2>. QED
    BY <1>1, <1>11, <2>1, <2>2 DEF InTurn
<1>13. PiecesOf(p, Talking) = PiecesOf(o, Talking) \o m.text
  <2>. DEFINE fs == [i \in DOMAIN o |-> TextIn(o[i], Talking)]
              gs == [i \in DOMAIN p |-> TextIn(p[i], Talking)]
  <2>1. /\ fs \in Seq(Seq(Pieces)) /\ Len(fs) = n /\ PiecesOf(o, Talking) = FlattenSeq(fs)
        /\ \A i \in 1..n : fs[i] = TextIn(o[i], Talking)
    BY <1>1, PiecesList
  <2>2. /\ gs \in Seq(Seq(Pieces)) /\ Len(gs) = n /\ PiecesOf(p, Talking) = FlattenSeq(gs)
        /\ \A i \in 1..n : gs[i] = TextIn(p[i], Talking)
    BY <1>11, PiecesList
  <2>. HIDE DEF fs, gs
  <2>3. fs # <<>>
    BY <1>2, <2>1
  <2>4. \A i \in 1..(n - 1) : gs[i] = fs[i]
    BY <1>2, <1>11, <2>1, <2>2
  <2>5. gs[n] = fs[n] \o m.text
    <3>1. n \in 1..n
      BY <1>2
    <3>2. fs[n] = o[n].text /\ gs[n] = x.text
      BY <1>2, <1>3, <1>9, <1>11, <2>1, <2>2, <3>1 DEF TextIn
    <3>. QED
      BY <1>9, <3>2
  <2>6. FlattenSeq(gs) = FlattenSeq(fs) \o m.text
    <3>. DEFINE y == m.text
    <3>. HIDE DEF y
    <3>1. /\ Len(gs) = Len(fs) /\ y \in Seq(Pieces) /\ gs[Len(fs)] = fs[Len(fs)] \o y
          /\ \A i \in 1..(Len(fs) - 1) : gs[i] = fs[i]
      BY <1>3, <2>1, <2>2, <2>4, <2>5 DEF y
    <3>2. FlattenSeq(gs) = FlattenSeq(fs) \o y
      BY <2>1, <2>2, <2>3, <3>1, FlattenGrow
    <3>. QED
      BY <3>2 DEF y
  <2>. QED
    BY <2>1, <2>2, <2>6
<1>. QED
  BY <1>5, <1>11, <1>12, <1>13 DEF p

\* Any other becomes the next.
LEMMA OrderedAppends ==
  ASSUME NEW start, IsStart(start), NEW o, InTurn(start, o), NEW m \in Talk,
         ~Skips(start, o, m), ~(o # <<>> /\ Last(o).role = m.role)
  PROVE  /\ InTurn(start, Ordered(o, m))
         /\ Len(Ordered(o, m)) > Len(start)
         /\ PiecesOf(Ordered(o, m), Talking) = PiecesOf(o, Talking) \o m.text
<1>. DEFINE n == Len(o)
            off == Len(start)
            p == Append(o, m)
<1>1. /\ o \in Seq(AnyMessage) /\ off <= n
      /\ \A i \in 1..off : o[i] = start[i]
      /\ \A i \in 1..n : i > off => o[i].text # <<>> /\ o[i].role = Turn(i - off)
  BY DEF InTurn
<1>2. m \in AnyMessage /\ m.role \in Talking /\ m.text # <<>>
  BY DEF Talk, Talking, AnyMessage
<1>3. off \in {0, 1} /\ n \in Nat
  BY <1>1, StartIs
<1>4. Ordered(o, m) = p
  <2>1. HasUser(o) <=> n > off
    BY UserIsThere
  <2>2. ~(m.role = "assistant" /\ ~HasUser(o))
    BY <1>1, <1>3, <2>1 DEF Skips
  <2>. QED
    BY <2>2 DEF Ordered
<1>5. /\ p \in Seq(AnyMessage) /\ Len(p) = n + 1 /\ p[n + 1] = m
      /\ \A i \in 1..n : p[i] = o[i]
  BY <1>1, <1>2, AppendProperties
<1>. HIDE DEF p
<1>6. m.role = Turn((n + 1) - off)
  <2>1. CASE n = off
    <3>1. m.role = "user"
      BY <1>2, <2>1 DEF Skips, Talking
    <3>2. (n + 1) - off = 1 /\ Turn(1) = "user"
      BY <1>3, <2>1 DEF Turn
    <3>. QED
      BY <3>1, <3>2
  <2>2. CASE n # off
    <3>. DEFINE k == n - off
    <3>1. n \in 1..n /\ n > off /\ k \in Nat /\ (n + 1) - off = k + 1 /\ o # <<>>
      BY <1>1, <1>3, <2>2
    <3>2. o[n].role = Turn(k) /\ o[n].role # m.role
      BY <1>1, <3>1 DEF Last
    <3>. HIDE DEF k
    <3>3. Turn(k + 1) \in Talking /\ Turn(k) \in Talking /\ Turn(k + 1) # Turn(k)
      BY <3>1, Turns
    <3>. QED
      BY <1>2, <3>1, <3>2, <3>3 DEF Talking
  <2>. QED
    BY <2>1, <2>2
<1>7. InTurn(start, p)
  <2>1. ASSUME NEW i \in 1..off PROVE p[i] = start[i]
    <3>1. i \in 1..n
      BY <1>1, <1>3
    <3>. QED
      BY <1>1, <1>5, <3>1
  <2>2. ASSUME NEW i \in 1..(n + 1), i > off
        PROVE  p[i].text # <<>> /\ p[i].role = Turn(i - off)
    <3>1. CASE i = n + 1
      BY <1>2, <1>5, <1>6, <3>1
    <3>2. CASE i # n + 1
      <4>1. i \in 1..n
        BY <1>3, <3>2
      <4>. QED
        BY <1>1, <1>5, <2>2, <4>1
    <3>. QED
      BY <3>1, <3>2
  <2>3. off <= n + 1
    BY <1>1, <1>3
  <2>. QED
    BY <1>5, <2>1, <2>2, <2>3 DEF InTurn
<1>8. TextIn(m, Talking) = m.text
  BY <1>2 DEF TextIn
<1>9. PiecesOf(p, Talking) = PiecesOf(o, Talking) \o m.text
  BY <1>1, <1>2, <1>8, PiecesAppend DEF p
<1>10. Len(p) > off
  BY <1>1, <1>3, <1>5
<1>. QED
  BY <1>4, <1>7, <1>9, <1>10

LEMMA OrderedStep ==
  ASSUME NEW start, IsStart(start), NEW o, InTurn(start, o), NEW m \in Talk
  PROVE  /\ InTurn(start, Ordered(o, m))
         /\ Len(Ordered(o, m)) > Len(start) <=> ~Skips(start, o, m)
         /\ PiecesOf(Ordered(o, m), Talking)
              = PiecesOf(o, Talking) \o IF Skips(start, o, m) THEN <<>> ELSE m.text
<1>1. CASE Skips(start, o, m)
  <2>1. Ordered(o, m) = o
    BY <1>1, OrderedSkips
  <2>2. o \in Seq(AnyMessage) /\ Len(o) = Len(start) /\ Len(o) \in Nat
    BY <1>1 DEF InTurn, Skips
  <2>3. PiecesOf(o, Talking) \in Seq(Pieces)
    BY <2>2, PiecesList
  <2>4. PiecesOf(o, Talking) \o <<>> = PiecesOf(o, Talking)
    BY <2>3, ConcatEmptySeq
  <2>5. ~(Len(o) > Len(start))
    BY <2>2
  <2>. QED
    BY <1>1, <2>1, <2>4, <2>5
<1>2. CASE ~Skips(start, o, m)
  BY <1>2, OrderedMerges, OrderedAppends
<1>. QED
  BY <1>1, <1>2

LEMMA TalkPieceIs ==
  ASSUME NEW item \in Items, NEW asked \in BOOLEAN
  PROVE  \/ Messages(item) = <<>> /\ ~Asks(item) /\ TalkPiece(item, asked) = <<>>
         \/ \E m \in Talk :
              /\ Messages(item) = <<m>>
              /\ m.role = "user" <=> Asks(item)
              /\ TalkPiece(item, asked) = IF m.role = "assistant" /\ ~asked THEN <<>> ELSE m.text
<1>. DEFINE t == ContentToText(item.parts)
            m == Message(Role(item), Content(item))
<1>1. /\ item.kind \in {"string", "message", "other"} /\ t \in Text
      /\ Role(item) \in {"system", "user", "assistant"} /\ Content(item) \in Text
      /\ ~Dropped(item) => Content(item) # <<>>
  BY ItemIs
<1>2. /\ Dropped(item) <=> \/ item.kind = "other" \/ t = <<>>
                           \/ item.kind = "message" /\ Role(item) = "assistant" /\ t = <<Failed>>
      /\ Content(item) = IF item.kind = "message" /\ item.role \in {"tool", "function"}
                         THEN <<item.heading>> \o t ELSE t
      /\ Messages(item) = IF Dropped(item) \/ Role(item) = "system" THEN <<>> ELSE <<m>>
  BY DEF Dropped, Content, Messages, IsFailedAssistantContent
<1>3. Asks(item) <=> /\ item.kind \in {"string", "message"}
                     /\ item.kind = "message" => item.role \notin {"system", "developer", "assistant"}
                     /\ t # <<>>
  BY DEF Asks
<1>4. TalkPiece(item, asked) =
        IF \/ item.kind = "other" \/ t = <<>>
           \/ item.kind = "message" /\ item.role \in {"system", "developer"}
           \/ item.kind = "message" /\ item.role = "assistant" /\ (t = <<Failed>> \/ ~asked)
        THEN <<>>
        ELSE IF item.kind = "message" /\ item.role \in {"tool", "function"} THEN <<item.heading>> \o t ELSE t
  BY DEF TalkPiece
<1>5. /\ item.kind = "string" => Role(item) = "user"
      /\ item.kind # "string" =>
           /\ Role(item) = "system" <=> item.role \in {"system", "developer"}
           /\ Role(item) = "assistant" <=> item.role = "assistant"
  BY DEF Role, NormalizeRole
<1>6. m.role = Role(item) /\ m.text = Content(item)
  BY DEF Message
<1>7. ~Dropped(item) /\ Role(item) # "system" => m \in Talk
  BY <1>1 DEF Message, Talk
<1>. HIDE DEF t, m
<1>8. CASE Dropped(item) \/ Role(item) = "system"
  <2>1. Messages(item) = <<>>
    BY <1>2, <1>8
  <2>2. ~Asks(item)
    BY <1>1, <1>2, <1>3, <1>5, <1>8
  <2>3. TalkPiece(item, asked) = <<>>
    BY <1>1, <1>2, <1>4, <1>5, <1>8
  <2>. QED
    BY <2>1, <2>2, <2>3
<1>9. CASE ~(Dropped(item) \/ Role(item) = "system")
  <2>1. Messages(item) = <<m>> /\ m \in Talk
    BY <1>2, <1>7, <1>9
  <2>2. m.role = "user" <=> Asks(item)
    BY <1>1, <1>2, <1>3, <1>5, <1>6, <1>9
  <2>3. TalkPiece(item, asked) = IF m.role = "assistant" /\ ~asked THEN <<>> ELSE m.text
    BY <1>1, <1>2, <1>4, <1>5, <1>6, <1>9
  <2>. QED
    BY <2>1, <2>2, <2>3
<1>. QED
  BY <1>8, <1>9

\* The loop of _normalize_message_order.
\* h is what the loop of NormalizeMessageOrder goes through.
Orders(msgs, system, start, h) ==
  /\ h[0] = start
  /\ \A i \in 1..Len(msgs) : h[i] = Ordered(h[i - 1], msgs[i])
  /\ NormalizeMessageOrder(msgs, system) = h[Len(msgs)]

LEMMA OrderIs ==
  ASSUME NEW msgs \in Seq(Talk), NEW system, NEW start, IsStart(start),
         start = IF system = <<>> THEN <<>> ELSE <<Message("system", FlattenSeq(system))>>
  PROVE  \E h : Orders(msgs, system, start, h)
<1>. USE DEF Orders
<1>. DEFINE n == Len(msgs)
            S == {o \in Seq(AnyMessage) : InTurn(start, o)}
            step == [i \in 1..n |-> [o \in S |-> Ordered(o, msgs[i])]]
<1>0. n \in Nat /\ \A i \in 1..n : msgs[i] \in Talk
  OBVIOUS
<1>1. \A i \in 1..n, o \in S : Ordered(o, msgs[i]) \in S
  <2>. TAKE i \in 1..n, o \in S
  <2>1. InTurn(start, Ordered(o, msgs[i]))
    BY <1>0, OrderedStep
  <2>. QED
    BY <2>1 DEF InTurn
<1>2. start \in S
  BY StartIs
<1>. HIDE DEF S
<1>3. step \in [1..n -> [S -> S]]
  BY <1>1
<1>4. \A i \in 1..n, o \in S : step[i][o] = Ordered(o, msgs[i])
  OBVIOUS
<1>. HIDE DEF step
<1>5. PICK g : Iterates(n, S, start, step, g)
  BY <1>0, <1>2, <1>3, LoopRuns
<1>6. g \in [0..n -> S] /\ g[0] = start /\ \A i \in 1..n : g[i] = step[i][g[i - 1]]
  BY <1>5 DEF Iterates
<1>. DEFINE F(x) == [i \in 0..n |-> IF i = 0 THEN start ELSE Ordered(x[i - 1], msgs[i])]
            h == CHOOSE x : x = F(x)
<1>7. g = F(g)
  <2>1. ASSUME NEW i \in 0..n PROVE g[i] = F(g)[i]
    <3>1. CASE i = 0
      BY <1>6, <3>1
    <3>2. CASE i # 0
      <4>1. i \in 1..n /\ i - 1 \in 0..n
        BY <1>0, <3>2
      <4>2. g[i - 1] \in S
        BY <1>6, <4>1
      <4>3. g[i] = Ordered(g[i - 1], msgs[i])
        BY <1>4, <1>6, <4>1, <4>2
      <4>. QED
        BY <3>2, <4>3
    <3>. QED
      BY <3>1, <3>2
  <2>2. g = [i \in 0..n |-> g[i]]
    BY <1>6
  <2>. QED
    BY <2>1, <2>2
<1>8. h = F(h)
  BY <1>7
<1>9. NormalizeMessageOrder(msgs, system) = h[n]
  BY DEF NormalizeMessageOrder
<1>. HIDE DEF h
<1>10. h[0] = start /\ \A i \in 1..n : h[i] = Ordered(h[i - 1], msgs[i])
  <2>1. \A i \in 0..n : h[i] = IF i = 0 THEN start ELSE Ordered(h[i - 1], msgs[i])
    BY <1>8
  <2>2. 0 \in 0..n /\ \A i \in 1..n : i \in 0..n /\ i # 0
    BY <1>0
  <2>. QED
    BY <2>1, <2>2
<1>. QED
  BY <1>9, <1>10

-----------------------------------------------------------------------------
(* The whole list.                                                         *)

\* h goes through the list with the items, g through the messages they add.
Walk(items, ms, g, h) ==
  /\ items \in Seq(Items) /\ ms \in Seq(Seq(Talk)) /\ Len(ms) = Len(items)
  /\ \A i \in 1..Len(items) : ms[i] = Messages(items[i])
  /\ Joins(Talk, ms, g)
  /\ \A i \in 1..Len(g[Len(items)]) : h[i] = Ordered(h[i - 1], g[Len(items)][i])

ItemStep(items, g, h, k) ==
  /\ Messages(items[k]) = <<>> => h[Len(g[k])] = h[Len(g[k - 1])]
  /\ \A m \in Talk : Messages(items[k]) = <<m>> =>
       h[Len(g[k])] = Ordered(h[Len(g[k - 1])], m)

LEMMA ItemByItem ==
  ASSUME NEW items, NEW ms, NEW g, NEW h, Walk(items, ms, g, h), NEW k \in 1..Len(items)
  PROVE  ItemStep(items, g, h, k)
<1>. USE DEF Walk
<1>. DEFINE n == Len(items)
<1>0. n \in Nat /\ k \in 0..n /\ k - 1 \in 0..n
  OBVIOUS
<1>1. /\ g[k] = g[k - 1] \o ms[k]
      /\ g[k] \in Seq(Talk) /\ g[k - 1] \in Seq(Talk) /\ g[n] \in Seq(Talk)
  <2>1. g \in [0..n -> Seq(Talk)] /\ \A i \in 1..n : g[i] = g[i - 1] \o ms[i]
    BY DEF Joins
  <2>2. n \in 0..n
    BY <1>0
  <2>. QED
    BY <1>0, <2>1, <2>2
<1>2. PICK a \in Seq(Talk), b \in Seq(Talk), c \in Seq(Talk) : a = g[k - 1] /\ b = g[k] /\ c = g[n]
  BY <1>1
<1>3. b = a \o Messages(items[k])
  BY <1>1, <1>2
<1>4. Len(b) <= Len(c) /\ \A i \in 1..Len(b) : b[i] = c[i]
  BY <1>0, <1>2, JoinsPrefix
<1>5. Len(a) \in Nat /\ Len(b) \in Nat
  OBVIOUS
<1>6. ASSUME Messages(items[k]) = <<>> PROVE b = a
  BY <1>3, <1>6, ConcatEmptySeq
<1>7. ASSUME NEW m \in Talk, Messages(items[k]) = <<m>>
      PROVE  h[Len(b)] = Ordered(h[Len(a)], m)
  <2>1. b = Append(a, m)
    BY <1>3, <1>7, AppendIsConcat
  <2>2. Len(b) = Len(a) + 1 /\ b[Len(a) + 1] = m
    BY <2>1
  <2>3. Len(b) \in 1..Len(b) /\ Len(b) - 1 = Len(a)
    BY <1>5, <2>2
  <2>4. c[Len(b)] = m
    BY <1>4, <2>2, <2>3
  <2>5. Len(b) \in 1..Len(c)
    BY <1>4, <1>5, <2>3
  <2>6. h[Len(b)] = Ordered(h[Len(b) - 1], c[Len(b)])
    BY <1>2, <2>5
  <2>. QED
    BY <2>3, <2>4, <2>6
<1>. QED
  BY <1>2, <1>5, <1>6, <1>7 DEF ItemStep

Asked(items, k) == \E j \in 1..k : Asks(items[j])

LEMMA AskedNext ==
  ASSUME NEW items, NEW k \in Nat \ {0}
  PROVE  Asked(items, k) <=> Asked(items, k - 1) \/ Asks(items[k])
<1>1. \A j \in 1..k : j = k \/ j \in 1..(k - 1)
  OBVIOUS
<1>2. k \in 1..k /\ \A j \in 1..(k - 1) : j \in 1..k
  OBVIOUS
<1>. QED
  BY <1>1, <1>2 DEF Asked

\* One item: the order is kept, and its pieces are added.
LEMMA ItemKept ==
  ASSUME NEW items \in Seq(Items), NEW k \in 1..Len(items), NEW start, IsStart(start),
         NEW o, InTurn(start, o), Len(o) > Len(start) <=> Asked(items, k - 1),
         NEW p, Messages(items[k]) = <<>> => p = o,
         \A m \in Talk : Messages(items[k]) = <<m>> => p = Ordered(o, m)
  PROVE  /\ InTurn(start, p)
         /\ Len(p) > Len(start) <=> Asked(items, k)
         /\ PiecesOf(p, Talking) = PiecesOf(o, Talking) \o TalkPiece(items[k], Asked(items, k))
<1>0. k \in Nat \ {0} /\ items[k] \in Items
  OBVIOUS
<1>. DEFINE asked == Asked(items, k)
<1>1. asked \in BOOLEAN /\ (asked <=> Asked(items, k - 1) \/ Asks(items[k]))
  <2>1. asked <=> Asked(items, k - 1) \/ Asks(items[k])
    BY <1>0, AskedNext
  <2>2. asked \in BOOLEAN
    BY DEF Asked
  <2>. QED
    BY <2>1, <2>2
<1>. HIDE DEF asked
<1>2. o \in Seq(AnyMessage) /\ Len(o) \in Nat /\ Len(start) \in Nat /\ Len(start) <= Len(o)
  BY StartIs DEF InTurn
<1>3. PiecesOf(o, Talking) \in Seq(Pieces)
  BY <1>2, PiecesList
<1>4. CASE Messages(items[k]) = <<>> /\ ~Asks(items[k]) /\ TalkPiece(items[k], asked) = <<>>
  <2>1. p = o
    BY <1>4
  <2>2. PiecesOf(o, Talking) \o <<>> = PiecesOf(o, Talking)
    BY <1>3, ConcatEmptySeq
  <2>. QED
    BY <1>1, <1>4, <2>1, <2>2 DEF asked
<1>5. CASE \E m \in Talk :
             /\ Messages(items[k]) = <<m>>
             /\ m.role = "user" <=> Asks(items[k])
             /\ TalkPiece(items[k], asked) = IF m.role = "assistant" /\ ~asked THEN <<>> ELSE m.text
  <2>1. PICK m \in Talk :
             /\ Messages(items[k]) = <<m>>
             /\ m.role = "user" <=> Asks(items[k])
             /\ TalkPiece(items[k], asked) = IF m.role = "assistant" /\ ~asked THEN <<>> ELSE m.text
    BY <1>5
  <2>2. p = Ordered(o, m)
    BY <2>1
  <2>3. /\ InTurn(start, p)
        /\ Len(p) > Len(start) <=> ~Skips(start, o, m)
        /\ PiecesOf(p, Talking) = PiecesOf(o, Talking) \o IF Skips(start, o, m) THEN <<>> ELSE m.text
    BY <2>2, OrderedStep
  <2>4. m.role = "assistant" <=> ~Asks(items[k])
    BY <2>1 DEF Talk
  <2>5. Len(o) = Len(start) <=> ~Asked(items, k - 1)
    BY <1>2
  <2>6. Skips(start, o, m) <=> ~asked
    BY <1>1, <2>4, <2>5 DEF Skips
  <2>7. ~asked => m.role = "assistant"
    BY <1>1, <2>4
  <2>8. (IF Skips(start, o, m) THEN <<>> ELSE m.text) = TalkPiece(items[k], asked)
    BY <2>1, <2>6, <2>7
  <2>. QED
    BY <2>3, <2>6, <2>8 DEF asked
<1>6. \/ Messages(items[k]) = <<>> /\ ~Asks(items[k]) /\ TalkPiece(items[k], asked) = <<>>
      \/ \E m \in Talk :
           /\ Messages(items[k]) = <<m>>
           /\ m.role = "user" <=> Asks(items[k])
           /\ TalkPiece(items[k], asked) = IF m.role = "assistant" /\ ~asked THEN <<>> ELSE m.text
  BY <1>0, <1>1, TalkPieceIs
<1>. QED
  BY <1>4, <1>5, <1>6

LEMMA PiecesOfStart ==
  ASSUME NEW start, IsStart(start)
  PROVE  PiecesOf(start, Talking) = <<>>
<1>. DEFINE fs == [i \in DOMAIN start |-> TextIn(start[i], Talking)]
            g == [k \in 0..Len(start) |-> <<>>]
<1>1. start \in Seq(AnyMessage) /\ \A i \in 1..Len(start) : start[i].role = "system"
  BY StartIs
<1>2. /\ fs \in Seq(Seq(Pieces)) /\ Len(fs) = Len(start) /\ PiecesOf(start, Talking) = FlattenSeq(fs)
      /\ \A i \in 1..Len(start) : fs[i] = TextIn(start[i], Talking)
  BY <1>1, PiecesList
<1>. HIDE DEF fs
<1>3. \A i \in 1..Len(start) : fs[i] = <<>>
  BY <1>1, <1>2 DEF TextIn, Talking
<1>4. Len(start) \in Nat /\ <<>> \in Seq(Pieces) /\ <<>> \o <<>> = <<>>
  BY <1>1
<1>5. Joins(Pieces, fs, g)
  <2>1. g \in [0..Len(fs) -> Seq(Pieces)]
    BY <1>2, <1>4
  <2>2. \A k \in 0..Len(fs) : g[k] = <<>>
    BY <1>2
  <2>3. 0 \in 0..Len(fs) /\ \A i \in 1..Len(fs) : i \in 0..Len(fs) /\ i - 1 \in 0..Len(fs)
    BY <1>2, <1>4
  <2>. HIDE DEF g
  <2>. QED
    BY <1>2, <1>3, <1>4, <2>1, <2>2, <2>3 DEF Joins
<1>6. FlattenSeq(fs) = g[Len(fs)]
  BY <1>2, <1>5, FlattenIs
<1>7. Len(fs) \in 0..Len(start)
  BY <1>2, <1>4
<1>. QED
  BY <1>2, <1>6, <1>7

\* The text of the system message is that of the first.
LEMMA PiecesOfSystem ==
  ASSUME NEW start, IsStart(start), NEW o, InTurn(start, o)
  PROVE  PiecesOf(o, {"system"}) = IF start = <<>> THEN <<>> ELSE start[1].text
<1>. DEFINE n == Len(o)
            fs == [i \in DOMAIN o |-> TextIn(o[i], {"system"})]
            t == IF start = <<>> THEN <<>> ELSE start[1].text
            g == [k \in 0..n |-> IF k = 0 THEN <<>> ELSE t]
<1>1. /\ o \in Seq(AnyMessage) /\ n \in Nat /\ Len(start) <= n
      /\ \A i \in 1..Len(start) : o[i] = start[i]
      /\ \A i \in 1..n : i > Len(start) => o[i].role = Turn(i - Len(start))
  BY DEF InTurn
<1>2. /\ start \in Seq(AnyMessage) /\ Len(start) \in {0, 1}
      /\ \A i \in 1..Len(start) : start[i].role = "system"
  BY StartIs
<1>3. /\ fs \in Seq(Seq(Pieces)) /\ Len(fs) = n /\ PiecesOf(o, {"system"}) = FlattenSeq(fs)
      /\ \A i \in 1..n : fs[i] = TextIn(o[i], {"system"})
  BY <1>1, PiecesList
<1>. HIDE DEF fs
<1>4. ASSUME NEW i \in 1..n PROVE fs[i] = IF i = 1 THEN t ELSE <<>>
  <2>1. CASE i > Len(start)
    <3>1. o[i].role \in {"user", "assistant"}
      BY <1>1, <2>1 DEF Turn
    <3>2. fs[i] = <<>>
      BY <1>3, <3>1 DEF TextIn
    <3>3. i = 1 => t = <<>>
      <4>1. i = 1 => Len(start) = 0
        BY <1>2, <2>1
      <4>. QED
        BY <1>2, <4>1
    <3>. QED
      BY <3>2, <3>3
  <2>2. CASE ~(i > Len(start))
    <3>1. i = 1 /\ i \in 1..Len(start) /\ start # <<>>
      BY <1>2, <2>2
    <3>2. o[i] = start[1] /\ start[1].role = "system"
      BY <1>1, <1>2, <3>1
    <3>. QED
      BY <1>3, <3>1, <3>2 DEF TextIn
  <2>. QED
    BY <2>1, <2>2
<1>5. t \in Seq(Pieces)
  <2>1. CASE start = <<>>
    BY <2>1
  <2>2. CASE start # <<>>
    <3>1. start[1] \in AnyMessage
      BY <1>2, <2>2
    <3>. QED
      BY <2>2, <3>1 DEF AnyMessage, Text
  <2>. QED
    BY <2>1, <2>2
<1>6. n = 0 => t = <<>>
  BY <1>1, <1>2
<1>. HIDE DEF t
<1>7. Joins(Pieces, fs, g)
  <2>1. \A k \in 0..n : g[k] = (IF k = 0 THEN <<>> ELSE t) /\ g[k] \in Seq(Pieces)
    BY <1>5
  <2>2. g \in [0..n -> Seq(Pieces)]
    BY <2>1
  <2>. HIDE DEF g
  <2>3. 0 \in 0..n /\ g[0] = <<>>
    BY <1>1, <2>1
  <2>4. ASSUME NEW k \in 1..n PROVE g[k] = g[k - 1] \o fs[k]
    <3>1. k \in 0..n /\ k - 1 \in 0..n /\ k # 0 /\ (k - 1 = 0 <=> k = 1)
      BY <1>1
    <3>2. g[k] = t /\ g[k - 1] = IF k = 1 THEN <<>> ELSE t
      BY <2>1, <3>1
    <3>3. fs[k] = IF k = 1 THEN t ELSE <<>>
      BY <1>4
    <3>4. t \o <<>> = t /\ <<>> \o t = t
      BY <1>5, ConcatEmptySeq
    <3>. QED
      BY <3>2, <3>3, <3>4
  <2>. QED
    BY <1>3, <2>2, <2>3, <2>4 DEF Joins
<1>8. FlattenSeq(fs) = g[n]
  BY <1>3, <1>7, FlattenIs
<1>9. g[n] = t
  BY <1>1, <1>6
<1>. QED
  BY <1>3, <1>8, <1>9 DEF t

LEMMA WellFormedIs ==
  ASSUME NEW start, IsStart(start), NEW o, InTurn(start, o)
  PROVE  WellFormed(o)
<1>. DEFINE n == Len(o)
            off == IF o # <<>> /\ o[1].role = "system" THEN 1 ELSE 0
<1>1. /\ o \in Seq(AnyMessage) /\ n \in Nat /\ Len(start) <= n /\ DOMAIN o = 1..n
      /\ \A i \in 1..Len(start) : o[i] = start[i]
      /\ \A i \in 1..n : i > Len(start) => o[i].text # <<>> /\ o[i].role = Turn(i - Len(start))
  BY DEF InTurn
<1>2. /\ Len(start) \in {0, 1}
      /\ \A i \in 1..Len(start) : start[i].role = "system" /\ start[i].text # <<>>
  BY StartIs
<1>3. off = Len(start)
  <2>1. CASE Len(start) = 1
    <3>1. 1 \in 1..Len(start) /\ o # <<>>
      BY <1>1, <2>1
    <3>. QED
      BY <1>1, <1>2, <2>1, <3>1
  <2>2. CASE Len(start) = 0
    <3>1. ASSUME o # <<>> PROVE o[1].role # "system"
      <4>1. 1 \in 1..n /\ 1 > Len(start) /\ 1 - Len(start) = 1
        BY <1>1, <2>2, <3>1
      <4>2. o[1].role = Turn(1)
        BY <1>1, <4>1
      <4>. QED
        BY <4>2 DEF Turn
    <3>. QED
      BY <2>2, <3>1
  <2>. QED
    BY <1>2, <2>1, <2>2
<1>. HIDE DEF off
<1>4. ASSUME NEW i \in 1..n
      PROVE  /\ o[i].text # <<>>
             /\ i > off => o[i].role = IF (i - off) % 2 = 1 THEN "user" ELSE "assistant"
  <2>1. CASE i > Len(start)
    BY <1>1, <1>3, <2>1 DEF Turn
  <2>2. CASE ~(i > Len(start))
    <3>1. i \in 1..Len(start)
      BY <1>2, <2>2
    <3>. QED
      BY <1>1, <1>2, <1>3, <2>2, <3>1
  <2>. QED
    BY <2>1, <2>2
<1>. QED
  BY <1>1, <1>4 DEF WellFormed, off

LEMMA ConversationIs ==
  ASSUME NEW items \in Seq(Items), NEW out, out = NormalizeChatMessages(items)
  PROVE  /\ WellFormed(out)
         /\ PiecesOf(out, {"system"}) = SystemPieces(items)
         /\ PiecesOf(out, Talking) = TalkPieces(items)
<1>. DEFINE n == Len(items)
            ms == [i \in DOMAIN items |-> Messages(items[i])]
            ts == [i \in DOMAIN items |-> TalkPiece(items[i], Asked(items, i))]
            sys == SystemOf(items)
            start == IF sys = <<>> THEN <<>> ELSE <<Message("system", FlattenSeq(sys))>>
<1>1. n \in Nat /\ DOMAIN items = 1..n /\ \A i \in 1..n : items[i] \in Items
  OBVIOUS
<1>2. /\ ms \in Seq(Seq(Talk)) /\ Len(ms) = n
      /\ \A i \in 1..n : ms[i] = Messages(items[i])
  <2>1. \A i \in 1..n : Messages(items[i]) \in Seq(Talk)
    BY <1>1, ItemIs
  <2>2. ms \in [1..n -> Seq(Talk)]
    BY <1>1, <2>1
  <2>3. \A i \in 1..n : ms[i] = Messages(items[i])
    BY <1>1
  <2>. HIDE DEF ms
  <2>. QED
    BY <1>1, <2>2, <2>3
<1>3. /\ ts \in Seq(Seq(Pieces)) /\ Len(ts) = n
      /\ \A i \in 1..n : ts[i] = TalkPiece(items[i], Asked(items, i))
  <2>1. ASSUME NEW i \in 1..n PROVE TalkPiece(items[i], Asked(items, i)) \in Seq(Pieces)
    <3>. DEFINE asked == Asked(items, i)
    <3>1. asked \in BOOLEAN
      BY DEF Asked
    <3>. HIDE DEF asked
    <3>2. \/ TalkPiece(items[i], asked) = <<>>
          \/ \E m \in Talk : TalkPiece(items[i], asked) = IF m.role = "assistant" /\ ~asked THEN <<>> ELSE m.text
      BY <1>1, <3>1, TalkPieceIs
    <3>3. \A m \in Talk : m.text \in Seq(Pieces)
      BY DEF Talk, Text
    <3>4. TalkPiece(items[i], asked) \in Seq(Pieces)
      <4>1. <<>> \in Seq(Pieces)
        OBVIOUS
      <4>2. CASE TalkPiece(items[i], asked) = <<>>
        BY <4>1, <4>2, Zenon
      <4>3. ASSUME NEW m \in Talk,
                   TalkPiece(items[i], asked) = IF m.role = "assistant" /\ ~asked THEN <<>> ELSE m.text
            PROVE  TalkPiece(items[i], asked) \in Seq(Pieces)
        BY <3>3, <4>1, <4>3, Zenon
      <4>. QED
        BY <3>2, <4>2, <4>3, Zenon
    <3>. QED
      BY <3>4 DEF asked
  <2>2. ts \in [1..n -> Seq(Pieces)]
    BY <1>1, <2>1
  <2>3. \A i \in 1..n : ts[i] = TalkPiece(items[i], Asked(items, i))
    BY <1>1
  <2>. HIDE DEF ts
  <2>. QED
    BY <1>1, <2>2, <2>3
<1>4. TalkPieces(items) = FlattenSeq(ts)
  BY DEF TalkPieces, Asked
<1>5. out = NormalizeMessageOrder(FlattenSeq(ms), sys)
  BY DEF NormalizeChatMessages, SystemOf
<1>. HIDE DEF ms, ts, sys
<1>6. /\ FlattenSeq(sys) \in Text /\ FlattenSeq(sys) = SystemPieces(items)
      /\ sys # <<>> => FlattenSeq(sys) # <<>>
      /\ sys \in Seq(Text \ {<<>>})
  BY SystemIs DEF sys
<1>7. IsStart(start)
  BY <1>6 DEF IsStart
<1>8. PICK g : Joins(Talk, ms, g)
  BY <1>2, JoinsExist
<1>9. g[0] = <<>> /\ g \in [0..n -> Seq(Talk)] /\ FlattenSeq(ms) = g[n]
  <2>1. FlattenSeq(ms) = g[n]
    BY <1>2, <1>8, FlattenIs
  <2>. QED
    BY <1>2, <1>8, <2>1 DEF Joins
<1>10. n \in 0..n /\ g[n] \in Seq(Talk)
  BY <1>1, <1>9
<1>11. PICK h : /\ h[0] = start
                /\ \A i \in 1..Len(g[n]) : h[i] = Ordered(h[i - 1], g[n][i])
                /\ NormalizeMessageOrder(g[n], sys) = h[Len(g[n])]
  <2>1. start = IF sys = <<>> THEN <<>> ELSE <<Message("system", FlattenSeq(sys))>>
    OBVIOUS
  <2>. HIDE DEF start
  <2>2. \E h : Orders(g[n], sys, start, h)
    BY <1>7, <1>10, <2>1, OrderIs
  <2>. QED
    BY <2>2 DEF Orders
<1>. HIDE DEF start
<1>. DEFINE H(k) == h[Len(g[k])]
            P(k) == InTurn(start, H(k)) /\ (Len(H(k)) > Len(start) <=> Asked(items, k))
            T == {k \in 0..n : ~P(k)}
<1>12. H(0) = start
  BY <1>9, <1>11
<1>13. P(0)
  <2>1. InTurn(start, start) /\ Len(start) \in {0, 1}
    BY <1>7, StartIs
  <2>2. ~Asked(items, 0)
    BY DEF Asked
  <2>3. ~(Len(start) > Len(start))
    BY <2>1
  <2>. QED
    BY <1>12, <2>1, <2>2, <2>3
<1>14. ASSUME NEW k \in 1..n, P(k - 1)
       PROVE  P(k) /\ PiecesOf(H(k), Talking) = PiecesOf(H(k - 1), Talking) \o ts[k]
  <2>1. /\ Messages(items[k]) = <<>> => H(k) = H(k - 1)
        /\ \A m \in Talk : Messages(items[k]) = <<m>> => H(k) = Ordered(H(k - 1), m)
    <3>1. ms \in Seq(Seq(Talk)) /\ Len(ms) = Len(items)
      BY <1>2
    <3>2. \A i \in 1..Len(items) : ms[i] = Messages(items[i])
      BY <1>2
    <3>3. \A i \in 1..Len(g[Len(items)]) : h[i] = Ordered(h[i - 1], g[Len(items)][i])
      BY <1>11
    <3>4. k \in 1..Len(items)
      OBVIOUS
    <3>5. Walk(items, ms, g, h)
      BY <1>8, <3>1, <3>2, <3>3 DEF Walk
    <3>6. ItemStep(items, g, h, k)
      BY <3>4, <3>5, ItemByItem
    <3>. QED
      BY <3>6 DEF H, ItemStep
  <2>2. PICK o, p : o = H(k - 1) /\ p = H(k)
    OBVIOUS
  <2>3. /\ InTurn(start, o) /\ (Len(o) > Len(start) <=> Asked(items, k - 1))
        /\ Messages(items[k]) = <<>> => p = o
        /\ \A m \in Talk : Messages(items[k]) = <<m>> => p = Ordered(o, m)
    BY <1>14, <2>1, <2>2
  <2>. HIDE DEF H
  <2>4. /\ InTurn(start, p)
        /\ Len(p) > Len(start) <=> Asked(items, k)
        /\ PiecesOf(p, Talking) = PiecesOf(o, Talking) \o TalkPiece(items[k], Asked(items, k))
    BY <1>7, <2>3, ItemKept
  <2>. QED
    BY <1>3, <2>2, <2>4
<1>. HIDE DEF H
<1>15. T = {}
  <2>1. ASSUME NEW k \in T PROVE k # 0 /\ k - 1 \in T
    <3>1. k # 0
      BY <1>13
    <3>2. k \in 1..n /\ k - 1 \in 0..n
      BY <1>1, <3>1
    <3>. QED
      BY <1>14, <3>1, <3>2
  <2>2. T \in SUBSET Nat
    BY <1>1
  <2>. HIDE DEF T
  <2>. QED
    BY <2>1, <2>2, NoneLeast
<1>16. \A k \in 0..n : P(k)
  BY <1>15
<1>17. out = H(n) /\ InTurn(start, out)
  <2>1. out = h[Len(g[n])]
    BY <1>5, <1>9, <1>11
  <2>2. out = H(n)
    BY <2>1 DEF H
  <2>. QED
    BY <1>10, <1>16, <2>2
<1>18. WellFormed(out)
  BY <1>7, <1>17, WellFormedIs
<1>19. PiecesOf(out, {"system"}) = SystemPieces(items)
  <2>1. PiecesOf(out, {"system"}) = IF start = <<>> THEN <<>> ELSE start[1].text
    BY <1>7, <1>17, PiecesOfSystem
  <2>2. CASE sys = <<>>
    <3>1. start = <<>>
      BY <2>2 DEF start
    <3>2. FlattenSeq(sys) = <<>>
      BY <2>2, FlattenEmpty
    <3>. QED
      BY <1>6, <2>1, <3>1, <3>2
  <2>3. CASE sys # <<>>
    <3>1. start = <<Message("system", FlattenSeq(sys))>>
      BY <2>3 DEF start
    <3>2. start # <<>> /\ start[1] = Message("system", FlattenSeq(sys))
      BY <3>1
    <3>3. start[1].text = FlattenSeq(sys)
      BY <3>2 DEF Message
    <3>. QED
      BY <1>6, <2>1, <3>2, <3>3
  <2>. QED
    BY <2>2, <2>3
<1>20. PiecesOf(out, Talking) = TalkPieces(items)
  <2>. DEFINE r == [k \in 0..n |-> PiecesOf(H(k), Talking)]
  <2>1. \A k \in 0..n : r[k] = PiecesOf(H(k), Talking) /\ r[k] \in Seq(Pieces)
    <3>. TAKE k \in 0..n
    <3>1. H(k) \in Seq(AnyMessage)
      BY <1>16 DEF InTurn
    <3>. QED
      BY <3>1, PiecesList
  <2>2. r \in [0..n -> Seq(Pieces)]
    BY <2>1
  <2>. HIDE DEF r
  <2>3. ASSUME NEW k \in 1..n PROVE r[k] = r[k - 1] \o ts[k]
    <3>1. k \in 0..n /\ k - 1 \in 0..n
      BY <1>1
    <3>2. P(k - 1)
      BY <1>16, <3>1
    <3>. QED
      BY <1>14, <2>1, <3>1, <3>2
  <2>4. r[0] = <<>>
    <3>1. 0 \in 0..n
      BY <1>1
    <3>. QED
      BY <1>7, <1>12, <2>1, <3>1, PiecesOfStart
  <2>5. Joins(Pieces, ts, r)
    BY <1>3, <2>2, <2>3, <2>4 DEF Joins
  <2>6. FlattenSeq(ts) = r[n]
    BY <1>3, <2>5, FlattenIs
  <2>. QED
    BY <1>4, <1>10, <1>17, <2>1, <2>6
<1>. QED
  BY <1>18, <1>19, <1>20

-----------------------------------------------------------------------------
(* The shim.                                                               *)

LEMMA OneFirst ==
  ASSUME NEW S, NEW x, NEW t \in Seq(S)
  PROVE  /\ DOMAIN (<<x>> \o t) = 1..(Len(t) + 1)
         /\ (<<x>> \o t)[1] = x
         /\ \A i \in 1..Len(t) : (<<x>> \o t)[i + 1] = t[i]
<1>. DEFINE U == S \cup {x}
<1>1. S \subseteq U /\ x \in U
  OBVIOUS
<1>. HIDE DEF U
<1>2. <<x>> \in Seq(U) /\ t \in Seq(U) /\ Len(<<x>>) = 1 /\ <<x>>[1] = x
  BY <1>1
<1>. DEFINE a == <<x>>
<1>. HIDE DEF a
<1>3. a \in Seq(U) /\ Len(a) = 1 /\ a[1] = x /\ Len(t) \in Nat
  BY <1>2 DEF a
<1>4. /\ a \o t \in Seq(U) /\ Len(a \o t) = Len(a) + Len(t)
      /\ \A i \in 1..(Len(a) + Len(t)) : (a \o t)[i] = IF i <= Len(a) THEN a[i] ELSE t[i - Len(a)]
  BY <1>2, <1>3, ConcatProperties
<1>5. DOMAIN (a \o t) = 1..(Len(t) + 1)
  BY <1>3, <1>4
<1>6. (a \o t)[1] = x
  BY <1>3, <1>4
<1>7. ASSUME NEW i \in 1..Len(t) PROVE (a \o t)[i + 1] = t[i]
  <2>1. i + 1 \in 1..(Len(a) + Len(t)) /\ ~(i + 1 <= Len(a)) /\ (i + 1) - Len(a) = i
    BY <1>3
  <2>. QED
    BY <1>4, <2>1
<1>. QED
  BY <1>5, <1>6, <1>7 DEF a

\* An item counts by its kind, role, text and the name of its tool.
LEMMA SameItem ==
  ASSUME NEW a, NEW b, a.kind = b.kind, a.role = b.role,
         ContentToText(a.parts) = ContentToText(b.parts),
         a.role \in {"tool", "function"} => a.heading = b.heading
  PROVE  Messages(a) = Messages(b) /\ SystemParts(a) = SystemParts(b)
<1>1. Role(a) = Role(b)
  BY DEF Role
<1>2. Content(a) = Content(b)
  BY DEF Content
<1>3. Dropped(a) <=> Dropped(b)
  BY <1>1 DEF Dropped
<1>. QED
  BY <1>1, <1>2, <1>3 DEF Messages, SystemParts

LEMMA ShimReads ==
  ASSUME NEW item, AnthropicReads(item)
  PROVE  AnthropicText(item) = ContentToText(item.parts)
<1>1. CASE item.form = "list"
  <2>. DEFINE f == [i \in DOMAIN item.parts |->
                      IF item.parts[i] = Blank \/ i \notin item.blocks THEN <<>> ELSE <<item.parts[i]>>]
              g == [i \in DOMAIN item.parts |-> IF item.parts[i] = Blank THEN <<>> ELSE <<item.parts[i]>>]
  <2>1. \A i \in DOMAIN item.parts : i \in item.blocks
    BY <1>1 DEF AnthropicReads
  <2>2. f = g
    BY <2>1
  <2>3. AnthropicText(item) = FlattenSeq(f) /\ ContentToText(item.parts) = FlattenSeq(g)
    BY <1>1 DEF AnthropicText, ContentToText
  <2>. HIDE DEF f, g
  <2>. QED
    BY <2>2, <2>3
<1>2. CASE item.form # "list"
  BY <1>2 DEF AnthropicText, AnthropicReads
<1>. QED
  BY <1>1, <1>2

LEMMA ShimIs ==
  ASSUME NEW items \in Seq(Items), \A i \in DOMAIN items : AnthropicReads(items[i]),
         NEW system, system # <<>>
  PROVE  NormalizeChatMessages(Posted(AnthropicMessages(system, items)))
           = NormalizeChatMessages(<<PlainItem("system", system)>> \o items)
<1>. DEFINE n == Len(items)
            y == PlainItem("system", system)
            x == Message("system", system)
            t == [i \in DOMAIN items |-> Message(items[i].role, AnthropicText(items[i]))]
            sent == AnthropicMessages(system, items)
            a == Posted(sent)
            b == <<y>> \o items
<1>1. n \in Nat /\ DOMAIN items = 1..n /\ \A i \in 1..n : items[i] \in Items
  OBVIOUS
<1>2. sent = <<x>> \o t
  BY DEF AnthropicMessages
<1>3. t \in Seq({t[i] : i \in 1..n}) /\ Len(t) = n
  <2>. DEFINE V == {t[i] : i \in 1..n}
  <2>1. t \in [1..n -> V]
    BY <1>1
  <2>. HIDE DEF V, t
  <2>2. t \in Seq(V) /\ Len(t) = n
    BY <1>1, <2>1
  <2>. QED
    BY <2>2 DEF V
<1>4. \A i \in 1..n : t[i] = Message(items[i].role, ContentToText(items[i].parts))
  <2>1. \A i \in 1..n : t[i] = Message(items[i].role, AnthropicText(items[i]))
    BY <1>1
  <2>2. \A i \in 1..n : AnthropicText(items[i]) = ContentToText(items[i].parts)
    BY <1>1, ShimReads
  <2>. HIDE DEF t
  <2>. QED
    BY <2>1, <2>2
<1>. HIDE DEF t, sent
<1>5. DOMAIN sent = 1..(n + 1) /\ sent[1] = x /\ \A i \in 1..n : sent[i + 1] = t[i]
  <2>1. /\ DOMAIN (<<x>> \o t) = 1..(Len(t) + 1) /\ (<<x>> \o t)[1] = x
        /\ \A i \in 1..Len(t) : (<<x>> \o t)[i + 1] = t[i]
    <3>. HIDE DEF x
    <3>. QED
      BY <1>3, OneFirst
  <2>. QED
    BY <1>2, <1>3, <2>1
<1>6. DOMAIN b = 1..(n + 1) /\ b[1] = y /\ \A i \in 1..n : b[i + 1] = items[i]
  <2>. HIDE DEF y
  <2>. QED
    BY OneFirst
<1>7. /\ DOMAIN a = 1..(n + 1)
      /\ \A i \in 1..(n + 1) : a[i] = PlainItem(sent[i].role, sent[i].text)
  BY <1>5 DEF Posted
<1>. HIDE DEF a, b
<1>8. ASSUME NEW i \in 1..(n + 1)
      PROVE  Messages(a[i]) = Messages(b[i]) /\ SystemParts(a[i]) = SystemParts(b[i])
  <2>1. CASE i = 1
    <3>1. a[1] = PlainItem(x.role, x.text)
      BY <1>5, <1>7, <2>1
    <3>2. x.role = "system" /\ x.text = system
      BY DEF Message
    <3>3. a[1] = y
      BY <3>1, <3>2
    <3>. QED
      BY <1>6, <2>1, <3>3
  <2>2. CASE i # 1
    <3>1. PICK j \in 1..n : i = j + 1
      <4>1. i - 1 \in 1..n /\ i = (i - 1) + 1
        BY <1>1, <2>2
      <4>. QED
        BY <4>1
    <3>. DEFINE text == ContentToText(items[j].parts)
    <3>2. a[i] = PlainItem(t[j].role, t[j].text)
      BY <1>5, <1>7, <3>1
    <3>3. t[j].role = items[j].role /\ t[j].text = text
      <4>1. t[j] = Message(items[j].role, text)
        BY <1>4
      <4>. HIDE DEF text
      <4>. QED
        BY <4>1 DEF Message
    <3>4. /\ a[i].kind = "message" /\ a[i].role = items[j].role /\ a[i].parts = text
          /\ a[i].heading = UnnamedTool
      <4>. HIDE DEF text
      <4>. QED
        BY <3>2, <3>3 DEF PlainItem
    <3>5. /\ b[i] = items[j] /\ items[j].kind = "message"
          /\ items[j].role \in {"tool", "function"} => items[j].heading = UnnamedTool
      BY <1>1, <1>6, <3>1 DEF AnthropicReads
    <3>6. ContentToText(text) = text
      <4>1. items[j].parts \in Seq(Pieces)
        BY <1>1, ItemsAssumption
      <4>2. text \in Seq(Pieces \ {Blank})
        BY <4>1, TextIs
      <4>. HIDE DEF text
      <4>. QED
        BY <4>2, TextOfText
    <3>7. ContentToText(a[i].parts) = ContentToText(b[i].parts)
      BY <3>4, <3>5, <3>6
    <3>. QED
      BY <3>4, <3>5, <3>7, SameItem
  <2>. QED
    BY <2>1, <2>2
<1>9. /\ [i \in DOMAIN a |-> Messages(a[i])] = [i \in DOMAIN b |-> Messages(b[i])]
      /\ [i \in DOMAIN a |-> SystemParts(a[i])] = [i \in DOMAIN b |-> SystemParts(b[i])]
  BY <1>6, <1>7, <1>8
<1>10. NormalizeChatMessages(a) = NormalizeChatMessages(b)
  BY <1>9, Zenon DEF NormalizeChatMessages
<1>. QED
  BY <1>10 DEF a, b, sent

-----------------------------------------------------------------------------
(* What an input is.                                                       *)

OfMessages ==
  input.of = "messages" =>
    \E items \in BoundedSeq(Items, MaxItems) : input = [of |-> "messages", items |-> items]

OfPaths ==
  input.of = "paths" =>
    \E host \in Hosts, env \in RootfsEnvs, root \in Roots, workdir \in Workdirs, binary \in Binaries :
      input = [of |-> "paths", host |-> host, env |-> env,
               request |-> [root |-> root, workdir |-> workdir, binary |-> binary]]

OfInstall ==
  input.of = "install" =>
    \E machine \in Machines, mode \in GpuModes \cup {"cuda"}, may_install, wheel \in BOOLEAN, pip \in {0, 1} :
      input = [of |-> "install", machine |-> machine, mode |-> mode,
               may_install |-> may_install, wheel |-> wheel, pip |-> pip]

OfMachine ==
  input.of = "machine" =>
    \E registry \in Registries, machine \in Machines, limits \in Limits :
      \E s \in DOMAIN registry.specialties :
        input = [of |-> "machine", registry |-> registry, machine |-> machine,
                 specialty |-> s, limits |-> limits]

Shape == OfMessages /\ OfPaths /\ OfInstall /\ OfMachine

LEMMA InputShape == AlgorithmsSpec => []Shape
<1>1. Init => Shape
  BY DEF Init, Nothing, Shape, OfMessages, OfPaths, OfInstall, OfMachine
<1>2. Shape /\ [Next]_input => Shape'
  <2>. SUFFICES ASSUME Shape, [Next]_input PROVE Shape'
    OBVIOUS
  <2>1. CASE TakeMessages
    BY <2>1 DEF TakeMessages, Shape, OfMessages, OfPaths, OfInstall, OfMachine
  <2>2. CASE TakeMachine
    BY <2>2 DEF TakeMachine, Shape, OfMessages, OfPaths, OfInstall, OfMachine
  <2>3. CASE TakeInstall
    BY <2>3 DEF TakeInstall, Shape, OfMessages, OfPaths, OfInstall, OfMachine
  <2>4. CASE TakePaths
    <3>1. input'.of = "paths"
      BY <2>4 DEF TakePaths
    <3>2. PICK host \in Hosts, env \in RootfsEnvs, root \in Roots, workdir \in Workdirs,
                binary \in Binaries :
            input' = [of |-> "paths", host |-> host, env |-> env,
                      request |-> [root |-> root, workdir |-> workdir, binary |-> binary]]
      BY <2>4, Zenon DEF TakePaths
    <3>3. OfPaths'
      BY <3>2, Zenon DEF OfPaths
    <3>. QED
      BY <3>1, <3>3 DEF Shape, OfMessages, OfInstall, OfMachine
  <2>5. CASE UNCHANGED input
    BY <2>5 DEF Shape, OfMessages, OfPaths, OfInstall, OfMachine
  <2>. QED
    BY <2>1, <2>2, <2>3, <2>4, <2>5 DEF Next
<1>. QED
  BY <1>1, <1>2, PTL DEF AlgorithmsSpec

-----------------------------------------------------------------------------
(* Theorems.                                                               *)

\* Whatever list of items a client sends, of any length, normalize_chat_messages
\* hands the model one system message and then questions and answers in turn, with
\* every usable piece of text once and in order; and a conversation that reaches the
\* API through the Anthropic shim becomes the same messages as one sent directly, if
\* the shim keeps its contents (AnthropicReads).
THEOREM ConversationsKept == AlgorithmsSpec => []ConversationKept
<1>1. Shape => ConversationKept
  <2>. SUFFICES ASSUME Shape, input.of = "messages" PROVE ConversationKept
    BY DEF ConversationKept
  <2>1. PICK items \in BoundedSeq(Items, MaxItems) : input = [of |-> "messages", items |-> items]
    BY DEF Shape, OfMessages
  <2>2. input.items = items
    BY <2>1
  <2>3. items \in Seq(Items)
    BY ItemsAssumption DEF BoundedSeq, SeqOf
  <2>. DEFINE out == NormalizeChatMessages(items)
              p == <<"p">>
  <2>4. /\ WellFormed(out)
        /\ PiecesOf(out, {"system"}) = SystemPieces(items)
        /\ PiecesOf(out, {"user", "assistant"}) = TalkPieces(items)
    BY <2>3, ConversationIs DEF Talking
  <2>5. ASSUME \A i \in DOMAIN items : AnthropicReads(items[i])
        PROVE  NormalizeChatMessages(Posted(AnthropicMessages(p, items)))
                 = NormalizeChatMessages(<<PlainItem("system", p)>> \o items)
    <3>1. p # <<>>
      OBVIOUS
    <3>. HIDE DEF p
    <3>. QED
      BY <2>3, <2>5, <3>1, ShimIs
  <2>. QED
    BY <2>2, <2>4, <2>5 DEF ConversationKept
<1>. QED
  BY <1>1, InputShape, PTL

\* Whatever root, working directory and binary a user names, and whatever the file
\* system holds, below the root that run_agent hands the helper is no system path, and
\* nothing but the examples of the running checkout and of the source tree around the
\* root (another source tree below the root is open to the agent); and what the agent
\* executes and where it starts are what was named, a script behind a Python.
THEOREM LaunchesAreSafe == AlgorithmsSpec => []LaunchIsWhatWasAsked
<1>1. Shape => LaunchIsWhatWasAsked
  <2>. SUFFICES ASSUME Shape, input.of = "paths", NEW launch,
                       launch = Launch(input.host, input.env, input.request),
                       "refused" \notin DOMAIN launch
                PROVE  RootIsSafe(input.host, launch) /\ SeesWhatWasNamed(input.host, input.request, launch)
    BY DEF LaunchIsWhatWasAsked
  <2>1. PICK host \in Hosts, env \in RootfsEnvs, root \in Roots, workdir \in Workdirs, binary \in Binaries :
          input = [of |-> "paths", host |-> host, env |-> env,
                   request |-> [root |-> root, workdir |-> workdir, binary |-> binary]]
    BY DEF Shape, OfPaths
  <2>2. /\ input.host = host /\ input.env = env
        /\ input.request = [root |-> root, workdir |-> workdir, binary |-> binary]
    BY <2>1
  <2>3. launch = Launch(host, env, input.request)
    BY <2>2
  <2>4. RootIsSafe(host, launch) /\ SeesWhatWasNamed(host, input.request, launch)
    BY <2>2, <2>3, LaunchIsSafe
  <2>. QED
    BY <2>2, <2>4
<1>. QED
  BY <1>1, InputShape, PTL

\* gpu_setup.py ends in success only with a runtime that the machine supports, and
\* vLLM is there only if the card with the most free memory can run it, for any
\* output of the probes.
THEOREM InstallsFit == AlgorithmsSpec => []InstallFitsMachine
<1>1. Shape => InstallFitsMachine
  <2>. SUFFICES ASSUME Shape, input.of = "install" PROVE InstallFitsMachine
    BY DEF InstallFitsMachine
  <2>1. PICK machine \in Machines, mode \in GpuModes \cup {"cuda"}, may_install, wheel \in BOOLEAN, pip \in {0, 1} :
          input = [of |-> "install", machine |-> machine, mode |-> mode,
                   may_install |-> may_install, wheel |-> wheel, pip |-> pip]
    BY DEF Shape, OfInstall
  <2>2. /\ input.machine = machine /\ input.mode = mode /\ input.may_install = may_install
        /\ input.wheel = wheel /\ input.pip = pip
    BY <2>1
  <2>. DEFINE hw == DetectHardware(machine)
              profile == ChooseInstallProfile(hw, mode)
              status == GpuSetupStatus(hw, mode, may_install, wheel, pip)
  <2>3. /\ status = 0 => profile.backend \in hw.backends \cup {"cpu"}
        /\ profile.install_vllm /\ profile.supported => "vllm" \in hw.backends
        /\ mode \in GpuModes \ {"auto", "cpu"} => (status = 0 => profile.backend = mode)
    BY InstallIs
  <2>4. (machine.env = NoProfile /\ "vllm" \in hw.backends) =>
          \E i \in DOMAIN machine.nvidia :
            /\ machine.nvidia[i].major >= 8 /\ machine.nvidia[i].total = hw.vram
            /\ \A j \in DOMAIN machine.nvidia : machine.nvidia[j].free <= machine.nvidia[i].free
    BY VllmNeedsCard
  <2>. QED
    BY <2>2, <2>3, <2>4, Zenon DEF InstallFitsMachine
<1>. QED
  BY <1>1, InputShape, PTL

\* A session starts no model that admission refuses on an idle machine or that no
\* backend of the machine runs, for any list of models, whatever their names,
\* placements and backends, any machine and any limits; and the overview shows the
\* model that is started.
THEOREM SessionsStart == AlgorithmsSpec => []SessionModelStarts
<1>1. Shape => SessionModelStarts
  <2>. SUFFICES ASSUME Shape, input.of = "machine" PROVE SessionModelStarts
    BY DEF SessionModelStarts
  <2>1. PICK registry \in Registries, machine \in Machines, limits \in Limits :
          \E s \in DOMAIN registry.specialties :
            input = [of |-> "machine", registry |-> registry, machine |-> machine,
                     specialty |-> s, limits |-> limits]
    BY DEF Shape, OfMachine
  <2>0. PICK s \in DOMAIN registry.specialties :
          input = [of |-> "machine", registry |-> registry, machine |-> machine,
                   specialty |-> s, limits |-> limits]
    BY <2>1
  <2>2. /\ input.registry = registry /\ input.machine = machine
        /\ input.specialty = s /\ input.limits = limits
    BY <2>0
  <2>. DEFINE m == SessionModel(registry, s, machine, limits)
  <2>3. m # NoModel =>
          Admissible(m, machine, limits) /\ BackendIsThere(m, DetectHardware(machine).backends)
    BY SessionStarts
  <2>4. ShownIsUsed(registry, s, machine, limits)
    BY ShownAndUsed
  <2>. QED
    BY <2>2, <2>3, <2>4, Zenon DEF SessionModelStarts
<1>. QED
  BY <1>1, InputShape, PTL

\* A model that the setup prompt offers is the one a session starts once it is
\* chosen, for any registry and machine, if no other entry has its name.
THEOREM OffersStart == AlgorithmsSpec => []OfferedModelStarts
<1>1. Shape => OfferedModelStarts
  <2>. SUFFICES ASSUME Shape, input.of = "machine", input.limits = [ram |-> 0, vram |-> 0],
                       NativeVram(input.machine) # 0 =>
                         DetectHardware(input.machine).vram <= NativeVram(input.machine),
                       NEW m \in SetupCandidates(input.registry, input.specialty, input.machine),
                       \A n \in input.registry.models : n.name = m.name => n = m
                PROVE  SessionModel(WithChoice(input.registry, input.specialty, m), input.specialty,
                                    input.machine, input.limits) = m
    BY DEF OfferedModelStarts
  <2>1. PICK registry \in Registries, machine \in Machines, limits \in Limits :
          \E s \in DOMAIN registry.specialties :
            input = [of |-> "machine", registry |-> registry, machine |-> machine,
                     specialty |-> s, limits |-> limits]
    BY DEF Shape, OfMachine
  <2>0. PICK s \in DOMAIN registry.specialties :
          input = [of |-> "machine", registry |-> registry, machine |-> machine,
                   specialty |-> s, limits |-> limits]
    BY <2>1
  <2>2. /\ input.registry = registry /\ input.machine = machine
        /\ input.specialty = s /\ input.limits = limits
    BY <2>0
  <2>3. limits.ram = 0 /\ limits.vram = 0
    BY <2>2
  <2>. QED
    BY <2>2, <2>3, ChoiceIsStarted
<1>. QED
  BY <1>1, InputShape, PTL
=============================================================================
