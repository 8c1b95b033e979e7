--------------------------- MODULE SequenceLemmas ---------------------------
(***************************************************************************)
(* Facts about sequences that the proofs need and the library does not     *)
(* state: induction over the natural numbers for a set (what is computed   *)
(* by a recursive function is proved with it), what FlattenSeq returns,    *)
(* and how concatenations regroup.                                         *)
(***************************************************************************)
EXTENDS SequencesExt, WellFoundedInduction, SequenceTheorems, TLAPS

\* Induction over the natural numbers, for a set instead of a predicate.
LEMMA SetInduction ==
  ASSUME NEW S, 0 \in S, \A n \in Nat : n \in S => n + 1 \in S
  PROVE  Nat \subseteq S
<1>. DEFINE R == {ss \in Nat \X Nat : ss[1] < ss[2]}
           T == Nat \ S
<1>1. SUFFICES ASSUME T # {} PROVE FALSE
  OBVIOUS
<1>2. PICK x \in T : \A y \in T : <<y, x>> \notin R
  <2>1. IsWellFoundedOn(R, Nat)
    BY NatLessThanWellFounded DEF OpToRel
  <2>. HIDE DEF R
  <2>2. T \subseteq Nat
    OBVIOUS
  <2>. HIDE DEF T
  <2>. QED BY <1>1, <2>1, <2>2, WFMin
<1>3. x \in Nat /\ x # 0 /\ x - 1 \in Nat
  OBVIOUS
<1>4. x - 1 \in T
  BY <1>3
<1>5. <<x - 1, x>> \in R
  BY <1>3
<1>. QED BY <1>2, <1>4, <1>5


\* Concatenation may be regrouped.
Associative(S) == \A a, b, c \in Seq(S) : (a \o b) \o c = a \o (b \o c)

LEMMA Regrouped == \A S : Associative(S)
<1>1. \A S : \A a, b, c \in Seq(S) : (a \o b) \o c = a \o (b \o c)
  BY ONLY ConcatAssociative, ZenonT(30)
<1>. QED BY ONLY <1>1, Zenon DEF Associative

\* Every set of natural numbers that is not empty has a least element.
LEMMA MinIs ==
  ASSUME NEW I \in SUBSET Nat, I # {}
  PROVE  Min(I) \in I /\ \A i \in I : Min(I) <= i
<1>. DEFINE S == {n \in Nat : \A i \in 0..n : i \notin I}
<1>1. CASE 0 \in I
  <2>1. \A i \in I : 0 <= i
    OBVIOUS
  <2>. QED BY <1>1, <2>1 DEF Min
<1>2. CASE 0 \notin I
  <2>1. 0 \in S
    BY <1>2
  <2>2. PICK n \in Nat : n \in S /\ n + 1 \notin S
    <3>. SUFFICES ASSUME \A n \in Nat : n \in S => n + 1 \in S PROVE FALSE
      OBVIOUS
    <3>. HIDE DEF S
    <3>1. Nat \subseteq S
      BY <2>1, SetInduction
    <3>2. PICK i \in Nat : i \in I
      OBVIOUS
    <3>3. i \in S
      BY <3>1
    <3>. QED BY <3>2, <3>3 DEF S
  <2>3. n + 1 \in I
    <3>1. PICK i \in 0..(n + 1) : i \in I
      BY <2>2
    <3>2. i \notin 0..n
      BY <2>2, <3>1
    <3>3. i = n + 1
      BY <3>1, <3>2
    <3>. QED BY <3>1, <3>3
  <2>4. ASSUME NEW i \in I PROVE n + 1 <= i
    <3>1. i \in Nat /\ i \notin 0..n
      BY <2>2
    <3>. QED BY <3>1
  <2>. QED BY <2>3, <2>4 DEF Min
<1>. QED BY <1>1, <1>2

\* Induction over sequences that grow at their end, for a set.
LEMMA AppendInduction ==
  ASSUME NEW X, NEW T, <<>> \in T,
         \A s \in Seq(X) : \A x \in X : s \in T => Append(s, x) \in T
  PROVE  Seq(X) \subseteq T
<1>. DEFINE N == {n \in Nat : \A s \in Seq(X) : Len(s) = n => s \in T}
<1>1. 0 \in N
  <2>1. \A s \in Seq(X) : Len(s) = 0 => s = <<>>
    OBVIOUS
  <2>. QED BY <2>1
<1>2. ASSUME NEW n \in Nat, n \in N PROVE n + 1 \in N
  <2>. SUFFICES ASSUME NEW s \in Seq(X), Len(s) = n + 1 PROVE s \in T
    OBVIOUS
  <2>. DEFINE front == SubSeq(s, 1, n)
  <2>1. front \in Seq(X) /\ Len(front) = n /\ s[n + 1] \in X
    OBVIOUS
  <2>2. s = Append(front, s[n + 1])
    OBVIOUS
  <2>. HIDE DEF front
  <2>3. front \in T
    BY <1>2, <2>1
  <2>. QED BY <2>1, <2>2, <2>3
<1>. HIDE DEF N
<1>3. Nat \subseteq N
  BY <1>1, <1>2, SetInduction
<1>. QED
  <2>. SUFFICES ASSUME NEW s \in Seq(X) PROVE s \in T
    OBVIOUS
  <2>1. Len(s) \in N
    BY <1>3
  <2>. QED BY <2>1 DEF N

-----------------------------------------------------------------------------
(* FlattenSeq.  f is a run of the first n elements of s if f[i] is the     *)
(* concatenation of the first i of them.                                   *)
RunTo(f, s, n) ==
  f[0] = <<>> /\ \A i \in 1..n : f[i] = f[i - 1] \o s[i]

IsRun(f, s) == RunTo(f, s, Len(s))

\* Every sequence of sequences has a run.
LEMMA RunExists ==
  ASSUME NEW S, NEW s \in Seq(Seq(S))
  PROVE  \E f \in [0..Len(s) -> Seq(S)] : IsRun(f, s)
<1>. DEFINE N == {n \in Nat : n <= Len(s) => \E f \in [0..n -> Seq(S)] : RunTo(f, s, n)}
<1>1. 0 \in N
  <2>. DEFINE f == [i \in 0..0 |-> <<>>]
  <2>1. f \in [0..0 -> Seq(S)] /\ RunTo(f, s, 0)
    BY DEF RunTo
  <2>. QED BY <2>1
<1>2. ASSUME NEW n \in Nat, n \in N PROVE n + 1 \in N
  <2>. SUFFICES ASSUME n + 1 <= Len(s)
                PROVE  \E g \in [0..(n + 1) -> Seq(S)] : RunTo(g, s, n + 1)
    OBVIOUS
  <2>0. n <= Len(s)
    OBVIOUS
  <2>1. PICK f \in [0..n -> Seq(S)] : RunTo(f, s, n)
    BY <1>2, <2>0
  <2>. DEFINE g == [i \in 0..(n + 1) |-> IF i = n + 1 THEN f[n] \o s[n + 1] ELSE f[i]]
  <2>2. f[n] \in Seq(S) /\ s[n + 1] \in Seq(S)
    OBVIOUS
  <2>3. g \in [0..(n + 1) -> Seq(S)]
    BY <2>2
  <2>4. g[0] = <<>>
    BY <2>1 DEF RunTo
  <2>5. ASSUME NEW i \in 1..(n + 1) PROVE g[i] = g[i - 1] \o s[i]
    <3>0. i \in 0..(n + 1) /\ i - 1 \in 0..(n + 1) /\ i - 1 # n + 1
      OBVIOUS
    <3>1. CASE i = n + 1
      <4>1. i - 1 = n
        BY <3>1
      <4>2. g[i] = f[n] \o s[i] /\ g[i - 1] = f[i - 1]
        BY <3>0, <3>1
      <4>. QED BY <4>1, <4>2
    <3>2. CASE i # n + 1
      <4>1. f[i] = f[i - 1] \o s[i]
        <5>1. i \in 1..n
          BY <3>2
        <5>. QED BY <5>1, <2>1 DEF RunTo
      <4>2. g[i] = f[i] /\ g[i - 1] = f[i - 1]
        BY <3>0, <3>2
      <4>. QED BY <4>1, <4>2
    <3>. QED BY <3>1, <3>2
  <2>. HIDE DEF g
  <2>. QED BY <2>3, <2>4, <2>5 DEF RunTo
<1>. HIDE DEF N
<1>3. Nat \subseteq N
  BY <1>1, <1>2, SetInduction
<1>4. Len(s) \in N
  BY <1>3
<1>. QED BY <1>4 DEF N, IsRun

\* FlattenSeq returns the last of any run.
LEMMA FlattenRun ==
  ASSUME NEW S, NEW s \in Seq(Seq(S)),
         NEW f \in [0..Len(s) -> Seq(S)], IsRun(f, s)
  PROVE  FlattenSeq(s) = f[Len(s)]
<1>1. CASE Len(s) = 0
  <2>1. s = <<>>
    BY <1>1
  <2>. QED BY <1>1, <2>1 DEF FlattenSeq, IsRun, RunTo
<1>2. CASE Len(s) # 0
  <2>. DEFINE Def(g) == [i \in 1..Len(s) |-> IF i = 1 THEN s[i] ELSE g[i - 1] \o s[i]]
              flatten == CHOOSE g : g = Def(g)
              h == [i \in 1..Len(s) |-> f[i]]
              N == {n \in Nat : n \in 1..Len(s) => flatten[n] = f[n]}
  <2>1. Len(s) \in Nat /\ 1 \in 1..Len(s) /\ Len(s) \in 1..Len(s)
    BY <1>2
  <2>2. ASSUME NEW i \in 1..Len(s)
        PROVE  h[i] = IF i = 1 THEN s[i] ELSE h[i - 1] \o s[i]
    <3>1. CASE i = 1
      BY <3>1, <2>1 DEF IsRun, RunTo
    <3>2. CASE i # 1
      <4>1. i - 1 \in 1..Len(s) /\ f[i] = f[i - 1] \o s[i]
        <5>1. i - 1 \in 1..Len(s)
          BY ONLY i \in 1..Len(s), <3>2
        <5>2. f[i] = f[i - 1] \o s[i]
          BY DEF IsRun, RunTo
        <5>. QED BY <5>1, <5>2
      <4>2. h[i] = f[i] /\ h[i - 1] = f[i - 1]
        BY ONLY <4>1, i \in 1..Len(s)
      <4>. QED BY ONLY <3>2, <4>1, <4>2
    <3>. QED BY <3>1, <3>2
  <2>3. h = Def(h)
    BY <2>2
  <2>. HIDE DEF h, Def
  <2>4. flatten = Def(flatten)
    BY ONLY <2>3, ZenonT(30)
  <2>. USE DEF Def
  <2>5. 0 \in N
    OBVIOUS
  <2>6. ASSUME NEW n \in Nat, n \in N PROVE n + 1 \in N
    <3>. SUFFICES ASSUME n + 1 \in 1..Len(s) PROVE flatten[n + 1] = f[n + 1]
      OBVIOUS
    <3>. HIDE DEF flatten
    <3>. DEFINE i == n + 1
    <3>0. i \in 1..Len(s) /\ i - 1 = n /\ s[i] \in Seq(S)
      OBVIOUS
    <3>1. flatten[i] = IF i = 1 THEN s[i] ELSE flatten[i - 1] \o s[i]
      <4>. HIDE DEF i
      <4>1. Def(flatten)[i] = IF i = 1 THEN s[i] ELSE flatten[i - 1] \o s[i]
        BY <3>0
      <4>. HIDE DEF Def
      <4>. QED BY <2>4, <4>1
    <3>2. f[i] = f[i - 1] \o s[i]
      BY <3>0 DEF IsRun, RunTo
    <3>3. CASE n = 0
      <4>1. f[0] = <<>> /\ i = 1
        BY <3>3 DEF IsRun, RunTo
      <4>2. <<>> \o s[i] = s[i]
        BY <3>0
      <4>3. flatten[i] = s[i]
        BY <3>1, <4>1
      <4>4. i - 1 = 0
        BY <3>3
      <4>. HIDE DEF i
      <4>5. f[i] = s[i]
        BY <3>2, <4>1, <4>2, <4>4
      <4>6. flatten[i] = f[i]
        BY <4>3, <4>5
      <4>. QED BY <4>6 DEF i
    <3>4. CASE n # 0
      <4>1. flatten[n] = f[n]
        BY <2>6, <3>4
      <4>2. i # 1
        BY <3>4
      <4>. HIDE DEF i
      <4>3. flatten[i] = f[i]
        BY <3>0, <3>1, <3>2, <4>1, <4>2
      <4>. QED BY <4>3 DEF i
    <3>. QED BY <3>3, <3>4
  <2>7. FlattenSeq(s) = flatten[Len(s)]
    BY <1>2 DEF FlattenSeq
  <2>. HIDE DEF N
  <2>8. Nat \subseteq N
    BY <2>5, <2>6, SetInduction
  <2>. QED BY <2>1, <2>7, <2>8 DEF N
<1>. QED BY <1>1, <1>2

\* What FlattenSeq returns is a sequence of the same elements.
LEMMA FlattenType ==
  ASSUME NEW S, NEW s \in Seq(Seq(S))
  PROVE  FlattenSeq(s) \in Seq(S)
<1>1. PICK f \in [0..Len(s) -> Seq(S)] : IsRun(f, s)
  BY RunExists
<1>2. FlattenSeq(s) = f[Len(s)]
  BY <1>1, FlattenRun
<1>. QED BY <1>2

\* Nothing is concatenated to nothing.
LEMMA FlattenEmpty == FlattenSeq(<<>>) = <<>>
BY DEF FlattenSeq

\* An element more at the end is concatenated to the rest.
LEMMA FlattenAppend ==
  ASSUME NEW S, NEW s \in Seq(Seq(S)), NEW x \in Seq(S)
  PROVE  FlattenSeq(Append(s, x)) = FlattenSeq(s) \o x
<1>1. PICK f \in [0..Len(s) -> Seq(S)] : IsRun(f, s)
  BY RunExists
<1>. DEFINE t == Append(s, x)
           g == [i \in 0..Len(t) |-> IF i = Len(t) THEN f[Len(s)] \o x ELSE f[i]]
<1>2. /\ t \in Seq(Seq(S)) /\ Len(t) = Len(s) + 1 /\ t[Len(t)] = x /\ Len(s) \in Nat
      /\ \A i \in 1..Len(s) : t[i] = s[i]
  OBVIOUS
<1>3. f[Len(s)] \in Seq(S) /\ f[Len(s)] \o x \in Seq(S)
  OBVIOUS
<1>. HIDE DEF t
<1>4. g \in [0..Len(t) -> Seq(S)]
  BY <1>2, <1>3
<1>5. ASSUME NEW i \in 1..Len(t) PROVE g[i] = g[i - 1] \o t[i]
  <2>1. CASE i = Len(t)
    <3>1. i \in 0..Len(t) /\ i - 1 \in 0..Len(t) /\ i - 1 = Len(s) /\ i - 1 # Len(t)
      BY <1>2, <2>1
    <3>2. g[i] = f[Len(s)] \o x /\ g[i - 1] = f[i - 1]
      BY <2>1, <3>1
    <3>. QED BY <1>2, <2>1, <3>1, <3>2
  <2>2. CASE i \in 1..Len(s)
    <3>1. /\ i \in 0..Len(t) /\ i - 1 \in 0..Len(t)
          /\ i # Len(t) /\ i - 1 # Len(t)
      BY <1>2, <2>2
    <3>2. g[i] = f[i] /\ g[i - 1] = f[i - 1]
      BY <3>1
    <3>3. f[i] = f[i - 1] \o s[i] /\ t[i] = s[i]
      BY <1>1, <1>2, <2>2 DEF IsRun, RunTo
    <3>. QED BY <3>2, <3>3
  <2>3. i = Len(t) \/ i \in 1..Len(s)
    BY <1>2
  <2>. QED BY <2>1, <2>2, <2>3
<1>6. g[0] = <<>>
  BY <1>1, <1>2 DEF IsRun, RunTo
<1>7. g[Len(t)] = f[Len(s)] \o x
  BY <1>2
<1>. HIDE DEF g
<1>8. FlattenSeq(t) = g[Len(t)]
  BY <1>2, <1>4, <1>5, <1>6, FlattenRun DEF IsRun, RunTo
<1>9. FlattenSeq(s) = f[Len(s)]
  BY <1>1, FlattenRun
<1>. QED BY <1>7, <1>8, <1>9 DEF t

\* The first element is concatenated before the rest.
LEMMA FlattenHeadTail ==
  ASSUME NEW S, NEW s \in Seq(Seq(S)), s # <<>>
  PROVE  FlattenSeq(s) = Head(s) \o FlattenSeq(Tail(s))
<1>0. \A a, b, c \in Seq(S) : (a \o b) \o c = a \o (b \o c)
  <2>1. Associative(S)
    BY ONLY Regrouped, Zenon
  <2>. QED BY ONLY <2>1, Zenon DEF Associative
<1>. DEFINE t == Tail(s)
<1>1. /\ t \in Seq(Seq(S)) /\ Len(s) = Len(t) + 1 /\ Head(s) = s[1] /\ Head(s) \in Seq(S)
      /\ Len(t) \in Nat /\ \A i \in 1..Len(t) : t[i] = s[i + 1]
  OBVIOUS
<1>. HIDE DEF t
<1>2. PICK f \in [0..Len(t) -> Seq(S)] : IsRun(f, t)
  BY <1>1, RunExists
<1>. DEFINE g == [i \in 0..Len(s) |-> IF i = 0 THEN <<>> ELSE Head(s) \o f[i - 1]]
<1>3. \A i \in 0..Len(t) : f[i] \in Seq(S)
  BY <1>1
<1>4. g \in [0..Len(s) -> Seq(S)]
  BY <1>1, <1>3
<1>5. ASSUME NEW i \in 1..Len(s) PROVE g[i] = g[i - 1] \o s[i]
  <2>1. CASE i = 1
    BY <1>1, <1>2, <2>1 DEF IsRun, RunTo
  <2>2. CASE i # 1
    <3>. DEFINE j == i - 1
    <3>1. /\ j \in 1..Len(t) /\ j - 1 \in 0..Len(t) /\ i = j + 1
          /\ i \in 0..Len(s) /\ j \in 0..Len(s) /\ i # 0 /\ j # 0
      BY <1>1, <2>2
    <3>2. f[j] = f[j - 1] \o t[j] /\ t[j] = s[i]
      BY <1>1, <1>2, <3>1 DEF IsRun, RunTo
    <3>3. f[j - 1] \in Seq(S) /\ t[j] \in Seq(S)
      BY <1>1, <1>3, <3>1
    <3>4. g[i] = Head(s) \o f[j] /\ g[i - 1] = Head(s) \o f[j - 1]
      <4>1. i - 1 = j
        OBVIOUS
      <4>. HIDE DEF j
      <4>. QED BY <3>1, <4>1
    <3>. HIDE DEF g, j
    <3>5. Head(s) \o (f[j - 1] \o t[j]) = (Head(s) \o f[j - 1]) \o t[j]
      <4>2. Head(s) \in Seq(S)
        BY <1>1
      <4>3. f[j - 1] \in Seq(S)
        BY <3>3
      <4>4. t[j] \in Seq(S)
        BY <3>3
      <4>. QED BY <1>0, <4>2, <4>3, <4>4, Zenon
    <3>. QED BY <3>2, <3>4, <3>5
  <2>. QED BY <2>1, <2>2
<1>6. g[0] = <<>>
  BY <1>1
<1>7. g[Len(s)] = Head(s) \o f[Len(t)]
  <2>1. Len(s) \in 0..Len(s) /\ Len(s) # 0 /\ Len(s) - 1 = Len(t)
    BY <1>1
  <2>. QED BY <2>1
<1>. HIDE DEF g
<1>8. FlattenSeq(s) = g[Len(s)]
  BY <1>4, <1>5, <1>6, FlattenRun DEF IsRun, RunTo
<1>9. FlattenSeq(t) = f[Len(t)]
  BY <1>1, <1>2, FlattenRun
<1>. QED BY <1>7, <1>8, <1>9 DEF t

\* A sequence is one of its own elements.
LEMMA SeqToSet ==
  ASSUME NEW S, NEW s \in Seq(S)
  PROVE  s \in Seq(ToSet(s))
<1>1. Len(s) \in Nat /\ DOMAIN s = 1..Len(s) /\ s = [i \in 1..Len(s) |-> s[i]]
  OBVIOUS
<1>2. \A i \in 1..Len(s) : s[i] \in ToSet(s)
  BY DEF ToSet
<1>. QED BY <1>1, <1>2

\* A sequence of elements of S is one of elements of any larger set.
LEMMA SeqMonotone ==
  ASSUME NEW S, NEW T, S \subseteq T, NEW s \in Seq(S)
  PROVE  s \in Seq(T)
<1>1. Len(s) \in Nat /\ s = [i \in 1..Len(s) |-> s[i]]
  OBVIOUS
<1>2. \A i \in 1..Len(s) : s[i] \in T
  OBVIOUS
<1>. QED BY <1>1, <1>2

\* Where the elements of a concatenation come from.
LEMMA ConcatAt ==
  ASSUME NEW S, NEW a \in Seq(S), NEW b \in Seq(S)
  PROVE
    /\ a \o b \in Seq(S) /\ Len(a \o b) = Len(a) + Len(b)
    /\ \A i \in 1..Len(a) : (a \o b)[i] = a[i]
    /\ \A i \in 1..Len(b) : (a \o b)[Len(a) + i] = b[i]
OBVIOUS

\* Of sequences that all have five elements, those of the j-th are five times
\* j - 1 elements from the beginning.
LEMMA FlattenFives ==
  ASSUME NEW S, NEW s \in Seq({x \in Seq(S) : Len(x) = 5})
  PROVE  /\ FlattenSeq(s) \in Seq(S)
         /\ Len(FlattenSeq(s)) = 5 * Len(s)
         /\ \A j \in 1..Len(s) : \A r \in 1..5 : FlattenSeq(s)[5 * (j - 1) + r] = s[j][r]
<1>. DEFINE X == {x \in Seq(S) : Len(x) = 5}
           Placed(u, f) == /\ f \in Seq(S) /\ Len(f) = 5 * Len(u)
                           /\ \A j \in 1..Len(u) : \A r \in 1..5 : f[5 * (j - 1) + r] = u[j][r]
           T == {u \in Seq(X) : Placed(u, FlattenSeq(u))}
<1>1. <<>> \in T
  <2>1. <<>> \in Seq(X) /\ Placed(<<>>, <<>>)
    OBVIOUS
  <2>. HIDE DEF Placed
  <2>. QED BY <2>1, FlattenEmpty
<1>2. ASSUME NEW u \in Seq(X), NEW x \in X, u \in T PROVE Append(u, x) \in T
  <2>1. u \in Seq(Seq(S)) /\ x \in Seq(S) /\ Append(u, x) \in Seq(X)
    OBVIOUS
  <2>2. FlattenSeq(Append(u, x)) = FlattenSeq(u) \o x
    BY <2>1, FlattenAppend
  <2>3. ASSUME NEW f, Placed(u, f) PROVE Placed(Append(u, x), f \o x)
    <3>1. f \in Seq(S) /\ Len(f) = 5 * Len(u) /\ Len(x) = 5 /\ x \in Seq(S) /\ Len(u) \in Nat
      BY <2>3
    <3>0. /\ f \o x \in Seq(S) /\ Len(f \o x) = Len(f) + Len(x)
          /\ \A i \in 1..Len(f) : (f \o x)[i] = f[i]
          /\ \A i \in 1..Len(x) : (f \o x)[Len(f) + i] = x[i]
      <4>1. f \in Seq(S)
        BY <3>1
      <4>2. x \in Seq(S)
        BY <3>1
      <4>. QED BY ONLY <4>1, <4>2, ConcatAt
    <3>2. f \o x \in Seq(S) /\ Len(f \o x) = 5 * Len(Append(u, x))
      <4>1. Len(Append(u, x)) = Len(u) + 1
        OBVIOUS
      <4>. QED BY <3>0, <3>1, <4>1
    <3>3. ASSUME NEW j \in 1..Len(Append(u, x)), NEW r \in 1..5
          PROVE  (f \o x)[5 * (j - 1) + r] = Append(u, x)[j][r]
      <4>1. CASE j = Len(u) + 1
        <5>1. 5 * (j - 1) + r = Len(f) + r
          BY <3>1, <4>1
        <5>2. (f \o x)[Len(f) + r] = x[r]
          BY <3>0, <3>1
        <5>3. Append(u, x)[j] = x
          BY <4>1
        <5>. QED BY <5>1, <5>2, <5>3
      <4>2. CASE j # Len(u) + 1
        <5>1. j \in 1..Len(u) /\ Append(u, x)[j] = u[j]
          BY <4>2
        <5>2. 5 * (j - 1) + r \in 1..Len(f)
          <6>1. Len(f) = 5 * Len(u) /\ Len(u) \in Nat
            BY <3>1
          <6>. QED BY ONLY <5>1, <6>1, r \in 1..5, SMTT(30)
        <5>3. f[5 * (j - 1) + r] = u[j][r]
          BY <2>3, <5>1
        <5>4. (f \o x)[5 * (j - 1) + r] = f[5 * (j - 1) + r]
          BY <3>0, <5>2
        <5>. QED BY <5>1, <5>3, <5>4
      <4>. QED BY <4>1, <4>2
    <3>. QED BY <3>2, <3>3
  <2>. HIDE DEF Placed
  <2>. QED BY <1>2, <2>1, <2>2, <2>3
<1>. HIDE DEF T
<1>3. Seq(X) \subseteq T
  BY <1>1, <1>2, AppendInduction
<1>. QED BY <1>3 DEF T

-----------------------------------------------------------------------------
(* Stretches of one sequence, as items move from one to the next.          *)

\* One item more at the end.
LEMMA StretchAppend ==
  \A S : \A a, b \in Seq(S) : \A x \in S : a \o Append(b, x) = Append(a \o b, x)
OBVIOUS

\* The first k items of the last stretch become the one before it.
LEMMA StretchTake ==
  \A S : \A a, b \in Seq(S) : \A k \in 1..Len(b) :
    (a \o SubSeq(b, 1, k)) \o SubSeq(b, k + 1, Len(b)) = a \o b
<1>. SUFFICES ASSUME NEW S, NEW a \in Seq(S), NEW b \in Seq(S), NEW k \in 1..Len(b)
              PROVE  (a \o SubSeq(b, 1, k)) \o SubSeq(b, k + 1, Len(b)) = a \o b
  OBVIOUS
<1>1. SubSeq(b, 1, k) \in Seq(S) /\ SubSeq(b, k + 1, Len(b)) \in Seq(S)
  OBVIOUS
<1>2. SubSeq(b, 1, k) \o SubSeq(b, k + 1, Len(b)) = b
  OBVIOUS
<1>3. \A u, v, w \in Seq(S) : (u \o v) \o w = u \o (v \o w)
  <2>1. Associative(S)
    BY ONLY Regrouped, Zenon
  <2>. QED BY ONLY <2>1, Zenon DEF Associative
<1>4. \A u \in Seq(S) : (a \o u) \o SubSeq(b, k + 1, Len(b))
                          = a \o (u \o SubSeq(b, k + 1, Len(b)))
  BY <1>1, <1>3, Zenon
<1>5. (a \o SubSeq(b, 1, k)) \o SubSeq(b, k + 1, Len(b))
        = a \o (SubSeq(b, 1, k) \o SubSeq(b, k + 1, Len(b)))
  BY <1>1, <1>4, Zenon
<1>. QED BY <1>2, <1>5, Zenon

\* A stretch moves to the end of the one before it.
LEMMA StretchMove ==
  \A S : \A a, b, c, d \in Seq(S) :
    ((a \o (b \o c)) \o <<>>) \o d = ((a \o b) \o c) \o d
<1>. SUFFICES ASSUME NEW S, NEW a \in Seq(S), NEW b \in Seq(S), NEW c \in Seq(S),
                     NEW d \in Seq(S)
              PROVE  ((a \o (b \o c)) \o <<>>) \o d = ((a \o b) \o c) \o d
  OBVIOUS
<1>0. \A u, v, w \in Seq(S) : (u \o v) \o w = u \o (v \o w)
  <2>1. Associative(S)
    BY ONLY Regrouped, Zenon
  <2>. QED BY ONLY <2>1, Zenon DEF Associative
<1>1. (a \o b) \o c = a \o (b \o c)
  BY <1>0, Zenon
<1>2. a \o (b \o c) \in Seq(S)
  OBVIOUS
<1>3. \A u \in Seq(S) : u \o <<>> = u
  OBVIOUS
<1>4. (a \o (b \o c)) \o <<>> = a \o (b \o c)
  BY <1>2, <1>3, Zenon
<1>. QED BY <1>1, <1>4, Zenon
=============================================================================
