---------------------------- MODULE InductionLemmas ----------------------------
(***************************************************************************)
(* Lemmas the proofs about loops, sequences and finite sets share: the      *)
(* least number of a set, induction over the naturals for a set of numbers, *)
(* the run of a loop, flattened sequences, sorted enumerations of a finite  *)
(* set.                                                                     *)
(*                                                                         *)
(* The induction theorems of the library take a predicate as a parameter;   *)
(* here the predicate is the set of the numbers that satisfy it, and the    *)
(* least number outside that set comes from the well-foundedness of strict  *)
(* inclusion.                                                               *)
(***************************************************************************)
EXTENDS Integers, SequencesExt, SequenceTheorems, FiniteSetTheorems, TLAPS

(* A nonempty set of naturals has a least element: the smallest of the intervals
   0..n that end in it ends there. *)
LEMMA LeastNumber ==
  ASSUME NEW S \in SUBSET Nat, S # {}
  PROVE  \E n \in S : \A m \in S : n <= m
<1> DEFINE Below == {0..n : n \in S}
<1>1. Below \subseteq FiniteSubsetsOf(Nat)
  <2>1. \A n \in S : IsFiniteSet(0..n) /\ 0..n \in SUBSET Nat
    BY FS_Interval
  <2>2. QED
    BY <2>1 DEF FiniteSubsetsOf
<1>2. Below # {}
  OBVIOUS
<1>3. \E x \in Below : \A y \in Below : ~ (<<y, x>> \in StrictSubsetOrdering(Nat))
  <2> HIDE DEF Below
  <2> QED
    BY <1>1, <1>2, FS_StrictSubsetOrderingWellFounded, WFMin
<1>4. PICK n \in S : \A y \in Below : ~ (<<y, 0..n>> \in StrictSubsetOrdering(Nat))
  BY <1>3
<1>5. ASSUME NEW m \in S, m < n PROVE FALSE
  <2>1. n \in 0..n /\ n \notin 0..m /\ 0..m \subseteq 0..n
    BY <1>5
  <2>2. 0..m \in SUBSET Nat /\ 0..n \in SUBSET Nat
    OBVIOUS
  <2>3. <<0..m, 0..n>> \in StrictSubsetOrdering(Nat)
    BY <2>1, <2>2 DEF StrictSubsetOrdering
  <2>4. QED
    BY <1>4, <2>3
<1>6. QED
  BY <1>4, <1>5

(* Induction: a set of numbers with 0 and the successor of each of its members. *)
LEMMA NatSetInduction ==
  ASSUME NEW S, 0 \in S, \A n \in Nat : n \in S => n + 1 \in S
  PROVE  Nat \subseteq S
<1> SUFFICES ASSUME ~(Nat \subseteq S) PROVE FALSE
  OBVIOUS
<1>1. PICK n \in Nat \ S : \A m \in Nat \ S : n <= m
  BY LeastNumber
<1>2. n # 0 /\ n - 1 \in Nat /\ n - 1 \in S
  BY <1>1
<1>3. QED
  BY <1>1, <1>2

--------------------------------------------------------------------------------
(* A loop has a run: the values a0, step[1][a0], ... of a variable that starts as a0
   and goes through n steps. *)
LEMMA LoopExists ==
  ASSUME NEW A, NEW a0 \in A, NEW n \in Nat, NEW step \in [1..n -> [A -> A]]
  PROVE  \E f \in [0..n -> A] : f[0] = a0 /\ \A k \in 1..n : f[k] = step[k][f[k - 1]]
<1> DEFINE Runs(m, f) == f[0] = a0 /\ \A k \in 1..m : f[k] = step[k][f[k - 1]]
           Lengths == {m \in Nat : m <= n => \E f \in [0..m -> A] : Runs(m, f)}
<1>1. 0 \in Lengths
  <2> DEFINE f == [k \in 0..0 |-> a0]
  <2>1. f \in [0..0 -> A] /\ Runs(0, f)
    OBVIOUS
  <2>2. QED
    BY <2>1
<1>2. ASSUME NEW m \in Nat, m \in Lengths PROVE m + 1 \in Lengths
  <2> SUFFICES ASSUME m + 1 <= n PROVE \E f \in [0..(m + 1) -> A] : Runs(m + 1, f)
    OBVIOUS
  <2>1. PICK f \in [0..m -> A] : Runs(m, f)
    BY <1>2
  <2>2. f[m] \in A /\ m + 1 \in 1..n
    OBVIOUS
  <2>3. step[m + 1][f[m]] \in A
    BY <2>2
  <2> DEFINE g == [k \in 0..(m + 1) |-> IF k = m + 1 THEN step[m + 1][f[m]] ELSE f[k]]
  <2>4. g \in [0..(m + 1) -> A]
    BY <2>3
  <2>5. g[0] = a0
    BY <2>1
  <2>6. ASSUME NEW k \in 1..(m + 1) PROVE g[k] = step[k][g[k - 1]]
    <3>1. CASE k = m + 1
      BY <3>1
    <3>2. CASE k # m + 1
      <4>1. k \in 1..m /\ k \in 0..m /\ k - 1 \in 0..m
        BY <3>2
      <4>2. QED
        BY <2>1, <3>2, <4>1
    <3>3. QED
      BY <3>1, <3>2
  <2>7. QED
    BY <2>4, <2>5, <2>6
<1>3. Nat \subseteq Lengths
  <2> HIDE DEF Lengths
  <2> QED
    BY <1>1, <1>2, NatSetInduction
<1>4. QED
  BY <1>3

(* FlattenSeq is the last value of a loop that appends one sequence after another. *)
LEMMA FlattenRuns ==
  ASSUME NEW S, NEW seqs \in Seq(Seq(S))
  PROVE  \E h \in [0..Len(seqs) -> Seq(S)] :
           /\ h[0] = <<>> /\ \A k \in 1..Len(seqs) : h[k] = h[k - 1] \o seqs[k]
           /\ FlattenSeq(seqs) = h[Len(seqs)]
<1> DEFINE n == Len(seqs)
           f == CHOOSE g : g = [i \in 1..n |-> IF i = 1 THEN seqs[i] ELSE g[i - 1] \o seqs[i]]
           step == [k \in 1..n |-> [s \in Seq(S) |-> s \o seqs[k]]]
<1>1. n \in Nat /\ \A i \in 1..n : seqs[i] \in Seq(S)
  OBVIOUS
<1>2. PICK h \in [0..n -> Seq(S)] : h[0] = <<>> /\ \A k \in 1..n : h[k] = step[k][h[k - 1]]
  <2>1. step \in [1..n -> [Seq(S) -> Seq(S)]]
    BY <1>1
  <2>2. <<>> \in Seq(S)
    OBVIOUS
  <2> HIDE DEF step, f, n
  <2> DEFINE A == Seq(S)
             a0 == <<>>
  <2> HIDE DEF A
  <2>3. a0 \in A /\ step \in [1..n -> [A -> A]]
    BY <2>1, <2>2 DEF A
  <2> HIDE DEF a0
  <2>4. \E h \in [0..n -> A] : h[0] = a0 /\ \A k \in 1..n : h[k] = step[k][h[k - 1]]
    <3>1. n \in Nat
      BY <1>1
    <3>2. QED
      BY <2>3, <3>1, LoopExists, SMTT(60)
  <2>5. QED
    BY <2>4 DEF A, a0
<1>3. ASSUME NEW k \in 1..n PROVE h[k] = h[k - 1] \o seqs[k]
  <2> HIDE DEF f
  <2>1. h[k - 1] \in Seq(S)
    <3>1. k - 1 \in 0..n
      BY <1>1
    <3> HIDE DEF n
    <3>2. QED
      BY <3>1, Zenon
  <2>2. QED
    BY <1>2, <2>1
<1>4. FlattenSeq(seqs) = h[n]
  <2>1. CASE n = 0
    BY <1>1, <1>2, <2>1 DEF FlattenSeq
  <2>2. CASE n # 0
    <3>1. FlattenSeq(seqs) = f[n]
      BY <2>2, Zenon DEF FlattenSeq
    <3>2. ASSUME NEW k \in 1..n
          PROVE h[k] = IF k = 1 THEN seqs[k] ELSE h[k - 1] \o seqs[k]
      <4> HIDE DEF f
      <4>1. <<>> \o seqs[k] = seqs[k]
        BY <1>1, ConcatEmptySeq
      <4>2. k = 1 => h[k - 1] = <<>>
        BY <1>2
      <4> HIDE DEF step
      <4>3. QED
        BY <1>3, <4>1, <4>2
    <3> DEFINE g == [k \in 1..n |-> h[k]]
    <3>3. g = [i \in 1..n |-> IF i = 1 THEN seqs[i] ELSE g[i - 1] \o seqs[i]]
      BY <1>1, <3>2
    <3>4. f = [i \in 1..n |-> IF i = 1 THEN seqs[i] ELSE f[i - 1] \o seqs[i]]
      <4> HIDE DEF g, n
      <4> QED
        BY <3>3
    <3> HIDE DEF f, g, step
    <3> DEFINE Same == {m \in Nat : m + 1 \in 1..n => f[m + 1] = h[m + 1]}
    <3>5. 0 \in Same
      BY <1>1, <3>2, <3>4
    <3>6. ASSUME NEW m \in Nat, m \in Same PROVE m + 1 \in Same
      <4> SUFFICES ASSUME m + 2 \in 1..n PROVE f[m + 2] = h[m + 2]
        OBVIOUS
      <4>1. m + 1 \in 1..n /\ m + 2 # 1 /\ (m + 2) - 1 = m + 1
        BY <1>1
      <4>2. f[m + 1] = h[m + 1]
        BY <3>6, <4>1
      <4> HIDE DEF n
      <4>3. f[m + 2] = f[m + 1] \o seqs[m + 2] /\ h[m + 2] = h[m + 1] \o seqs[m + 2]
        BY <3>2, <3>4, <4>1
      <4>4. QED
        BY <4>2, <4>3
    <3>7. Nat \subseteq Same
      <4> HIDE DEF Same
      <4> QED
        BY <3>5, <3>6, NatSetInduction
    <3>8. n - 1 \in Same
      <4>1. n - 1 \in Nat
        BY <1>1, <2>2
      <4> HIDE DEF Same
      <4>2. QED
        BY <3>7, <4>1
    <3>9. QED
      BY <1>1, <2>2, <3>1, <3>8
  <2>3. QED
    BY <2>1, <2>2
<1> HIDE DEF f, step
<1>5. QED
  BY <1>2, <1>3, <1>4

(* A sequence of sequences is flattened to one of their members. *)
LEMMA FlattenType ==
  ASSUME NEW S, NEW seqs \in Seq(Seq(S))
  PROVE  FlattenSeq(seqs) \in Seq(S)
<1>1. PICK h \in [0..Len(seqs) -> Seq(S)] : FlattenSeq(seqs) = h[Len(seqs)]
  BY FlattenRuns
<1>2. Len(seqs) \in 0..Len(seqs)
  OBVIOUS
<1>3. QED
  BY <1>1, <1>2, Zenon

(* What relates sequences element by element relates them flattened. *)
LEMMA FlattenAligned ==
  ASSUME NEW S, NEW T, NEW R, NEW seqs \in Seq(Seq(S)), NEW others \in Seq(Seq(T)),
         Len(seqs) = Len(others),
         \A k \in 1..Len(seqs) :
           /\ Len(seqs[k]) = Len(others[k])
           /\ \A i \in 1..Len(seqs[k]) : <<seqs[k][i], others[k][i]>> \in R
  PROVE  /\ Len(FlattenSeq(seqs)) = Len(FlattenSeq(others))
         /\ \A i \in 1..Len(FlattenSeq(seqs)) :
              <<FlattenSeq(seqs)[i], FlattenSeq(others)[i]>> \in R
<1> DEFINE n == Len(seqs)
<1>1. n \in Nat /\ \A k \in 1..n : seqs[k] \in Seq(S) /\ others[k] \in Seq(T)
  OBVIOUS
<1>2. PICK h \in [0..n -> Seq(S)] :
        /\ h[0] = <<>> /\ \A k \in 1..n : h[k] = h[k - 1] \o seqs[k]
        /\ FlattenSeq(seqs) = h[n]
  BY FlattenRuns
<1>3. PICK g \in [0..n -> Seq(T)] :
        /\ g[0] = <<>> /\ \A k \in 1..n : g[k] = g[k - 1] \o others[k]
        /\ FlattenSeq(others) = g[n]
  <2>1. \E g \in [0..Len(others) -> Seq(T)] :
          /\ g[0] = <<>> /\ \A k \in 1..Len(others) : g[k] = g[k - 1] \o others[k]
          /\ FlattenSeq(others) = g[Len(others)]
    BY FlattenRuns
  <2>2. QED
    BY <2>1
<1> DEFINE Agree(s, t) == Len(s) = Len(t) /\ \A i \in 1..Len(s) : <<s[i], t[i]>> \in R
           Good == {k \in Nat : k <= n => Agree(h[k], g[k])}
<1>4. 0 \in Good
  BY <1>2, <1>3
<1>5. ASSUME NEW k \in Nat, k \in Good PROVE k + 1 \in Good
  <2> SUFFICES ASSUME k + 1 <= n PROVE Agree(h[k + 1], g[k + 1])
    OBVIOUS
  <2>1. k + 1 \in 1..n /\ k \in 0..n /\ (k + 1) - 1 = k /\ k <= n
    BY <1>1
  <2>2. Agree(h[k], g[k])
    BY <1>5, <2>1
  <2>3. Agree(seqs[k + 1], others[k + 1])
    BY <2>1
  <2>4. h[k + 1] = h[k] \o seqs[k + 1] /\ g[k + 1] = g[k] \o others[k + 1]
    <3> HIDE DEF Agree, n
    <3> QED
      BY <1>2, <1>3, <2>1
  <2>5. /\ h[k] \in Seq(S) /\ seqs[k + 1] \in Seq(S)
        /\ g[k] \in Seq(T) /\ others[k + 1] \in Seq(T)
    <3> HIDE DEF Agree, n
    <3> QED
      BY <1>1, <2>1
  <2>6. ASSUME NEW a \in Seq(S), NEW b \in Seq(S), NEW c \in Seq(T), NEW d \in Seq(T),
               Agree(a, c), Agree(b, d)
        PROVE  Agree(a \o b, c \o d)
    <3>1. Len(a \o b) = Len(a) + Len(b) /\ Len(c \o d) = Len(c) + Len(d)
      OBVIOUS
    <3>2. ASSUME NEW i \in 1..Len(a \o b) PROVE <<(a \o b)[i], (c \o d)[i]>> \in R
      <4>1. CASE i <= Len(a)
        <5>1. i \in 1..Len(a) /\ (a \o b)[i] = a[i] /\ (c \o d)[i] = c[i]
          BY <2>6, <3>1, <4>1
        <5>2. QED
          BY <2>6, <5>1
      <4>2. CASE i > Len(a)
        <5>1. /\ i - Len(a) \in 1..Len(b) /\ (a \o b)[i] = b[i - Len(a)]
              /\ (c \o d)[i] = d[i - Len(a)]
          BY <2>6, <3>1, <4>2
        <5>2. QED
          BY <2>6, <5>1
      <4>3. i <= Len(a) \/ i > Len(a)
        <5>1. Len(a) \in Nat /\ Len(a \o b) \in Nat
          OBVIOUS
        <5>2. QED
          BY <5>1
      <4>4. QED
        BY <4>1, <4>2, <4>3
    <3>3. QED
      BY <2>6, <3>1, <3>2
  <2> HIDE DEF Agree
  <2>7. QED
    BY <2>2, <2>3, <2>4, <2>5, <2>6
<1>6. Nat \subseteq Good
  <2> HIDE DEF Good
  <2> QED
    BY <1>4, <1>5, NatSetInduction
<1>7. Agree(h[n], g[n])
  BY <1>1, <1>6
<1>8. QED
  BY <1>2, <1>3, <1>7

--------------------------------------------------------------------------------
LEMMA IntervalSize == \A n \in Nat : IsFiniteSet(1..n) /\ Cardinality(1..n) = n
BY FS_Interval

(* A finite nonempty set has a member with the greatest key. *)
LEMMA GreatestKey ==
  ASSUME NEW U, NEW key \in [U -> Int], NEW W \in SUBSET U, IsFiniteSet(W), W # {}
  PROVE  \E x \in W : \A y \in W : key[y] <= key[x]
<1> DEFINE Good(V) == \E x \in V : \A y \in V : key[y] <= key[x]
           Sizes == {n \in Nat : \A V \in SUBSET U :
                       IsFiniteSet(V) /\ Cardinality(V) = n + 1 => Good(V)}
<1>1. 0 \in Sizes
  <2> SUFFICES ASSUME NEW V \in SUBSET U, IsFiniteSet(V), Cardinality(V) = 1 PROVE Good(V)
    OBVIOUS
  <2>1. PICK x : V = {x}
    BY FS_Singleton
  <2>2. key[x] \in Int
    BY <2>1
  <2>3. QED
    BY <2>1, <2>2
<1>2. ASSUME NEW n \in Nat, n \in Sizes PROVE n + 1 \in Sizes
  <2> SUFFICES ASSUME NEW V \in SUBSET U, IsFiniteSet(V), Cardinality(V) = n + 2
               PROVE  Good(V)
    OBVIOUS
  <2>1. PICK v : v \in V
    BY FS_EmptySet
  <2>2. IsFiniteSet(V \ {v}) /\ Cardinality(V \ {v}) = n + 1
    BY <2>1, FS_RemoveElement
  <2>3. PICK x \in V \ {v} : \A y \in V \ {v} : key[y] <= key[x]
    BY <1>2, <2>2
  <2>4. \A y \in V : key[y] \in Int
    OBVIOUS
  <2>5. CASE key[v] <= key[x]
    BY <2>3, <2>5
  <2>6. CASE ~(key[v] <= key[x])
    <3>1. \A y \in V : key[y] <= key[v]
      BY <2>1, <2>3, <2>4, <2>6
    <3>2. QED
      BY <2>1, <3>1
  <2>7. QED
    BY <2>5, <2>6
<1>3. Nat \subseteq Sizes
  <2> HIDE DEF Sizes
  <2> QED
    BY <1>1, <1>2, NatSetInduction
<1>4. Cardinality(W) \in Nat /\ Cardinality(W) # 0
  BY FS_CardinalityType, FS_EmptySet
<1>5. Cardinality(W) - 1 \in Sizes /\ (Cardinality(W) - 1) + 1 = Cardinality(W)
  <2> HIDE DEF Sizes
  <2> QED
    BY <1>3, <1>4
<1>6. QED
  BY <1>5

(* A finite set has an enumeration in the order of its keys. *)
LEMMA SortedEnumeration ==
  ASSUME NEW U, NEW key \in [U -> Int], NEW W \in SUBSET U, IsFiniteSet(W)
  PROVE  \E s \in [1..Cardinality(W) -> W] :
           /\ Range(s) = W
           /\ \A i, j \in DOMAIN s : i < j => key[s[i]] <= key[s[j]]
<1> DEFINE Sorts(s, V) == /\ Range(s) = V
                          /\ \A i, j \in DOMAIN s : i < j => key[s[i]] <= key[s[j]]
           Sizes == {n \in Nat : \A V \in SUBSET U :
                       IsFiniteSet(V) /\ Cardinality(V) = n => \E s \in [1..n -> V] : Sorts(s, V)}
<1>1. 0 \in Sizes
  <2> SUFFICES ASSUME NEW V \in SUBSET U, IsFiniteSet(V), Cardinality(V) = 0
               PROVE  \E s \in [1..0 -> V] : Sorts(s, V)
    OBVIOUS
  <2>1. V = {}
    BY FS_EmptySet
  <2>2. [i \in 1..0 |-> i] \in [1..0 -> V] /\ Sorts([i \in 1..0 |-> i], V)
    BY <2>1 DEF Range
  <2>3. QED
    BY <2>2
<1>2. ASSUME NEW n \in Nat, n \in Sizes PROVE n + 1 \in Sizes
  <2> SUFFICES ASSUME NEW V \in SUBSET U, IsFiniteSet(V), Cardinality(V) = n + 1
               PROVE  \E s \in [1..(n + 1) -> V] : Sorts(s, V)
    OBVIOUS
  <2>1. PICK x \in V : \A y \in V : key[y] <= key[x]
    BY FS_EmptySet, GreatestKey
  <2>2. IsFiniteSet(V \ {x}) /\ Cardinality(V \ {x}) = n
    <3> HIDE DEF Sizes, Sorts
    <3>1. x \in V
      OBVIOUS
    <3>2. IsFiniteSet(V \ {x}) /\ Cardinality(V \ {x}) = Cardinality(V) - 1
      BY <3>1, FS_RemoveElement
    <3>3. QED
      BY <3>2
  <2>3. PICK s \in [1..n -> V \ {x}] : Sorts(s, V \ {x})
    BY <1>2, <2>2, V \ {x} \in SUBSET U
  <2> DEFINE t == [i \in 1..(n + 1) |-> IF i = n + 1 THEN x ELSE s[i]]
  <2>4. t \in [1..(n + 1) -> V]
    OBVIOUS
  <2>5. Range(t) = V
    <3>1. ASSUME NEW y \in V PROVE \E i \in 1..(n + 1) : t[i] = y
      <4>1. CASE y = x
        BY <4>1
      <4>2. CASE y # x
        <5>1. PICK i \in 1..n : s[i] = y
          BY <2>3, <4>2 DEF Range
        <5>2. i \in 1..(n + 1) /\ t[i] = y
          BY <5>1
        <5>3. QED
          BY <5>2
      <4>3. QED
        BY <4>1, <4>2
    <3>2. QED
      BY <2>4, <3>1 DEF Range
  <2>6. ASSUME NEW i \in 1..(n + 1), NEW j \in 1..(n + 1), i < j PROVE key[t[i]] <= key[t[j]]
    <3>1. i \in 1..n /\ t[i] = s[i] /\ s[i] \in V
      BY <2>6
    <3>2. CASE j = n + 1
      BY <2>1, <3>1, <3>2
    <3>3. CASE j # n + 1
      <4>1. j \in 1..n /\ t[j] = s[j]
        BY <3>3
      <4>2. QED
        BY <2>3, <2>6, <3>1, <4>1
    <3>4. QED
      BY <3>2, <3>3
  <2>7. Sorts(t, V)
    BY <2>4, <2>5, <2>6
  <2>8. QED
    BY <2>4, <2>7
<1>3. Nat \subseteq Sizes
  <2> HIDE DEF Sizes
  <2> QED
    BY <1>1, <1>2, NatSetInduction
<1>4. Cardinality(W) \in Nat
  BY FS_CardinalityType
<1>5. QED
  BY <1>3, <1>4

(* Two sorted enumerations of a finite set carry the same keys at each place: were
   the key at place i smaller in the first, at least i members would have that key
   or less, but at most the i - 1 before place i of the second do. *)
LEMMA SortedKeysAgree ==
  ASSUME NEW U, NEW key \in [U -> Int], NEW W \in SUBSET U, IsFiniteSet(W),
         NEW s \in [1..Cardinality(W) -> W], Range(s) = W,
         \A i, j \in DOMAIN s : i < j => key[s[i]] <= key[s[j]],
         NEW t \in [1..Cardinality(W) -> W], Range(t) = W,
         \A i, j \in DOMAIN t : i < j => key[t[i]] <= key[t[j]],
         NEW i \in 1..Cardinality(W)
  PROVE  ~(key[s[i]] < key[t[i]])
<1> SUFFICES ASSUME key[s[i]] < key[t[i]] PROVE FALSE
  OBVIOUS
<1> DEFINE n == Cardinality(W)
           Low == {w \in W : key[w] <= key[s[i]]}
<1>1. n \in Nat /\ \A w \in W : key[w] \in Int
  BY FS_CardinalityType
<1>2. IsFiniteSet(Low) /\ Cardinality(Low) \in Nat
  BY FS_Subset, FS_CardinalityType
<1>3. i <= Cardinality(Low)
  <2>1. s \in Surjection(1..n, W)
    BY DEF Surjection, Range
  <2>2. IsFiniteSet(1..n) /\ Cardinality(1..n) = n
    BY <1>1, FS_Interval
  <2>3. s \in Injection(1..n, W)
    BY <2>1, <2>2, FS_SurjSameCardinalityImpliesInj
  <2> DEFINE r == [k \in 1..i |-> s[k]]
  <2>4. \A k \in 1..i : k \in 1..n /\ s[k] \in W /\ key[s[k]] <= key[s[i]]
    BY <1>1
  <2>5. r \in [1..i -> Low]
    BY <2>4
  <2>6. r \in Injection(1..i, Low)
    BY <2>3, <2>4, <2>5 DEF Injection, IsInjective
  <2>7. Cardinality(1..i) <= Cardinality(Low)
    <3> HIDE DEF r, Low
    <3> QED
      BY <2>6, <1>2, FS_Injection
  <2>8. QED
    BY <2>7, FS_Interval
<1>4. Cardinality(Low) <= i - 1
  <2>1. \A w \in Low : \E k \in 1..(i - 1) : t[k] = w
    <3> SUFFICES ASSUME NEW w \in Low PROVE \E k \in 1..(i - 1) : t[k] = w
      OBVIOUS
    <3>1. PICK k \in 1..n : t[k] = w
      BY DEF Range
    <3>2. ~(i = k) /\ ~(i < k)
      BY <1>1, <3>1
    <3>3. k \in 1..(i - 1)
      BY <1>1, <3>1, <3>2
    <3>4. QED
      BY <3>1, <3>3
  <2> DEFINE Early == {t[k] : k \in 1..(i - 1)}
             h == [k \in 1..(i - 1) |-> t[k]]
  <2>2. h \in Surjection(1..(i - 1), Early)
    BY DEF Surjection
  <2>3. IsFiniteSet(1..(i - 1)) /\ Cardinality(1..(i - 1)) = i - 1
    <3>1. i - 1 \in Nat
      BY <1>1
    <3>2. QED
      BY <3>1, IntervalSize
  <2>4. IsFiniteSet(Early) /\ Cardinality(Early) <= i - 1
    <3> HIDE DEF h, Early
    <3> QED
      BY <2>2, <2>3, FS_Surjection
  <2>5. Low \in SUBSET Early
    BY <2>1
  <2>6. Cardinality(Low) <= Cardinality(Early) /\ Cardinality(Early) \in Nat
    <3> HIDE DEF Low, Early
    <3> QED
      BY <2>4, <2>5, FS_Subset, FS_CardinalityType
  <2>7. QED
    BY <1>2, <2>4, <2>6
<1>5. QED
  BY <1>2, <1>3, <1>4
===============================================================================
