---------------------------- MODULE SetInduction ----------------------------
(***************************************************************************)
(* Induction with a set in the place of the predicate: what a finite walk  *)
(* or a sum along a cycle comes to is proved from these facts.             *)
(***************************************************************************)
EXTENDS Integers, FiniteSetTheorems, TLAPS

\* Among subsets of a finite set there is one that no other is strictly inside of.
LEMMA MinimalSubset ==
    ASSUME NEW S, IsFiniteSet(S), NEW F, F \in SUBSET (SUBSET S), F # {}
    PROVE  \E T \in F : \A U \in F : U \subseteq T => U = T
<1> DEFINE R == StrictSubsetOrdering(S)
<1>1. FiniteSubsetsOf(S) = SUBSET S
  BY FS_FiniteSubsetsOfFinite
<1>2. IsWellFoundedOn(R, SUBSET S)
  BY <1>1, FS_StrictSubsetOrderingWellFounded
<1>3. PICK T \in F : \A U \in F : ~ (<<U, T>> \in R)
  <2> HIDE DEF R
  <2> QED
    BY <1>2, WFMin
<1>4. \A U \in F : U \subseteq T /\ U # T => <<U, T>> \in R
  BY DEF StrictSubsetOrdering
<1>5. \A U \in F : U \subseteq T => U = T
  <2> HIDE DEF R
  <2> QED
    BY <1>3, <1>4, Zenon
<1> QED
  BY <1>5, Zenon

\* A set of natural numbers with an element has a smallest one.
LEMMA SmallestElement ==
    ASSUME NEW S \in SUBSET Nat, S # {}
    PROVE  \E m \in S : \A k \in S : m <= k
<1>1. PICK n \in S : TRUE
  OBVIOUS
<1> DEFINE B == {k \in S : k <= n}
           F == {0 .. k : k \in B}
           N == 0 .. n
<1>2. IsFiniteSet(N)
  BY FS_Interval
<1>3. F \in SUBSET (SUBSET N) /\ F # {}
  BY <1>1
<1>4. PICK T \in F : \A U \in F : U \subseteq T => U = T
  <2> HIDE DEF F, N
  <2> QED
    BY <1>2, <1>3, MinimalSubset
<1>5. PICK m \in B : T = 0 .. m
  BY <1>4
<1>6. ASSUME NEW k \in S, k < m PROVE FALSE
  <2>1. k \in B /\ 0 .. k \in F
    BY <1>1, <1>5, <1>6
  <2>2. 0 .. k \subseteq 0 .. m
    BY <1>5, <1>6, <2>1
  <2>3. 0 .. k = 0 .. m
    BY <1>4, <1>5, <2>1, <2>2
  <2>4. m \in 0 .. m /\ m \notin 0 .. k
    BY <1>5, <1>6, <2>1
  <2> QED
    BY <2>3, <2>4
<1>7. \A k \in S : k \in Int /\ m \in Int
  BY <1>5
<1> QED
  BY <1>5, <1>6, <1>7

\* Induction over the natural numbers.
LEMMA NatSetInduction ==
    ASSUME NEW S, 0 \in S, \A n \in Nat : n \in S => n + 1 \in S
    PROVE  Nat \subseteq S
<1> DEFINE T == {n \in Nat : n \notin S}
<1> SUFFICES ASSUME T # {} PROVE FALSE
  OBVIOUS
<1>1. PICK m \in T : \A k \in T : m <= k
  <2>1. T \in SUBSET Nat
    OBVIOUS
  <2> HIDE DEF T
  <2> QED
    BY <2>1, SmallestElement
<1>2. m \in Nat /\ m # 0 /\ m \notin S
  OBVIOUS
<1>3. m - 1 \in Nat /\ (m - 1) + 1 = m /\ ~(m <= m - 1)
  BY <1>2
<1>4. m - 1 \in S
  BY <1>1, <1>3
<1> QED
  BY <1>2, <1>3, <1>4

\* Induction over an interval from zero.
LEMMA IntervalInduction ==
    ASSUME NEW n \in Nat, NEW S, 0 \in S,
           \A i \in 0 .. n : i # n /\ i \in S => i + 1 \in S
    PROVE  0 .. n \subseteq S
<1> DEFINE T == {i \in Nat : i <= n => i \in S}
<1>1. 0 \in T
  OBVIOUS
<1>2. \A i \in Nat : i \in T => i + 1 \in T
  OBVIOUS
<1>3. Nat \subseteq T
  <2> HIDE DEF T
  <2> QED
    BY <1>1, <1>2, NatSetInduction
<1> QED
  BY <1>3

\* A finite set of natural numbers has a bound.
LEMMA FiniteBounded ==
    ASSUME NEW S, S \subseteq Nat, IsFiniteSet(S)
    PROVE  \E b \in Nat : \A k \in S : k <= b
<1> DEFINE Bounded(T) == \E b \in Nat : \A k \in T : k <= b
           F == {T \in SUBSET S : ~Bounded(T)}
<1> SUFFICES ASSUME ~Bounded(S) PROVE FALSE
  OBVIOUS
<1>1. PICK T \in F : \A U \in F : U \subseteq T => U = T
  <2>1. F \in SUBSET (SUBSET S) /\ F # {}
    OBVIOUS
  <2> DEFINE N == S
  <2>2. IsFiniteSet(N) /\ F \in SUBSET (SUBSET N) /\ F # {}
    BY <2>1
  <2> HIDE DEF F, Bounded, N
  <2> QED
    BY ONLY <2>2, MinimalSubset
<1>2. PICK k \in T : TRUE
  <2>1. CASE T = {}
    <3>1. 0 \in Nat /\ \A j \in T : j <= 0
      BY <2>1
    <3> QED
      BY <3>1
  <2> QED
    BY <2>1
<1>3. T \ {k} \notin F
  BY <1>1, <1>2
<1>4. PICK b \in Nat : \A j \in T \ {k} : j <= b
  BY <1>3
<1>5. k \in Nat /\ \A j \in T : j \in Nat
  BY <1>2
<1>6. \A j \in T : j <= b + k
  BY <1>4, <1>5
<1>7. b + k \in Nat
  BY <1>5
<1> QED
  BY <1>6, <1>7

\* f starts at a and goes on by the functions h[1], h[2], ..., h[n].
Iterates(f, n, a, h) == f[0] = a /\ \A i \in 1 .. n : f[i] = h[i][f[i - 1]]

\* There is such a function.
LEMMA Iteration ==
    ASSUME NEW n \in Nat, NEW X, NEW a \in X, NEW h \in [1 .. n -> [X -> X]]
    PROVE  \E f \in [0 .. n -> X] : Iterates(f, n, a, h)
<1> DEFINE Upto(k) == \E f \in [0 .. k -> X] :
                          f[0] = a /\ \A i \in 1 .. k : f[i] = h[i][f[i - 1]]
           S == {k \in 0 .. n : Upto(k)}
<1>1. 0 \in S
  <2>1. [i \in 0 .. 0 |-> a] \in [0 .. 0 -> X] /\ [i \in 0 .. 0 |-> a][0] = a
    OBVIOUS
  <2>2. \A i \in 1 .. 0 : FALSE
    OBVIOUS
  <2>3. Upto(0)
    BY <2>1, <2>2
  <2> QED
    BY <2>3
<1>2. ASSUME NEW k \in 0 .. n, k # n, k \in S PROVE k + 1 \in S
  <2>1. PICK f \in [0 .. k -> X] : f[0] = a /\ \A i \in 1 .. k : f[i] = h[i][f[i - 1]]
    BY <1>2
  <2> DEFINE g == [i \in 0 .. k + 1 |-> IF i = k + 1 THEN h[k + 1][f[k]] ELSE f[i]]
  <2>2. k + 1 \in 1 .. n /\ k \in 0 .. k /\ 0 # k + 1 /\ 0 \in 0 .. k + 1 /\ k \in Nat
    BY <1>2
  <2>3. h[k + 1][f[k]] \in X
    BY <2>1, <2>2
  <2>4. \A i \in 0 .. k + 1 : i # k + 1 => i \in 0 .. k
    BY <2>2
  <2>5. g \in [0 .. k + 1 -> X]
    BY <2>1, <2>3, <2>4
  <2>6. g[0] = a
    BY <2>1, <2>2
  <2>7. ASSUME NEW i \in 1 .. k + 1 PROVE g[i] = h[i][g[i - 1]]
    <3>1. i - 1 \in 0 .. k + 1 /\ i - 1 # k + 1 /\ i \in 0 .. k + 1
      BY <2>2
    <3>2. g[i - 1] = f[i - 1]
      BY <3>1
    <3>3. CASE i = k + 1
      <4>1. i - 1 = k
        BY <2>2, <3>3
      <4>2. g[i] = h[i][f[k]]
        BY <3>1, <3>3
      <4> QED
        BY <3>2, <4>1, <4>2
    <3>4. CASE i # k + 1
      <4>1. i \in 1 .. k
        BY <2>2, <3>4
      <4>2. g[i] = f[i]
        BY <3>1, <3>4
      <4> QED
        BY <2>1, <3>2, <4>1, <4>2
    <3> QED
      BY <3>3, <3>4
  <2>8. Upto(k + 1)
    <3> HIDE DEF g
    <3> QED
      BY <2>5, <2>6, <2>7
  <2> QED
    BY <2>2, <2>8
<1>3. 0 .. n \subseteq S
  <2> HIDE DEF S
  <2> QED
    BY <1>1, <1>2, IntervalInduction
<1>4. n \in 0 .. n
  OBVIOUS
<1> QED
  BY <1>3, <1>4 DEF Iterates
=============================================================================
