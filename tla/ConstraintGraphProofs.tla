------------------------ MODULE ConstraintGraphProofs ------------------------
(***************************************************************************)
(* Whatever the graph and the order of its edges, the search answers "no   *)
(* cycle" only when its distances solve the constraints, answers with a    *)
(* cycle only when the cycle is one of the graph and of negative weight,   *)
(* and always finds the predecessors that it expects.  So it decides       *)
(* whether the constraints have a solution in the rational numbers.        *)
(***************************************************************************)
EXTENDS ConstraintGraph, SetInduction

----------------------------------------------------------------------------
(* Weights *)

\* Weights are ordered as numbers are.
AtMost(a, b) == ~Less(b, a)

LEMMA WeightOrder ==
    ASSUME NEW a \in Weights, NEW b \in Weights, NEW c \in Weights
    PROVE  /\ ~Less(a, a)
           /\ Less(a, b) => AtMost(a, b)
           /\ AtMost(a, b) /\ AtMost(b, c) => AtMost(a, c)
           /\ Less(a, b) /\ AtMost(b, c) => Less(a, c)
           /\ AtMost(a, b) /\ Less(b, c) => Less(a, c)
<1>1. /\ a.c \in Int /\ b.c \in Int /\ c.c \in Int
      /\ a.k \in Nat /\ b.k \in Nat /\ c.k \in Nat
  BY DEF Weights
<1> QED
  BY <1>1 DEF AtMost, Less

LEMMA WeightSums ==
    ASSUME NEW a \in Weights, NEW b \in Weights, NEW c \in Weights
    PROVE  /\ Zero \in Weights
           /\ Plus(a, b) \in Weights
           /\ Plus(a, Zero) = a
           /\ Plus(a, Plus(b, c)) = Plus(Plus(a, b), c)
           /\ AtMost(a, b) => AtMost(Plus(a, c), Plus(b, c))
           /\ Less(a, b) => Less(Plus(a, c), Plus(b, c))
           /\ Less(Plus(a, b), a) => Less(b, Zero)
<1>1. PICK ac \in Int, ak \in Nat : a = [c |-> ac, k |-> ak]
  BY DEF Weights
<1>2. PICK bc \in Int, bk \in Nat : b = [c |-> bc, k |-> bk]
  BY DEF Weights
<1>3. PICK cc \in Int, ck \in Nat : c = [c |-> cc, k |-> ck]
  BY DEF Weights
<1>4. Zero \in Weights /\ Plus(a, b) \in Weights
  BY <1>1, <1>2 DEF Zero, Plus, Weights
<1>5. Plus(a, Zero) = a
  BY <1>1 DEF Plus, Zero
<1>6. Plus(a, Plus(b, c)) = Plus(Plus(a, b), c)
  BY <1>1, <1>2, <1>3 DEF Plus
<1>7. AtMost(a, b) => AtMost(Plus(a, c), Plus(b, c))
  BY <1>1, <1>2, <1>3 DEF Plus, AtMost, Less
<1>8. Less(a, b) => Less(Plus(a, c), Plus(b, c))
  BY <1>1, <1>2, <1>3 DEF Plus, Less
<1>9. Less(Plus(a, b), a) => Less(b, Zero)
  BY <1>1, <1>2 DEF Plus, Less, Zero
<1> QED
  BY <1>4, <1>5, <1>6, <1>7, <1>8, <1>9

----------------------------------------------------------------------------
(* Walks back along predecessors, and closed walks *)

\* The walk back from v is what it is defined to be.
LEMMA BackWalks ==
    ASSUME NEW p \in [Vertices -> Vertices \cup {None}], NEW v \in Vertices, NEW n \in Nat,
           NEW at, at = Back(p, v, n)
    PROVE  /\ at \in [0 .. n -> Vertices \cup {None}]
           /\ at[0] = v
           /\ \A i \in 1 .. n : at[i] = IF at[i - 1] = None THEN None ELSE p[at[i - 1]]
<1> DEFINE X == Vertices \cup {None}
           step == [u \in X |-> IF u = None THEN None ELSE p[u]]
           h == [i \in 1 .. n |-> step]
           Walks(f) == f = [i \in 0 .. n |->
                        IF i = 0 THEN v ELSE IF f[i - 1] = None THEN None ELSE p[f[i - 1]]]
<1>1. step \in [X -> X]
  OBVIOUS
<1>2. v \in X /\ h \in [1 .. n -> [X -> X]]
  BY <1>1
<1>3. PICK f \in [0 .. n -> X] : Iterates(f, n, v, h)
  <2> HIDE DEF X, h, step, Walks
  <2> QED
    BY <1>2, Iteration
<1>4. f[0] = v /\ \A i \in 1 .. n : f[i] = h[i][f[i - 1]]
  BY <1>3 DEF Iterates
<1>5. ASSUME NEW i \in 0 .. n
      PROVE  f[i] = IF i = 0 THEN v ELSE IF f[i - 1] = None THEN None ELSE p[f[i - 1]]
  <2>1. CASE i = 0
    BY <1>4, <2>1
  <2>2. CASE i # 0
    <3>1. i \in 1 .. n /\ i - 1 \in 0 .. n
      BY <2>2
    <3>2. h[i] = step /\ f[i - 1] \in X
      BY <1>3, <3>1
    <3> QED
      BY <1>4, <2>2, <3>1, <3>2
  <2> QED
    BY <2>1, <2>2
<1>6. Walks(f)
  BY <1>3, <1>5
<1>7. at = CHOOSE g : Walks(g)
  BY DEF Back
<1>8. Walks(at)
  <2> HIDE DEF Walks
  <2> QED
    BY <1>6, <1>7
<1>9. \A i \in 1 .. n : i \in 0 .. n /\ i # 0 /\ i - 1 \in 0 .. n
  OBVIOUS
<1>10. 0 \in 0 .. n
  OBVIOUS
<1>11. at[0] = v /\ \A i \in 1 .. n : at[i] = IF at[i - 1] = None THEN None ELSE p[at[i - 1]]
  BY <1>8, <1>9, <1>10
<1> DEFINE S == {i \in 0 .. n : at[i] \in X}
<1>12. 0 \in S
  BY <1>2, <1>10, <1>11
<1>13. ASSUME NEW i \in 0 .. n, i # n, i \in S PROVE i + 1 \in S
  <2>1. i + 1 \in 1 .. n /\ i + 1 \in 0 .. n /\ (i + 1) - 1 = i
    BY <1>13
  <2> QED
    BY <1>11, <1>13, <2>1
<1>14. 0 .. n \subseteq S
  <2> HIDE DEF S
  <2> QED
    BY <1>12, <1>13, IntervalInduction
<1>15. DOMAIN at = 0 .. n /\ at = [i \in 0 .. n |-> at[i]]
  BY <1>8
<1>16. at \in [0 .. n -> X]
  <2> HIDE DEF Walks, X
  <2> QED
    BY <1>14, <1>15
<1> QED
  BY <1>11, <1>16

\* The weight of a closed walk is the last of its partial sums.
LEMMA PartialSums ==
    ASSUME NEW g, NEW n \in Nat \ {0}, NEW s, Len(s) = n,
           \A i \in 1 .. n : g[<<s[i], s[Following(s, i)]>>] \in Weights
    PROVE  \E sum \in [0 .. n -> Weights] :
              /\ sum[0] = Zero
              /\ \A i \in 1 .. n :
                    sum[i] = Plus(sum[i - 1], g[<<s[i], s[Following(s, i)]>>])
              /\ sum[n] = WeightOf(g, s)
<1> DEFINE w == [i \in 1 .. n |-> g[<<s[i], s[Following(s, i)]>>]]
           h == [i \in 1 .. n |-> [a \in Weights |-> Plus(a, w[i])]]
           Sums(f) == f = [i \in 0 .. n |-> IF i = 0 THEN Zero
                                ELSE Plus(f[i - 1], g[<<s[i], s[Following(s, i)]>>])]
<1>1. \A i \in 1 .. n : w[i] \in Weights
  OBVIOUS
<1>2. \A a, b \in Weights : Plus(a, b) \in Weights
  BY WeightSums
<1>3. Zero \in Weights
  BY DEF Zero, Weights
<1>4. h \in [1 .. n -> [Weights -> Weights]]
  <2> HIDE DEF w
  <2> QED
    BY <1>1, <1>2
<1>5. PICK f \in [0 .. n -> Weights] : Iterates(f, n, Zero, h)
  <2> HIDE DEF h, w, Sums
  <2> QED
    BY <1>3, <1>4, Iteration
<1>6. f[0] = Zero /\ \A i \in 1 .. n : f[i] = h[i][f[i - 1]]
  BY <1>5 DEF Iterates
<1>7. ASSUME NEW i \in 1 .. n
      PROVE  f[i] = Plus(f[i - 1], g[<<s[i], s[Following(s, i)]>>])
  <2>1. i - 1 \in 0 .. n
    OBVIOUS
  <2>2. f[i - 1] \in Weights
    BY <1>5, <2>1
  <2>3. h[i] = [a \in Weights |-> Plus(a, w[i])]
    OBVIOUS
  <2>4. h[i][f[i - 1]] = Plus(f[i - 1], w[i])
    BY <2>2, <2>3
  <2>5. w[i] = g[<<s[i], s[Following(s, i)]>>]
    OBVIOUS
  <2> QED
    BY <1>6, <2>4, <2>5
<1>8. Sums(f)
  <2>1. f = [i \in 0 .. n |-> f[i]]
    BY <1>5
  <2>2. \A i \in 0 .. n : f[i] = IF i = 0 THEN Zero
                                 ELSE Plus(f[i - 1], g[<<s[i], s[Following(s, i)]>>])
    BY <1>6, <1>7
  <2> QED
    BY <2>1, <2>2
<1>9. WeightOf(g, s) = (CHOOSE sum : Sums(sum))[n]
  BY DEF WeightOf
<1> DEFINE total == CHOOSE sum : Sums(sum)
<1>10. Sums(total)
  <2> HIDE DEF Sums
  <2> QED
    BY <1>8
<1> DEFINE S == {i \in 0 .. n : total[i] = f[i]}
<1>11. total[0] = Zero /\ \A i \in 1 .. n :
          total[i] = Plus(total[i - 1], g[<<s[i], s[Following(s, i)]>>])
  <2> HIDE DEF total
  <2>1. 0 \in 0 .. n /\ \A i \in 1 .. n : i \in 0 .. n /\ i # 0
    OBVIOUS
  <2> QED
    BY <1>10, <2>1
<1>12. 0 \in S
  BY <1>6, <1>11
<1>13. ASSUME NEW i \in 0 .. n, i # n, i \in S PROVE i + 1 \in S
  <2> HIDE DEF total
  <2>1. i + 1 \in 1 .. n /\ i + 1 \in 0 .. n /\ (i + 1) - 1 = i
    BY <1>13
  <2> QED
    BY <1>7, <1>11, <1>13, <2>1
<1>14. 0 .. n \subseteq S
  <2> HIDE DEF S
  <2> QED
    BY <1>12, <1>13, IntervalInduction
<1>15. n \in 0 .. n
  OBVIOUS
<1>16. WeightOf(g, s) = f[n]
  <2> HIDE DEF Sums
  <2> QED
    BY <1>9, <1>14, <1>15
<1> QED
  BY <1>5, <1>6, <1>7, <1>16

\* Along each edge from u to v of a closed walk, d[u] and the weight of the edge make at
\* most d[v], and less than d[v] somewhere: then the walk has a negative weight.
LEMMA NegativeWalk ==
    ASSUME NEW g, NEW d \in [Vertices -> Weights],
           NEW n \in Nat \ {0}, NEW s \in [1 .. n -> Vertices], Len(s) = n,
           \A i \in 1 .. n :
              /\ g[<<s[i], s[Following(s, i)]>>] \in Weights
              /\ AtMost(Plus(d[s[i]], g[<<s[i], s[Following(s, i)]>>]), d[s[Following(s, i)]]),
           NEW j \in 1 .. n,
           Less(Plus(d[s[j]], g[<<s[j], s[Following(s, j)]>>]), d[s[Following(s, j)]])
    PROVE  Less(WeightOf(g, s), Zero)
<1> DEFINE w(i) == g[<<s[i], s[Following(s, i)]>>]
           first == d[s[1]]
           reached(i) == d[s[IF i = n THEN 1 ELSE i + 1]]
<1>1. PICK sum \in [0 .. n -> Weights] :
        sum[0] = Zero /\ (\A i \in 1 .. n : sum[i] = Plus(sum[i - 1], w(i)))
        /\ sum[n] = WeightOf(g, s)
  BY PartialSums
<1>2. \A i \in 1 .. n : Following(s, i) = IF i = n THEN 1 ELSE i + 1
  BY DEF Following
<1>3. \A i \in 0 .. n : reached(i) \in Weights
  OBVIOUS
<1>4. first \in Weights
  OBVIOUS
<1> DEFINE S == {i \in 0 .. n : /\ AtMost(Plus(first, sum[i]), reached(i))
                                /\ i >= j => Less(Plus(first, sum[i]), reached(i))}
<1>5. 0 \in S
  <2>1. reached(0) = first /\ 0 \in 0 .. n /\ ~(0 >= j)
    OBVIOUS
  <2>2. AtMost(Plus(first, Zero), first)
    BY <1>4, WeightSums, WeightOrder DEF AtMost
  <2> QED
    BY <1>1, <2>1, <2>2
<1>6. ASSUME NEW i \in 0 .. n, i # n, i \in S PROVE i + 1 \in S
  <2> DEFINE m == i + 1
  <2>1. m \in 1 .. n /\ m \in 0 .. n /\ m - 1 = i
    BY <1>6
  <2>2. sum[m] = Plus(sum[i], w(m)) /\ sum[i] \in Weights /\ sum[m] \in Weights
    BY <1>1, <2>1
  <2>3. w(m) \in Weights
    BY <2>1
  <2>4. d[s[m]] = reached(i)
    BY <1>6, <2>1
  <2>5. d[s[Following(s, m)]] = reached(m)
    BY <1>2, <2>1
  <2>6. AtMost(Plus(reached(i), w(m)), reached(m))
    BY <2>1, <2>4, <2>5
  <2>7. m = j => Less(Plus(reached(i), w(m)), reached(m))
    BY <2>1, <2>4, <2>5
  <2>8. reached(i) \in Weights /\ reached(m) \in Weights
    BY <1>3, <2>1
  <2>9. /\ AtMost(Plus(first, sum[i]), reached(i))
        /\ i >= j => Less(Plus(first, sum[i]), reached(i))
    BY <1>6
  <2>10. m >= j => (i >= j \/ m = j)
    BY <1>6
  <2> HIDE DEF first, reached, w, m
  <2>11. Plus(first, sum[m]) = Plus(Plus(first, sum[i]), w(m))
    BY <1>4, <2>2, <2>3, WeightSums
  <2>12. Plus(first, sum[i]) \in Weights
    BY <1>4, <2>2, WeightSums
  <2>13. AtMost(Plus(Plus(first, sum[i]), w(m)), Plus(reached(i), w(m)))
    BY <2>3, <2>8, <2>9, <2>12, WeightSums
  <2>14. i >= j => Less(Plus(Plus(first, sum[i]), w(m)), Plus(reached(i), w(m)))
    BY <2>3, <2>8, <2>9, <2>12, WeightSums
  <2>15. /\ Plus(Plus(first, sum[i]), w(m)) \in Weights
         /\ Plus(reached(i), w(m)) \in Weights
    BY <2>3, <2>8, <2>12, WeightSums
  <2>16. AtMost(Plus(first, sum[m]), reached(m))
    BY <2>6, <2>8, <2>11, <2>13, <2>15, WeightOrder
  <2>17. m >= j => Less(Plus(first, sum[m]), reached(m))
    BY <2>6, <2>7, <2>8, <2>10, <2>11, <2>13, <2>14, <2>15, WeightOrder
  <2>18. m \in S
    BY <2>1, <2>16, <2>17
  <2> QED
    BY <2>18 DEF m
<1>7. 0 .. n \subseteq S
  <2> HIDE DEF S
  <2> QED
    BY <1>5, <1>6, IntervalInduction
<1>8. n \in 0 .. n /\ n >= j
  OBVIOUS
<1>9. Less(Plus(first, sum[n]), first)
  <2>1. reached(n) = first
    OBVIOUS
  <2> QED
    BY <1>7, <1>8, <2>1
<1>10. sum[n] \in Weights
  BY <1>1, <1>8
<1>11. Less(sum[n], Zero)
  <2> HIDE DEF first, S, reached, w
  <2> QED
    BY <1>4, <1>9, <1>10, WeightSums
<1> QED
  BY <1>1, <1>11

VertexSet == {e[1] : e \in DOMAIN edges} \cup {e[2] : e \in DOMAIN edges}

\* A finite graph has finitely many vertices.
LEMMA VerticesFinite ==
    ASSUME IsFiniteSet(DOMAIN edges)
    PROVE  IsFiniteSet(VertexSet) /\ VertexCount = Cardinality(VertexSet) /\ VertexCount \in Nat
<1> DEFINE E == DOMAIN edges
           A == {e[1] : e \in E}
           B == {e[2] : e \in E}
           f == [e \in E |-> e[1]]
           h == [e \in E |-> e[2]]
<1>1. f \in Surjection(E, A) /\ h \in Surjection(E, B)
  BY DEF Surjection
<1>2. IsFiniteSet(A) /\ IsFiniteSet(B)
  <2> HIDE DEF A, B, f, h
  <2> QED
    BY <1>1, FS_Surjection
<1>3. IsFiniteSet(A \cup B)
  <2> HIDE DEF A, B
  <2> QED
    BY <1>2, FS_Union
<1>4. VertexSet = A \cup B
  BY DEF VertexSet
<1> QED
  BY <1>3, <1>4, FS_CardinalityType DEF VertexCount, VertexSet

\* Two walks back from the same vertex agree as far as both go.
LEMMA BackAgrees ==
    ASSUME NEW p \in [Vertices -> Vertices \cup {None}], NEW v \in Vertices,
           NEW m \in Nat, NEW n \in Nat, m <= n, NEW i \in 0 .. m
    PROVE  Back(p, v, m)[i] = Back(p, v, n)[i]
<1> DEFINE a == Back(p, v, m)
           b == Back(p, v, n)
           S == {k \in 0 .. m : a[k] = b[k]}
<1>1. a[0] = v /\ \A k \in 1 .. m : a[k] = IF a[k - 1] = None THEN None ELSE p[a[k - 1]]
  BY BackWalks
<1>2. b[0] = v /\ \A k \in 1 .. n : b[k] = IF b[k - 1] = None THEN None ELSE p[b[k - 1]]
  BY BackWalks
<1> HIDE DEF a, b
<1>3. 0 \in S
  BY <1>1, <1>2
<1>4. ASSUME NEW k \in 0 .. m, k # m, k \in S PROVE k + 1 \in S
  <2>1. k + 1 \in 1 .. m /\ k + 1 \in 1 .. n /\ k + 1 \in 0 .. m /\ (k + 1) - 1 = k
    BY <1>4
  <2> QED
    BY <1>1, <1>2, <1>4, <2>1
<1>5. 0 .. m \subseteq S
  <2> HIDE DEF S
  <2> QED
    BY <1>3, <1>4, IntervalInduction
<1> QED
  BY <1>5 DEF a, b

\* s leads along n predecessors back to where it starts.
ClosedWalk(p, n, s) ==
    /\ s \in [1 .. n -> Vertices] /\ Len(s) = n
    /\ \A i \in 1 .. n : p[s[Following(s, i)]] = s[i]

\* If the predecessors do not run out, they lead round a cycle.
LEMMA CycleFound ==
    ASSUME IsFiniteSet(VertexSet), VertexCount \in Nat, VertexCount = Cardinality(VertexSet),
           VertexSet \subseteq Vertices,
           NEW p \in [Vertices -> Vertices \cup {None}], NEW v \in VertexSet,
           \A u \in Vertices : p[u] # None => p[u] \in VertexSet,
           ~LeadsToNone(p, v), NEW c, c = CycleFrom(p, v)
    PROVE  \E n \in Nat \ {0} : ClosedWalk(p, n, c)
<1>0. PICK N \in Nat : N = VertexCount /\ N = Cardinality(VertexSet)
  OBVIOUS
<1> DEFINE at == Back(p, v, 2 * N)
<1>1. v \in Vertices /\ 2 * N \in Nat /\ N <= 2 * N
  OBVIOUS
<1>2. /\ at \in [0 .. 2 * N -> Vertices \cup {None}]
      /\ at[0] = v
      /\ \A i \in 1 .. 2 * N : at[i] = IF at[i - 1] = None THEN None ELSE p[at[i - 1]]
  BY <1>1, BackWalks
<1>3. \A i \in 0 .. N : at[i] # None
  <2> SUFFICES ASSUME NEW i \in 0 .. N PROVE at[i] # None
    OBVIOUS
  <2>1. at[i] = Back(p, v, N)[i]
    BY <1>1, BackAgrees
  <2>2. DOMAIN Back(p, v, N) = 0 .. N
    <3>1. Back(p, v, N) \in [0 .. N -> Vertices \cup {None}]
      BY <1>1, BackWalks
    <3> QED
      BY <3>1
  <2> QED
    BY <1>0, <2>1, <2>2 DEF LeadsToNone
<1>4. c = [i \in 1 .. Lap(at) |-> at[FirstAgain(at) + Lap(at) - i]]
  BY <1>0 DEF CycleFrom
<1> HIDE DEF at
<1>5. \A i \in 0 .. N : at[i] \in VertexSet
  <2> SUFFICES ASSUME NEW i \in 0 .. N PROVE at[i] \in VertexSet
    OBVIOUS
  <2>1. CASE i = 0
    BY <1>2, <2>1
  <2>2. CASE i # 0
    <3>1. i \in 1 .. 2 * N /\ i - 1 \in 0 .. N /\ i - 1 \in 0 .. 2 * N
      BY <1>1, <2>2
    <3>2. at[i - 1] # None /\ at[i - 1] \in Vertices /\ at[i] # None
      BY <1>2, <1>3, <3>1
    <3> QED
      BY <1>2, <3>1, <3>2
  <2> QED
    BY <2>1, <2>2
<1>6. \E m \in 1 .. N : MetBefore(at, m)
  <2> DEFINE I == 0 .. N
             f == [i \in I |-> at[i]]
  <2>1. IsFiniteSet(I) /\ Cardinality(I) = N + 1
    <3>1. 0 \in Int /\ N \in Int /\ ~(0 > N) /\ (N - 0) + 1 = N + 1
      BY <1>0
    <3> QED
      BY <3>1, FS_Interval
  <2>2. f \in [I -> VertexSet]
    BY <1>5
  <2>3. \E x, y \in I : x # y /\ f[x] = f[y]
    <3> HIDE DEF f, I
    <3>1. Cardinality(VertexSet) < Cardinality(I)
      BY <1>0, <2>1
    <3> QED
      BY <2>1, <2>2, <3>1, FS_PigeonHole
  <2>4. PICK x \in I, y \in I : x # y /\ at[x] = at[y]
    BY <2>3
  <2>5. CASE x < y
    <3>1. y \in 1 .. N /\ x \in 0 .. y - 1
      BY <2>5
    <3> QED
      BY <2>4, <3>1 DEF MetBefore
  <2>6. CASE y < x
    <3>1. x \in 1 .. N /\ y \in 0 .. x - 1
      BY <2>6
    <3> QED
      BY <2>4, <3>1 DEF MetBefore
  <2> QED
    BY <2>4, <2>5, <2>6
<1>7. \E m \in 1 .. N : MetBefore(at, m) /\ \A l \in 1 .. m - 1 : ~MetBefore(at, l)
  <2> DEFINE S == {m \in 1 .. N : MetBefore(at, m)}
  <2>1. S \in SUBSET Nat /\ S # {}
    BY <1>6
  <2>2. PICK m \in S : \A k \in S : m <= k
    <3> HIDE DEF S
    <3> QED
      BY <2>1, SmallestElement
  <2>3. \A l \in 1 .. m - 1 : l \in 1 .. N /\ ~(m <= l)
    BY <2>2
  <2> QED
    BY <2>2, <2>3
<1> DEFINE st == FirstAgain(at)
           n == Lap(at)
<1>8. st \in 1 .. N /\ MetBefore(at, st)
  BY <1>0, <1>7 DEF FirstAgain
<1> HIDE DEF st
<1>9. n \in 1 .. st /\ at[st - n] = at[st]
  <2>1. PICK j \in 0 .. st - 1 : at[j] = at[st]
    BY <1>8 DEF MetBefore
  <2>2. st - j \in 1 .. st /\ st - (st - j) = j
    BY <1>8
  <2>3. \E k \in 1 .. st : at[st - k] = at[st]
    BY <2>1, <2>2
  <2>4. n = CHOOSE k \in 1 .. st : at[st - k] = at[st]
    BY DEF Lap, st
  <2> QED
    BY <2>3, <2>4
<1> HIDE DEF n
<1>10. /\ st \in Nat /\ n \in Nat /\ n >= 1 /\ n <= st /\ st <= N
  BY <1>8, <1>9
<1>11. \A k \in 0 .. n : at[st + k] = at[st - n + k]
  <2> DEFINE S == {k \in 0 .. n : at[st + k] = at[st - n + k]}
  <2>1. 0 \in S
    BY <1>9, <1>10
  <2>2. ASSUME NEW k \in 0 .. n, k # n, k \in S PROVE k + 1 \in S
    <3>1. /\ st + (k + 1) \in 1 .. 2 * N /\ (st + (k + 1)) - 1 = st + k
          /\ st - n + (k + 1) \in 1 .. 2 * N /\ (st - n + (k + 1)) - 1 = st - n + k
          /\ k + 1 \in 0 .. n
      BY <1>10, <2>2
    <3>2. at[st + (k + 1)] = IF at[st + k] = None THEN None ELSE p[at[st + k]]
      BY <1>2, <3>1
    <3>3. at[st - n + (k + 1)] = IF at[st - n + k] = None THEN None ELSE p[at[st - n + k]]
      BY <1>2, <3>1
    <3> QED
      BY <2>2, <3>1, <3>2, <3>3
  <2>3. 0 .. n \subseteq S
    <3> HIDE DEF S
    <3> QED
      BY <1>10, <2>1, <2>2, IntervalInduction
  <2> QED
    BY <2>3
<1>12. \A i \in 1 .. n : c[i] = at[st + n - i]
  BY <1>4 DEF st, n
<1>13. ASSUME NEW k \in 0 .. n PROVE at[st + k] \in Vertices
  <2>1. st - n + k \in 0 .. N
    BY <1>10
  <2> QED
    BY <1>5, <1>11, <2>1
<1>14. \A i \in 1 .. n : n - i \in 0 .. n /\ st + n - i = st + (n - i)
  BY <1>10
<1>15. c = [i \in 1 .. n |-> c[i]]
  BY <1>4 DEF n
<1>16. c \in [1 .. n -> Vertices]
  BY <1>12, <1>13, <1>14, <1>15
<1>17. Len(c) = n
  BY <1>10, <1>15
<1>18. ASSUME NEW k \in 0 .. n, k # n PROVE p[at[st + k]] = at[st + (k + 1)]
  <2>1. st + (k + 1) \in 1 .. 2 * N /\ (st + (k + 1)) - 1 = st + k
    BY <1>10, <1>18
  <2>2. at[st + k] # None
    BY <1>13, VertexAssumption
  <2> QED
    BY <1>2, <2>1, <2>2
<1>19. ASSUME NEW i \in 1 .. n PROVE p[c[Following(c, i)]] = c[i]
  <2>1. CASE i = n
    <3>1. Following(c, i) = 1 /\ 1 \in 1 .. n
      BY <1>10, <1>17, <2>1 DEF Following
    <3>2. c[1] = at[st + (n - 1)] /\ n - 1 \in 0 .. n /\ n - 1 # n /\ (n - 1) + 1 = n
      BY <1>10, <1>12, <1>14, <3>1
    <3>3. p[c[1]] = at[st + n]
      BY <1>18, <3>2
    <3>4. at[st + n] = at[st - n + n] /\ st - n + n = st
      BY <1>10, <1>11
    <3>5. c[n] = at[st + (n - n)] /\ st + (n - n) = st
      BY <1>10, <1>12, <1>14
    <3> QED
      BY <2>1, <3>1, <3>3, <3>4, <3>5
  <2>2. CASE i # n
    <3>1. Following(c, i) = i + 1 /\ i + 1 \in 1 .. n
      BY <1>10, <1>17, <2>2 DEF Following
    <3>2. /\ c[i + 1] = at[st + (n - (i + 1))]
          /\ n - (i + 1) \in 0 .. n /\ n - (i + 1) # n /\ (n - (i + 1)) + 1 = n - i
      BY <1>10, <1>12, <1>14, <2>2, <3>1
    <3>3. p[c[i + 1]] = at[st + (n - i)]
      BY <1>18, <3>2
    <3> QED
      BY <1>12, <1>14, <3>1, <3>3
  <2> QED
    BY <2>1, <2>2
<1> QED
  BY <1>10, <1>16, <1>17, <1>19 DEF ClosedWalk

----------------------------------------------------------------------------
(* The invariant *)

\* As long as nothing changes in a pass, the edges it has seen hold.
Searching == phase \in {"relax", "check"}
SeenHold == Searching /\ ~updated => \A e \in DOMAIN edges \ pending : Holds(e)

\* Step 3 changes no distance, and comes after as many passes as a path has edges.
CheckStill == phase = "check" => ~updated
RoundsEnough == round >= 1 /\ (phase = "check" => round >= VertexCount)

\* An edge from a predecessor is in the graph, and the distances solve the constraint
\* against it, at best with equality: the predecessor's distance may have become
\* smaller since.
Tight(p) ==
    \A v \in Vertices : p[v] # None =>
        /\ <<p[v], v>> \in DOMAIN edges
        /\ AtMost(Plus(dist[p[v]], edges[<<p[v], v>>]), dist[v])
PredTight == Searching => Tight(pred)

\* A distance that never changed is zero.
Unset == Searching => \A v \in Vertices : pred[v] = None => dist[v] = Zero

\* The predecessors never close a cycle whose weight is not negative.
ClosedNegative(p) ==
    \A n \in Nat \ {0} : \A s : ClosedWalk(p, n, s) => Less(WeightOf(edges, s), Zero)
PredNegative == Searching => ClosedNegative(pred)

\* A path x of m edges, whose weight up to each of its vertices is at most f.
Path(x, f, m) ==
    /\ \A i \in 0 .. m : x[i] \in Vertices /\ f[i] \in Weights
    /\ AtMost(Zero, f[0])
    /\ \A i \in 1 .. m :
          /\ <<x[i - 1], x[i]>> \in DOMAIN edges
          /\ AtMost(Plus(f[i - 1], edges[<<x[i - 1], x[i]>>]), f[i])

\* The passes have got ahead of every path that is shorter than their number, and of
\* those of their number whose last edge this pass has seen.
Covered(x, m) ==
    \/ m < round
    \/ phase = "relax" /\ m = round /\ <<x[m - 1], x[m]>> \notin pending
PathsBounded ==
    Searching => \A m \in Nat : \A x, f :
        Path(x, f, m) /\ Covered(x, m) => AtMost(dist[x[m]], f[m])

Inv ==
    /\ TypeOK /\ SeenHold /\ CheckStill /\ RoundsEnough
    /\ PredTight /\ Unset /\ PredNegative /\ PathsBounded
    /\ NoCycleSolved /\ CycleNegative /\ NeverPanics

\* What the assumption says of the graph in hand.
LEMMA GraphTyped ==
    ASSUME TypeOK
    PROVE  /\ DOMAIN edges \subseteq Pairs
           /\ edges \in [DOMAIN edges -> Weights]
           /\ IsFiniteSet(DOMAIN edges)
           /\ VertexSet \subseteq Vertices
           /\ \A e \in DOMAIN edges :
                 /\ e = <<e[1], e[2]>> /\ e[1] \in Vertices /\ e[2] \in Vertices
                 /\ edges[e] \in Weights
<1>1. /\ DOMAIN edges \subseteq Pairs
      /\ edges \in [DOMAIN edges -> Weights]
      /\ IsFiniteSet(DOMAIN edges)
  BY GraphAssumption DEF TypeOK
<1>2. \A e \in DOMAIN edges : e = <<e[1], e[2]>> /\ e[1] \in Vertices /\ e[2] \in Vertices
  BY <1>1 DEF Pairs
<1> QED
  BY <1>1, <1>2 DEF VertexSet

\* The sum of two weights is a weight, and an edge does not improve a distance just
\* when its constraint holds.
LEMMA ImprovesOrHolds ==
    ASSUME TypeOK, NEW e \in DOMAIN edges
    PROVE  /\ e[1] \in Vertices /\ e[2] \in Vertices
           /\ Through(e) \in Weights
           /\ ~Improves(e) <=> Holds(e)
<1>1. e[1] \in Vertices /\ e[2] \in Vertices
  BY GraphTyped
<1>2. PICK f \in Weights, t \in Weights, w \in Weights :
        f = dist[e[1]] /\ t = dist[e[2]] /\ w = edges[e]
  BY <1>1, GraphTyped DEF TypeOK
<1>3. /\ f.c \in Int /\ t.c \in Int /\ w.c \in Int
      /\ f.k \in Nat /\ t.k \in Nat /\ w.k \in Nat
  BY DEF Weights
<1>4. Through(e) = [c |-> f.c + w.c, k |-> f.k + w.k]
  BY <1>2 DEF Through, Plus
<1>5. Through(e) \in Weights
  BY <1>3, <1>4 DEF Weights
<1>6. Improves(e) <=> (f.c + w.c < t.c \/ (f.c + w.c = t.c /\ f.k + w.k > t.k))
  BY <1>2, <1>4 DEF Improves, Less
<1>7. Holds(e) <=> (t.c < f.c + w.c \/ (t.c = f.c + w.c /\ t.k >= f.k + w.k))
  BY <1>2 DEF Holds
<1> QED
  BY <1>1, <1>3, <1>5, <1>6, <1>7

\* The predecessors p after e was found to improve a distance: they still are tight
\* against the distances before, and close only cycles of negative weight.
Improved(p, e) ==
    /\ p \in [Vertices -> Vertices \cup {None}]
    /\ p[e[2]] = e[1] /\ e[1] # None
    /\ \A v \in Vertices : v # e[2] => p[v] = pred[v]
    /\ Tight(p)
    /\ ClosedNegative(p)

\* So they are, because the new edge is strictly better.
LEMMA ImprovedPredecessors ==
    ASSUME TypeOK, Tight(pred), ClosedNegative(pred),
           NEW e \in DOMAIN edges, Improves(e),
           NEW p, p = [pred EXCEPT ![e[2]] = e[1]]
    PROVE  Improved(p, e)
<1>1. e = <<e[1], e[2]>> /\ e[1] \in Vertices /\ e[2] \in Vertices /\ edges[e] \in Weights
  BY GraphTyped
<1>2. /\ p \in [Vertices -> Vertices \cup {None}]
      /\ p[e[2]] = e[1]
      /\ \A v \in Vertices : v # e[2] => p[v] = pred[v]
  BY <1>1 DEF TypeOK
<1>3. e[1] # None
  BY <1>1, VertexAssumption
<1>4. Less(Plus(dist[e[1]], edges[<<e[1], e[2]>>]), dist[e[2]])
  BY <1>1 DEF Improves, Through
<1>5. /\ \A v \in Vertices : dist[v] \in Weights
      /\ Through(e) \in Weights
      /\ Through(e) = Plus(dist[e[1]], edges[<<e[1], e[2]>>])
  BY <1>1, ImprovesOrHolds DEF TypeOK, Through
<1>6. AtMost(Plus(dist[e[1]], edges[<<e[1], e[2]>>]), dist[e[2]])
  BY <1>1, <1>4, <1>5, WeightOrder
<1>7. Tight(p)
  <2> SUFFICES ASSUME NEW v \in Vertices, p[v] # None
               PROVE  /\ <<p[v], v>> \in DOMAIN edges
                      /\ AtMost(Plus(dist[p[v]], edges[<<p[v], v>>]), dist[v])
    BY DEF Tight
  <2>1. CASE v = e[2]
    <3>1. <<p[v], v>> = e
      BY <1>1, <1>2, <2>1
    <3> QED
      BY <1>2, <1>6, <2>1, <3>1
  <2>2. CASE v # e[2]
    BY <1>2, <2>2 DEF Tight
  <2> QED
    BY <2>1, <2>2
<1>8. ClosedNegative(p)
  <2> SUFFICES ASSUME NEW n \in Nat \ {0}, NEW s, ClosedWalk(p, n, s)
               PROVE  Less(WeightOf(edges, s), Zero)
    BY DEF ClosedNegative
  <2>1. /\ s \in [1 .. n -> Vertices] /\ Len(s) = n
        /\ \A i \in 1 .. n : p[s[Following(s, i)]] = s[i]
    BY DEF ClosedWalk
  <2>2. \A i \in 1 .. n : Following(s, i) \in 1 .. n
    BY <2>1 DEF Following
  <2>3. \A i \in 1 .. n : s[i] \in Vertices /\ s[Following(s, i)] \in Vertices
    BY <2>1, <2>2
  <2>4. \A i \in 1 .. n :
           /\ <<s[i], s[Following(s, i)]>> \in DOMAIN edges
           /\ AtMost(Plus(dist[s[i]], edges[<<s[i], s[Following(s, i)]>>]),
                     dist[s[Following(s, i)]])
    <3> SUFFICES ASSUME NEW i \in 1 .. n
                 PROVE  /\ <<s[i], s[Following(s, i)]>> \in DOMAIN edges
                        /\ AtMost(Plus(dist[s[i]], edges[<<s[i], s[Following(s, i)]>>]),
                                  dist[s[Following(s, i)]])
      OBVIOUS
    <3>1. p[s[Following(s, i)]] = s[i] /\ s[i] # None
      BY <2>1, <2>3, VertexAssumption
    <3> QED
      BY <1>7, <2>3, <3>1 DEF Tight
  <2>5. \A i \in 1 .. n : edges[<<s[i], s[Following(s, i)]>>] \in Weights
    BY <2>4, GraphTyped
  <2>6. CASE \E j \in 1 .. n : s[Following(s, j)] = e[2]
    <3>1. PICK j \in 1 .. n : s[Following(s, j)] = e[2]
      BY <2>6
    <3>2. s[j] = e[1]
      BY <1>2, <2>1, <3>1
    <3>3. Less(Plus(dist[s[j]], edges[<<s[j], s[Following(s, j)]>>]),
               dist[s[Following(s, j)]])
      BY <1>4, <3>1, <3>2
    <3>4. dist \in [Vertices -> Weights]
      BY DEF TypeOK
    <3> QED
      BY <2>1, <2>4, <2>5, <3>3, <3>4, NegativeWalk
  <2>7. CASE \A i \in 1 .. n : s[Following(s, i)] # e[2]
    <3>1. \A i \in 1 .. n : pred[s[Following(s, i)]] = s[i]
      BY <1>2, <2>1, <2>3, <2>7
    <3>2. ClosedWalk(pred, n, s)
      BY <2>1, <3>1 DEF ClosedWalk
    <3> QED
      BY <3>2 DEF ClosedNegative
  <2> QED
    BY <2>6, <2>7
<1> QED
  BY <1>2, <1>3, <1>7, <1>8 DEF Improved

\* The last edge of a path gets no further than the path's bound when the passes are
\* ahead of the rest of the path.
LEMMA LastEdge ==
    ASSUME TypeOK, Searching, PathsBounded, NEW m \in Nat \ {0}, m <= round, NEW x, NEW f,
           Path(x, f, m)
    PROVE  /\ <<x[m - 1], x[m]>> \in DOMAIN edges
           /\ f[m] \in Weights
           /\ AtMost(Through(<<x[m - 1], x[m]>>), f[m])
<1> DEFINE e == <<x[m - 1], x[m]>>
<1>1. m - 1 \in Nat /\ m - 1 \in 0 .. m /\ m \in 0 .. m /\ m \in 1 .. m /\ round \in Nat
  BY DEF TypeOK
<1>2. /\ e \in DOMAIN edges
      /\ x[m - 1] \in Vertices /\ f[m - 1] \in Weights /\ f[m] \in Weights
      /\ AtMost(Plus(f[m - 1], edges[e]), f[m])
  BY <1>1 DEF Path
<1>3. Path(x, f, m - 1) /\ Covered(x, m - 1)
  <2>1. \A i \in 0 .. m - 1 : i \in 0 .. m
    OBVIOUS
  <2>2. \A i \in 1 .. m - 1 : i \in 1 .. m
    OBVIOUS
  <2> QED
    BY <1>1, <2>1, <2>2 DEF Path, Covered
<1>4. AtMost(dist[x[m - 1]], f[m - 1])
  BY <1>1, <1>3 DEF PathsBounded
<1>5. edges[e] \in Weights /\ dist[x[m - 1]] \in Weights
  BY <1>2, GraphTyped DEF TypeOK
<1>6. Through(e) = Plus(dist[x[m - 1]], edges[e])
  BY DEF Through
<1> HIDE DEF e
<1>7. AtMost(Plus(dist[x[m - 1]], edges[e]), Plus(f[m - 1], edges[e]))
  BY <1>2, <1>4, <1>5, WeightSums
<1>8. /\ Plus(dist[x[m - 1]], edges[e]) \in Weights
      /\ Plus(f[m - 1], edges[e]) \in Weights
  BY <1>2, <1>5, WeightSums
<1> QED
  BY <1>2, <1>6, <1>7, <1>8, WeightOrder DEF e

\* When an edge still improves a distance in Step 3, the predecessors do not run out:
\* they would do so along a path with fewer edges than there were passes.
LEMMA PredecessorsLast ==
    ASSUME Inv, phase = "check", NEW e \in DOMAIN edges, Improves(e),
           NEW p, Improved(p, e)
    PROVE  ~LeadsToNone(p, e[2])
<1> SUFFICES ASSUME LeadsToNone(p, e[2]) PROVE FALSE
  OBVIOUS
<1>1. TypeOK /\ Searching /\ Tight(pred) /\ ClosedNegative(pred)
  BY DEF Inv, Searching, PredTight, PredNegative
<1>2. e = <<e[1], e[2]>> /\ e[1] \in Vertices /\ e[2] \in Vertices
  BY <1>1, GraphTyped
<1>3. /\ p \in [Vertices -> Vertices \cup {None}]
      /\ p[e[2]] = e[1] /\ e[1] # None
      /\ \A v \in Vertices : v # e[2] => p[v] = pred[v]
      /\ Tight(p)
  BY DEF Improved
<1>4. PICK N \in Nat : N = VertexCount /\ round \in Nat /\ round >= N
  BY <1>1, GraphTyped, VerticesFinite DEF TypeOK, Inv, RoundsEnough
<1> DEFINE v == e[2]
           at == Back(p, v, N)
<1>5. /\ at \in [0 .. N -> Vertices \cup {None}]
      /\ at[0] = e[2]
      /\ \A i \in 1 .. N : at[i] = IF at[i - 1] = None THEN None ELSE p[at[i - 1]]
  <2>1. v \in Vertices /\ N \in Nat /\ p \in [Vertices -> Vertices \cup {None}]
    BY <1>2, <1>3
  <2>2. /\ at \in [0 .. N -> Vertices \cup {None}]
        /\ at[0] = v
        /\ \A i \in 1 .. N : at[i] = IF at[i - 1] = None THEN None ELSE p[at[i - 1]]
    <3> HIDE DEF v
    <3> QED
      BY <2>1, BackWalks
  <2> QED
    BY <2>2
<1>6. \E i \in 0 .. N : at[i] = None
  BY <1>4, <1>5 DEF LeadsToNone
<1> HIDE DEF at
<1>7. PICK k \in 0 .. N : at[k] = None /\ \A i \in 0 .. N : i < k => at[i] # None
  <2> DEFINE S == {i \in 0 .. N : at[i] = None}
  <2>1. S \in SUBSET Nat /\ S # {}
    BY <1>6
  <2>2. PICK k \in S : \A i \in S : k <= i
    <3> HIDE DEF S
    <3> QED
      BY <2>1, SmallestElement
  <2>3. \A i \in 0 .. N : i < k => ~(k <= i)
    BY <2>2
  <2> QED
    BY <2>2, <2>3
<1>8. k # 0
  BY <1>2, <1>5, <1>7, VertexAssumption
<1>9. at[1] = e[1] /\ k # 1
  <2>1. 1 \in 1 .. N /\ 1 - 1 = 0
    BY <1>4, <1>7, <1>8
  <2>2. at[1] = e[1]
    BY <1>2, <1>3, <1>5, <2>1, VertexAssumption
  <2> QED
    BY <1>3, <1>7, <2>2
<1> DEFINE m == k - 1
           x == [i \in 0 .. m |-> at[m - i]]
           f == [i \in 0 .. m |-> IF i = m THEN Through(e) ELSE dist[x[i]]]
<1>10. m \in Nat /\ m >= 1 /\ m < N /\ m + 1 = k /\ k \in 1 .. N
  BY <1>4, <1>7, <1>8, <1>9
<1> HIDE DEF m
<1>11. \A i \in 0 .. m : at[i] \in Vertices
  <2> SUFFICES ASSUME NEW i \in 0 .. m PROVE at[i] \in Vertices
    OBVIOUS
  <2>1. i \in 0 .. N /\ i < k
    BY <1>4, <1>10
  <2> QED
    BY <1>5, <1>7, <2>1
<1>12. \A i \in 0 .. m : m - i \in 0 .. m
  BY <1>10
<1>13. \A i \in 0 .. m : x[i] = at[m - i] /\ x[i] \in Vertices
  BY <1>11, <1>12
<1>14. \A i \in 0 .. m : f[i] = IF i = m THEN Through(e) ELSE dist[x[i]]
  OBVIOUS
<1>15. \A u \in Vertices : dist[u] \in Weights
  BY <1>1 DEF TypeOK
<1>16. Through(e) \in Weights /\ Through(e) = Plus(dist[e[1]], edges[e])
  BY <1>1, ImprovesOrHolds DEF Through
<1> HIDE DEF x, f
<1>17. x[m] = e[2] /\ x[m - 1] = e[1]
  <2>1. m \in 0 .. m /\ m - 1 \in 0 .. m /\ m - m = 0 /\ m - (m - 1) = 1
    BY <1>10
  <2> QED
    BY <1>5, <1>9, <1>13, <2>1
<1>18. AtMost(Zero, f[0])
  <2>1. 0 \in 0 .. m /\ 0 # m /\ m - 0 = m
    BY <1>10
  <2>2. x[0] = at[m] /\ f[0] = dist[at[m]] /\ at[m] \in Vertices
    BY <1>13, <1>14, <2>1
  <2>3. k - 1 = m
    BY <1>10
  <2>4. p[at[m]] = None
    BY <1>5, <1>7, <1>10, <2>2, <2>3, VertexAssumption
  <2>5. pred[at[m]] = None
    BY <1>3, <2>2, <2>4
  <2>6. dist[at[m]] = Zero
    BY <1>1, <2>2, <2>5 DEF Inv, Unset
  <2>7. Zero \in Weights
    BY DEF Zero, Weights
  <2> QED
    BY <2>2, <2>6, <2>7, WeightOrder DEF AtMost
<1>19. \A i \in 1 .. m : x[i - 1] = p[x[i]]
  <2> SUFFICES ASSUME NEW i \in 1 .. m PROVE x[i - 1] = p[x[i]]
    OBVIOUS
  <2>1. /\ i \in 0 .. m /\ i - 1 \in 0 .. m /\ m - (i - 1) = (m - i) + 1
        /\ (m - i) + 1 \in 1 .. N /\ ((m - i) + 1) - 1 = m - i
    BY <1>4, <1>10
  <2>2. x[i] = at[m - i] /\ x[i] \in Vertices /\ x[i - 1] = at[(m - i) + 1]
    BY <1>13, <2>1
  <2> QED
    BY <1>5, <2>1, <2>2, VertexAssumption
<1>20. ASSUME NEW i \in 1 .. m
       PROVE  /\ <<x[i - 1], x[i]>> \in DOMAIN edges
              /\ AtMost(Plus(f[i - 1], edges[<<x[i - 1], x[i]>>]), f[i])
  <2>1. i \in 0 .. m /\ i - 1 \in 0 .. m /\ i - 1 # m
    BY <1>10
  <2>2. x[i] \in Vertices /\ x[i - 1] \in Vertices /\ x[i - 1] = p[x[i]] /\ p[x[i]] # None
    BY <1>13, <1>19, <2>1, VertexAssumption
  <2>3. /\ <<x[i - 1], x[i]>> \in DOMAIN edges
        /\ AtMost(Plus(dist[x[i - 1]], edges[<<x[i - 1], x[i]>>]), dist[x[i]])
    BY <1>3, <2>2 DEF Tight
  <2>4. f[i - 1] = dist[x[i - 1]]
    BY <1>14, <2>1
  <2>5. CASE i # m
    BY <1>14, <2>1, <2>3, <2>4, <2>5
  <2>6. CASE i = m
    <3>1. <<x[i - 1], x[i]>> = e /\ f[i - 1] = dist[e[1]] /\ f[i] = Through(e)
      BY <1>2, <1>14, <1>17, <2>1, <2>4, <2>6
    <3> QED
      BY <1>16, <2>3, <3>1, WeightOrder DEF AtMost
  <2> QED
    BY <2>5, <2>6
<1>21. \A i \in 0 .. m : f[i] \in Weights
  BY <1>13, <1>14, <1>15, <1>16
<1>22. Path(x, f, m)
  BY <1>13, <1>18, <1>20, <1>21 DEF Path
<1>23. Covered(x, m)
  BY <1>4, <1>10 DEF Covered
<1>24. AtMost(dist[x[m]], f[m])
  BY <1>1, <1>10, <1>22, <1>23 DEF Inv, PathsBounded
<1>25. m \in 0 .. m
  BY <1>10
<1>26. f[m] = Through(e)
  BY <1>14, <1>25
<1> QED
  BY <1>17, <1>24, <1>26 DEF AtMost, Improves

\* A cycle of the graph, with a negative weight.
NegativeCycle(c) ==
    /\ c \in Seq(Vertices) /\ c # <<>>
    /\ \A i \in DOMAIN c : <<c[i], c[Following(c, i)]>> \in DOMAIN edges
    /\ Less(WeightOf(edges, c), Zero)

\* A closed walk along predecessors is one.
LEMMA ClosedWalkRight ==
    ASSUME NEW p, Tight(p), ClosedNegative(p), NEW n \in Nat \ {0}, NEW c, ClosedWalk(p, n, c)
    PROVE  NegativeCycle(c)
<1>1. /\ c \in [1 .. n -> Vertices] /\ Len(c) = n
      /\ \A i \in 1 .. n : p[c[Following(c, i)]] = c[i]
  BY DEF ClosedWalk
<1>2. Less(WeightOf(edges, c), Zero)
  BY DEF ClosedNegative
<1>3. DOMAIN c = 1 .. n /\ c \in Seq(Vertices) /\ c # <<>>
  BY <1>1
<1>4. ASSUME NEW i \in 1 .. n PROVE <<c[i], c[Following(c, i)]>> \in DOMAIN edges
  <2>1. Following(c, i) \in 1 .. n
    BY <1>1 DEF Following
  <2>2. c[i] \in Vertices /\ c[Following(c, i)] \in Vertices /\ c[i] # None
    BY <1>1, <2>1, VertexAssumption
  <2> QED
    BY <1>1, <2>2 DEF Tight
<1> QED
  BY <1>2, <1>3, <1>4 DEF NegativeCycle

\* The predecessors then lead round a cycle of the graph with a negative weight.
LEMMA CycleRight ==
    ASSUME Inv, phase = "check", NEW e \in DOMAIN edges, Improves(e),
           NEW p, Improved(p, e), NEW c, c = CycleFrom(p, e[2])
    PROVE  NegativeCycle(c)
<1>1. TypeOK /\ Tight(pred) /\ ClosedNegative(pred)
  BY DEF Inv, Searching, PredTight, PredNegative
<1>2. e[1] \in Vertices /\ e[2] \in Vertices /\ e[2] \in VertexSet
  BY <1>1, GraphTyped DEF VertexSet
<1>3. /\ p \in [Vertices -> Vertices \cup {None}]
      /\ Tight(p)
      /\ ClosedNegative(p)
  BY DEF Improved
<1>4. \A u \in Vertices : p[u] # None => p[u] \in VertexSet
  <2> SUFFICES ASSUME NEW u \in Vertices, p[u] # None PROVE p[u] \in VertexSet
    OBVIOUS
  <2>1. <<p[u], u>> \in DOMAIN edges
    BY <1>3 DEF Tight
  <2> QED
    BY <2>1 DEF VertexSet
<1>5. ~LeadsToNone(p, e[2])
  BY PredecessorsLast
<1>6. /\ IsFiniteSet(VertexSet) /\ VertexCount \in Nat
      /\ VertexCount = Cardinality(VertexSet) /\ VertexSet \subseteq Vertices
  BY <1>1, GraphTyped, VerticesFinite
<1>7. \E n \in Nat \ {0} : ClosedWalk(p, n, c)
  BY <1>2, <1>3, <1>4, <1>5, <1>6, CycleFound
<1> QED
  BY <1>3, <1>7, ClosedWalkRight

----------------------------------------------------------------------------
(* The steps *)

\* At the start nothing was seen, and there is no path of no edges but from zero.
LEMMA InitInv == Init => Inv
<1> SUFFICES ASSUME Init PROVE Inv
  OBVIOUS
<1>1. /\ edges \in Graphs /\ pending = DOMAIN edges /\ updated = FALSE /\ cycle = <<>>
      /\ dist = [v \in Vertices |-> Zero] /\ pred = [v \in Vertices |-> None]
      /\ phase = IF VertexCount > 1 THEN "relax" ELSE "check"
      /\ round = 1
  BY DEF Init
<1>2. Zero \in Weights
  BY DEF Zero, Weights
<1>3. phase \in {"relax", "check"}
  BY <1>1
<1>4. TypeOK
  <2>1. phase \in Phase
    BY <1>3 DEF Phase
  <2>2. dist \in [Vertices -> Weights] /\ pred \in [Vertices -> Vertices \cup {None}]
    BY <1>1, <1>2
  <2>3. round \in Nat /\ cycle \in Seq(Vertices)
    BY <1>1
  <2> QED
    BY <1>1, <2>1, <2>2, <2>3 DEF TypeOK
<1>5. SeenHold /\ CheckStill /\ NoCycleSolved /\ CycleNegative /\ NeverPanics
  BY <1>1, <1>3 DEF SeenHold, CheckStill, NoCycleSolved, CycleNegative, NeverPanics
<1>6. RoundsEnough
  <2>1. VertexCount \in Nat
    BY <1>4, GraphTyped, VerticesFinite
  <2> QED
    BY <1>1, <2>1 DEF RoundsEnough
<1>7. PredTight /\ Unset
  BY <1>1 DEF PredTight, Unset, Tight
<1>8. PredNegative
  <2> SUFFICES ASSUME NEW n \in Nat \ {0}, NEW s, ClosedWalk(pred, n, s) PROVE FALSE
    BY DEF PredNegative, ClosedNegative
  <2>1. /\ s \in [1 .. n -> Vertices] /\ Len(s) = n /\ 1 \in 1 .. n
        /\ pred[s[Following(s, 1)]] = s[1]
    BY DEF ClosedWalk
  <2>2. Following(s, 1) \in 1 .. n
    BY <2>1 DEF Following
  <2>3. s[1] = None
    BY <1>1, <2>1, <2>2
  <2> QED
    BY <2>1, <2>3, VertexAssumption
<1>9. PathsBounded
  <2> SUFFICES ASSUME NEW m \in Nat, NEW x, NEW f, Path(x, f, m), Covered(x, m)
               PROVE  AtMost(dist[x[m]], f[m])
    BY DEF PathsBounded
  <2>1. CASE m = 0
    <3>1. x[0] \in Vertices /\ f[0] \in Weights /\ AtMost(Zero, f[0])
      BY <2>1 DEF Path
    <3> QED
      BY <1>1, <2>1, <3>1
  <2>2. CASE m # 0
    <3>1. <<x[m - 1], x[m]>> \in DOMAIN edges
      BY <2>2 DEF Path
    <3> QED
      BY <1>1, <2>2, <3>1 DEF Covered
  <2> QED
    BY <2>1, <2>2
<1> QED
  BY <1>4, <1>5, <1>6, <1>7, <1>8, <1>9 DEF Inv

\* A step that changes neither the distances nor the predecessors keeps what is known
\* of them.
LEMMA PredecessorsKept ==
    ASSUME PredTight, Unset, PredNegative,
           edges' = edges, dist' = dist, pred' = pred, Searching' => Searching
    PROVE  PredTight' /\ Unset' /\ PredNegative'
BY DEF PredTight, Unset, PredNegative, Tight, ClosedNegative

\* A relaxed edge: its end gets a smaller distance, just the one that the passes owe to
\* the paths over this edge.
LEMMA RelaxInv == ASSUME Inv, NEW e \in pending, Relax(e) PROVE Inv'
<1> USE DEF Inv
<1>1. /\ phase = "relax" /\ phase' = "relax" /\ Searching /\ Searching'
      /\ e \in DOMAIN edges /\ Improves(e)
      /\ dist' = [dist EXCEPT ![e[2]] = Through(e)]
      /\ pred' = [pred EXCEPT ![e[2]] = e[1]]
      /\ updated' = TRUE /\ pending' = pending \ {e}
      /\ edges' = edges /\ round' = round /\ cycle' = cycle
  BY DEF Relax, Searching, TypeOK
<1>2. /\ e = <<e[1], e[2]>> /\ e[1] \in Vertices /\ e[2] \in Vertices
      /\ edges[e] \in Weights /\ Through(e) \in Weights
      /\ Through(e) = Plus(dist[e[1]], edges[e])
      /\ \A v \in Vertices : dist[v] \in Weights
  BY <1>1, GraphTyped, ImprovesOrHolds DEF TypeOK, Through
<1>3. Tight(pred) /\ ClosedNegative(pred)
  BY <1>1 DEF PredTight, PredNegative
<1>4. Improved(pred', e)
  BY <1>1, <1>3, ImprovedPredecessors
<1>5. TypeOK'
  BY <1>1, <1>2, <1>4 DEF TypeOK, Improved
<1>6. /\ dist'[e[2]] = Through(e)
      /\ \A v \in Vertices : v # e[2] => dist'[v] = dist[v]
      /\ \A v \in Vertices : dist'[v] \in Weights
  BY <1>1, <1>2 DEF TypeOK
<1>7. \A v \in Vertices : AtMost(dist'[v], dist[v])
  BY <1>1, <1>2, <1>6, WeightOrder DEF Improves, AtMost
<1>8. Tight(pred)'
  <2> SUFFICES ASSUME NEW v \in Vertices, pred'[v] # None
               PROVE  /\ <<pred'[v], v>> \in DOMAIN edges
                      /\ AtMost(Plus(dist'[pred'[v]], edges[<<pred'[v], v>>]), dist'[v])
    BY <1>1 DEF Tight
  <2>1. /\ <<pred'[v], v>> \in DOMAIN edges
        /\ AtMost(Plus(dist[pred'[v]], edges[<<pred'[v], v>>]), dist[v])
    BY <1>4 DEF Improved, Tight
  <2> DEFINE u == pred'[v]
             w == edges[<<u, v>>]
  <2>2. u \in Vertices /\ w \in Weights
    BY <1>4, <2>1, GraphTyped DEF Improved
  <2>3. AtMost(Plus(dist[u], w), dist'[v])
    <3>1. CASE v = e[2]
      <4>1. u = e[1] /\ <<u, v>> = e
        BY <1>2, <1>4, <3>1 DEF Improved
      <4>2. Plus(dist[u], w) = Through(e)
        BY <1>2, <4>1
      <4> QED
        BY <1>2, <1>6, <3>1, <4>2, WeightOrder DEF AtMost
    <3>2. CASE v # e[2]
      BY <1>6, <2>1, <3>2
    <3> QED
      BY <3>1, <3>2
  <2>4. dist[u] \in Weights /\ dist'[u] \in Weights /\ dist'[v] \in Weights
    BY <1>2, <1>6, <2>2
  <2>5. AtMost(Plus(dist'[u], w), Plus(dist[u], w))
    <3> HIDE DEF u, w
    <3> QED
      BY <1>7, <2>2, <2>4, WeightSums
  <2>6. Plus(dist'[u], w) \in Weights /\ Plus(dist[u], w) \in Weights
    <3> HIDE DEF u, w
    <3> QED
      BY <2>2, <2>4, WeightSums
  <2>7. AtMost(Plus(dist'[u], w), dist'[v])
    <3> HIDE DEF u, w
    <3> QED
      BY <2>3, <2>4, <2>5, <2>6, WeightOrder
  <2> QED
    BY <2>1, <2>7
<1>9. PredTight'
  BY <1>8 DEF PredTight
<1>10. Unset'
  <2>1. \A v \in Vertices : pred'[v] = None => v # e[2] /\ pred[v] = None
    BY <1>4 DEF Improved
  <2> QED
    BY <1>1, <1>6, <2>1 DEF Unset
<1>11. PredNegative'
  BY <1>1, <1>4 DEF Improved, PredNegative, ClosedNegative
<1>12. PathsBounded'
  <2> SUFFICES ASSUME NEW m \in Nat, NEW x, NEW f, Path(x, f, m)', Covered(x, m)'
               PROVE  AtMost(dist'[x[m]], f[m])
    BY DEF PathsBounded, AtMost
  <2>1. Path(x, f, m)
    BY <1>1 DEF Path
  <2>2. m \in 0 .. m /\ x[m] \in Vertices /\ f[m] \in Weights
    BY <2>1 DEF Path
  <2>3. CASE Covered(x, m)
    <3>1. AtMost(dist[x[m]], f[m])
      BY <1>1, <2>1, <2>3 DEF PathsBounded
    <3> QED
      BY <1>2, <1>6, <1>7, <2>2, <3>1, WeightOrder
  <2>4. CASE ~Covered(x, m)
    <3>1. m = round /\ <<x[m - 1], x[m]>> = e
      BY <1>1, <2>4 DEF Covered
    <3>2. m \in Nat \ {0} /\ m <= round
      BY <3>1 DEF RoundsEnough, TypeOK
    <3>3. AtMost(Through(e), f[m])
      BY <1>1, <2>1, <3>1, <3>2, LastEdge
    <3>4. x[m] = e[2]
      BY <3>1
    <3> QED
      BY <1>6, <3>3, <3>4
  <2> QED
    BY <2>3, <2>4
<1>13. VertexCount' = VertexCount
  BY <1>1 DEF VertexCount
<1>14. /\ SeenHold' /\ CheckStill' /\ RoundsEnough'
       /\ NoCycleSolved' /\ CycleNegative' /\ NeverPanics'
  BY <1>1, <1>13 DEF SeenHold, CheckStill, RoundsEnough, NoCycleSolved, CycleNegative, NeverPanics
<1> QED
  BY <1>5, <1>9, <1>10, <1>11, <1>12, <1>14

\* An edge that improves nothing is one whose paths are bounded already.
LEMMA PassInv == ASSUME Inv, NEW e \in pending, Pass(e) \/ CheckPass(e) PROVE Inv'
<1> USE DEF Inv
<1>1. /\ phase' = phase /\ phase \in {"relax", "check"} /\ Searching /\ Searching'
      /\ e \in DOMAIN edges /\ ~Improves(e)
      /\ pending' = pending \ {e}
      /\ edges' = edges /\ dist' = dist /\ pred' = pred
      /\ updated' = updated /\ round' = round /\ cycle' = cycle
  BY DEF Pass, CheckPass, Searching, TypeOK
<1>2. TypeOK'
  BY <1>1 DEF TypeOK
<1>3. SeenHold'
  <2>1. Holds(e)
    BY <1>1, ImprovesOrHolds
  <2>2. \A d : Holds(d)' <=> Holds(d)
    BY <1>1 DEF Holds
  <2> QED
    BY <1>1, <2>1, <2>2 DEF SeenHold
<1>4. PredTight' /\ Unset' /\ PredNegative'
  BY <1>1, PredecessorsKept
<1>5. PathsBounded'
  <2> SUFFICES ASSUME NEW m \in Nat, NEW x, NEW f, Path(x, f, m)', Covered(x, m)'
               PROVE  AtMost(dist[x[m]], f[m])
    BY <1>1 DEF PathsBounded
  <2>1. Path(x, f, m)
    BY <1>1 DEF Path
  <2>2. CASE Covered(x, m)
    BY <1>1, <2>1, <2>2 DEF PathsBounded
  <2>3. CASE ~Covered(x, m)
    <3>1. m = round /\ <<x[m - 1], x[m]>> = e
      BY <1>1, <2>3 DEF Covered
    <3>2. m \in Nat \ {0} /\ m <= round
      BY <3>1 DEF RoundsEnough, TypeOK
    <3>3. AtMost(Through(e), f[m]) /\ f[m] \in Weights
      BY <1>1, <2>1, <3>1, <3>2, LastEdge
    <3>4. x[m] = e[2]
      BY <3>1
    <3>5. AtMost(dist[e[2]], Through(e)) /\ dist[e[2]] \in Weights /\ Through(e) \in Weights
      BY <1>1, ImprovesOrHolds DEF Improves, AtMost, TypeOK
    <3> QED
      BY <3>3, <3>4, <3>5, WeightOrder
  <2> QED
    BY <2>2, <2>3
<1>6. VertexCount' = VertexCount
  BY <1>1 DEF VertexCount
<1>7. /\ CheckStill' /\ RoundsEnough' /\ NoCycleSolved' /\ CycleNegative' /\ NeverPanics'
  BY <1>1, <1>6 DEF CheckStill, RoundsEnough, NoCycleSolved, CycleNegative, NeverPanics
<1> QED
  BY <1>2, <1>3, <1>4, <1>5, <1>7

\* A pass that saw every edge makes good for the paths with one more edge.
LEMMA NextRoundInv == ASSUME Inv, NextRound PROVE Inv'
<1> USE DEF Inv
<1>1. /\ phase = "relax" /\ pending = {}
      /\ phase' = IF round + 1 < VertexCount THEN "relax" ELSE "check"
      /\ Searching /\ Searching'
      /\ round' = round + 1 /\ pending' = DOMAIN edges /\ updated' = FALSE
      /\ edges' = edges /\ dist' = dist /\ pred' = pred /\ cycle' = cycle
  BY DEF NextRound, Searching
<1>2. TypeOK'
  <2>1. phase' \in Phase
    BY <1>1 DEF Searching, Phase
  <2>2. round' \in Nat
    BY <1>1 DEF TypeOK
  <2> QED
    BY <1>1, <2>1, <2>2 DEF TypeOK
<1>3. PredTight' /\ Unset' /\ PredNegative'
  BY <1>1, PredecessorsKept
<1>4. PathsBounded'
  <2> SUFFICES ASSUME NEW m \in Nat, NEW x, NEW f, Path(x, f, m)', Covered(x, m)'
               PROVE  AtMost(dist[x[m]], f[m])
    BY <1>1 DEF PathsBounded
  <2>1. Path(x, f, m)
    BY <1>1 DEF Path
  <2>2. round \in Nat
    BY DEF TypeOK
  <2>3. m < round + 1
    <3> SUFFICES ASSUME m = round + 1, <<x[m - 1], x[m]>> \notin DOMAIN edges PROVE FALSE
      BY <1>1, <2>2 DEF Covered
    <3>1. m \in 1 .. m
      BY <2>2
    <3> QED
      BY <2>1, <3>1 DEF Path
  <2>4. Covered(x, m)
    BY <1>1, <2>2, <2>3 DEF Covered
  <2> QED
    BY <1>1, <2>1, <2>4 DEF PathsBounded
<1>5. VertexCount' = VertexCount
  BY <1>1 DEF VertexCount
<1>6. RoundsEnough'
  <2>1. VertexCount \in Nat /\ round \in Nat
    BY GraphTyped, VerticesFinite DEF TypeOK
  <2> QED
    BY <1>1, <1>5, <2>1 DEF RoundsEnough
<1>7. SeenHold' /\ CheckStill' /\ NoCycleSolved' /\ CycleNegative' /\ NeverPanics'
  BY <1>1 DEF SeenHold, CheckStill, NoCycleSolved, CycleNegative, NeverPanics
<1> QED
  BY <1>2, <1>3, <1>4, <1>6, <1>7

\* The cycle that is found is one.
LEMMA FindCycleInv == ASSUME Inv, NEW e \in pending, FindCycle(e) PROVE Inv'
<1> USE DEF Inv
<1>1. /\ phase = "check" /\ e \in DOMAIN edges /\ Improves(e)
      /\ pred' = [pred EXCEPT ![e[2]] = e[1]]
      /\ edges' = edges /\ dist' = dist /\ round' = round
      /\ pending' = pending /\ updated' = updated
  BY DEF FindCycle, TypeOK
<1>2. Improved(pred', e)
  BY <1>1, ImprovedPredecessors DEF Searching, PredTight, PredNegative
<1>3. ~LeadsToNone(pred', e[2])
  BY <1>1, <1>2, PredecessorsLast
<1>4. phase' = "cycle" /\ cycle' = CycleFrom(pred', e[2])
  BY <1>3 DEF FindCycle
<1>5. NegativeCycle(cycle')
  BY <1>1, <1>2, <1>4, CycleRight
<1>6. TypeOK'
  BY <1>1, <1>2, <1>4, <1>5 DEF TypeOK, Phase, Improved, NegativeCycle
<1>7. CycleNegative'
  BY <1>1, <1>5 DEF CycleNegative, CycleEdges, NegativeCycle
<1>8. ~Searching'
  BY <1>4 DEF Searching
<1>9. /\ SeenHold' /\ CheckStill' /\ PredTight' /\ Unset' /\ PredNegative' /\ PathsBounded'
      /\ NoCycleSolved' /\ NeverPanics'
  BY <1>4, <1>8
     DEF SeenHold, CheckStill, PredTight, Unset, PredNegative, PathsBounded,
         NoCycleSolved, NeverPanics
<1>10. RoundsEnough'
  BY <1>1, <1>4 DEF RoundsEnough
<1> QED
  BY <1>6, <1>7, <1>9, <1>10

\* The search that ends without a cycle has seen every edge since the last change.
LEMMA NoCycleInv == ASSUME Inv, Stable \/ Unimproved PROVE Inv'
<1> USE DEF Inv
<1>1. /\ phase' = "noCycle" /\ pending = {} /\ Searching /\ ~updated
      /\ edges' = edges /\ dist' = dist /\ pred' = pred /\ round' = round
      /\ pending' = pending /\ updated' = updated /\ cycle' = cycle
  BY DEF Stable, Unimproved, Searching, CheckStill
<1>2. TypeOK'
  BY <1>1 DEF TypeOK, Phase
<1>3. NoCycleSolved'
  <2>1. \A e : Holds(e)' <=> Holds(e)
    BY <1>1 DEF Holds
  <2> QED
    BY <1>1, <2>1 DEF SeenHold, NoCycleSolved
<1>4. ~Searching'
  BY <1>1 DEF Searching
<1>5. /\ SeenHold' /\ CheckStill' /\ PredTight' /\ Unset' /\ PredNegative' /\ PathsBounded'
      /\ CycleNegative' /\ NeverPanics' /\ RoundsEnough'
  BY <1>1, <1>4
     DEF SeenHold, CheckStill, PredTight, Unset, PredNegative, PathsBounded,
         CycleNegative, NeverPanics, RoundsEnough
<1> QED
  BY <1>2, <1>3, <1>5

\* A step that changes nothing.
LEMMA StutterInv == ASSUME Inv, UNCHANGED vars PROVE Inv'
<1> USE DEF Inv
<1>1. /\ edges' = edges /\ dist' = dist /\ pred' = pred /\ phase' = phase /\ round' = round
      /\ pending' = pending /\ updated' = updated /\ cycle' = cycle
  BY DEF vars
<1>2. TypeOK' /\ CheckStill' /\ NeverPanics'
  BY <1>1 DEF TypeOK, CheckStill, NeverPanics
<1>3. SeenHold' /\ NoCycleSolved'
  BY <1>1 DEF SeenHold, NoCycleSolved, Searching, Holds
<1>4. PredTight' /\ Unset' /\ PredNegative'
  BY <1>1, PredecessorsKept DEF Searching
<1>5. PathsBounded'
  BY <1>1 DEF PathsBounded, Searching, Path, Covered
<1>6. RoundsEnough'
  BY <1>1 DEF RoundsEnough, VertexCount
<1>7. CycleNegative'
  BY <1>1 DEF CycleNegative, CycleEdges
<1> QED
  BY <1>2, <1>3, <1>4, <1>5, <1>6, <1>7

\* Every step keeps the invariant.
LEMMA NextInv == Inv /\ [Next]_vars => Inv'
BY RelaxInv, PassInv, FindCycleInv, NextRoundInv, NoCycleInv, StutterInv DEF Next

LEMMA InvHolds == Spec => []Inv
BY InitInv, NextInv, PTL DEF Spec

----------------------------------------------------------------------------
(* The theorems *)

\* The variables of the function keep their types: no distance leaves the weights, and
\* what is returned is a list of vertices.
THEOREM TypeCorrect == Spec => []TypeOK
<1>1. Inv => TypeOK
  BY DEF Inv
<1> QED
  BY <1>1, InvHolds, PTL

\* When find_negative_cycle finds nothing, its distances solve all constraints:
\* neither the order in which the HashMap gives the edges, nor stopping after a pass
\* without a change, nor the number of passes can make it miss a cycle.
THEOREM NoCycleCorrect == Spec => []NoCycleSolved
<1>1. Inv => NoCycleSolved
  BY DEF Inv
<1> QED
  BY <1>1, InvHolds, PTL

\* When it returns a cycle, the cycle runs along edges of the graph and its weight is
\* negative, although distances went on changing after the predecessors were set, and
\* whichever edge of Step 3 it was found from.
THEOREM CycleCorrect == Spec => []CycleNegative
<1>1. Inv => CycleNegative
  BY DEF Inv
<1> QED
  BY <1>1, InvHolds, PTL

\* The three calls of expect on a predecessor never fail, in any graph: the predecessors
\* would run out along a path shorter than the number of passes, and no such path is
\* left to improve.
THEOREM PredecessorsExist == Spec => []NeverPanics
<1>1. Inv => NeverPanics
  BY DEF Inv
<1> QED
  BY <1>1, InvHolds, PTL

----------------------------------------------------------------------------
(* Solutions *)

\* The numbers v[x] / d solve the constraints of the graph.
Solves(v, d) ==
    \A e \in DOMAIN edges :
        /\ v[e[2]] - v[e[1]] <= d * edges[e].c
        /\ edges[e].k > 0 => v[e[2]] - v[e[1]] < d * edges[e].c

Solvable == \E d \in Nat \ {0}, v \in [Vertices -> Int] : Solves(v, d)

Decided ==
    /\ phase = "noCycle" => Solvable
    /\ phase = "cycle" => ~Solvable

\* Multiplication by a common denominator.
LEMMA Scaled ==
    ASSUME NEW d \in Nat \ {0}, NEW a \in Int, NEW b \in Int
    PROVE  /\ d * a \in Int
           /\ d * (a + b) = d * a + d * b
           /\ d * 0 = 0
           /\ a < 0 => d * a < 0
           /\ a < b => d * a + d <= d * b
<1>1. d * a \in Int /\ d * 0 = 0 /\ d * (a + b) = d * a + d * b
  OBVIOUS
<1>2. ASSUME NEW m \in Nat PROVE d * m \in Nat
  OBVIOUS
<1>3. ASSUME a < 0 PROVE d * a < 0
  BY <1>3
<1>4. ASSUME a < b PROVE d * a + d <= d * b
  <2>1. PICK m \in Nat : b = (a + 1) + m
    <3>1. b - (a + 1) \in Nat /\ b = (a + 1) + (b - (a + 1))
      BY <1>4
    <3> QED
      BY <3>1
  <2>2. d * b = (d * a + d) + d * m
    BY <2>1
  <2>3. d * m \in Nat /\ d * a \in Int
    BY <1>2
  <2> QED
    BY <2>2, <2>3
<1> QED
  BY <1>1, <1>3, <1>4

\* The edges of a cycle of length n are numbered around.
LEMMA Around ==
    ASSUME NEW n \in Nat \ {0}, NEW i \in 0 .. n
    PROVE  1 \in 1 .. n /\ (IF i = n THEN 1 ELSE i + 1) \in 1 .. n
<1>1. CASE i = n
  BY <1>1
<1>2. CASE i # n
  BY <1>2
<1> QED
  BY <1>1, <1>2

----------------------------------------------------------------------------
\* A closed walk of negative weight contradicts every valuation: the differences along
\* it add up to nothing, the bounds to less.
LEMMA CycleRefutes ==
    ASSUME TypeOK, NEW c, NegativeCycle(c)
    PROVE  ~Solvable
<1> SUFFICES ASSUME NEW d \in Nat \ {0}, NEW v \in [Vertices -> Int], Solves(v, d)
             PROVE  FALSE
  BY DEF Solvable
<1>1. PICK n \in Nat \ {0} : n = Len(c) /\ DOMAIN c = 1 .. n /\ c \in [1 .. n -> Vertices]
  BY DEF NegativeCycle
<1> DEFINE e(i) == <<c[i], c[Following(c, i)]>>
<1>2. \A i \in 1 .. n : e(i) \in DOMAIN edges /\ edges[e(i)] \in Weights
  <2>1. \A i \in 1 .. n : e(i) \in DOMAIN edges
    BY <1>1 DEF NegativeCycle
  <2> QED
    BY <2>1, GraphTyped
<1>3. PICK sum \in [0 .. n -> Weights] :
        /\ sum[0] = Zero
        /\ \A i \in 1 .. n : sum[i] = Plus(sum[i - 1], edges[e(i)])
        /\ sum[n] = WeightOf(edges, c)
  <2>1. \A i \in 1 .. n : edges[<<c[i], c[Following(c, i)]>>] \in Weights
    BY <1>2
  <2> HIDE DEF e
  <2>2. \E sum \in [0 .. n -> Weights] :
              /\ sum[0] = Zero
              /\ \A i \in 1 .. n :
                    sum[i] = Plus(sum[i - 1], edges[<<c[i], c[Following(c, i)]>>])
              /\ sum[n] = WeightOf(edges, c)
    BY <1>1, <2>1, PartialSums
  <2> QED
    BY <2>2 DEF e
<1> DEFINE reached(i) == v[c[IF i = n THEN 1 ELSE i + 1]] - v[c[1]]
           S == {i \in 0 .. n : /\ reached(i) <= d * sum[i].c
                                /\ sum[i].k > 0 => reached(i) < d * sum[i].c}
<1>4. ASSUME NEW i \in 0 .. n
      PROVE  reached(i) \in Int /\ sum[i].c \in Int /\ sum[i].k \in Nat
  <2>1. 1 \in 1 .. n /\ (IF i = n THEN 1 ELSE i + 1) \in 1 .. n
    BY Around
  <2>2. c[1] \in Vertices /\ c[IF i = n THEN 1 ELSE i + 1] \in Vertices
    BY <1>1, <2>1
  <2>3. reached(i) \in Int
    BY <2>2
  <2>4. sum[i] \in Weights
    BY <1>3
  <2> QED
    BY <2>3, <2>4 DEF Weights
<1>5. 0 \in S
  <2>1. reached(0) = 0
    BY <1>1
  <2>2. sum[0].c = 0 /\ sum[0].k = 0
    BY <1>3 DEF Zero
  <2>3. d * 0 = 0
    OBVIOUS
  <2> HIDE DEF reached
  <2> QED
    BY <2>1, <2>2, <2>3
<1>6. ASSUME NEW i \in 0 .. n, i # n, i \in S PROVE i + 1 \in S
  <2> DEFINE w == edges[e(i + 1)]
  <2>1. i + 1 \in 1 .. n /\ i + 1 \in 0 .. n /\ (i + 1) - 1 = i /\ i \in 0 .. n
    BY <1>6
  <2>2. w.c \in Int /\ w.k \in Nat
    BY <1>2, <2>1 DEF Weights
  <2>3. sum[i + 1].c = sum[i].c + w.c /\ sum[i + 1].k = sum[i].k + w.k
    <3>1. sum[i + 1] = Plus(sum[i], w)
      BY <1>3, <2>1
    <3> HIDE DEF w
    <3> QED
      BY <3>1 DEF Plus
  <2>4. /\ v[e(i + 1)[2]] - v[e(i + 1)[1]] <= d * w.c
        /\ w.k > 0 => v[e(i + 1)[2]] - v[e(i + 1)[1]] < d * w.c
    BY <1>2, <2>1 DEF Solves
  <2>5. reached(i + 1) = reached(i) + (v[e(i + 1)[2]] - v[e(i + 1)[1]])
    <3>1. Following(c, i + 1) = IF i + 1 = n THEN 1 ELSE (i + 1) + 1
      BY <1>1 DEF Following
    <3>2. Following(c, i + 1) \in 1 .. n /\ 1 \in 1 .. n
      <4> DEFINE j == i + 1
      <4>1. Following(c, j) = IF j = n THEN 1 ELSE j + 1
        BY <3>1
      <4>2. j \in 0 .. n
        BY <2>1
      <4> HIDE DEF j
      <4>3. 1 \in 1 .. n /\ (IF j = n THEN 1 ELSE j + 1) \in 1 .. n
        BY <4>2, Around
      <4>4. Following(c, j) \in 1 .. n /\ 1 \in 1 .. n
        BY <4>1, <4>3
      <4> QED
        BY <4>4 DEF j
    <3>3. /\ v[c[i + 1]] \in Int /\ v[c[Following(c, i + 1)]] \in Int /\ v[c[1]] \in Int
      BY <1>1, <2>1, <3>2
    <3>4. reached(i + 1) = v[c[Following(c, i + 1)]] - v[c[1]]
      BY <3>1
    <3>5. reached(i) = v[c[i + 1]] - v[c[1]]
      BY <1>6
    <3> QED
      BY <3>3, <3>4, <3>5
  <2>6. d * (sum[i].c + w.c) = d * sum[i].c + d * w.c /\ d * sum[i].c \in Int /\ d * w.c \in Int
    <3> HIDE DEF w
    <3> QED
      BY <1>4, <2>1, <2>2, Scaled
  <2>7. v[e(i + 1)[2]] - v[e(i + 1)[1]] \in Int
    <3>1. e(i + 1)[1] \in Vertices /\ e(i + 1)[2] \in Vertices
      BY <1>2, <2>1, GraphTyped
    <3> QED
      BY <3>1
  <2>8. /\ reached(i) <= d * sum[i].c
        /\ sum[i].k > 0 => reached(i) < d * sum[i].c
    BY <1>6
  <2>9. reached(i) \in Int /\ sum[i].k \in Nat
    BY <1>4, <2>1
  <2> DEFINE step == v[e(i + 1)[2]] - v[e(i + 1)[1]]
  <2>10. /\ step \in Int /\ step <= d * w.c /\ (w.k > 0 => step < d * w.c)
         /\ reached(i + 1) = reached(i) + step
    BY <2>4, <2>5, <2>7
  <2> HIDE DEF step, reached, w
  <2> DEFINE a == d * sum[i].c
             b == d * w.c
  <2>12. d * sum[i + 1].c = a + b /\ a \in Int /\ b \in Int
    BY <2>3, <2>6
  <2>13. /\ reached(i) <= a /\ (sum[i].k > 0 => reached(i) < a)
         /\ step <= b /\ (w.k > 0 => step < b)
    BY <2>8, <2>10
  <2>14. sum[i + 1].k > 0 => sum[i].k > 0 \/ w.k > 0
    BY <2>2, <2>3, <2>9
  <2>11. /\ reached(i + 1) <= d * sum[i + 1].c
         /\ sum[i + 1].k > 0 => reached(i + 1) < d * sum[i + 1].c
    <3> HIDE DEF a, b
    <3>1. reached(i) + step <= a + b
      BY <2>9, <2>10, <2>12, <2>13
    <3>2. ASSUME sum[i + 1].k > 0 PROVE reached(i) + step < a + b
      BY <2>9, <2>10, <2>12, <2>13, <2>14, <3>2
    <3> QED
      BY <2>10, <2>12, <3>1, <3>2
  <2> QED
    BY <2>1, <2>11
<1>7. 0 .. n \subseteq S
  <2> HIDE DEF S
  <2> QED
    BY <1>5, <1>6, IntervalInduction
<1>8. n \in 0 .. n /\ reached(n) = 0
  BY <1>1
<1>9. 0 <= d * sum[n].c /\ (sum[n].k > 0 => 0 < d * sum[n].c)
  BY <1>7, <1>8
<1>10. sum[n].c < 0 \/ (sum[n].c = 0 /\ sum[n].k > 0)
  BY <1>3 DEF NegativeCycle, Less, Zero
<1>11. sum[n].c \in Int /\ d * 0 = 0 /\ d * sum[n].c \in Int
       /\ (sum[n].c < 0 => d * sum[n].c < 0)
  <2>1. sum[n].c \in Int
    BY <1>4, <1>8
  <2> QED
    BY <2>1, Scaled
<1> QED
  BY <1>9, <1>10, <1>11

\* Distances that hold against all edges are a solution, once the infinitesimal is
\* chosen small enough.
LEMMA DistancesSolve ==
    ASSUME TypeOK, \A e \in DOMAIN edges : Holds(e)
    PROVE  Solvable
<1>1. PICK b \in Nat : \A u \in VertexSet : dist[u].k <= b
  <2> DEFINE ks == {dist[u].k : u \in VertexSet}
             f == [u \in VertexSet |-> dist[u].k]
  <2>1. VertexSet \subseteq Vertices /\ IsFiniteSet(VertexSet)
    BY GraphTyped, VerticesFinite
  <2>2. ks \in SUBSET Nat
    BY <2>1 DEF TypeOK, Weights
  <2>3. f \in Surjection(VertexSet, ks)
    BY DEF Surjection
  <2>4. IsFiniteSet(ks)
    <3> HIDE DEF ks, f
    <3> QED
      BY <2>1, <2>3, FS_Surjection
  <2>5. \E b \in Nat : \A k \in ks : k <= b
    <3> HIDE DEF ks
    <3> QED
      BY <2>2, <2>4, FiniteBounded
  <2> QED
    BY <2>5
<1> DEFINE d == b + 1
           v == [u \in Vertices |-> d * dist[u].c - dist[u].k]
<1>2. d \in Nat \ {0}
  OBVIOUS
<1>3. \A u \in Vertices : dist[u].c \in Int /\ dist[u].k \in Nat
  BY DEF TypeOK, Weights
<1>4. \A u \in Vertices : d * dist[u].c \in Int
  BY <1>2, <1>3, Scaled
<1>5. v \in [Vertices -> Int]
  <2> HIDE DEF d
  <2> QED
    BY <1>3, <1>4
<1>6. ASSUME NEW e \in DOMAIN edges
      PROVE  /\ v[e[2]] - v[e[1]] <= d * edges[e].c
             /\ edges[e].k > 0 => v[e[2]] - v[e[1]] < d * edges[e].c
  <2> DEFINE x == dist[e[2]]
             y == dist[e[1]]
             w == edges[e]
  <2>1. /\ e[1] \in Vertices /\ e[2] \in Vertices /\ w \in Weights
        /\ e[1] \in VertexSet
    BY GraphTyped DEF VertexSet
  <2>2. /\ x.c \in Int /\ x.k \in Nat /\ y.c \in Int /\ y.k \in Nat
        /\ w.c \in Int /\ w.k \in Nat /\ y.k <= b
    BY <1>1, <1>3, <2>1 DEF Weights
  <2>3. \/ x.c < y.c + w.c
        \/ x.c = y.c + w.c /\ x.k >= y.k + w.k
    BY DEF Holds
  <2>4. v[e[2]] = d * x.c - x.k /\ v[e[1]] = d * y.c - y.k
    BY <2>1
  <2> HIDE DEF x, y, w, v
  <2>5. y.c + w.c \in Int
    BY <2>2
  <2> DEFINE z == y.c + w.c
  <2>6. d * z = d * y.c + d * w.c /\ d * y.c \in Int /\ d * w.c \in Int /\ d * x.c \in Int
    <3> HIDE DEF d
    <3> QED
      BY <1>2, <2>2, Scaled
  <2>7. x.c < z => d * x.c + d <= d * z
    <3> HIDE DEF d, z
    <3> QED
      BY <1>2, <2>2, <2>5, Scaled DEF z
  <2>8. d \in Nat /\ y.k < d
    BY <2>2
  <2> DEFINE dx == d * x.c
             dy == d * y.c
             dw == d * w.c
             vx == v[e[2]]
             vy == v[e[1]]
  <2>9. /\ vx = dx - x.k /\ vy = dy - y.k
        /\ dx \in Int /\ dy \in Int /\ dw \in Int
    BY <2>4, <2>6
  <2>10. x.c < z => dx + d <= dy + dw
    BY <2>6, <2>7
  <2>11. x.c = z => dx = dy + dw
    BY <2>6
  <2>12. vx - vy <= dw /\ (w.k > 0 => vx - vy < dw)
    <3> HIDE DEF d, z, dx, dy, dw, vx, vy
    <3>1. CASE x.c < z
      BY <2>2, <2>8, <2>9, <2>10, <3>1
    <3>2. CASE x.c = z /\ x.k >= y.k + w.k
      BY <2>2, <2>9, <2>11, <3>2
    <3> QED
      BY <2>3, <3>1, <3>2 DEF z
  <2> QED
    BY <2>12 DEF w
<1>7. Solves(v, d)
  <2> HIDE DEF v, d
  <2> QED
    BY <1>6 DEF Solves
<1> QED
  <2> HIDE DEF v, d
  <2> QED
    BY <1>2, <1>5, <1>7 DEF Solvable

\* find_negative_cycle decides difference constraints, strict ones included: without a
\* cycle they have a solution in the rational numbers, with one they have none.
THEOREM AnswerCorrect == Spec => []Decided
<1>1. Inv => Decided
  <2> SUFFICES ASSUME Inv PROVE Decided
    OBVIOUS
  <2>1. TypeOK /\ NoCycleSolved /\ CycleNegative
    BY DEF Inv
  <2>2. ASSUME phase = "noCycle" PROVE Solvable
    BY <2>1, <2>2, DistancesSolve DEF NoCycleSolved
  <2>3. ASSUME phase = "cycle" PROVE ~Solvable
    <3>1. cycle # <<>> /\ CycleEdges \subseteq DOMAIN edges /\ Less(WeightOf(edges, cycle), Zero)
      BY <2>1, <2>3 DEF CycleNegative
    <3>2. cycle \in Seq(Vertices)
      BY <2>1 DEF TypeOK
    <3>3. NegativeCycle(cycle)
      BY <3>1, <3>2 DEF NegativeCycle, CycleEdges
    <3> QED
      BY <2>1, <3>3, CycleRefutes
  <2> QED
    BY <2>2, <2>3 DEF Decided
<1> QED
  BY <1>1, InvHolds, PTL
=============================================================================
