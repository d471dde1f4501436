---------------------------- MODULE FormulaProofs ----------------------------
(***************************************************************************)
(* Facts about all formulas: the functions that Formula and NodeMeaning    *)
(* define along their structure exist, and satisfy their equations.        *)
(***************************************************************************)
EXTENDS NodeMeaning, SetInduction

----------------------------------------------------------------------------
(* Formulas, level by level *)
Propositions == [op : {"prop"}, e : Expr]
Level(n, up) == Propositions \cup IF n = 0 THEN {} ELSE Compound(up[n - 1])
Levels(n, up) == \A i \in 0 .. n : up[i] = Level(i, up)

LEMMA SomeLevels ==
    ASSUME NEW n \in Nat
    PROVE  \E up : Levels(n, up)
<1> DEFINE S == {k \in Nat : \E up : Levels(k, up)}
<1>1. 0 \in S
  <2> DEFINE up == [i \in 0 .. 0 |-> Propositions]
  <2>1. \A i \in 0 .. 0 : Level(i, up) = up[i]
    BY DEF Level
  <2>2. Levels(0, up)
    BY <2>1 DEF Levels
  <2> QED
    BY <2>2
<1>2. ASSUME NEW k \in Nat, k \in S PROVE k + 1 \in S
  <2>1. PICK old : Levels(k, old)
    BY <1>2
  <2>2. \A i \in 0 .. k : old[i] = Level(i, old)
    BY <2>1 DEF Levels
  <2> DEFINE up == [i \in 0 .. k + 1 |-> IF i = k + 1 THEN Level(k + 1, old) ELSE old[i]]
  <2>3. \A i \in 0 .. k + 1 : i # 0 => i - 1 \in 0 .. k + 1 /\ up[i - 1] = old[i - 1]
    OBVIOUS
  <2>4. \A i \in 0 .. k + 1 : Level(i, up) = Level(i, old)
    <3> HIDE DEF up
    <3> QED
      BY <2>3 DEF Level
  <2>5. \A i \in 0 .. k + 1 : up[i] = Level(i, old)
    BY <2>2
  <2>6. Levels(k + 1, up)
    <3> HIDE DEF up
    <3> QED
      BY <2>4, <2>5 DEF Levels
  <2> QED
    BY <2>6
<1>3. Nat \subseteq S
  <2> HIDE DEF S
  <2> QED
    BY <1>1, <1>2, NatSetInduction
<1> QED
  BY <1>3

LEMMA SameLevels ==
    ASSUME NEW m \in Nat, NEW n \in Nat, m <= n, NEW a, NEW b, Levels(m, a), Levels(n, b)
    PROVE  \A i \in 0 .. m : a[i] = b[i]
<1> DEFINE S == {i \in 0 .. m : a[i] = b[i]}
<1>1. \A i \in 0 .. m : a[i] = Level(i, a) /\ b[i] = Level(i, b)
  BY DEF Levels
<1>2. 0 \in S
  <2>1. a[0] = Level(0, a) /\ b[0] = Level(0, b)
    BY <1>1
  <2>2. Level(0, a) = Propositions /\ Level(0, b) = Propositions
    BY DEF Level
  <2> QED
    BY <2>1, <2>2
<1>3. ASSUME NEW i \in 0 .. m, i # m, i \in S PROVE i + 1 \in S
  <2>1. i + 1 \in 0 .. m /\ (i + 1) - 1 = i /\ i + 1 # 0
    BY <1>3
  <2>2. Level(i + 1, a) = Level(i + 1, b)
    BY <1>3, <2>1 DEF Level
  <2> QED
    BY <1>1, <2>1, <2>2
<1>4. 0 .. m \subseteq S
  <2> HIDE DEF S
  <2> QED
    BY <1>2, <1>3, IntervalInduction
<1> QED
  BY <1>4

\* The levels of formulas are as FormulaUpTo defines them.
LEMMA LevelsExist == FormulaUpTo = [n \in Nat |-> Level(n, FormulaUpTo)]
<1>1. PICK of : \A n \in Nat : Levels(n, of[n])
  <2> DEFINE of == [n \in Nat |-> CHOOSE up : Levels(n, up)]
  <2>1. \A n \in Nat : Levels(n, CHOOSE up : Levels(n, up))
    BY SomeLevels, Zenon
  <2>2. \A n \in Nat : of[n] = CHOOSE up : Levels(n, up)
    BY Zenon
  <2> HIDE DEF of
  <2>3. \A n \in Nat : Levels(n, of[n])
    BY <2>1, <2>2, Zenon
  <2> QED
    BY <2>3, Zenon
<1> DEFINE all == [n \in Nat |-> of[n][n]]
<1>2. ASSUME NEW n \in Nat PROVE of[n][n] = Level(n, all)
  <2>1. of[n][n] = Level(n, of[n])
    BY <1>1 DEF Levels
  <2>2. CASE n = 0
    BY <2>1, <2>2 DEF Level
  <2>3. CASE n # 0
    <3>1. n - 1 \in Nat /\ n - 1 <= n /\ n - 1 \in 0 .. n - 1
      BY <2>3
    <3>2. of[n][n - 1] = of[n - 1][n - 1]
      BY <1>1, <3>1, SameLevels
    <3>3. all[n - 1] = of[n - 1][n - 1]
      BY <3>1
    <3> HIDE DEF all
    <3> QED
      BY <2>1, <2>3, <3>2, <3>3 DEF Level
  <2> QED
    BY <2>2, <2>3
<1>3. all = [n \in Nat |-> Level(n, all)]
  BY <1>2
<1>4. \E up : up = [n \in Nat |-> [op : {"prop"}, e : Expr]
                        \cup IF n = 0 THEN {} ELSE Compound(up[n - 1])]
  <2> HIDE DEF all
  <2> QED
    BY <1>3, Zenon DEF Level, Propositions
<1>5. FormulaUpTo = [n \in Nat |-> [op : {"prop"}, e : Expr]
                        \cup IF n = 0 THEN {} ELSE Compound(FormulaUpTo[n - 1])]
  BY <1>4, Zenon DEF FormulaUpTo
<1> QED
  BY <1>5, Zenon DEF Level, Propositions
LEMMA LevelEquations ==
    /\ FormulaUpTo[0] = Propositions
    /\ \A n \in Nat : FormulaUpTo[n + 1] = Propositions \cup Compound(FormulaUpTo[n])
<1> DEFINE up == FormulaUpTo
<1>1. up = [n \in Nat |-> Level(n, up)]
  BY LevelsExist
<1> HIDE DEF up
<1>2. \A n \in Nat : up[n] = Level(n, up)
  <2> DEFINE L(n) == Level(n, up)
  <2>1. up = [n \in Nat |-> L(n)]
    BY <1>1
  <2> HIDE DEF L
  <2>2. \A n \in Nat : up[n] = L(n)
    BY <2>1, Zenon
  <2> QED
    BY <2>2 DEF L
<1>3. up[0] = Propositions
  BY <1>2 DEF Level
<1>4. ASSUME NEW n \in Nat PROVE up[n + 1] = Propositions \cup Compound(up[n])
  <2>1. n + 1 \in Nat /\ n + 1 # 0 /\ (n + 1) - 1 = n
    OBVIOUS
  <2>2. up[n + 1] = Level(n + 1, up)
    BY <1>2, <2>1
  <2> QED
    BY <2>1, <2>2 DEF Level
<1> QED
  BY <1>3, <1>4 DEF up

LEMMA CompoundMonotone ==
    ASSUME NEW S, NEW T, S \subseteq T
    PROVE  Compound(S) \subseteq Compound(T)
<1>1. Seq(S) \subseteq Seq(T)
  OBVIOUS
<1> QED
  BY <1>1 DEF Compound

LEMMA LevelsGrow == \A n \in Nat : FormulaUpTo[n] \subseteq FormulaUpTo[n + 1]
<1> DEFINE S == {n \in Nat : FormulaUpTo[n] \subseteq FormulaUpTo[n + 1]}
<1>1. 0 \in S
  <2>1. 0 + 1 = 1 /\ 0 \in Nat
    OBVIOUS
  <2> QED
    BY <2>1, LevelEquations
<1>2. ASSUME NEW n \in Nat, n \in S PROVE n + 1 \in S
  <2>1. FormulaUpTo[n] \subseteq FormulaUpTo[n + 1]
    BY <1>2
  <2>2. Compound(FormulaUpTo[n]) \subseteq Compound(FormulaUpTo[n + 1])
    BY <2>1, CompoundMonotone
  <2>3. n + 1 \in Nat
    OBVIOUS
  <2> QED
    BY <2>2, <2>3, LevelEquations
<1>3. Nat \subseteq S
  <2> HIDE DEF S
  <2> QED
    BY <1>1, <1>2, NatSetInduction
<1> QED
  BY <1>3

LEMMA LevelsInFormula ==
    ASSUME NEW n \in Nat, n <= Nesting
    PROVE  FormulaUpTo[n] \subseteq Formula
<1> DEFINE S == {k \in Nat : FormulaUpTo[n] \subseteq FormulaUpTo[n + k]}
<1>1. 0 \in S
  OBVIOUS
<1>2. ASSUME NEW k \in Nat, k \in S PROVE k + 1 \in S
  <2>1. n + k \in Nat /\ n + (k + 1) = (n + k) + 1
    OBVIOUS
  <2> QED
    BY <1>2, <2>1, LevelsGrow
<1>3. Nat \subseteq S
  <2> HIDE DEF S
  <2> QED
    BY <1>1, <1>2, NatSetInduction
<1>4. Nesting - n \in Nat /\ n + (Nesting - n) = Nesting
  BY NestingAssumption
<1> QED
  BY <1>3, <1>4 DEF Formula

\* A formula of a level has its operands one level below.
LEMMA CompoundShape ==
    ASSUME NEW S, NEW f \in Compound(S)
    PROVE  /\ f.op \in {"not", "and", "or", "imply", "G", "F", "U", "R"}
           /\ f.op \in {"and", "or"} => f = [op |-> f.op, args |-> f.args] /\ f.args \in Seq(S)
           /\ f.op = "not" => f = [op |-> f.op, phi |-> f.phi] /\ f.phi \in S
           /\ f.op \in {"G", "F"} =>
                /\ f = [op |-> f.op, int |-> f.int, phi |-> f.phi]
                /\ f.int \in Times /\ f.phi \in S
           /\ f.op \in {"U", "R"} =>
                /\ f = [op |-> f.op, int |-> f.int, left |-> f.left, right |-> f.right]
                /\ f.int \in Times /\ f.left \in S /\ f.right \in S
           /\ f.op = "imply" =>
                /\ f = [op |-> f.op, left |-> f.left, right |-> f.right, notLeft |-> f.notLeft]
                /\ f.left \in S /\ f.right \in S /\ f.notLeft \in S
<1>1. CASE f \in [op : {"not"}, phi : S]
  BY <1>1
<1>2. CASE f \in [op : {"and", "or"}, args : Seq(S)]
  BY <1>2
<1>3. CASE f \in [op : {"imply"}, left : S, right : S, notLeft : S]
  BY <1>3
<1>4. CASE f \in [op : {"G", "F"}, int : Times, phi : S]
  BY <1>4
<1>5. CASE f \in [op : {"U", "R"}, int : Times, left : S, right : S]
  BY <1>5
<1> QED
  BY <1>1, <1>2, <1>3, <1>4, <1>5 DEF Compound

LEMMA CompoundOperands ==
    ASSUME NEW S, NEW f \in Compound(S)
    PROVE  Operands(f) \subseteq S
<1>1. CASE f.op \in {"and", "or"}
  <2>1. f.args \in Seq(S)
    BY <1>1, CompoundShape
  <2>2. \A i \in DOMAIN f.args : f.args[i] \in S
    BY <2>1
  <2> QED
    BY <1>1, <2>2 DEF Operands
<1>2. CASE f.op \in {"not", "G", "F"}
  BY <1>2, CompoundShape DEF Operands
<1>3. CASE f.op \in {"U", "R"}
  BY <1>3, CompoundShape DEF Operands
<1>4. CASE f.op = "imply"
  BY <1>4, CompoundShape DEF Operands
<1>5. f.op \in {"not", "and", "or", "imply", "G", "F", "U", "R"}
  BY CompoundShape
<1> QED
  BY <1>1, <1>2, <1>3, <1>4, <1>5

LEMMA PropositionOperands == \A f \in Propositions : Operands(f) = {}
BY DEF Propositions, Operands

\* Induction over formulas: what holds of a formula when it holds of its operands
\* holds of all formulas.
LEMMA FormulaInduction ==
    ASSUME NEW S,
           \A f \in Formula : Operands(f) \subseteq S /\ Operands(f) \subseteq Formula => f \in S
    PROVE  Formula \subseteq S
<1> DEFINE T == {n \in Nat : n <= Nesting => FormulaUpTo[n] \subseteq S}
<1>1. 0 \in T
  <2>1. FormulaUpTo[0] \subseteq Formula
    BY LevelsInFormula, NestingAssumption
  <2>2. ASSUME NEW f \in FormulaUpTo[0] PROVE f \in S
    <3>1. Operands(f) = {}
      BY LevelEquations, PropositionOperands
    <3> QED
      BY <2>1, <3>1
  <2> QED
    BY <2>2
<1>2. ASSUME NEW n \in Nat, n \in T PROVE n + 1 \in T
  <2> SUFFICES ASSUME n + 1 <= Nesting, NEW f \in FormulaUpTo[n + 1] PROVE f \in S
    OBVIOUS
  <2>1. n <= Nesting /\ n + 1 \in Nat
    BY NestingAssumption
  <2>2. FormulaUpTo[n] \subseteq S
    BY <1>2, <2>1
  <2>3. FormulaUpTo[n] \subseteq Formula /\ f \in Formula
    BY <2>1, LevelsInFormula
  <2>4. Operands(f) \subseteq FormulaUpTo[n]
    BY LevelEquations, PropositionOperands, CompoundOperands
  <2> QED
    BY <2>2, <2>3, <2>4
<1>3. Nat \subseteq T
  <2> HIDE DEF T
  <2> QED
    BY <1>1, <1>2, NatSetInduction
<1> QED
  BY <1>3, NestingAssumption DEF Formula

----------------------------------------------------------------------------

LEMMA FormulaCases == \A f \in Formula : f \in Propositions \/ f \in Compound(Formula)
<1> SUFFICES ASSUME NEW f \in Formula, f \notin Propositions PROVE f \in Compound(Formula)
  OBVIOUS
<1>1. CASE Nesting = 0
  BY <1>1, LevelEquations DEF Formula
<1>2. CASE Nesting # 0
  <2>1. Nesting - 1 \in Nat /\ (Nesting - 1) + 1 = Nesting /\ Nesting - 1 <= Nesting
    BY <1>2, NestingAssumption
  <2>2. f \in Compound(FormulaUpTo[Nesting - 1])
    BY <2>1, LevelEquations DEF Formula
  <2>3. FormulaUpTo[Nesting - 1] \subseteq Formula
    BY <2>1, LevelsInFormula
  <2> QED
    BY <2>2, <2>3, CompoundMonotone
<1> QED
  BY <1>1, <1>2

LEMMA OperandsInFormula == \A f \in Formula : Operands(f) \subseteq Formula
BY FormulaCases, PropositionOperands, CompoundOperands

\* What step makes of a formula and of the values of its operands
DependsOnOperands(step, V) ==
    \A f \in Formula : \A a, b \in [Formula -> V] :
        (\A g \in Operands(f) : a[g] = b[g]) => step[<<f, a>>] = step[<<f, b>>]

\* Definition by recursion over formulas
LEMMA RecursiveFunction ==
    ASSUME NEW V, V # {}, NEW step \in [Formula \X [Formula -> V] -> V],
           DependsOnOperands(step, V)
    PROVE  \E h \in [Formula -> V] : \A f \in Formula : h[f] = step[<<f, h>>]
<1> DEFINE Good(n, h) == \A f \in FormulaUpTo[n] : f \in Formula => h[f] = step[<<f, h>>]
           T == {n \in Nat : n <= Nesting => \E h \in [Formula -> V] : Good(n, h)}
           Next1(h) == [f \in Formula |-> step[<<f, h>>]]
<1>1. \A h \in [Formula -> V] : Next1(h) \in [Formula -> V]
  OBVIOUS
<1>2. 0 \in T
  <2>1. PICK v \in V : TRUE
    OBVIOUS
  <2> DEFINE a == [f \in Formula |-> v]
             b == Next1(a)
  <2>2. a \in [Formula -> V]
    OBVIOUS
  <2>3. b \in [Formula -> V]
    BY <1>1, <2>2
  <2>4. ASSUME NEW f \in FormulaUpTo[0], f \in Formula PROVE b[f] = step[<<f, b>>]
    <3>1. Operands(f) = {}
      BY LevelEquations, PropositionOperands
    <3>2. b[f] = step[<<f, a>>]
      BY <2>4
    <3> HIDE DEF a, b, Next1
    <3>3. step[<<f, a>>] = step[<<f, b>>]
      BY <2>2, <2>3, <2>4, <3>1 DEF DependsOnOperands
    <3> QED
      BY <3>2, <3>3
  <2>5. \E h \in [Formula -> V] : Good(0, h)
    <3> HIDE DEF b
    <3> QED
      BY <2>3, <2>4
  <2> QED
    BY <2>5
<1>3. ASSUME NEW n \in Nat, n \in T PROVE n + 1 \in T
  <2> SUFFICES ASSUME n + 1 <= Nesting PROVE \E h \in [Formula -> V] : Good(n + 1, h)
    <3> HIDE DEF Good
    <3>1. n + 1 \in Nat
      OBVIOUS
    <3> QED
      BY <3>1
  <2>1. n <= Nesting
    BY NestingAssumption
  <2>2. PICK a \in [Formula -> V] : Good(n, a)
    BY <1>3, <2>1
  <2> DEFINE b == Next1(a)
  <2>3. b \in [Formula -> V]
    BY <1>1, <2>2
  <2>4. \A f \in Formula : b[f] = step[<<f, a>>]
    OBVIOUS
  <2>5. FormulaUpTo[n] \subseteq Formula
    BY <2>1, LevelsInFormula
  <2> HIDE DEF b, Next1
  <2>6. \A f \in FormulaUpTo[n] : b[f] = a[f]
    BY <2>2, <2>4, <2>5
  <2>7. ASSUME NEW f \in FormulaUpTo[n + 1], f \in Formula PROVE b[f] = step[<<f, b>>]
    <3>1. Operands(f) \subseteq FormulaUpTo[n]
      BY LevelEquations, PropositionOperands, CompoundOperands
    <3>2. step[<<f, a>>] = step[<<f, b>>]
      BY <2>2, <2>3, <2>6, <2>7, <3>1 DEF DependsOnOperands
    <3> QED
      BY <2>4, <2>7, <3>2
  <2> QED
    BY <2>3, <2>7
<1>4. Nat \subseteq T
  <2> HIDE DEF T
  <2> QED
    BY <1>2, <1>3, NatSetInduction
<1> QED
  BY <1>4, NestingAssumption DEF Formula

----------------------------------------------------------------------------
(* The truth of formulas *)
LEMMA MeaningOfOperands ==
    ASSUME NEW f \in Formula, NEW sig, NEW t, NEW a, NEW b, \A g \in Operands(f) : a[g] = b[g]
    PROVE  Meaning(f, sig, t, a) = Meaning(f, sig, t, b)
<1>1. f.op \in {"and", "or"} => \A i \in DOMAIN f.args : a[f.args[i]] = b[f.args[i]]
  BY DEF Operands
<1>2. f.op \in {"not", "G", "F"} => a[f.phi] = b[f.phi]
  BY DEF Operands
<1>3. f.op \in {"U", "R", "imply"} => a[f.left] = b[f.left] /\ a[f.right] = b[f.right]
  BY DEF Operands
<1> QED
  BY <1>1, <1>2, <1>3 DEF Meaning

LEMMA TruthEquation ==
    ASSUME NEW sig
    PROVE  Truth(sig) = [f \in Formula |-> [t \in Int |-> Meaning(f, sig, t, Truth(sig))]]
<1> DEFINE V == [Int -> BOOLEAN]
           step == [p \in Formula \X [Formula -> V] |-> [t \in Int |-> Meaning(p[1], sig, t, p[2])]]
<1>1. V # {}
  <2>1. [t \in Int |-> TRUE] \in V
    OBVIOUS
  <2> QED
    BY <2>1
<1>2. \A f, a, t : Meaning(f, sig, t, a) \in BOOLEAN
  BY DEF Meaning
<1>3. step \in [Formula \X [Formula -> V] -> V]
  BY <1>2
<1>4. \A f \in Formula : \A a \in [Formula -> V] : step[<<f, a>>] = [t \in Int |-> Meaning(f, sig, t, a)]
  OBVIOUS
<1> HIDE DEF V, step
<1>5. DependsOnOperands(step, V)
  <2> SUFFICES ASSUME NEW f \in Formula, NEW a \in [Formula -> V], NEW b \in [Formula -> V],
                      \A g \in Operands(f) : a[g] = b[g]
               PROVE  step[<<f, a>>] = step[<<f, b>>]
    BY DEF DependsOnOperands
  <2>1. \A t \in Int : Meaning(f, sig, t, a) = Meaning(f, sig, t, b)
    BY MeaningOfOperands
  <2>2. [t \in Int |-> Meaning(f, sig, t, a)] = [t \in Int |-> Meaning(f, sig, t, b)]
    BY <2>1
  <2>3. step[<<f, a>>] = [t \in Int |-> Meaning(f, sig, t, a)]
    BY <1>4
  <2>4. step[<<f, b>>] = [t \in Int |-> Meaning(f, sig, t, b)]
    BY <1>4
  <2> QED
    BY <2>2, <2>3, <2>4
<1>6. PICK h \in [Formula -> V] : \A f \in Formula : h[f] = step[<<f, h>>]
  BY <1>1, <1>3, <1>5, RecursiveFunction
<1>7. h = [f \in Formula |-> [t \in Int |-> Meaning(f, sig, t, h)]]
  BY <1>4, <1>6
<1>8. \E truth : truth = [f \in Formula |-> [t \in Int |-> Meaning(f, sig, t, truth)]]
  BY <1>7, Zenon
<1> QED
  BY <1>8, Zenon DEF Truth

LEMMA HoldsEquation ==
    ASSUME NEW sig, NEW t \in Int, NEW f \in Formula
    PROVE  Holds(sig, t, f) = Meaning(f, sig, t, Truth(sig))
<1> DEFINE M(g, u) == Meaning(g, sig, u, Truth(sig))
           truth == Truth(sig)
<1>1. truth = [g \in Formula |-> [u \in Int |-> M(g, u)]]
  BY TruthEquation
<1> HIDE DEF M, truth
<1>2. truth[f][t] = M(f, t)
  BY <1>1, Zenon
<1> QED
  BY <1>2, Zenon DEF Holds, M, truth

\* Holds at a formula, operator by operator
LEMMA HoldsCases ==
    ASSUME NEW sig, NEW t \in Int, NEW f \in Formula
    PROVE  /\ Holds(sig, t, f) \in BOOLEAN
           /\ f.op = "prop" => (Holds(sig, t, f) <=> sig[t][f.e.var] \in f.e.holds)
           /\ f.op = "not" => (Holds(sig, t, f) <=> ~Holds(sig, t, f.phi))
           /\ f.op = "and" => (Holds(sig, t, f) <=> \A i \in DOMAIN f.args : Holds(sig, t, f.args[i]))
           /\ f.op = "or" => (Holds(sig, t, f) <=> \E i \in DOMAIN f.args : Holds(sig, t, f.args[i]))
           /\ f.op = "imply" => (Holds(sig, t, f) <=> (Holds(sig, t, f.left) => Holds(sig, t, f.right)))
           /\ f.op = "G" => (Holds(sig, t, f) <=>
                \A i \in f.int.lower .. f.int.upper : Holds(sig, t + i, f.phi))
           /\ f.op = "F" => (Holds(sig, t, f) <=>
                \E i \in f.int.lower .. f.int.upper : Holds(sig, t + i, f.phi))
           /\ f.op = "U" => (Holds(sig, t, f) <=>
                \E i \in f.int.lower .. f.int.upper :
                    /\ Holds(sig, t + i, f.right)
                    /\ \A j \in f.int.lower .. i - 1 : Holds(sig, t + j, f.left))
           /\ f.op = "R" => (Holds(sig, t, f) <=>
                \A i \in f.int.lower .. f.int.upper :
                    \/ Holds(sig, t + i, f.right)
                    \/ \E j \in f.int.lower .. i - 1 : Holds(sig, t + j, f.left))
<1> DEFINE H == Holds(sig, t, f)
<1>1. H = Meaning(f, sig, t, Truth(sig))
  BY HoldsEquation
<1>2. Meaning(f, sig, t, Truth(sig)) \in BOOLEAN
  BY DEF Meaning
<1> HIDE DEF H
<1>3. H \in BOOLEAN
  BY <1>1, <1>2
<1> DEFINE M == Meaning(f, sig, t, Truth(sig))
<1>4. M \in BOOLEAN
  BY <1>2
<1>5. CASE f.op = "prop"
  <2>1. M <=> sig[t][f.e.var] \in f.e.holds
    BY <1>5 DEF Meaning
  <2> QED
    BY <1>1, <1>3, <1>5, <2>1 DEF H
<1>6. CASE f.op \in {"not", "and", "or", "imply"}
  <2>1. /\ f.op = "not" => (M <=> ~Truth(sig)[f.phi][t])
        /\ f.op = "and" => (M <=> \A i \in DOMAIN f.args : Truth(sig)[f.args[i]][t])
        /\ f.op = "or" => (M <=> \E i \in DOMAIN f.args : Truth(sig)[f.args[i]][t])
        /\ f.op = "imply" => (M <=> (Truth(sig)[f.left][t] => Truth(sig)[f.right][t]))
    BY <1>6 DEF Meaning
  <2> QED
    BY <1>1, <1>3, <1>6, <2>1 DEF H, Holds
<1>7. CASE f.op \in {"G", "F"}
  <2>1. /\ f.op = "G" => (M <=> \A i \in f.int.lower .. f.int.upper : Truth(sig)[f.phi][t + i])
        /\ f.op = "F" => (M <=> \E i \in f.int.lower .. f.int.upper : Truth(sig)[f.phi][t + i])
    BY <1>7 DEF Meaning
  <2> QED
    BY <1>1, <1>3, <1>7, <2>1 DEF H, Holds
<1>8. CASE f.op = "U"
  <2>1. M <=> \E i \in f.int.lower .. f.int.upper :
                /\ Truth(sig)[f.right][t + i]
                /\ \A j \in f.int.lower .. i - 1 : Truth(sig)[f.left][t + j]
    BY <1>8 DEF Meaning
  <2> QED
    BY <1>1, <1>3, <1>8, <2>1 DEF H, Holds
<1>9. CASE f.op = "R"
  <2>1. M <=> \A i \in f.int.lower .. f.int.upper :
                \/ Truth(sig)[f.right][t + i]
                \/ \E j \in f.int.lower .. i - 1 : Truth(sig)[f.left][t + j]
    BY <1>9 DEF Meaning
  <2> QED
    BY <1>1, <1>3, <1>9, <2>1 DEF H, Holds
<1>10. f.op \in {"prop", "not", "and", "or", "imply", "G", "F", "U", "R"}
  BY FormulaCases, CompoundShape DEF Propositions
<1> QED
  BY <1>5, <1>6, <1>7, <1>8, <1>9, <1>10 DEF H

----------------------------------------------------------------------------
(* What an operand demands *)
LEMMA DemandOfOperands ==
    ASSUME NEW f \in Formula, NEW sig, NEW now, NEW from, NEW a, NEW b,
           \A g \in Operands(f) : a[g] = b[g]
    PROVE  Demand(f, sig, now, from, a) = Demand(f, sig, now, from, b)
<1>1. f.op \in {"and", "or"} => \A i \in DOMAIN f.args : a[f.args[i]] = b[f.args[i]]
  BY DEF Operands
<1>2. f.op = "imply" => a[f.left] = b[f.left] /\ a[f.right] = b[f.right]
  BY DEF Operands
<1> QED
  BY <1>1, <1>2 DEF Demand

LEMMA DemandedEquation ==
    ASSUME NEW sig, NEW now, NEW from
    PROVE  Demanded(sig, now, from) = [f \in Formula |-> Demand(f, sig, now, from, Demanded(sig, now, from))]
<1> DEFINE V == BOOLEAN
           step == [p \in Formula \X [Formula -> V] |-> Demand(p[1], sig, now, from, p[2])]
<1>1. V # {}
  OBVIOUS
<1>2. \A f, a : Demand(f, sig, now, from, a) \in BOOLEAN
  BY DEF Demand
<1>3. step \in [Formula \X [Formula -> V] -> V]
  BY <1>2
<1>4. \A f \in Formula : \A a \in [Formula -> V] : step[<<f, a>>] = Demand(f, sig, now, from, a)
  OBVIOUS
<1> HIDE DEF V, step
<1>5. DependsOnOperands(step, V)
  BY <1>4, DemandOfOperands DEF DependsOnOperands
<1>6. PICK h \in [Formula -> V] : \A f \in Formula : h[f] = step[<<f, h>>]
  BY <1>1, <1>3, <1>5, RecursiveFunction
<1>7. h = [f \in Formula |-> Demand(f, sig, now, from, h)]
  BY <1>4, <1>6
<1>8. \E demanded : demanded = [f \in Formula |-> Demand(f, sig, now, from, demanded)]
  BY <1>7, Zenon
<1> QED
  BY <1>8, Zenon DEF Demanded

LEMMA DemandsEquation ==
    ASSUME NEW sig, NEW now, NEW from, NEW f \in Formula
    PROVE  Demands(sig, f, now, from) = Demand(f, sig, now, from, Demanded(sig, now, from))
<1> DEFINE D(g) == Demand(g, sig, now, from, Demanded(sig, now, from))
           demanded == Demanded(sig, now, from)
<1>1. demanded = [g \in Formula |-> D(g)]
  BY DemandedEquation
<1> HIDE DEF D, demanded
<1>2. demanded[f] = D(f)
  BY <1>1, Zenon
<1> QED
  BY <1>2, Zenon DEF Demands, D, demanded

LEMMA DemandsCases ==
    ASSUME NEW sig, NEW now \in Int, NEW from, NEW f \in Formula
    PROVE  /\ Demands(sig, f, now, from) \in BOOLEAN
           /\ IsLiteral(f) => (Demands(sig, f, now, from) <=> Holds(sig, now, f))
           /\ f.op = "and" => (Demands(sig, f, now, from) <=>
                \A i \in DOMAIN f.args : Demands(sig, f.args[i], now, from))
           /\ f.op = "or" => (Demands(sig, f, now, from) <=>
                \E i \in DOMAIN f.args : Demands(sig, f.args[i], now, from))
           /\ f.op = "imply" => (Demands(sig, f, now, from) <=>
                (Demands(sig, f.left, now, from) => Demands(sig, f.right, now, from)))
           /\ f.op = "G" => (Demands(sig, f, now, from) <=>
                \A i \in Instants(f.int, from) : Holds(sig, i, f.phi))
           /\ f.op = "F" => (Demands(sig, f, now, from) <=>
                \E i \in Instants(f.int, from) : Holds(sig, i, f.phi))
           /\ f.op = "U" => (Demands(sig, f, now, from) <=>
                \E i \in Instants(f.int, from) :
                    /\ Holds(sig, i, f.right)
                    /\ \A j \in Instants(f.int, from) : j < i => Holds(sig, j, f.left))
           /\ f.op = "R" => (Demands(sig, f, now, from) <=>
                \A i \in Instants(f.int, from) :
                    \/ Holds(sig, i, f.right)
                    \/ \E j \in Instants(f.int, from) : j < i /\ Holds(sig, j, f.left))
<1> DEFINE D == Demands(sig, f, now, from)
           M == Demand(f, sig, now, from, Demanded(sig, now, from))
<1>1. D = M
  BY DemandsEquation
<1>2. M \in BOOLEAN
  BY DEF Demand
<1> HIDE DEF D
<1>3. D \in BOOLEAN
  BY <1>1, <1>2
<1>4. CASE IsLiteral(f)
  <2>1. M <=> Holds(sig, now, f)
    BY <1>4 DEF Demand, IsLiteral
  <2> QED
    BY <1>1, <1>3, <1>4, <2>1 DEF D, IsLiteral
<1>5. CASE f.op \in {"and", "or", "imply"}
  <2>1. /\ f.op = "and" => (M <=> \A i \in DOMAIN f.args : Demanded(sig, now, from)[f.args[i]])
        /\ f.op = "or" => (M <=> \E i \in DOMAIN f.args : Demanded(sig, now, from)[f.args[i]])
        /\ f.op = "imply" =>
            (M <=> (Demanded(sig, now, from)[f.left] => Demanded(sig, now, from)[f.right]))
    BY <1>5 DEF Demand, IsLiteral
  <2> QED
    BY <1>1, <1>3, <1>5, <2>1 DEF D, Demands, IsLiteral
<1>6. CASE f.op \in {"G", "F"}
  <2>1. /\ f.op = "G" => (M <=> \A i \in Instants(f.int, from) : Holds(sig, i, f.phi))
        /\ f.op = "F" => (M <=> \E i \in Instants(f.int, from) : Holds(sig, i, f.phi))
    BY <1>6 DEF Demand, IsLiteral
  <2> QED
    BY <1>1, <1>3, <1>6, <2>1 DEF D, IsLiteral
<1>7. CASE f.op = "U"
  <2>1. M <=> \E i \in Instants(f.int, from) :
                /\ Holds(sig, i, f.right)
                /\ \A j \in Instants(f.int, from) : j < i => Holds(sig, j, f.left)
    BY <1>7 DEF Demand, IsLiteral
  <2> QED
    BY <1>1, <1>3, <1>7, <2>1 DEF D, IsLiteral
<1>8. CASE f.op = "R"
  <2>1. M <=> \A i \in Instants(f.int, from) :
                \/ Holds(sig, i, f.right)
                \/ \E j \in Instants(f.int, from) : j < i /\ Holds(sig, j, f.left)
    BY <1>8 DEF Demand, IsLiteral
  <2> QED
    BY <1>1, <1>3, <1>8, <2>1 DEF D, IsLiteral
<1>9. f.op \in {"prop", "not", "and", "or", "imply", "G", "F", "U", "R"}
  BY FormulaCases, CompoundShape DEF Propositions
<1> QED
  BY <1>4, <1>5, <1>6, <1>7, <1>8, <1>9 DEF D, IsLiteral

----------------------------------------------------------------------------
(* Variables and horizons *)
LEMMA ImageFinite ==
    ASSUME NEW S, IsFiniteSet(S), NEW h
    PROVE  IsFiniteSet({h[x] : x \in S})
<1> DEFINE T == {h[x] : x \in S}
           f == [x \in S |-> h[x]]
<1>1. f \in Surjection(S, T)
  BY DEF Surjection
<1> HIDE DEF T, f
<1>2. IsFiniteSet(T)
  BY <1>1, FS_Surjection
<1> QED
  BY <1>2 DEF T

LEMMA OperandsFinite == \A f \in Formula : IsFiniteSet(Operands(f))
<1> SUFFICES ASSUME NEW f \in Formula PROVE IsFiniteSet(Operands(f))
  OBVIOUS
<1>1. ASSUME NEW x, NEW y, NEW z PROVE IsFiniteSet({x} \cup {y} \cup {z})
  <2>1. IsFiniteSet({x}) /\ IsFiniteSet({y}) /\ IsFiniteSet({z})
    BY FS_Singleton
  <2> HIDE DEF IsFiniteSet
  <2>2. IsFiniteSet({x} \cup {y})
    BY <2>1, FS_Union
  <2> QED
    BY <2>1, <2>2, FS_Union
<1>2. CASE f.op = "prop"
  BY <1>2, FS_EmptySet DEF Operands
<1>3. CASE f.op \in {"and", "or"}
  <2>1. f.args \in Seq(Formula)
    BY <1>3, FormulaCases, CompoundShape DEF Propositions
  <2>2. IsFiniteSet(DOMAIN f.args)
    <3>1. DOMAIN f.args = 1 .. Len(f.args) /\ Len(f.args) \in Int
      BY <2>1
    <3> QED
      BY <3>1, FS_Interval
  <2>3. IsFiniteSet({f.args[i] : i \in DOMAIN f.args})
    BY <2>2, ImageFinite
  <2> QED
    BY <1>3, <2>3 DEF Operands
<1>4. CASE f.op \in {"not", "G", "F"}
  <2>1. Operands(f) = {f.phi} \cup {f.phi} \cup {f.phi}
    BY <1>4 DEF Operands
  <2>2. IsFiniteSet({f.phi} \cup {f.phi} \cup {f.phi})
    BY <1>1, Zenon
  <2> QED
    BY <2>1, <2>2, Zenon
<1>5. CASE f.op \in {"U", "R"}
  <2>1. Operands(f) = {f.left} \cup {f.right} \cup {f.right}
    BY <1>5 DEF Operands
  <2>2. IsFiniteSet({f.left} \cup {f.right} \cup {f.right})
    BY <1>1, Zenon
  <2> QED
    BY <2>1, <2>2, Zenon
<1>6. CASE f.op = "imply"
  <2>1. Operands(f) = {f.left} \cup {f.right} \cup {f.notLeft}
    BY <1>6 DEF Operands
  <2>2. IsFiniteSet({f.left} \cup {f.right} \cup {f.notLeft})
    BY <1>1, Zenon
  <2> QED
    BY <2>1, <2>2, Zenon
<1>7. f.op \in {"prop", "not", "and", "or", "imply", "G", "F", "U", "R"}
  BY FormulaCases, CompoundShape DEF Propositions
<1> QED
  BY <1>2, <1>3, <1>4, <1>5, <1>6, <1>7

\* A finite set of integers has a largest element, which Max is.
LEMMA LargestElement ==
    ASSUME NEW S \in SUBSET Int, IsFiniteSet(S), S # {}
    PROVE  \E m \in S : \A k \in S : m >= k
<1> DEFINE Topped(T) == \E m \in T : \A k \in T : m >= k
           B == {T \in SUBSET S : T # {} /\ ~Topped(T)}
           N == S
<1> SUFFICES ASSUME ~Topped(S) PROVE FALSE
  OBVIOUS
<1>1. IsFiniteSet(N) /\ B \in SUBSET (SUBSET N) /\ B # {}
  OBVIOUS
<1>2. PICK T \in B : \A V \in B : V \subseteq T => V = T
  <2> HIDE DEF B, N
  <2> QED
    BY ONLY <1>1, MinimalSubset
<1>3. PICK k \in T : TRUE
  OBVIOUS
<1>4. T \ {k} \notin B
  BY <1>2, <1>3
<1>5. T \in SUBSET Int /\ k \in Int
  BY <1>3
<1>6. CASE T \ {k} = {}
  <2>1. \A j \in T : j = k
    BY <1>6
  <2>2. \A j \in T : k >= j
    BY <1>5, <2>1
  <2> QED
    BY <1>2, <1>3, <2>2
<1>7. CASE T \ {k} # {}
  <2>1. PICK m \in T \ {k} : \A j \in T \ {k} : m >= j
    BY <1>4, <1>7
  <2>2. CASE m >= k
    <3>1. \A j \in T : m >= j
      BY <1>5, <2>1, <2>2
    <3> QED
      BY <1>2, <2>1, <3>1
  <2>3. CASE k >= m
    <3>1. \A j \in T : k >= j
      BY <1>5, <2>1, <2>3
    <3> QED
      BY <1>2, <1>3, <3>1
  <2> QED
    BY <1>5, <2>1, <2>2, <2>3
<1> QED
  BY <1>6, <1>7

LEMMA MaxFact ==
    ASSUME NEW S \in SUBSET Int, IsFiniteSet(S), S # {}
    PROVE  Max(S) \in S /\ \A k \in S : Max(S) >= k
BY LargestElement, Zenon DEF Max

LEMMA VarsEquation ==
    Vars = [f \in Formula |->
                IF f.op = "prop" THEN {f.e.var} ELSE UNION {Vars[g] : g \in Operands(f)}]
<1> DEFINE V == SUBSET STRING
           W(f, h) == IF f.op = "prop" THEN {f.e.var} ELSE UNION {h[g] : g \in Operands(f)}
           step == [p \in Formula \X [Formula -> V] |-> W(p[1], p[2])]
<1>1. V # {}
  OBVIOUS
<1>2. ASSUME NEW f \in Formula, NEW h \in [Formula -> V] PROVE W(f, h) \in V
  <2>1. CASE f.op = "prop"
    <3>1. f.e \in Expr
      BY <2>1, FormulaCases, CompoundShape DEF Propositions
    <3> QED
      BY <2>1, <3>1 DEF Expr
  <2>2. CASE f.op # "prop"
    <3>1. \A g \in Operands(f) : h[g] \in V
      BY OperandsInFormula
    <3> QED
      BY <2>2, <3>1
  <2> QED
    BY <2>1, <2>2
<1>3. step \in [Formula \X [Formula -> V] -> V]
  <2> HIDE DEF W, V
  <2> QED
    BY <1>2
<1>4. \A f \in Formula : \A a \in [Formula -> V] : step[<<f, a>>] = W(f, a)
  <2> HIDE DEF W, V
  <2> QED
    OBVIOUS
<1>5. ASSUME NEW f \in Formula, NEW a, NEW b, \A g \in Operands(f) : a[g] = b[g]
      PROVE  W(f, a) = W(f, b)
  <2>1. {a[g] : g \in Operands(f)} = {b[g] : g \in Operands(f)}
    BY <1>5
  <2> QED
    BY <2>1
<1> HIDE DEF V, W, step
<1>6. DependsOnOperands(step, V)
  BY <1>4, <1>5 DEF DependsOnOperands
<1>7. PICK h \in [Formula -> V] : \A f \in Formula : h[f] = step[<<f, h>>]
  BY <1>1, <1>3, <1>6, RecursiveFunction
<1>8. h = [f \in Formula |-> W(f, h)]
  BY <1>4, <1>7
<1>9. \E w : w = [f \in Formula |-> W(f, w)]
  BY <1>8, Zenon
<1> QED
  BY <1>9, Zenon DEF Vars, W

\* What the horizon of f is computed from
Scope(f) == IF f.op = "imply" THEN {f.left, f.right} ELSE Operands(f)

LEMMA ScopeFact ==
    ASSUME NEW f \in Formula
    PROVE  Scope(f) \subseteq Operands(f) /\ IsFiniteSet(Scope(f))
<1>1. Scope(f) \subseteq Operands(f)
  BY DEF Scope, Operands
<1> QED
  BY <1>1, OperandsFinite, FS_Subset

LEMMA LargestInScope ==
    ASSUME NEW f \in Formula, NEW h, \A g \in Scope(f) : h[g] \in Int
    PROVE  LET m == Max({0} \cup {h[g] : g \in Scope(f)})
           IN  m \in Int /\ m >= 0 /\ \A g \in Scope(f) : m >= h[g]
<1> DEFINE X == {0} \cup {h[g] : g \in Scope(f)}
<1>1. IsFiniteSet(Scope(f))
  BY ScopeFact
<1>2. IsFiniteSet({h[g] : g \in Scope(f)})
  BY <1>1, ImageFinite
<1>3. X \in SUBSET Int /\ X # {} /\ IsFiniteSet(X)
  <2>1. IsFiniteSet({0})
    BY FS_Singleton
  <2>2. IsFiniteSet(X)
    BY <1>2, <2>1, FS_Union
  <2> QED
    BY <2>2
<1>4. 0 \in X /\ \A g \in Scope(f) : h[g] \in X
  OBVIOUS
<1> HIDE DEF X
<1>5. Max(X) \in X /\ \A k \in X : Max(X) >= k
  BY <1>3, MaxFact
<1>6. Max(X) \in Int /\ Max(X) >= 0 /\ \A g \in Scope(f) : Max(X) >= h[g]
  BY <1>3, <1>4, <1>5
<1> QED
  BY <1>6 DEF X

LEMMA HorizonEquation ==
    /\ Horizon \in [Formula -> Int]
    /\ \A f \in Formula : Horizon[f] = (IF IsTemporal(f) THEN f.int.upper ELSE 0)
                                       + Max({0} \cup {Horizon[g] : g \in Scope(f)})
<1> DEFINE V == Int
           S(f, h) == {0} \cup {h[g] : g \in Scope(f)}
           W(f, h) == (IF IsTemporal(f) THEN f.int.upper ELSE 0) + Max(S(f, h))
           step == [p \in Formula \X [Formula -> V] |-> W(p[1], p[2])]
<1>1. V # {}
  OBVIOUS
<1>2. ASSUME NEW f \in Formula, NEW h \in [Formula -> V] PROVE W(f, h) \in V
  <2>1. IsTemporal(f) => f.int \in Times
    BY FormulaCases, CompoundShape DEF Propositions, IsTemporal
  <2>2. \A g \in Scope(f) : h[g] \in Int
    BY ScopeFact, OperandsInFormula
  <2> DEFINE X == {0} \cup {h[g] : g \in Scope(f)}
  <2>6. Max(X) \in Int
    BY <2>2, LargestInScope
  <2> HIDE DEF X
  <2>7. (IF IsTemporal(f) THEN f.int.upper ELSE 0) + Max(X) \in Int
    BY <2>1, <2>6 DEF Times
  <2> QED
    BY <2>7, Zenon DEF X
<1>3. step \in [Formula \X [Formula -> V] -> V]
  <2> HIDE DEF W, V
  <2> QED
    BY <1>2
<1>4. \A f \in Formula : \A a \in [Formula -> V] : step[<<f, a>>] = W(f, a)
  <2> HIDE DEF W, V
  <2> QED
    OBVIOUS
<1>5. ASSUME NEW f \in Formula, NEW a, NEW b, \A g \in Operands(f) : a[g] = b[g]
      PROVE  W(f, a) = W(f, b)
  <2>1. S(f, a) = S(f, b)
    BY <1>5, ScopeFact
  <2> HIDE DEF S
  <2> QED
    BY <2>1, Zenon
<1> HIDE DEF V, W, step
<1>6. DependsOnOperands(step, V)
  BY <1>4, <1>5 DEF DependsOnOperands
<1>7. PICK h \in [Formula -> V] : \A f \in Formula : h[f] = step[<<f, h>>]
  BY <1>1, <1>3, <1>6, RecursiveFunction
<1>8. h = [f \in Formula |-> W(f, h)]
  BY <1>4, <1>7
<1>9. h \in [Formula -> V] /\ h = [f \in Formula |-> W(f, h)]
  BY <1>7, <1>8
<1>10. \E w : w = [f \in Formula |-> W(f, w)]
  BY <1>8, Zenon
<1> DEFINE horizon == Horizon
<1>11. horizon = [f \in Formula |-> W(f, horizon)]
  BY <1>10, Zenon DEF Horizon, W, Scope
<1>12. \A f \in Formula : horizon[f] = W(f, horizon)
  <2> HIDE DEF horizon, W
  <2> QED
    BY <1>11, Zenon
<1> DEFINE I == {f \in Formula : horizon[f] \in Int}
<1>13. ASSUME NEW f \in Formula, Operands(f) \subseteq I PROVE f \in I
  <2>1. IsTemporal(f) => f.int \in Times
    BY FormulaCases, CompoundShape DEF Propositions, IsTemporal
  <2>2. \A g \in Scope(f) : horizon[g] \in Int
    BY <1>13, ScopeFact
  <2> DEFINE X == {0} \cup {horizon[g] : g \in Scope(f)}
  <2>3. Max(X) \in Int
    <3> HIDE DEF horizon
    <3> QED
      BY <2>2, LargestInScope
  <2> HIDE DEF X
  <2>4. (IF IsTemporal(f) THEN f.int.upper ELSE 0) + Max(X) \in Int
    BY <2>1, <2>3 DEF Times
  <2> HIDE DEF horizon
  <2>5. horizon[f] = (IF IsTemporal(f) THEN f.int.upper ELSE 0) + Max(X)
    BY <1>12, Zenon DEF X, W
  <2> QED
    BY <2>4, <2>5
<1>14. Formula \subseteq I
  <2> HIDE DEF I
  <2> QED
    BY <1>13, FormulaInduction
<1>15. horizon \in [Formula -> Int]
  <2> HIDE DEF horizon, W
  <2> QED
    BY <1>11, <1>14
<1> QED
  BY <1>12, <1>15, Zenon DEF W

----------------------------------------------------------------------------
(* Expansions *)
LEMMA ExpansionOfOperands ==
    ASSUME NEW f \in Formula, NEW time, NEW a, NEW b, \A g \in Operands(f) : a[g] = b[g]
    PROVE  ExpansionOf(f, time, a) = ExpansionOf(f, time, b)
<1>1. CASE f.op \in {"and", "or"}
  <2>1. \A i \in DOMAIN f.args : a[f.args[i]] = b[f.args[i]]
    BY <1>1 DEF Operands
  <2>2. [i \in DOMAIN f.args |-> a[f.args[i]]] = [i \in DOMAIN f.args |-> b[f.args[i]]]
    BY <2>1
  <2>3. ExpansionOf(f, time, a) = [f EXCEPT !.args = [i \in DOMAIN f.args |-> a[f.args[i]]]]
    BY <1>1 DEF ExpansionOf, IsTemporal
  <2>4. ExpansionOf(f, time, b) = [f EXCEPT !.args = [i \in DOMAIN f.args |-> b[f.args[i]]]]
    BY <1>1 DEF ExpansionOf, IsTemporal
  <2> QED
    BY <2>2, <2>3, <2>4
<1>2. CASE f.op = "imply"
  <2>1. a[f.left] = b[f.left] /\ a[f.right] = b[f.right] /\ a[f.notLeft] = b[f.notLeft]
    BY <1>2 DEF Operands
  <2> QED
    BY <1>2, <2>1 DEF ExpansionOf
<1>3. CASE f.op \notin {"and", "or", "imply"}
  BY <1>3 DEF ExpansionOf
<1> QED
  BY <1>1, <1>2, <1>3

\* e is the expansion of f, operator by operator, when h gives those of the operands.
ExpandsTo(f, time, h, e) ==
    /\ e.op = f.op
    /\ IsLiteral(f) => e = f
    /\ f.op \in {"and", "or"} =>
        /\ DOMAIN e.args = DOMAIN f.args
        /\ \A i \in DOMAIN f.args : e.args[i] = h[f.args[i]]
    /\ f.op = "imply" =>
        e.left = h[f.left] /\ e.right = h[f.right] /\ e.notLeft = h[f.notLeft]
    /\ IsTemporal(f) => e.int = ShiftRight(f.int, time)
    /\ f.op \in {"G", "F"} => e.phi = f.phi
    /\ f.op \in {"U", "R"} => e.left = f.left /\ e.right = f.right

LEMMA ExpansionShape ==
    ASSUME NEW S, NEW f \in Propositions \cup Compound(S), NEW time \in Int, NEW h,
           \A g \in Operands(f) : h[g] \in S
    PROVE  /\ ExpansionOf(f, time, h) \in Propositions \cup Compound(S)
           /\ ExpandsTo(f, time, h, ExpansionOf(f, time, h))
<1> DEFINE e == ExpansionOf(f, time, h)
<1> SUFFICES e \in Propositions \cup Compound(S) /\ ExpandsTo(f, time, h, e)
  OBVIOUS
<1> USE DEF ExpandsTo
<1>1. CASE IsLiteral(f)
  <2>1. e = f
    BY <1>1 DEF IsLiteral, IsTemporal, ExpansionOf
  <2> QED
    BY <1>1, <2>1 DEF IsLiteral, IsTemporal
<1>2. CASE f.op \in {"and", "or"}
  <2>1. f = [op |-> f.op, args |-> f.args] /\ f.args \in Seq(S)
    BY <1>2, CompoundShape DEF Propositions
  <2> DEFINE args == [i \in DOMAIN f.args |-> h[f.args[i]]]
  <2>2. args \in Seq(S) /\ DOMAIN args = DOMAIN f.args
    <3>1. DOMAIN f.args = 1 .. Len(f.args) /\ Len(f.args) \in Nat
      BY <2>1
    <3>2. \A i \in DOMAIN f.args : h[f.args[i]] \in S
      BY <1>2 DEF Operands
    <3>3. args \in [1 .. Len(f.args) -> S]
      BY <3>1, <3>2
    <3>4. args \in Seq(S)
      BY <3>1, <3>3
    <3> QED
      BY <3>4
  <2>3. e = [f EXCEPT !.args = args]
    BY <1>2 DEF ExpansionOf, IsTemporal
  <2> HIDE DEF args
  <2>4. e = [op |-> f.op, args |-> args]
    BY <2>1, <2>3
  <2>5. e \in Compound(S) /\ e.op = f.op /\ e.args = args
    BY <1>2, <2>2, <2>4 DEF Compound
  <2>6. \A i \in DOMAIN f.args : e.args[i] = h[f.args[i]]
    BY <2>5 DEF args
  <2> HIDE DEF e
  <2> QED
    BY <1>2, <2>2, <2>5, <2>6 DEF IsLiteral, IsTemporal
<1>3. CASE f.op = "imply"
  <2>1. h[f.left] \in S /\ h[f.right] \in S /\ h[f.notLeft] \in S
    BY <1>3 DEF Operands
  <2>2. e = [op |-> "imply", left |-> h[f.left], right |-> h[f.right], notLeft |-> h[f.notLeft]]
    BY <1>3 DEF ExpansionOf, IsTemporal, Imply
  <2>3. e \in Compound(S)
    BY <2>1, <2>2 DEF Compound
  <2>4. e.op = "imply" /\ e.left = h[f.left] /\ e.right = h[f.right] /\ e.notLeft = h[f.notLeft]
    BY <2>2
  <2> HIDE DEF e
  <2> QED
    BY <1>3, <2>3, <2>4 DEF IsLiteral, IsTemporal
<1>4. CASE f.op \in {"G", "F"}
  <2>1. f = [op |-> f.op, int |-> f.int, phi |-> f.phi] /\ f.int \in Times /\ f.phi \in S
    BY <1>4, CompoundShape DEF Propositions
  <2>2. ShiftRight(f.int, time) \in Times
    BY <2>1 DEF Times, ShiftRight, Span
  <2>3. e = [f EXCEPT !.int = ShiftRight(f.int, time)]
    BY <1>4 DEF ExpansionOf, IsTemporal
  <2> DEFINE s == ShiftRight(f.int, time)
  <2> HIDE DEF s
  <2>4. e = [op |-> f.op, int |-> s, phi |-> f.phi]
    BY <2>1, <2>3 DEF s
  <2>5. e \in Compound(S) /\ e.op = f.op /\ e.phi = f.phi /\ e.int = s
    BY <1>4, <2>1, <2>2, <2>4 DEF Compound, s
  <2> HIDE DEF e
  <2> QED
    BY <1>4, <2>5 DEF IsLiteral, IsTemporal, s
<1>5. CASE f.op \in {"U", "R"}
  <2>1. /\ f = [op |-> f.op, int |-> f.int, left |-> f.left, right |-> f.right]
        /\ f.int \in Times /\ f.left \in S /\ f.right \in S
    BY <1>5, CompoundShape DEF Propositions
  <2>2. ShiftRight(f.int, time) \in Times
    BY <2>1 DEF Times, ShiftRight, Span
  <2>3. e = [f EXCEPT !.int = ShiftRight(f.int, time)]
    BY <1>5 DEF ExpansionOf, IsTemporal
  <2> DEFINE s == ShiftRight(f.int, time)
  <2> HIDE DEF s
  <2>4. e = [op |-> f.op, int |-> s, left |-> f.left, right |-> f.right]
    BY <2>1, <2>3 DEF s
  <2>5. e \in Compound(S) /\ e.op = f.op /\ e.left = f.left /\ e.right = f.right /\ e.int = s
    BY <1>5, <2>1, <2>2, <2>4 DEF Compound, s
  <2> HIDE DEF e
  <2> QED
    BY <1>5, <2>5 DEF IsLiteral, IsTemporal, s
<1>6. f.op \in {"prop", "not", "and", "or", "imply", "G", "F", "U", "R"}
  BY CompoundShape DEF Propositions
<1> QED
  BY <1>1, <1>2, <1>3, <1>4, <1>5, <1>6 DEF IsLiteral

\* A function that expands where the result is a formula stays in the levels, so that
\* it is one everywhere.
LEMMA ExpansionsStay ==
    ASSUME NEW time \in Int, NEW h,
           \A f \in Formula : ExpansionOf(f, time, h) \in Formula => h[f] = ExpansionOf(f, time, h)
    PROVE  \A f \in Formula : h[f] \in Formula /\ h[f] = ExpansionOf(f, time, h)
<1> DEFINE E(f) == ExpansionOf(f, time, h)
           T == {n \in Nat : n <= Nesting => \A f \in FormulaUpTo[n] :
                                h[f] \in FormulaUpTo[n] /\ h[f] = E(f)}
<1>1. 0 \in T
  <2> SUFFICES ASSUME NEW f \in FormulaUpTo[0]
               PROVE  h[f] \in FormulaUpTo[0] /\ h[f] = E(f)
    OBVIOUS
  <2>1. f \in Propositions /\ FormulaUpTo[0] \subseteq Formula
    BY LevelEquations, LevelsInFormula, NestingAssumption
  <2>2. E(f) = f
    BY <2>1 DEF Propositions, ExpansionOf, IsTemporal
  <2> QED
    BY <2>1, <2>2
<1>2. ASSUME NEW n \in Nat, n \in T PROVE n + 1 \in T
  <2> SUFFICES ASSUME n + 1 <= Nesting, NEW f \in FormulaUpTo[n + 1]
               PROVE  h[f] \in FormulaUpTo[n + 1] /\ h[f] = E(f)
    OBVIOUS
  <2>1. n <= Nesting /\ n + 1 \in Nat
    BY NestingAssumption
  <2>2. f \in Propositions \cup Compound(FormulaUpTo[n])
    BY LevelEquations
  <2>3. \A g \in Operands(f) : h[g] \in FormulaUpTo[n]
    BY <1>2, <2>1, <2>2, PropositionOperands, CompoundOperands
  <2>4. E(f) \in Propositions \cup Compound(FormulaUpTo[n])
    BY <2>2, <2>3, ExpansionShape
  <2>5. E(f) \in FormulaUpTo[n + 1]
    BY <2>4, LevelEquations
  <2>6. FormulaUpTo[n + 1] \subseteq Formula
    BY <2>1, LevelsInFormula
  <2> HIDE DEF E
  <2> QED
    BY <2>5, <2>6 DEF E
<1>3. Nat \subseteq T
  <2> HIDE DEF T
  <2> QED
    BY <1>1, <1>2, NatSetInduction
<1> QED
  BY <1>3, NestingAssumption DEF Formula

LEMMA ShiftedEquation ==
    ASSUME NEW time \in Int
    PROVE  \A f \in Formula : /\ Shifted(time)[f] \in Formula
                              /\ Shifted(time)[f] = ExpansionOf(f, time, Shifted(time))
<1> DEFINE V == Formula
           E(f, h) == ExpansionOf(f, time, h)
           W(f, h) == IF E(f, h) \in Formula THEN E(f, h) ELSE f
           step == [p \in Formula \X [Formula -> V] |-> W(p[1], p[2])]
<1> HIDE DEF E
<1>1. step \in [Formula \X [Formula -> V] -> V]
  OBVIOUS
<1>2. \A f \in Formula : \A a \in [Formula -> V] : step[<<f, a>>] = W(f, a)
  OBVIOUS
<1>3. ASSUME NEW f \in Formula, NEW a, NEW b, \A g \in Operands(f) : a[g] = b[g]
      PROVE  W(f, a) = W(f, b)
  <2>1. E(f, a) = E(f, b)
    BY <1>3, ExpansionOfOperands DEF E
  <2> QED
    BY <2>1
<1> SUFFICES ASSUME V # {} PROVE \A f \in Formula : /\ Shifted(time)[f] \in Formula
                                                  /\ Shifted(time)[f] = ExpansionOf(f, time, Shifted(time))
  OBVIOUS
<1> HIDE DEF V, W, step
<1>4. DependsOnOperands(step, V)
  BY <1>2, <1>3 DEF DependsOnOperands
<1>5. PICK h \in [Formula -> V] : \A f \in Formula : h[f] = step[<<f, h>>]
  BY <1>1, <1>4, RecursiveFunction
<1>6. \A f \in Formula : h[f] = W(f, h)
  BY <1>2, <1>5
<1>7. \A f \in Formula : E(f, h) \in Formula => h[f] = E(f, h)
  BY <1>6 DEF W
<1>8. \A f \in Formula : h[f] = E(f, h)
  BY <1>7, ExpansionsStay DEF E
<1>9. h = [f \in Formula |-> E(f, h)]
  BY <1>5, <1>8
<1>10. \E shifted : shifted = [f \in Formula |-> ExpansionOf(f, time, shifted)]
  BY <1>9, Zenon DEF E
<1> DEFINE shifted == Shifted(time)
<1>11. shifted = [f \in Formula |-> ExpansionOf(f, time, shifted)]
  BY <1>10, Zenon DEF Shifted
<1>12. \A f \in Formula : shifted[f] = E(f, shifted)
  <2> HIDE DEF shifted
  <2> QED
    BY <1>11, Zenon DEF E
<1>13. \A f \in Formula : shifted[f] \in Formula /\ shifted[f] = ExpansionOf(f, time, shifted)
  <2> HIDE DEF shifted
  <2> QED
    BY <1>12, ExpansionsStay DEF E
<1> QED
  BY <1>13, Zenon

\* The expansion of a formula
LEMMA ExpansionCases ==
    ASSUME NEW time \in Int, NEW f \in Formula
    PROVE  /\ Expansion(f, time) \in Formula
           /\ ExpandsTo(f, time, Shifted(time), Expansion(f, time))
<1> DEFINE h == Shifted(time)
<1>1. \A g \in Formula : h[g] \in Formula /\ h[g] = ExpansionOf(g, time, h)
  BY ShiftedEquation
<1>2. f \in Propositions \cup Compound(Formula)
  BY FormulaCases
<1>3. \A g \in Operands(f) : h[g] \in Formula
  BY <1>1, OperandsInFormula
<1> HIDE DEF h
<1>4. ExpandsTo(f, time, h, ExpansionOf(f, time, h))
  BY <1>2, <1>3, ExpansionShape
<1>5. ExpandsTo(f, time, h, h[f]) /\ h[f] \in Formula
  BY <1>1, <1>4
<1> QED
  BY <1>5 DEF Expansion, h

----------------------------------------------------------------------------
(* Coherent formulas *)
LEMMA CoherentEquation ==
    Coherent = [f \in Formula |->
        /\ f.op = "not" => f.phi.op = "prop"
        /\ f.op \in {"and", "or"} => f.args # <<>>
        /\ IsTemporal(f) => f.int \in Interval
        /\ f.op = "imply" => Opposite(f.left, f.notLeft)
        /\ \A g \in Operands(f) : Coherent[g]]
<1> DEFINE V == BOOLEAN
           W(f, h) == /\ f.op = "not" => f.phi.op = "prop"
                      /\ f.op \in {"and", "or"} => f.args # <<>>
                      /\ IsTemporal(f) => f.int \in Interval
                      /\ f.op = "imply" => Opposite(f.left, f.notLeft)
                      /\ \A g \in Operands(f) : h[g]
           step == [p \in Formula \X [Formula -> V] |-> W(p[1], p[2])]
<1>1. V # {}
  OBVIOUS
<1>2. \A f, h : W(f, h) \in V
  OBVIOUS
<1>3. \A f, a, b : (\A g \in Operands(f) : a[g] = b[g]) => W(f, a) = W(f, b)
  OBVIOUS
<1> HIDE DEF W
<1>4. step \in [Formula \X [Formula -> V] -> V]
  BY <1>2
<1>5. \A f \in Formula : \A a \in [Formula -> V] : step[<<f, a>>] = W(f, a)
  OBVIOUS
<1> HIDE DEF V, step
<1>6. DependsOnOperands(step, V)
  BY <1>3, <1>5 DEF DependsOnOperands
<1>7. PICK h \in [Formula -> V] : \A f \in Formula : h[f] = step[<<f, h>>]
  BY <1>1, <1>4, <1>6, RecursiveFunction
<1>8. h = [f \in Formula |-> W(f, h)]
  BY <1>5, <1>7
<1>9. \E coherent : coherent = [f \in Formula |-> W(f, coherent)]
  BY <1>8, Zenon
<1> QED
  BY <1>9, Zenon DEF Coherent, W

LEMMA CoherentFacts ==
    ASSUME NEW f \in Formula, Coherent[f]
    PROVE  /\ f.op = "not" => f.phi.op = "prop"
           /\ f.op \in {"and", "or"} => f.args # <<>>
           /\ IsTemporal(f) => f.int \in Interval
           /\ f.op = "imply" => Opposite(f.left, f.notLeft)
           /\ \A g \in Operands(f) : g \in Formula /\ Coherent[g]
<1>1. Coherent[f] =
        (/\ f.op = "not" => f.phi.op = "prop"
         /\ f.op \in {"and", "or"} => f.args # <<>>
         /\ IsTemporal(f) => f.int \in Interval
         /\ f.op = "imply" => Opposite(f.left, f.notLeft)
         /\ \A g \in Operands(f) : Coherent[g])
  BY CoherentEquation, Zenon
<1> QED
  BY <1>1, OperandsInFormula, Zenon

LEMMA VarsFacts ==
    ASSUME NEW f \in Formula
    PROVE  /\ f.op = "prop" => Vars[f] = {f.e.var}
           /\ f.op # "prop" => \A g \in Operands(f) : Vars[g] \subseteq Vars[f]
<1> DEFINE vars == Vars
           W(g) == IF g.op = "prop" THEN {g.e.var} ELSE UNION {Vars[k] : k \in Operands(g)}
<1>1. vars = [g \in Formula |-> W(g)]
  BY VarsEquation
<1> HIDE DEF vars, W
<1>2. vars[f] = W(f)
  BY <1>1, Zenon
<1>3. Vars[f] = IF f.op = "prop" THEN {f.e.var} ELSE UNION {Vars[k] : k \in Operands(f)}
  BY <1>2, Zenon DEF vars, W
<1> QED
  BY <1>3

LEMMA HorizonFacts ==
    ASSUME NEW f \in Formula, Coherent[f]
    PROVE  /\ Horizon[f] \in Nat
           /\ \A g \in Scope(f) :
                Horizon[g] \in Int /\ Horizon[g] + (IF IsTemporal(f) THEN f.int.upper ELSE 0) <= Horizon[f]
<1> DEFINE m == Max({0} \cup {Horizon[g] : g \in Scope(f)})
           u == IF IsTemporal(f) THEN f.int.upper ELSE 0
<1>1. \A g \in Formula : Horizon[g] \in Int
  BY HorizonEquation
<1>2. Horizon[f] = u + m
  BY HorizonEquation
<1>3. \A g \in Scope(f) : Horizon[g] \in Int
  BY <1>1, ScopeFact, OperandsInFormula
<1>4. m \in Int /\ m >= 0 /\ \A g \in Scope(f) : m >= Horizon[g]
  BY <1>3, LargestInScope
<1>5. u \in Nat
  BY CoherentFacts DEF Interval
<1> HIDE DEF m, u
<1>6. Horizon[f] \in Nat /\ \A g \in Scope(f) : Horizon[g] \in Int /\ Horizon[g] + u <= Horizon[f]
  BY <1>2, <1>3, <1>4, <1>5
<1> QED
  BY <1>6 DEF u

\* On what f talks about from t and from u on, two signals agree.
Agree(f, sig, t, other, u) ==
    \A i \in 0 .. Horizon[f] : \A x \in Vars[f] : sig[t + i][x] = other[u + i][x]

\* The instants of f at which its operands count
Offsets(f) == IF IsTemporal(f) THEN f.int.lower .. f.int.upper ELSE {0}

LEMMA AgreeOnOperands ==
    ASSUME NEW f \in Formula, Coherent[f], NEW sig, NEW t \in Int, NEW other, NEW u \in Int,
           Agree(f, sig, t, other, u), NEW g \in Scope(f), NEW i \in Offsets(f)
    PROVE  Agree(g, sig, t + i, other, u + i)
<1>1. i \in Nat /\ i <= (IF IsTemporal(f) THEN f.int.upper ELSE 0)
  BY CoherentFacts DEF Interval, Offsets
<1>2. Horizon[f] \in Nat /\ Horizon[g] \in Int
  BY HorizonFacts
<1>3. Horizon[g] + i <= Horizon[f]
  <2> DEFINE m == IF IsTemporal(f) THEN f.int.upper ELSE 0
  <2>1. Horizon[g] + m <= Horizon[f]
    BY HorizonFacts
  <2>2. m \in Int
    BY CoherentFacts DEF Interval
  <2> HIDE DEF m
  <2> QED
    BY <1>1, <1>2, <2>1, <2>2 DEF m
<1>4. f.op # "prop" /\ g \in Operands(f)
  BY ScopeFact DEF Scope, Operands
<1>5. Vars[g] \subseteq Vars[f]
  BY <1>4, VarsFacts
<1> SUFFICES ASSUME NEW j \in 0 .. Horizon[g], NEW x \in Vars[g]
             PROVE  sig[(t + i) + j][x] = other[(u + i) + j][x]
  BY DEF Agree
<1>6. i + j \in 0 .. Horizon[f] /\ (t + i) + j = t + (i + j) /\ (u + i) + j = u + (i + j)
  BY <1>1, <1>2, <1>3
<1> QED
  BY <1>5, <1>6 DEF Agree

\* A formula means the same to two signals that agree on what it talks about.
LEMMA Transfer ==
    ASSUME NEW sig, NEW other
    PROVE  \A f \in Formula : Coherent[f] => \A t, u \in Int :
               Agree(f, sig, t, other, u) => (Holds(sig, t, f) <=> Holds(other, u, f))
<1> DEFINE Same(f) == \A t, u \in Int :
                Agree(f, sig, t, other, u) => (Holds(sig, t, f) <=> Holds(other, u, f))
           S == {f \in Formula : Coherent[f] => Same(f)}
<1>1. ASSUME NEW f \in Formula, Operands(f) \subseteq S PROVE f \in S
  <2> SUFFICES ASSUME Coherent[f], NEW t \in Int, NEW u \in Int, Agree(f, sig, t, other, u)
               PROVE  Holds(sig, t, f) <=> Holds(other, u, f)
    OBVIOUS
  <2>1. ASSUME NEW g \in Scope(f), NEW i \in Offsets(f)
        PROVE  Holds(sig, t + i, g) <=> Holds(other, u + i, g)
    <3>1. g \in Formula /\ Coherent[g] /\ Same(g)
      BY <1>1, ScopeFact, CoherentFacts
    <3>2. t + i \in Int /\ u + i \in Int
      BY CoherentFacts DEF Offsets, Interval
    <3>3. Agree(g, sig, t + i, other, u + i)
      BY AgreeOnOperands
    <3> HIDE DEF S
    <3> QED
      BY <3>1, <3>2, <3>3
  <2> HIDE DEF S, Same
  <2>2. ASSUME NEW g \in Scope(f), ~IsTemporal(f) PROVE Holds(sig, t, g) <=> Holds(other, u, g)
    <3>1. 0 \in Offsets(f) /\ t + 0 = t /\ u + 0 = u
      BY <2>2 DEF Offsets
    <3> QED
      BY <2>1, <3>1
  <2>3. CASE f.op = "prop"
    <3>1. Vars[f] = {f.e.var} /\ 0 \in 0 .. Horizon[f] /\ t + 0 = t /\ u + 0 = u
      BY <2>3, VarsFacts, HorizonFacts
    <3>2. sig[t][f.e.var] = other[u][f.e.var]
      BY <3>1 DEF Agree
    <3>3. Holds(sig, t, f) <=> sig[t][f.e.var] \in f.e.holds
      BY <2>3, HoldsCases
    <3>4. Holds(other, u, f) <=> other[u][f.e.var] \in f.e.holds
      BY <2>3, HoldsCases
    <3> QED
      BY <3>2, <3>3, <3>4
  <2>4. CASE f.op = "not"
    <3>1. f.phi \in Scope(f)
      BY <2>4 DEF Scope, Operands
    <3>2. (Holds(sig, t, f) <=> ~Holds(sig, t, f.phi)) /\ (Holds(other, u, f) <=> ~Holds(other, u, f.phi))
      BY <2>4, HoldsCases
    <3> QED
      BY <2>2, <2>4, <3>1, <3>2 DEF IsTemporal
  <2>5. CASE f.op \in {"and", "or"}
    <3>1. \A i \in DOMAIN f.args : f.args[i] \in Scope(f)
      BY <2>5 DEF Scope, Operands
    <3>2. \A i \in DOMAIN f.args : Holds(sig, t, f.args[i]) <=> Holds(other, u, f.args[i])
      BY <2>2, <2>5, <3>1 DEF IsTemporal
    <3>3. CASE f.op = "and"
      <4>1. Holds(sig, t, f) <=> \A i \in DOMAIN f.args : Holds(sig, t, f.args[i])
        BY <3>3, HoldsCases
      <4>2. Holds(other, u, f) <=> \A i \in DOMAIN f.args : Holds(other, u, f.args[i])
        BY <3>3, HoldsCases
      <4> QED
        BY <3>2, <4>1, <4>2
    <3>4. CASE f.op = "or"
      <4>1. Holds(sig, t, f) <=> \E i \in DOMAIN f.args : Holds(sig, t, f.args[i])
        BY <3>4, HoldsCases
      <4>2. Holds(other, u, f) <=> \E i \in DOMAIN f.args : Holds(other, u, f.args[i])
        BY <3>4, HoldsCases
      <4> QED
        BY <3>2, <4>1, <4>2
    <3> QED
      BY <2>5, <3>3, <3>4
  <2>6. CASE f.op = "imply"
    <3>1. f.left \in Scope(f) /\ f.right \in Scope(f)
      BY <2>6 DEF Scope
    <3>2. Holds(sig, t, f) <=> (Holds(sig, t, f.left) => Holds(sig, t, f.right))
      BY <2>6, HoldsCases
    <3>3. Holds(other, u, f) <=> (Holds(other, u, f.left) => Holds(other, u, f.right))
      BY <2>6, HoldsCases
    <3> QED
      BY <2>2, <2>6, <3>1, <3>2, <3>3 DEF IsTemporal
  <2>7. CASE f.op \in {"G", "F"}
    <3>1. f.phi \in Scope(f) /\ Offsets(f) = f.int.lower .. f.int.upper
      BY <2>7 DEF Scope, Operands, Offsets, IsTemporal
    <3>2. \A i \in f.int.lower .. f.int.upper : Holds(sig, t + i, f.phi) <=> Holds(other, u + i, f.phi)
      BY <2>1, <3>1
    <3>3. CASE f.op = "G"
      <4>1. Holds(sig, t, f) <=> \A i \in f.int.lower .. f.int.upper : Holds(sig, t + i, f.phi)
        BY <3>3, HoldsCases
      <4>2. Holds(other, u, f) <=> \A i \in f.int.lower .. f.int.upper : Holds(other, u + i, f.phi)
        BY <3>3, HoldsCases
      <4> QED
        BY <3>2, <4>1, <4>2
    <3>4. CASE f.op = "F"
      <4>1. Holds(sig, t, f) <=> \E i \in f.int.lower .. f.int.upper : Holds(sig, t + i, f.phi)
        BY <3>4, HoldsCases
      <4>2. Holds(other, u, f) <=> \E i \in f.int.lower .. f.int.upper : Holds(other, u + i, f.phi)
        BY <3>4, HoldsCases
      <4> QED
        BY <3>2, <4>1, <4>2
    <3> QED
      BY <2>7, <3>3, <3>4
  <2>8. CASE f.op \in {"U", "R"}
    <3> DEFINE I == f.int.lower .. f.int.upper
    <3>1. f.left \in Scope(f) /\ f.right \in Scope(f) /\ Offsets(f) = I
      BY <2>8 DEF Scope, Operands, Offsets, IsTemporal
    <3>2. \A i \in I : /\ Holds(sig, t + i, f.right) <=> Holds(other, u + i, f.right)
                       /\ Holds(sig, t + i, f.left) <=> Holds(other, u + i, f.left)
      BY <2>1, <3>1
    <3>3. \A i \in I : f.int.lower .. i - 1 \subseteq I
      BY <2>8, CoherentFacts DEF Interval, IsTemporal
    <3>4. \A i \in I : \A j \in f.int.lower .. i - 1 : Holds(sig, t + j, f.left) <=> Holds(other, u + j, f.left)
      BY <3>2, <3>3
    <3>5. CASE f.op = "U"
      <4>1. Holds(sig, t, f) <=> \E i \in I : /\ Holds(sig, t + i, f.right)
                                              /\ \A j \in f.int.lower .. i - 1 : Holds(sig, t + j, f.left)
        BY <3>5, HoldsCases
      <4>2. Holds(other, u, f) <=> \E i \in I : /\ Holds(other, u + i, f.right)
                                                /\ \A j \in f.int.lower .. i - 1 : Holds(other, u + j, f.left)
        BY <3>5, HoldsCases
      <4> HIDE DEF I
      <4> QED
        BY <3>2, <3>4, <4>1, <4>2
    <3>6. CASE f.op = "R"
      <4>1. Holds(sig, t, f) <=> \A i \in I : \/ Holds(sig, t + i, f.right)
                                              \/ \E j \in f.int.lower .. i - 1 : Holds(sig, t + j, f.left)
        BY <3>6, HoldsCases
      <4>2. Holds(other, u, f) <=> \A i \in I : \/ Holds(other, u + i, f.right)
                                                \/ \E j \in f.int.lower .. i - 1 : Holds(other, u + j, f.left)
        BY <3>6, HoldsCases
      <4> HIDE DEF I
      <4> QED
        BY <3>2, <3>4, <4>1, <4>2
    <3> QED
      BY <2>8, <3>5, <3>6
  <2>9. f.op \in {"prop", "not", "and", "or", "imply", "G", "F", "U", "R"}
    BY FormulaCases, CompoundShape DEF Propositions
  <2> QED
    BY <2>3, <2>4, <2>5, <2>6, <2>7, <2>8, <2>9
<1>2. Formula \subseteq S
  <2> HIDE DEF S
  <2> QED
    BY <1>1, FormulaInduction
<1> QED
  BY <1>2

----------------------------------------------------------------------------
(* Signals over all instants and variables *)
Signal == [Int -> Valuations(STRING)]

LEMMA VarsType == \A f \in Formula : Vars[f] \subseteq STRING
<1> DEFINE S == {f \in Formula : Vars[f] \subseteq STRING}
<1>1. ASSUME NEW f \in Formula, Operands(f) \subseteq S PROVE f \in S
  <2>1. CASE f.op = "prop"
    <3>1. f.e \in Expr
      BY <2>1, FormulaCases, CompoundShape DEF Propositions
    <3>2. f.e.var \in STRING
      BY <3>1 DEF Expr
    <3> QED
      BY <2>1, <3>2, VarsFacts
  <2>2. CASE f.op # "prop"
    <3> DEFINE vars == Vars
               W(g) == IF g.op = "prop" THEN {g.e.var} ELSE UNION {Vars[k] : k \in Operands(g)}
    <3>1. vars = [g \in Formula |-> W(g)]
      BY VarsEquation
    <3> HIDE DEF vars, W
    <3>2. vars[f] = W(f)
      BY <3>1, Zenon
    <3>3. Vars[f] = UNION {Vars[k] : k \in Operands(f)}
      BY <2>2, <3>2 DEF vars, W
    <3> QED
      BY <1>1, <3>3
  <2> QED
    BY <2>1, <2>2
<1>2. Formula \subseteq S
  <2> HIDE DEF S
  <2> QED
    BY <1>1, FormulaInduction
<1> QED
  BY <1>2

LEMMA ValuesFacts == \A x : 1 \in Values(x) /\ Values(x) \subseteq 0 .. 2
BY DEF Values

LEMMA ValueOfSignal ==
    ASSUME NEW sig \in Signal, NEW t \in Int, NEW x \in STRING
    PROVE  sig[t][x] \in Values(x) /\ sig[t][x] \in 0 .. 2
BY DEF Signal, Valuations

LEMMA OppositeHolds ==
    ASSUME NEW f \in Formula, NEW g \in Formula, Coherent[f], Coherent[g], Opposite(f, g),
           NEW sig \in Signal, NEW t \in Int
    PROVE  Holds(sig, t, g) <=> ~Holds(sig, t, f)
<1> DEFINE h == Greater(Horizon[f], Horizon[g])
           names == Vars[f] \cup Vars[g]
           seen == [i \in 0 .. h |-> [x \in names |-> sig[t + i][x]]]
<1>1. names \subseteq STRING
  BY VarsType
<1>2. Horizon[f] \in Nat /\ Horizon[g] \in Nat /\ h \in Nat /\ h >= Horizon[f] /\ h >= Horizon[g]
  BY HorizonFacts DEF Greater
<1>3. ASSUME NEW i \in 0 .. h PROVE [x \in names |-> sig[t + i][x]] \in Valuations(names)
  <2>1. t + i \in Int
    BY <1>2
  <2>2. \A x \in names : sig[t + i][x] \in Values(x) /\ sig[t + i][x] \in 0 .. 2
    BY <1>1, <2>1, ValueOfSignal
  <2> HIDE DEF names
  <2> QED
    BY <2>2 DEF Valuations
<1>4. seen \in [0 .. h -> Valuations(names)]
  BY <1>3
<1>5. \A i \in 0 .. h : \A x \in names : seen[0 + i][x] = sig[t + i][x]
  BY <1>2
<1>6. Agree(f, seen, 0, sig, t) /\ Agree(g, seen, 0, sig, t)
  <2> HIDE DEF seen, h
  <2>1. 0 .. Horizon[f] \subseteq 0 .. h /\ 0 .. Horizon[g] \subseteq 0 .. h
    BY <1>2
  <2> QED
    BY <1>5, <2>1 DEF Agree
<1>7. Holds(seen, 0, g) <=> ~Holds(seen, 0, f)
  BY <1>4 DEF Opposite
<1> HIDE DEF seen
<1>8. Holds(seen, 0, f) <=> Holds(sig, t, f)
  BY <1>6, Transfer
<1>9. Holds(seen, 0, g) <=> Holds(sig, t, g)
  BY <1>6, Transfer
<1> QED
  BY <1>7, <1>8, <1>9

\* The values of constants at all instants
Steady(sig) == \A t \in Int : sig[t][ConstantVar] = 1

\* Formulas that say the opposite of every endless signal are opposites.
LEMMA AlwaysOpposite ==
    ASSUME NEW f \in Formula, NEW g \in Formula, Coherent[f], Coherent[g],
           \A sig : Steady(sig) => (Holds(sig, 0, g) <=> ~Holds(sig, 0, f))
    PROVE  Opposite(f, g)
<1> DEFINE h == Greater(Horizon[f], Horizon[g])
           names == Vars[f] \cup Vars[g]
<1> SUFFICES ASSUME NEW sig \in [0 .. h -> Valuations(names)]
             PROVE  Holds(sig, 0, g) <=> ~Holds(sig, 0, f)
  BY DEF Opposite
<1> DEFINE endless == [t \in Int |-> [x \in STRING |-> IF t \in 0 .. h /\ x \in names THEN sig[t][x] ELSE 1]]
<1>1. names \subseteq STRING
  BY VarsType
<1>2. Horizon[f] \in Nat /\ Horizon[g] \in Nat /\ h \in Nat /\ h >= Horizon[f] /\ h >= Horizon[g]
  BY HorizonFacts DEF Greater
<1>3. ASSUME NEW t \in 0 .. h, ConstantVar \in names PROVE sig[t][ConstantVar] = 1
  <2>1. sig[t] \in Valuations(names)
    OBVIOUS
  <2>2. sig[t][ConstantVar] \in Values(ConstantVar)
    BY <1>3, <2>1 DEF Valuations
  <2>3. Values(ConstantVar) = {1}
    BY DEF Values, ConstantVar
  <2> QED
    BY <2>2, <2>3
<1> HIDE DEF h, names
<1>4. Steady(endless)
  <2> SUFFICES ASSUME NEW t \in Int PROVE endless[t][ConstantVar] = 1
    BY DEF Steady
  <2>1. endless[t][ConstantVar] = IF t \in 0 .. h /\ ConstantVar \in names THEN sig[t][ConstantVar] ELSE 1
    BY ConstantVarAssumption
  <2> HIDE DEF endless
  <2> QED
    BY <1>3, <2>1
<1>5. ASSUME NEW i \in 0 .. h, NEW x \in names PROVE endless[0 + i][x] = sig[0 + i][x]
  <2>1. i \in Int /\ 0 + i = i
    BY <1>2
  <2>2. x \in STRING
    BY <1>1, Zenon
  <2>3. endless[i][x] = IF i \in 0 .. h /\ x \in names THEN sig[i][x] ELSE 1
    BY <2>1, <2>2
  <2> HIDE DEF endless
  <2> QED
    BY <2>1, <2>3
<1> HIDE DEF endless
<1>6. Agree(f, endless, 0, sig, 0) /\ Agree(g, endless, 0, sig, 0)
  <2>1. 0 .. Horizon[f] \subseteq 0 .. h /\ 0 .. Horizon[g] \subseteq 0 .. h
    BY <1>2
  <2>2. Vars[f] \subseteq names /\ Vars[g] \subseteq names
    BY DEF names
  <2> QED
    BY <1>5, <2>1, <2>2 DEF Agree
<1>7. Holds(endless, 0, f) <=> Holds(sig, 0, f)
  BY <1>6, Transfer
<1>8. Holds(endless, 0, g) <=> Holds(sig, 0, g)
  BY <1>6, Transfer
<1> QED
  BY <1>4, <1>7, <1>8

LEMMA InstantsShifted ==
    ASSUME NEW int \in Interval, NEW t \in Int
    PROVE  Instants(ShiftRight(int, t), t) = (t + int.lower) .. (t + int.upper)
BY DEF Instants, ShiftRight, Span, Greater, Interval

\* What the expansion of a formula demands from an instant on is that the formula
\* holds there.
LEMMA ExpansionDemands ==
    ASSUME NEW sig, NEW t \in Int
    PROVE  \A f \in Formula : Coherent[f] =>
               (Demands(sig, Expansion(f, t), t, t) <=> Holds(sig, t, f))
<1> DEFINE Same(f) == Demands(sig, Expansion(f, t), t, t) <=> Holds(sig, t, f)
           S == {f \in Formula : Coherent[f] => Same(f)}
<1>1. ASSUME NEW f \in Formula, Operands(f) \subseteq S PROVE f \in S
  <2> SUFFICES ASSUME Coherent[f] PROVE Demands(sig, Expansion(f, t), t, t) <=> Holds(sig, t, f)
    OBVIOUS
  <2>1. \A g \in Operands(f) : Demands(sig, Expansion(g, t), t, t) <=> Holds(sig, t, g)
    BY <1>1, CoherentFacts
  <2> HIDE DEF S, Same
  <2> DEFINE e == Expansion(f, t)
             h == Shifted(t)
  <2>2. e \in Formula /\ ExpandsTo(f, t, h, e)
    BY ExpansionCases
  <2>3. \A g : h[g] = Expansion(g, t)
    BY DEF Expansion
  <2> HIDE DEF e, h
  <2>4. e.op = f.op
    BY <2>2 DEF ExpandsTo
  <2>5. CASE IsLiteral(f)
    <3>1. e = f
      BY <2>2, <2>5 DEF ExpandsTo
    <3>2. Demands(sig, e, t, t) <=> Holds(sig, t, e)
      BY <2>2, <2>5, <3>1, DemandsCases
    <3> QED
      BY <3>1, <3>2 DEF e
  <2>6. CASE f.op = "and"
    <3>1. DOMAIN e.args = DOMAIN f.args /\ \A i \in DOMAIN f.args : e.args[i] = Expansion(f.args[i], t)
      BY <2>2, <2>3, <2>6 DEF ExpandsTo
    <3>2. \A i \in DOMAIN f.args : f.args[i] \in Operands(f)
      BY <2>6 DEF Operands
    <3>3. Demands(sig, e, t, t) <=> \A i \in DOMAIN e.args : Demands(sig, e.args[i], t, t)
      BY <2>2, <2>4, <2>6, DemandsCases
    <3>4. Holds(sig, t, f) <=> \A i \in DOMAIN f.args : Holds(sig, t, f.args[i])
      BY <2>6, HoldsCases
    <3>5. \A i \in DOMAIN f.args : Demands(sig, e.args[i], t, t) <=> Holds(sig, t, f.args[i])
      BY <2>1, <3>1, <3>2
    <3>6. Demands(sig, e, t, t) <=> Holds(sig, t, f)
      BY <3>1, <3>3, <3>4, <3>5
    <3> QED
      BY <3>6 DEF e
  <2>7. CASE f.op = "or"
    <3>1. DOMAIN e.args = DOMAIN f.args /\ \A i \in DOMAIN f.args : e.args[i] = Expansion(f.args[i], t)
      BY <2>2, <2>3, <2>7 DEF ExpandsTo
    <3>2. \A i \in DOMAIN f.args : f.args[i] \in Operands(f)
      BY <2>7 DEF Operands
    <3>3. Demands(sig, e, t, t) <=> \E i \in DOMAIN e.args : Demands(sig, e.args[i], t, t)
      BY <2>2, <2>4, <2>7, DemandsCases
    <3>4. Holds(sig, t, f) <=> \E i \in DOMAIN f.args : Holds(sig, t, f.args[i])
      BY <2>7, HoldsCases
    <3>5. \A i \in DOMAIN f.args : Demands(sig, e.args[i], t, t) <=> Holds(sig, t, f.args[i])
      BY <2>1, <3>1, <3>2
    <3>6. Demands(sig, e, t, t) <=> Holds(sig, t, f)
      BY <3>1, <3>3, <3>4, <3>5
    <3> QED
      BY <3>6 DEF e
  <2>8. CASE f.op = "imply"
    <3>1. e.left = Expansion(f.left, t) /\ e.right = Expansion(f.right, t)
      BY <2>2, <2>3, <2>8 DEF ExpandsTo
    <3>2. f.left \in Operands(f) /\ f.right \in Operands(f)
      BY <2>8 DEF Operands
    <3>3. Demands(sig, e, t, t) <=> (Demands(sig, e.left, t, t) => Demands(sig, e.right, t, t))
      BY <2>2, <2>4, <2>8, DemandsCases
    <3>4. Holds(sig, t, f) <=> (Holds(sig, t, f.left) => Holds(sig, t, f.right))
      BY <2>8, HoldsCases
    <3>5. Demands(sig, e, t, t) <=> Holds(sig, t, f)
      BY <2>1, <3>1, <3>2, <3>3, <3>4
    <3> QED
      BY <3>5 DEF e
  <2>9. CASE IsTemporal(f)
    <3> DEFINE I == f.int.lower .. f.int.upper
               J == Instants(e.int, t)
    <3>0. f.int \in Interval
      BY <2>9, CoherentFacts
    <3>1. J = (t + f.int.lower) .. (t + f.int.upper)
      BY <2>2, <2>9, <3>0, InstantsShifted DEF ExpandsTo
    <3>2. \A i \in I : t + i \in J
      BY <3>0, <3>1 DEF Interval
    <3>3. \A j \in J : j - t \in I /\ t + (j - t) = j
      BY <3>0, <3>1 DEF Interval
    <3>4. \A i \in I : i \in Int
      BY <3>0 DEF Interval
    <3>5. \A j \in J : j \in Int
      BY <3>0, <3>1 DEF Interval
    <3> HIDE DEF J
    <3>6. CASE f.op = "G"
      <4>1. Demands(sig, e, t, t) <=> \A i \in J : Holds(sig, i, f.phi)
        BY <2>2, <3>6, DemandsCases DEF ExpandsTo, J
      <4>2. Holds(sig, t, f) <=> \A i \in I : Holds(sig, t + i, f.phi)
        BY <3>6, HoldsCases
      <4>3. Demands(sig, e, t, t) <=> Holds(sig, t, f)
        <5> HIDE DEF I
        <5> QED
          BY <3>2, <3>3, <4>1, <4>2
      <4> QED
        BY <4>3 DEF e
    <3>7. CASE f.op = "F"
      <4>1. Demands(sig, e, t, t) <=> \E i \in J : Holds(sig, i, f.phi)
        BY <2>2, <3>7, DemandsCases DEF ExpandsTo, J
      <4>2. Holds(sig, t, f) <=> \E i \in I : Holds(sig, t + i, f.phi)
        BY <3>7, HoldsCases
      <4>3. Demands(sig, e, t, t) <=> Holds(sig, t, f)
        <5> HIDE DEF I
        <5> QED
          BY <3>2, <3>3, <4>1, <4>2
      <4> QED
        BY <4>3 DEF e
    <3> DEFINE Before(i) == f.int.lower .. i - 1
    <3>8. ASSUME NEW i \in I, NEW j \in J PROVE j < t + i <=> j - t \in Before(i)
      BY <3>0, <3>1, <3>3 DEF Interval
    <3>9. ASSUME NEW i \in I, NEW j \in Before(i) PROVE t + j \in J /\ t + j < t + i
      BY <3>0, <3>1 DEF Interval
    <3>10. CASE f.op = "U"
      <4>1. Demands(sig, e, t, t) <=> \E i \in J : /\ Holds(sig, i, f.right)
                                                   /\ \A j \in J : j < i => Holds(sig, j, f.left)
        BY <2>2, <3>10, DemandsCases DEF ExpandsTo, J
      <4>2. Holds(sig, t, f) <=> \E i \in I : /\ Holds(sig, t + i, f.right)
                                              /\ \A j \in Before(i) : Holds(sig, t + j, f.left)
        BY <3>10, HoldsCases
      <4> HIDE DEF I, Before
      <4>3. \A i \in I : (\A j \in J : j < t + i => Holds(sig, j, f.left))
                            <=> (\A j \in Before(i) : Holds(sig, t + j, f.left))
        BY <3>3, <3>8, <3>9
      <4>4. Demands(sig, e, t, t) <=> \E i \in I : /\ Holds(sig, t + i, f.right)
                                                   /\ \A j \in J : j < t + i => Holds(sig, j, f.left)
        BY <3>2, <3>3, <4>1
      <4>5. Demands(sig, e, t, t) <=> Holds(sig, t, f)
        BY <4>2, <4>3, <4>4
      <4> QED
        BY <4>5 DEF e
    <3>11. CASE f.op = "R"
      <4>1. Demands(sig, e, t, t) <=> \A i \in J : \/ Holds(sig, i, f.right)
                                                   \/ \E j \in J : j < i /\ Holds(sig, j, f.left)
        BY <2>2, <3>11, DemandsCases DEF ExpandsTo, J
      <4>2. Holds(sig, t, f) <=> \A i \in I : \/ Holds(sig, t + i, f.right)
                                              \/ \E j \in Before(i) : Holds(sig, t + j, f.left)
        BY <3>11, HoldsCases
      <4> HIDE DEF I, Before
      <4>3. \A i \in I : (\E j \in J : j < t + i /\ Holds(sig, j, f.left))
                            <=> (\E j \in Before(i) : Holds(sig, t + j, f.left))
        BY <3>3, <3>8, <3>9
      <4>4. Demands(sig, e, t, t) <=> \A i \in I : \/ Holds(sig, t + i, f.right)
                                                   \/ \E j \in J : j < t + i /\ Holds(sig, j, f.left)
        BY <3>2, <3>3, <4>1
      <4>5. Demands(sig, e, t, t) <=> Holds(sig, t, f)
        BY <4>2, <4>3, <4>4
      <4> QED
        BY <4>5 DEF e
    <3> QED
      BY <2>9, <3>6, <3>7, <3>10, <3>11 DEF IsTemporal
  <2>10. f.op \in {"prop", "not", "and", "or", "imply", "G", "F", "U", "R"}
    BY FormulaCases, CompoundShape DEF Propositions
  <2> QED
    BY <2>5, <2>6, <2>7, <2>8, <2>9, <2>10 DEF IsLiteral, IsTemporal
<1>2. Formula \subseteq S
  <2> HIDE DEF S
  <2> QED
    BY <1>1, FormulaInduction
<1> QED
  BY <1>2

\* At the first instant a formula is its own expansion.
LEMMA ExpansionAtZero == \A f \in Formula : Expansion(f, 0) = f
<1> DEFINE S == {f \in Formula : Expansion(f, 0) = f}
<1>1. ASSUME NEW f \in Formula, Operands(f) \subseteq S PROVE f \in S
  <2>1. \A g \in Operands(f) : Expansion(g, 0) = g
    BY <1>1
  <2> HIDE DEF S
  <2> DEFINE e == Expansion(f, 0)
             h == Shifted(0)
  <2>2. e \in Formula /\ ExpandsTo(f, 0, h, e)
    BY ExpansionCases
  <2>3. \A g : h[g] = Expansion(g, 0)
    BY DEF Expansion
  <2> HIDE DEF e, h
  <2> SUFFICES e = f
    BY DEF S, e
  <2>4. e.op = f.op
    BY <2>2 DEF ExpandsTo
  <2>5. CASE IsLiteral(f)
    BY <2>2, <2>5 DEF ExpandsTo
  <2>6. CASE f.op \in {"and", "or"}
    <3>1. DOMAIN e.args = DOMAIN f.args /\ \A i \in DOMAIN f.args : e.args[i] = f.args[i]
      BY <2>1, <2>2, <2>3, <2>6 DEF ExpandsTo, Operands
    <3>2. /\ f = [op |-> f.op, args |-> f.args] /\ f.args \in Seq(Formula)
          /\ e = [op |-> e.op, args |-> e.args] /\ e.args \in Seq(Formula)
      BY <2>2, <2>4, <2>6, FormulaCases, CompoundShape DEF Propositions
    <3>3. e.args = f.args
      BY <3>1, <3>2
    <3> QED
      BY <2>4, <3>2, <3>3, Zenon
  <2>7. CASE f.op = "imply"
    <3>1. e.left = f.left /\ e.right = f.right /\ e.notLeft = f.notLeft
      BY <2>1, <2>2, <2>3, <2>7 DEF ExpandsTo, Operands
    <3>2. /\ f = [op |-> f.op, left |-> f.left, right |-> f.right, notLeft |-> f.notLeft]
          /\ e = [op |-> e.op, left |-> e.left, right |-> e.right, notLeft |-> e.notLeft]
      BY <2>2, <2>4, <2>7, FormulaCases, CompoundShape DEF Propositions
    <3> QED
      BY <2>4, <3>1, <3>2, Zenon
  <2>8. IsTemporal(f) => e.int = f.int
    <3> SUFFICES ASSUME IsTemporal(f) PROVE e.int = f.int
      OBVIOUS
    <3>1. f.int \in Times
      BY FormulaCases, CompoundShape DEF Propositions, IsTemporal
    <3>2. ShiftRight(f.int, 0) = f.int
      BY <3>1 DEF ShiftRight, Span, Times
    <3> QED
      BY <2>2, <3>2 DEF ExpandsTo
  <2>9. CASE f.op \in {"G", "F"}
    <3>1. e.int = f.int /\ e.phi = f.phi
      BY <2>2, <2>8, <2>9 DEF ExpandsTo, IsTemporal
    <3>2. /\ f = [op |-> f.op, int |-> f.int, phi |-> f.phi]
          /\ e = [op |-> e.op, int |-> e.int, phi |-> e.phi]
      BY <2>2, <2>4, <2>9, FormulaCases, CompoundShape DEF Propositions
    <3> QED
      BY <2>4, <3>1, <3>2, Zenon
  <2>10. CASE f.op \in {"U", "R"}
    <3>1. e.int = f.int /\ e.left = f.left /\ e.right = f.right
      BY <2>2, <2>8, <2>10 DEF ExpandsTo, IsTemporal
    <3>2. /\ f = [op |-> f.op, int |-> f.int, left |-> f.left, right |-> f.right]
          /\ e = [op |-> e.op, int |-> e.int, left |-> e.left, right |-> e.right]
      BY <2>2, <2>4, <2>10, FormulaCases, CompoundShape DEF Propositions
    <3> QED
      BY <2>4, <3>1, <3>2, Zenon
  <2>11. f.op \in {"prop", "not", "and", "or", "imply", "G", "F", "U", "R"}
    BY FormulaCases, CompoundShape DEF Propositions
  <2> QED
    BY <2>5, <2>6, <2>7, <2>9, <2>10, <2>11 DEF IsLiteral
<1>2. Formula \subseteq S
  <2> HIDE DEF S
  <2> QED
    BY <1>1, FormulaInduction
<1> QED
  BY <1>2

\* The expansion of a coherent temporal formula is one, ahead of the instant.
LEMMA TemporalExpansion ==
    ASSUME NEW f \in Formula, Coherent[f], IsTemporal(f), NEW t \in Nat
    PROVE  /\ Coherent[Expansion(f, t)]
           /\ Expansion(f, t).int \in Interval
           /\ t <= Expansion(f, t).int.lower
           /\ t <= Expansion(f, t).int.upper
<1> DEFINE e == Expansion(f, t)
<1>1. e \in Formula /\ ExpandsTo(f, t, Shifted(t), e)
  BY ExpansionCases
<1> HIDE DEF e
<1>2. e.op = f.op /\ e.int = ShiftRight(f.int, t)
  BY <1>1 DEF ExpandsTo
<1>3. Operands(e) = Operands(f)
  BY <1>1, <1>2 DEF ExpandsTo, IsTemporal, Operands
<1>4. f.int \in Interval /\ \A g \in Operands(f) : Coherent[g]
  BY CoherentFacts
<1>5. e.int \in Interval /\ t <= e.int.lower /\ t <= e.int.upper
  BY <1>2, <1>4 DEF Interval, ShiftRight, Span
<1>6. (/\ e.op = "not" => e.phi.op = "prop"
       /\ e.op \in {"and", "or"} => e.args # <<>>
       /\ IsTemporal(e) => e.int \in Interval
       /\ e.op = "imply" => Opposite(e.left, e.notLeft)
       /\ \A g \in Operands(e) : Coherent[g])
  BY <1>2, <1>3, <1>4, <1>5 DEF IsTemporal
<1>7. Coherent[e] =
      (/\ e.op = "not" => e.phi.op = "prop"
       /\ e.op \in {"and", "or"} => e.args # <<>>
       /\ IsTemporal(e) => e.int \in Interval
       /\ e.op = "imply" => Opposite(e.left, e.notLeft)
       /\ \A g \in Operands(e) : Coherent[g])
  BY <1>1, CoherentEquation, Zenon
<1>8. Coherent[e]
  BY <1>6, <1>7, Zenon
<1> QED
  BY <1>5, <1>8 DEF e

----------------------------------------------------------------------------
(* Sequences *)

\* The elements of a concatenation
LEMMA ConcatElements ==
    ASSUME NEW S, NEW s \in Seq(S), NEW t \in Seq(S)
    PROVE  s \o t \in Seq(S) /\ ToSet(s \o t) = ToSet(s) \cup ToSet(t)
<1>1. s \o t \in Seq(S) /\ Len(s \o t) = Len(s) + Len(t)
  OBVIOUS
<1>2. \A i \in 1 .. Len(s) : (s \o t)[i] = s[i] /\ i \in 1 .. Len(s \o t)
  OBVIOUS
<1>3. \A i \in 1 .. Len(t) : (s \o t)[Len(s) + i] = t[i] /\ Len(s) + i \in 1 .. Len(s \o t)
  OBVIOUS
<1>4. \A i \in 1 .. Len(s \o t) : i \in 1 .. Len(s) \/ (i - Len(s) \in 1 .. Len(t) /\ Len(s) + (i - Len(s)) = i)
  OBVIOUS
<1>5. DOMAIN (s \o t) = 1 .. Len(s \o t) /\ DOMAIN s = 1 .. Len(s) /\ DOMAIN t = 1 .. Len(t)
  BY <1>1
<1> DEFINE st == s \o t
<1> HIDE DEF st
<1>6. ASSUME NEW x \in ToSet(st) PROVE x \in ToSet(s) \cup ToSet(t)
  <2>1. PICK i \in 1 .. Len(st) : x = st[i]
    BY <1>5, <1>6 DEF ToSet, st
  <2>2. CASE i \in 1 .. Len(s)
    BY <1>2, <1>5, <2>1, <2>2 DEF ToSet, st
  <2>3. CASE i - Len(s) \in 1 .. Len(t) /\ Len(s) + (i - Len(s)) = i
    <3>1. x = t[i - Len(s)]
      BY <1>3, <2>1, <2>3 DEF st
    <3> QED
      BY <1>5, <2>3, <3>1 DEF ToSet
  <2> QED
    BY <1>4, <2>1, <2>2, <2>3 DEF st
<1>7. ASSUME NEW x \in ToSet(s) PROVE x \in ToSet(st)
  <2>1. PICK i \in 1 .. Len(s) : x = s[i]
    BY <1>5, <1>7 DEF ToSet
  <2> QED
    BY <1>2, <1>5, <2>1 DEF ToSet, st
<1>8. ASSUME NEW x \in ToSet(t) PROVE x \in ToSet(st)
  <2>1. PICK i \in 1 .. Len(t) : x = t[i]
    BY <1>5, <1>8 DEF ToSet
  <2> QED
    BY <1>3, <1>5, <2>1 DEF ToSet, st
<1> QED
  BY <1>1, <1>6, <1>7, <1>8 DEF st

\* The elements of a sequence of sequences laid end to end
LEMMA FlattenElements ==
    ASSUME NEW S, NEW seqs \in Seq(Seq(S))
    PROVE  /\ FlattenSeq(seqs) \in Seq(S)
           /\ ToSet(FlattenSeq(seqs)) = UNION {ToSet(seqs[i]) : i \in DOMAIN seqs}
<1> DEFINE n == Len(seqs)
           X == Seq(S)
           a == <<>>
           h == [i \in 1 .. n |-> [s \in X |-> s \o seqs[i]]]
<1>1. n \in Nat /\ DOMAIN seqs = 1 .. n /\ \A i \in 1 .. n : seqs[i] \in X
  OBVIOUS
<1>2. CASE n = 0
  <2>1. FlattenSeq(seqs) = seqs
    BY <1>2, Zenon DEF FlattenSeq
  <2>5. seqs = <<>>
    BY <1>2
  <2>2. 1 .. n = {}
    BY <1>2
  <2>3. DOMAIN <<>> = {}
    OBVIOUS
  <2>4. <<>> \in Seq(S)
    OBVIOUS
  <2> QED
    BY <1>1, <2>1, <2>2, <2>3, <2>4, <2>5 DEF ToSet
<1>3. CASE n # 0
  <2>1. a \in X
    OBVIOUS
  <2>2. h \in [1 .. n -> [X -> X]]
    <3>1. ASSUME NEW i \in 1 .. n, NEW s \in X PROVE s \o seqs[i] \in X
      BY <1>1, <3>1
    <3> HIDE DEF X, n
    <3> QED
      BY <3>1
  <2>3. PICK f \in [0 .. n -> X] : f[0] = a /\ \A i \in 1 .. n : f[i] = h[i][f[i - 1]]
    <3> HIDE DEF X, h, n, a
    <3>1. \E f \in [0 .. n -> X] : Iterates(f, n, a, h)
      BY <1>1, <2>1, <2>2, Iteration
    <3> QED
      BY <3>1 DEF Iterates
  <2>4. ASSUME NEW i \in 1 .. n PROVE i \in 0 .. n /\ i - 1 \in 0 .. n /\ f[i] = f[i - 1] \o seqs[i]
    <3>1. i \in 0 .. n /\ i - 1 \in 0 .. n
      BY <1>1
    <3> HIDE DEF X, n
    <3> QED
      BY <2>3, <3>1
  <2> DEFINE W(g, i) == IF i = 1 THEN seqs[i] ELSE g[i - 1] \o seqs[i]
             flat == [i \in 1 .. n |-> f[i]]
  <2>5. f[1] = seqs[1]
    <3>1. 1 \in 1 .. n /\ 1 - 1 = 0
      BY <1>1, <1>3
    <3>2. f[1] = <<>> \o seqs[1] /\ seqs[1] \in Seq(S)
      BY <1>1, <2>3, <2>4, <3>1
    <3> QED
      BY <3>2
  <2>6. flat = [i \in 1 .. n |-> W(flat, i)]
    <3>1. ASSUME NEW i \in 1 .. n PROVE f[i] = W(flat, i)
      <4>1. CASE i = 1
        BY <2>5, <4>1
      <4>2. CASE i # 1
        <5>1. i - 1 \in 1 .. n
          BY <1>1, <4>2
        <5>2. flat[i - 1] = f[i - 1]
          BY <5>1
        <5> HIDE DEF flat
        <5> QED
          BY <2>4, <4>2, <5>2
      <4> QED
        BY <4>1, <4>2
    <3> HIDE DEF n
    <3>2. [i \in 1 .. n |-> f[i]] = [i \in 1 .. n |-> W(flat, i)]
      <4> HIDE DEF flat, W
      <4> QED
        BY <3>1
    <3> QED
      BY <3>2, Zenon
  <2> DEFINE flatten == CHOOSE g : g = [i \in 1 .. n |-> W(g, i)]
  <2>7. flatten = [i \in 1 .. n |-> W(flatten, i)]
    <3> HIDE DEF flat, W, n
    <3> QED
      BY <2>6, Zenon
  <2>8. FlattenSeq(seqs) = flatten[n]
    BY <1>3, Zenon DEF FlattenSeq
  <2>9. ASSUME NEW i \in 1 .. n PROVE flatten[i] = IF i = 1 THEN seqs[i] ELSE flatten[i - 1] \o seqs[i]
    <3> HIDE DEF flatten
    <3>1. flatten[i] = W(flatten, i)
      <4> HIDE DEF n, W
      <4> QED
        BY <2>7, Zenon
    <3> QED
      BY <3>1, Zenon
  <2> HIDE DEF flatten
  <2> DEFINE Good(i) == /\ flatten[i] \in Seq(S)
                        /\ ToSet(flatten[i]) = UNION {ToSet(seqs[j]) : j \in 1 .. i}
             T == {i \in 0 .. n : i # 0 => Good(i)}
  <2>10. 0 \in T
    BY <1>1
  <2>11. ASSUME NEW i \in 0 .. n, i # n, i \in T PROVE i + 1 \in T
    <3>1. i + 1 \in 0 .. n /\ i + 1 \in 1 .. n /\ (i + 1) - 1 = i /\ 1 .. i + 1 = (1 .. i) \cup {i + 1}
      <4> HIDE DEF T
      <4>1. n \in Nat
        BY <1>1
      <4> HIDE DEF n
      <4>2. i \in Nat /\ i < n
        BY <2>11, <4>1
      <4>3. i + 1 \in 1 .. n /\ (i + 1) - 1 = i
        BY <4>1, <4>2
      <4>4. 1 .. i + 1 = (1 .. i) \cup {i + 1}
        BY <4>2
      <4> QED
        BY <4>1, <4>3, <4>4
    <3>2. CASE i = 0
      <4>1. flatten[1] = seqs[1] /\ 1 .. 1 = {1} /\ seqs[1] \in Seq(S)
        BY <1>1, <2>9, <3>1, <3>2
      <4>2. Good(1)
        BY <4>1
      <4> HIDE DEF Good
      <4> QED
        BY <3>1, <3>2, <4>2
    <3>3. CASE i # 0
      <4>1. flatten[i + 1] = flatten[i] \o seqs[i + 1] /\ seqs[i + 1] \in Seq(S)
        <5>1. i + 1 # 1
          BY <3>3
        <5>2. flatten[i + 1] = flatten[(i + 1) - 1] \o seqs[i + 1]
          BY <2>9, <3>1, <5>1
        <5> QED
          BY <1>1, <3>1, <5>2
      <4>2. Good(i)
        BY <2>11, <3>3
      <4>3. flatten[i + 1] \in Seq(S) /\ ToSet(flatten[i + 1]) = ToSet(flatten[i]) \cup ToSet(seqs[i + 1])
        BY <4>1, <4>2, ConcatElements
      <4>4. UNION {ToSet(seqs[j]) : j \in 1 .. i + 1}
              = (UNION {ToSet(seqs[j]) : j \in 1 .. i}) \cup ToSet(seqs[i + 1])
        BY <3>1
      <4>5. Good(i + 1)
        BY <4>2, <4>3, <4>4
      <4> HIDE DEF Good
      <4> QED
        BY <3>1, <4>5
    <3> QED
      BY <3>2, <3>3
  <2>12. 0 .. n \subseteq T
    <3> HIDE DEF T, n
    <3> QED
      BY <1>1, <2>10, <2>11, IntervalInduction
  <2>13. n \in T
    <3>1. n \in 0 .. n
      BY <1>1
    <3> HIDE DEF T, n
    <3> QED
      BY <2>12, <3>1
  <2>14. Good(n)
    <3> HIDE DEF Good
    <3> QED
      BY <1>3, <2>13
  <2> QED
    BY <1>1, <2>8, <2>14
<1> QED
  BY <1>2, <1>3

----------------------------------------------------------------------------
(* Definition by recursion over the levels of formulas: what step makes of *)
(* a formula may ask for the results of any formulas one level below it,   *)
(* also of results.  W[n] is where the results of level n lie.             *)

\* What step makes of a formula of a level only depends on the results one level below.
DependsOnLevels(step, V, W) ==
    \A n \in Nat : n <= Nesting => \A f \in FormulaUpTo[n] : \A a, b \in [Formula -> V] :
        (n # 0 => \A g \in FormulaUpTo[n - 1] : a[g] = b[g] /\ a[g] \in W[n - 1])
            => step[<<f, a>>] = step[<<f, b>>] /\ step[<<f, a>>] \in W[n]

\* h is the function that step defines.
Recurs(h, step, V, W) ==
    /\ h \in [Formula -> V]
    /\ \A f \in Formula : h[f] = step[<<f, h>>]
    /\ \A n \in Nat : n <= Nesting => \A f \in FormulaUpTo[n] : h[f] \in W[n]

\* There is one.
LEMMA LevelRecursion ==
    ASSUME NEW V, V # {}, NEW W \in [Nat -> SUBSET V], NEW step, DependsOnLevels(step, V, W)
    PROVE  \E h : Recurs(h, step, V, W)
<1> DEFINE Good(n, h) == \A f \in FormulaUpTo[n] : h[f] = step[<<f, h>>] /\ h[f] \in W[n]
           T == {n \in Nat : n <= Nesting => \E h \in [Formula -> V] : Good(n, h)}
<1> USE DEF DependsOnLevels
<1>1. PICK v \in V : TRUE
  OBVIOUS
<1> DEFINE Next1(h) == [f \in Formula |-> IF step[<<f, h>>] \in V THEN step[<<f, h>>] ELSE v]
<1>2. ASSUME NEW h \in [Formula -> V]
      PROVE  /\ Next1(h) \in [Formula -> V]
             /\ \A f \in Formula : step[<<f, h>>] \in V => Next1(h)[f] = step[<<f, h>>]
  OBVIOUS
<1>3. \A n \in Nat : W[n] \subseteq V
  OBVIOUS
<1> HIDE DEF Next1
<1>4. 0 \in T
  <2> DEFINE a == [f \in Formula |-> v]
             b == Next1(a)
  <2>1. a \in [Formula -> V]
    OBVIOUS
  <2>2. b \in [Formula -> V]
    BY <1>2, <2>1
  <2>3. 0 \in Nat /\ 0 <= Nesting
    BY NestingAssumption
  <2> HIDE DEF a
  <2>4. ASSUME NEW f \in FormulaUpTo[0] PROVE b[f] = step[<<f, b>>] /\ b[f] \in W[0]
    <3>1. f \in Formula
      BY <2>3, LevelsInFormula
    <3>2. step[<<f, a>>] = step[<<f, b>>] /\ step[<<f, a>>] \in W[0]
      <4> HIDE DEF b
      <4> QED
        BY <2>1, <2>2, <2>3
    <3> QED
      BY <1>2, <1>3, <2>1, <2>3, <3>1, <3>2
  <2> QED
    <3> HIDE DEF b
    <3> QED
      BY <2>2, <2>4
<1>5. ASSUME NEW n \in Nat, n \in T PROVE n + 1 \in T
  <2> SUFFICES ASSUME n + 1 <= Nesting PROVE \E h \in [Formula -> V] : Good(n + 1, h)
    <3> HIDE DEF Good
    <3>1. n + 1 \in Nat
      OBVIOUS
    <3> QED
      BY <3>1
  <2>1. n <= Nesting /\ n + 1 \in Nat /\ (n + 1) - 1 = n /\ n + 1 # 0
    BY NestingAssumption
  <2>2. PICK a \in [Formula -> V] : Good(n, a)
    BY <1>5, <2>1
  <2> DEFINE b == Next1(a)
             k == n + 1
  <2>3. b \in [Formula -> V]
    BY <1>2
  <2>4. FormulaUpTo[n] \subseteq Formula /\ FormulaUpTo[k] \subseteq Formula
        /\ FormulaUpTo[n] \subseteq FormulaUpTo[k]
    BY <2>1, LevelsInFormula, LevelsGrow
  <2>5. k \in Nat /\ k - 1 = n /\ k # 0 /\ k <= Nesting
    BY <2>1
  <2> HIDE DEF k
  <2>6. \A g \in FormulaUpTo[n] : b[g] = a[g] /\ a[g] \in W[n]
    BY <1>2, <1>3, <2>2, <2>4
  <2> HIDE DEF b
  <2>7. ASSUME NEW f \in FormulaUpTo[k] PROVE b[f] = step[<<f, b>>] /\ b[f] \in W[k]
    <3>1. step[<<f, a>>] = step[<<f, b>>] /\ step[<<f, a>>] \in W[k]
      BY <2>3, <2>5, <2>6
    <3>2. step[<<f, a>>] \in V /\ f \in Formula
      BY <1>3, <2>4, <2>5, <3>1
    <3> QED
      BY <1>2, <3>1, <3>2 DEF b
  <2> QED
    BY <2>3, <2>7 DEF k
<1>6. Nat \subseteq T
  <2> HIDE DEF T
  <2> QED
    BY <1>4, <1>5, NatSetInduction
<1>7. PICK h \in [Formula -> V] : Good(Nesting, h)
  BY <1>6, NestingAssumption
<1>8. \A f \in Formula : h[f] = step[<<f, h>>]
  BY <1>7 DEF Formula
<1> DEFINE L == {n \in Nat : n <= Nesting => \A f \in FormulaUpTo[n] : h[f] \in W[n]}
<1>9. Nat \subseteq L
  <2>1. 0 \in L
    <3>1. 0 \in Nat /\ 0 <= Nesting
      BY NestingAssumption
    <3>2. FormulaUpTo[0] \subseteq Formula
      BY <3>1, LevelsInFormula
    <3> QED
      BY <1>8, <3>1, <3>2
  <2>2. ASSUME NEW n \in Nat, n \in L PROVE n + 1 \in L
    <3> DEFINE k == n + 1
    <3>1. k \in Nat /\ k - 1 = n /\ k # 0 /\ (k <= Nesting => n <= Nesting)
      BY NestingAssumption
    <3> HIDE DEF k
    <3> SUFFICES ASSUME k <= Nesting, NEW f \in FormulaUpTo[k] PROVE h[f] \in W[k]
      BY <3>1 DEF k
    <3>2. f \in Formula
      BY <3>1, LevelsInFormula
    <3>3. \A g \in FormulaUpTo[n] : h[g] \in W[n]
      BY <2>2, <3>1
    <3>4. step[<<f, h>>] \in W[k]
      BY <3>1, <3>3
    <3> QED
      BY <1>8, <3>2, <3>4
  <2> HIDE DEF L
  <2> QED
    BY <2>1, <2>2, NatSetInduction
<1> QED
  BY <1>8, <1>9 DEF Recurs

\* The same for a transformer that does not nest operators deeper than they are
PreservesLevels(step) ==
    /\ \A f \in Propositions : \A a, b \in [Formula -> Formula] :
           step[<<f, a>>] = step[<<f, b>>] /\ step[<<f, a>>] \in Propositions
    /\ \A n \in Nat : n + 1 <= Nesting => \A f \in Compound(FormulaUpTo[n]) :
           \A a, b \in [Formula -> Formula] :
               (\A g \in FormulaUpTo[n] : a[g] = b[g] /\ a[g] \in FormulaUpTo[n])
                   => step[<<f, a>>] = step[<<f, b>>] /\ step[<<f, a>>] \in FormulaUpTo[n + 1]

\* A transformer that does not nest deeper is defined at every formula.
LEMMA LevelMap ==
    ASSUME NEW step, PreservesLevels(step)
    PROVE  \E h \in [Formula -> Formula] :
               /\ \A f \in Formula : h[f] = step[<<f, h>>]
               /\ \A n \in Nat : n <= Nesting => \A f \in FormulaUpTo[n] : h[f] \in FormulaUpTo[n]
<1> DEFINE V == Formula
           W == [n \in Nat |-> IF n <= Nesting THEN FormulaUpTo[n] ELSE {}]
<1>1. 0 \in Nat /\ 0 <= Nesting
  BY NestingAssumption
<1>2. FormulaUpTo[0] = Propositions /\ FormulaUpTo[0] \subseteq Formula
  BY <1>1, LevelEquations, LevelsInFormula
<1>3. V # {}
  <2>1. {1} \in SUBSET Int
    OBVIOUS
  <2>2. Atom(0, ConstantVar) \in Expr
    BY <2>1, ConstantVarAssumption DEF Expr, Atom
  <2>3. [op |-> "prop", e |-> Atom(0, ConstantVar)] \in Propositions
    BY <2>2 DEF Propositions
  <2> QED
    BY <1>2, <2>3
<1>4. W \in [Nat -> SUBSET V]
  BY LevelsInFormula
<1>5. \A n \in Nat : n <= Nesting => W[n] = FormulaUpTo[n]
  OBVIOUS
<1> HIDE DEF W
<1>6. ASSUME NEW n \in Nat, n <= Nesting, NEW f \in FormulaUpTo[n],
             NEW a \in [Formula -> V], NEW b \in [Formula -> V],
             n # 0 => \A g \in FormulaUpTo[n - 1] : a[g] = b[g] /\ a[g] \in W[n - 1]
      PROVE  step[<<f, a>>] = step[<<f, b>>] /\ step[<<f, a>>] \in W[n]
  <2>1. CASE f \in Propositions
    <3>1. Propositions \subseteq FormulaUpTo[n]
      <4>1. CASE n = 0
        BY <1>2, <4>1
      <4>2. CASE n # 0
        <5> DEFINE k == n - 1
        <5>1. k \in Nat /\ k + 1 = n
          BY <4>2
        <5> HIDE DEF k
        <5> QED
          BY <5>1, LevelEquations
      <4> QED
        BY <4>1, <4>2
    <3>2. W[n] = FormulaUpTo[n]
      BY <1>5, <1>6
    <3> QED
      BY <1>6, <2>1, <3>1, <3>2 DEF PreservesLevels
  <2>2. CASE f \notin Propositions
    <3> DEFINE k == n - 1
    <3>1. n # 0
      BY <1>2, <1>6, <2>2
    <3>2. k \in Nat /\ k + 1 = n /\ k <= Nesting /\ k + 1 <= Nesting
      BY <1>6, <3>1, NestingAssumption
    <3>3. \A g \in FormulaUpTo[k] : a[g] = b[g] /\ a[g] \in W[k]
      BY <1>6, <3>1
    <3> HIDE DEF k
    <3>4. f \in Compound(FormulaUpTo[k])
      BY <1>6, <2>2, <3>2, LevelEquations
    <3>5. W[k] = FormulaUpTo[k] /\ W[n] = FormulaUpTo[k + 1]
      BY <1>5, <1>6, <3>2
    <3> QED
      BY <1>6, <3>2, <3>3, <3>4, <3>5 DEF PreservesLevels
  <2> QED
    BY <2>1, <2>2
<1>7. DependsOnLevels(step, V, W)
  BY <1>6 DEF DependsOnLevels
<1> HIDE DEF V, DependsOnLevels
<1>8. \E h : Recurs(h, step, V, W)
  BY <1>3, <1>4, <1>7, LevelRecursion
<1> QED
  BY <1>5, <1>8 DEF V, Recurs
=============================================================================
