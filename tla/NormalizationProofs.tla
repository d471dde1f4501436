------------------------ MODULE NormalizationProofs ------------------------
(***************************************************************************)
(* The passes over the root never change what is asked: for every parsed   *)
(* input, under both semantics and whichever passes are switched on, the   *)
(* operands the tableau gets hold together for just the signals for which  *)
(* the unrolled input holds.  The steps are                                *)
(*   - what the encodings say of a formula, operator by operator;          *)
(*   - when a formula can stand for another (Stands): it means the same    *)
(*     some instants earlier or later, keeps what the passes rely on       *)
(*     (Sound) and looks no further;                                       *)
(*   - that each transformer makes formulas that stand for what it gets;   *)
(*   - the invariant of the passes, and from it the properties.            *)
(***************************************************************************)
EXTENDS Normalization, FormulaProofs

----------------------------------------------------------------------------
(* Building formulas *)

\* An operator over formulas of a set
LEMMA Built ==
    ASSUME NEW S
    PROVE  /\ \A g \in S : Not(g) \in Compound(S)
           /\ \A op \in {"G", "F"} : \A int \in Times : \A g \in S : Over(op, int, g) \in Compound(S)
           /\ \A fs \in Seq(S) : \A op \in {"and", "or"} : [op |-> op, args |-> fs] \in Compound(S)
           /\ \A op \in {"U", "R"} : \A int \in Times : \A l, r \in S :
                  [op |-> op, int |-> int, left |-> l, right |-> r] \in Compound(S)
           /\ \A l, r, n \in S : Imply(l, r, n) \in Compound(S)
<1>1. \A g \in S : Not(g) \in [op : {"not"}, phi : S]
  BY DEF Not
<1>2. \A op \in {"G", "F"} : \A int \in Times : \A g \in S :
          Over(op, int, g) \in [op : {"G", "F"}, int : Times, phi : S]
  BY DEF Over
<1>3. \A fs \in Seq(S) : \A op \in {"and", "or"} :
          [op |-> op, args |-> fs] \in [op : {"and", "or"}, args : Seq(S)]
  OBVIOUS
<1>4. \A op \in {"U", "R"} : \A int \in Times : \A l, r \in S :
          [op |-> op, int |-> int, left |-> l, right |-> r]
              \in [op : {"U", "R"}, int : Times, left : S, right : S]
  OBVIOUS
<1>5. \A l, r, n \in S : Imply(l, r, n) \in [op : {"imply"}, left : S, right : S, notLeft : S]
  BY DEF Imply
<1> QED
  BY <1>1, <1>2, <1>3, <1>4, <1>5 DEF Compound

\* A formula with an operator is one over formulas of the level below.
LEMMA LevelBelow ==
    ASSUME NEW n \in Nat, NEW f \in FormulaUpTo[n], f \notin Propositions
    PROVE  \E S : f \in Compound(S) /\ S \subseteq FormulaUpTo[n] /\ Compound(S) \subseteq FormulaUpTo[n]
<1> DEFINE k == n - 1
<1>1. n # 0
  BY LevelEquations
<1>2. k \in Nat /\ k + 1 = n
  BY <1>1
<1> HIDE DEF k
<1>3. FormulaUpTo[n] = Propositions \cup Compound(FormulaUpTo[k])
  BY <1>2, LevelEquations
<1>4. FormulaUpTo[k] \subseteq FormulaUpTo[n]
  BY <1>2, LevelsGrow
<1> QED
  BY <1>3, <1>4

\* Propositions are formulas of any level.
LEMMA PropositionsInFormula == Propositions \subseteq Formula
<1>1. FormulaUpTo[0] \subseteq Formula
  BY LevelsInFormula, NestingAssumption
<1> QED
  BY <1>1, LevelEquations

\* Propositions are the formulas without operands.
LEMMA PropositionShape ==
    /\ \A f \in Propositions : f.op = "prop" /\ f = [op |-> "prop", e |-> f.e] /\ f.e \in Expr
    /\ \A f \in Formula : f.op = "prop" => f \in Propositions
    /\ \A S : \A f \in Compound(S) : f.op # "prop"
<1>1. \A S : \A f \in Compound(S) : f.op # "prop"
  BY CompoundShape
<1>2. \A f \in Propositions : f.op = "prop" /\ f = [op |-> "prop", e |-> f.e] /\ f.e \in Expr
  BY DEF Propositions
<1> QED
  BY <1>1, <1>2, FormulaCases

\* The same of any formula
LEMMA FormulaShape ==
    ASSUME NEW f \in Formula
    PROVE  /\ f.op \in {"prop", "not", "and", "or", "imply", "G", "F", "U", "R"}
           /\ f.op = "prop" => f = [op |-> "prop", e |-> f.e] /\ f.e \in Expr
           /\ f.op \in {"and", "or"} =>
                f = [op |-> f.op, args |-> f.args] /\ f.args \in Seq(Formula)
           /\ f.op = "not" => f = [op |-> f.op, phi |-> f.phi] /\ f.phi \in Formula
           /\ f.op \in {"G", "F"} =>
                /\ f = [op |-> f.op, int |-> f.int, phi |-> f.phi]
                /\ f.int \in Times /\ f.phi \in Formula
           /\ f.op \in {"U", "R"} =>
                /\ f = [op |-> f.op, int |-> f.int, left |-> f.left, right |-> f.right]
                /\ f.int \in Times /\ f.left \in Formula /\ f.right \in Formula
           /\ f.op = "imply" =>
                /\ f = [op |-> f.op, left |-> f.left, right |-> f.right, notLeft |-> f.notLeft]
                /\ f.left \in Formula /\ f.right \in Formula /\ f.notLeft \in Formula
<1>1. CASE f \in Propositions
  <2>1. f.op = "prop" /\ f = [op |-> "prop", e |-> f.e] /\ f.e \in Expr
    BY <1>1, PropositionShape
  <2> QED
    BY <2>1
<1>2. CASE f \in Compound(Formula)
  <2>1. f.op # "prop"
    BY <1>2, PropositionShape
  <2> QED
    BY <1>2, <2>1, CompoundShape
<1> QED
  BY <1>1, <1>2, FormulaCases

----------------------------------------------------------------------------
(* The visit of a formula *)
\* k is f with its operands visited.
VisitsTo(f, of, k) ==
    /\ k.op = f.op
    /\ f.op = "prop" => k = f
    /\ f.op \in {"and", "or"} =>
         /\ DOMAIN k.args = DOMAIN f.args
         /\ \A i \in DOMAIN f.args : k.args[i] = of[f.args[i]]
    /\ f.op \in {"not", "G", "F"} => k.phi = of[f.phi]
    /\ f.op \in {"U", "R", "imply"} => k.left = of[f.left] /\ k.right = of[f.right]
    /\ f.op = "imply" => k.notLeft = of[f.notLeft]
    /\ IsTemporal(f) => k.int = f.int

\* What Visited makes is an operator of the same kind over visited operands.
LEMMA VisitedShape ==
    ASSUME NEW S, NEW T, NEW f \in Propositions \cup Compound(S), NEW of,
           \A g \in Operands(f) : of[g] \in T
    PROVE  /\ Visited(f, of) \in Propositions \cup Compound(T)
           /\ f.op # "prop" => Visited(f, of) \in Compound(T)
           /\ VisitsTo(f, of, Visited(f, of))
<1> DEFINE k == Visited(f, of)
<1>1. CASE f \in Propositions
  <2>1. k = f /\ f.op = "prop"
    BY <1>1, PropositionShape DEF Visited
  <2> QED
    BY <1>1, <2>1 DEF VisitsTo, IsTemporal
<1>2. CASE f \in Compound(S)
  <2>1. CASE f.op = "not"
    <3>1. f = [op |-> "not", phi |-> f.phi] /\ of[f.phi] \in T
      BY <1>2, <2>1, CompoundShape DEF Operands
    <3>2. k = [op |-> "not", phi |-> of[f.phi]]
      BY <2>1, <3>1 DEF Visited
    <3> QED
      BY <2>1, <3>1, <3>2, Built DEF VisitsTo, IsTemporal, Not
  <2>2. CASE f.op \in {"and", "or"}
    <3> DEFINE s == [i \in DOMAIN f.args |-> of[f.args[i]]]
    <3>1. f = [op |-> f.op, args |-> f.args] /\ f.args \in Seq(S)
      BY <1>2, <2>2, CompoundShape
    <3>2. \A i \in DOMAIN f.args : of[f.args[i]] \in T
      BY <2>2 DEF Operands
    <3>3. s \in Seq(T) /\ DOMAIN s = DOMAIN f.args
      BY <3>1, <3>2
    <3>4. s \o <<>> = s
      BY <3>3
    <3>5. k = [f EXCEPT !.args = s \o <<>>]
      BY <2>2 DEF Visited
    <3>6. k = [op |-> f.op, args |-> s]
      <4> HIDE DEF s, k
      <4> QED
        BY <3>1, <3>4, <3>5
    <3>7. \A i \in DOMAIN f.args : s[i] = of[f.args[i]]
      OBVIOUS
    <3>8. k \in Compound(T)
      <4> HIDE DEF s, k
      <4> QED
        BY <2>2, <3>3, <3>6, Built
    <3> HIDE DEF s, k
    <3>9. k.op = f.op /\ k.args = s
      BY <3>6
    <3> QED
      BY <2>2, <3>3, <3>7, <3>8, <3>9 DEF VisitsTo, IsTemporal, k
  <2>3. CASE f.op \in {"G", "F"}
    <3>1. f = [op |-> f.op, int |-> f.int, phi |-> f.phi] /\ of[f.phi] \in T /\ f.int \in Times
      BY <1>2, <2>3, CompoundShape DEF Operands
    <3>2. k = [op |-> f.op, int |-> f.int, phi |-> of[f.phi]]
      BY <2>3, <3>1 DEF Visited
    <3> QED
      BY <2>3, <3>1, <3>2, Built DEF VisitsTo, IsTemporal, Over
  <2>4. CASE f.op \in {"U", "R"}
    <3>1. /\ f = [op |-> f.op, int |-> f.int, left |-> f.left, right |-> f.right]
          /\ of[f.left] \in T /\ of[f.right] \in T /\ f.int \in Times
      BY <1>2, <2>4, CompoundShape DEF Operands
    <3>2. k = [op |-> f.op, int |-> f.int, left |-> of[f.left], right |-> of[f.right]]
      BY <2>4, <3>1 DEF Visited
    <3> QED
      BY <2>4, <3>1, <3>2, Built DEF VisitsTo, IsTemporal
  <2>5. CASE f.op = "imply"
    <3>1. of[f.left] \in T /\ of[f.right] \in T /\ of[f.notLeft] \in T
      BY <2>5 DEF Operands
    <3>2. k = Imply(of[f.left], of[f.right], of[f.notLeft])
      BY <2>5 DEF Visited
    <3>3. k \in Compound(T)
      BY <3>1, <3>2, Built
    <3> QED
      BY <2>5, <3>2, <3>3 DEF VisitsTo, IsTemporal, Imply
  <2> QED
    BY <1>2, <2>1, <2>2, <2>3, <2>4, <2>5, CompoundShape
<1> QED
  BY <1>1, <1>2

\* It only depends on what the operands are visited to.
LEMMA VisitedSame ==
    ASSUME NEW f \in Formula, NEW a, NEW b, \A g \in Operands(f) : a[g] = b[g]
    PROVE  Visited(f, a) = Visited(f, b)
<1>1. CASE f.op = "prop"
  BY <1>1 DEF Visited
<1>2. CASE f.op \in {"and", "or"}
  <2>1. \A i \in DOMAIN f.args : a[f.args[i]] = b[f.args[i]]
    BY <1>2 DEF Operands
  <2>2. [i \in DOMAIN f.args |-> a[f.args[i]]] = [i \in DOMAIN f.args |-> b[f.args[i]]]
    BY <2>1
  <2> QED
    BY <1>2, <2>2, Zenon DEF Visited
<1>3. CASE f.op \in {"not", "G", "F"}
  BY <1>3 DEF Visited, Operands
<1>4. CASE f.op \in {"U", "R"}
  BY <1>4 DEF Visited, Operands
<1>5. CASE f.op = "imply"
  BY <1>5 DEF Visited, Operands
<1> QED
  BY <1>1, <1>2, <1>3, <1>4, <1>5, FormulaShape

----------------------------------------------------------------------------
(* The truth of formulas as the SMT engine unrolls it *)
\* What the unrolling of a formula says only depends on what its operands say.
LEMMA SmtOfOperands ==
    ASSUME NEW f \in Formula, NEW sig, NEW t, NEW m, NEW a, NEW b, \A g \in Operands(f) : a[g] = b[g]
    PROVE  SmtOf(f, sig, t, m, a) = SmtOf(f, sig, t, m, b)
<1>1. f.op \in {"and", "or"} => \A i \in DOMAIN f.args : a[f.args[i]] = b[f.args[i]]
  BY DEF Operands
<1>2. f.op \in {"not", "G", "F"} => a[f.phi] = b[f.phi]
  BY DEF Operands
<1>3. f.op \in {"U", "R", "imply"} => a[f.left] = b[f.left] /\ a[f.right] = b[f.right]
  BY DEF Operands
<1> QED
  BY <1>1, <1>2, <1>3 DEF SmtOf

\* So the unrolling is defined at every formula and instant.
LEMMA SmtEquation ==
    ASSUME NEW sig, NEW m
    PROVE  /\ SmtTruth(sig, m) = [f \in Formula |-> [t \in Int |-> SmtOf(f, sig, t, m, SmtTruth(sig, m))]]
           /\ \A f \in Formula : \A t \in Int :
                  Smt(sig, t, f, m) = SmtOf(f, sig, t, m, SmtTruth(sig, m))
<1> DEFINE V == [Int -> BOOLEAN]
           step == [p \in Formula \X [Formula -> V] |-> [t \in Int |-> SmtOf(p[1], sig, t, m, p[2])]]
<1>1. V # {}
  <2>1. [t \in Int |-> TRUE] \in V
    OBVIOUS
  <2> QED
    BY <2>1
<1>2. \A f, a, t : SmtOf(f, sig, t, m, a) \in BOOLEAN
  BY DEF SmtOf
<1>3. step \in [Formula \X [Formula -> V] -> V]
  BY <1>2
<1>4. \A f \in Formula : \A a \in [Formula -> V] : step[<<f, a>>] = [t \in Int |-> SmtOf(f, sig, t, m, a)]
  OBVIOUS
<1> HIDE DEF V, step
<1>5. DependsOnOperands(step, V)
  <2> SUFFICES ASSUME NEW f \in Formula, NEW a \in [Formula -> V], NEW b \in [Formula -> V],
                      \A g \in Operands(f) : a[g] = b[g]
               PROVE  step[<<f, a>>] = step[<<f, b>>]
    BY DEF DependsOnOperands
  <2>1. \A t \in Int : SmtOf(f, sig, t, m, a) = SmtOf(f, sig, t, m, b)
    BY SmtOfOperands
  <2>2. [t \in Int |-> SmtOf(f, sig, t, m, a)] = [t \in Int |-> SmtOf(f, sig, t, m, b)]
    BY <2>1
  <2>3. step[<<f, a>>] = [t \in Int |-> SmtOf(f, sig, t, m, a)]
    BY <1>4
  <2>4. step[<<f, b>>] = [t \in Int |-> SmtOf(f, sig, t, m, b)]
    BY <1>4
  <2> QED
    BY <2>2, <2>3, <2>4
<1>6. PICK h \in [Formula -> V] : \A f \in Formula : h[f] = step[<<f, h>>]
  BY <1>1, <1>3, <1>5, RecursiveFunction
<1>7. h = [f \in Formula |-> [t \in Int |-> SmtOf(f, sig, t, m, h)]]
  BY <1>4, <1>6
<1>8. \E truth : truth = [f \in Formula |-> [t \in Int |-> SmtOf(f, sig, t, m, truth)]]
  BY <1>7, Zenon
<1>9. SmtTruth(sig, m) = [f \in Formula |-> [t \in Int |-> SmtOf(f, sig, t, m, SmtTruth(sig, m))]]
  BY <1>8, Zenon DEF SmtTruth
<1> DEFINE M(g, u) == SmtOf(g, sig, u, m, SmtTruth(sig, m))
           truth == SmtTruth(sig, m)
<1>10. truth = [g \in Formula |-> [u \in Int |-> M(g, u)]]
  BY <1>9
<1> HIDE DEF M, truth
<1>11. \A g \in Formula : \A u \in Int : truth[g][u] = M(g, u)
  BY <1>10, Zenon
<1> QED
  BY <1>9, <1>11, Zenon DEF Smt, M, truth

\* Where the left operand of an until or a release counts, from the instant at which
\* it is asked
Lefts(int, i, m) == IF m THEN int.lower .. i - 1 ELSE 0 .. i

\* What it says of each operator
LEMMA SmtCases ==
    ASSUME NEW sig, NEW m, NEW t \in Int, NEW f \in Formula
    PROVE  /\ Smt(sig, t, f, m) \in BOOLEAN
           /\ f.op = "prop" => (Smt(sig, t, f, m) <=> sig[t][f.e.var] \in f.e.holds)
           /\ f.op = "not" => (Smt(sig, t, f, m) <=> ~Smt(sig, t, f.phi, m))
           /\ f.op = "and" => (Smt(sig, t, f, m) <=> \A i \in DOMAIN f.args : Smt(sig, t, f.args[i], m))
           /\ f.op = "or" => (Smt(sig, t, f, m) <=> \E i \in DOMAIN f.args : Smt(sig, t, f.args[i], m))
           /\ f.op = "imply" => (Smt(sig, t, f, m) <=> (Smt(sig, t, f.left, m) => Smt(sig, t, f.right, m)))
           /\ f.op = "G" => (Smt(sig, t, f, m) <=>
                \A i \in f.int.lower .. f.int.upper : Smt(sig, t + i, f.phi, m))
           /\ f.op = "F" => (Smt(sig, t, f, m) <=>
                \E i \in f.int.lower .. f.int.upper : Smt(sig, t + i, f.phi, m))
           /\ f.op = "U" => (Smt(sig, t, f, m) <=>
                \E i \in f.int.lower .. f.int.upper :
                    /\ Smt(sig, t + i, f.right, m)
                    /\ \A j \in Lefts(f.int, i, m) : Smt(sig, t + j, f.left, m))
           /\ f.op = "R" => (Smt(sig, t, f, m) <=>
                \A i \in f.int.lower .. f.int.upper :
                    \/ Smt(sig, t + i, f.right, m)
                    \/ \E j \in Lefts(f.int, i, m) : Smt(sig, t + j, f.left, m))
<1> DEFINE H == Smt(sig, t, f, m)
           S(u, g) == Smt(sig, u, g, m)
           M == SmtOf(f, sig, t, m, SmtTruth(sig, m))
<1>1. H = M
  BY SmtEquation
<1>2. M \in BOOLEAN
  BY DEF SmtOf
<1>3. \A g, u : SmtTruth(sig, m)[g][u] = S(u, g)
  BY DEF Smt
<1>4. CASE f.op \in {"prop", "not", "and", "or", "imply"}
  <2>1. /\ f.op = "prop" => (M <=> sig[t][f.e.var] \in f.e.holds)
        /\ f.op = "not" => (M <=> ~SmtTruth(sig, m)[f.phi][t])
        /\ f.op = "and" => (M <=> \A i \in DOMAIN f.args : SmtTruth(sig, m)[f.args[i]][t])
        /\ f.op = "or" => (M <=> \E i \in DOMAIN f.args : SmtTruth(sig, m)[f.args[i]][t])
        /\ f.op = "imply" => (M <=> (SmtTruth(sig, m)[f.left][t] => SmtTruth(sig, m)[f.right][t]))
    BY <1>4 DEF SmtOf
  <2> HIDE DEF M
  <2> QED
    BY <1>1, <1>2, <1>4, <2>1 DEF Smt
<1>5. CASE f.op \in {"G", "F", "U", "R"}
  <2> DEFINE a == f.int.lower
             b == f.int.upper
  <2>1. a \in Int /\ b \in Int
    BY <1>5, FormulaShape DEF Times
  <2>2. /\ f.op = "G" => (M <=> \A i \in t + a .. t + b : S(i, f.phi))
        /\ f.op = "F" => (M <=> \E i \in t + a .. t + b : S(i, f.phi))
        /\ f.op = "U" => (M <=> \E i \in t + a .. t + b :
                             S(i, f.right) /\ \A j \in LeftInstants(t, f.int, i, m) : S(j, f.left))
        /\ f.op = "R" => (M <=> \A i \in t + a .. t + b :
                             S(i, f.right) \/ \E j \in LeftInstants(t, f.int, i, m) : S(j, f.left))
    BY <1>5 DEF SmtOf, Smt
  <2> HIDE DEF M, S, H
  <2>3. \A i \in t + a .. t + b : i - t \in a .. b /\ t + (i - t) = i /\ i - t \in Int
    BY <2>1
  <2>4. \A i \in a .. b : t + i \in t + a .. t + b /\ i \in Int
    BY <2>1
  <2>5. ASSUME NEW i \in Int
        PROVE  /\ \A j \in Lefts(f.int, i, m) : t + j \in LeftInstants(t, f.int, t + i, m)
               /\ \A j \in LeftInstants(t, f.int, t + i, m) : j - t \in Lefts(f.int, i, m) /\ t + (j - t) = j
    BY <2>1 DEF Lefts, LeftInstants
  <2> HIDE DEF a, b
  <2>6. CASE f.op = "G"
    <3>1. M <=> \A i \in a .. b : S(t + i, f.phi)
      BY <2>2, <2>3, <2>4, <2>6
    <3> QED
      BY <1>1, <1>2, <2>6, <3>1 DEF H, S, a, b
  <2>7. CASE f.op = "F"
    <3>1. M <=> \E i \in a .. b : S(t + i, f.phi)
      BY <2>2, <2>3, <2>4, <2>7
    <3> QED
      BY <1>1, <1>2, <2>7, <3>1 DEF H, S, a, b
  <2>8. \A i \in Int : (\A j \in LeftInstants(t, f.int, t + i, m) : S(j, f.left))
                           <=> \A j \in Lefts(f.int, i, m) : S(t + j, f.left)
    BY <2>5
  <2>9. \A i \in Int : (\E j \in LeftInstants(t, f.int, t + i, m) : S(j, f.left))
                           <=> \E j \in Lefts(f.int, i, m) : S(t + j, f.left)
    BY <2>5
  <2>10. CASE f.op = "U"
    <3>1. M <=> \E i \in a .. b : S(t + i, f.right) /\ \A j \in Lefts(f.int, i, m) : S(t + j, f.left)
      BY <2>2, <2>3, <2>4, <2>8, <2>10
    <3> QED
      BY <1>1, <1>2, <2>10, <3>1 DEF H, S, a, b
  <2>11. CASE f.op = "R"
    <3>1. M <=> \A i \in a .. b : S(t + i, f.right) \/ \E j \in Lefts(f.int, i, m) : S(t + j, f.left)
      BY <2>2, <2>3, <2>4, <2>9, <2>11
    <3> QED
      BY <1>1, <1>2, <2>11, <3>1 DEF H, S, a, b
  <2> QED
    BY <1>5, <2>6, <2>7, <2>10, <2>11
<1> QED
  BY <1>4, <1>5, FormulaShape

\* The same, operator by operator
LEMMA SmtNot ==
    \A sig, m : \A t \in Int : \A f \in Formula : f.op = "not" =>
        (Smt(sig, t, f, m) <=> ~Smt(sig, t, f.phi, m))
BY SmtCases

LEMMA SmtAnd ==
    \A sig, m : \A t \in Int : \A f \in Formula : f.op = "and" =>
        (Smt(sig, t, f, m) <=> \A i \in DOMAIN f.args : Smt(sig, t, f.args[i], m))
BY SmtCases

LEMMA SmtOr ==
    \A sig, m : \A t \in Int : \A f \in Formula : f.op = "or" =>
        (Smt(sig, t, f, m) <=> \E i \in DOMAIN f.args : Smt(sig, t, f.args[i], m))
BY SmtCases

LEMMA SmtImply ==
    \A sig, m : \A t \in Int : \A f \in Formula : f.op = "imply" =>
        (Smt(sig, t, f, m) <=> (Smt(sig, t, f.left, m) => Smt(sig, t, f.right, m)))
BY SmtCases

LEMMA SmtGlobally ==
    \A sig, m : \A t \in Int : \A f \in Formula : f.op = "G" =>
        (Smt(sig, t, f, m) <=> \A i \in f.int.lower .. f.int.upper : Smt(sig, t + i, f.phi, m))
BY SmtCases

LEMMA SmtFinally ==
    \A sig, m : \A t \in Int : \A f \in Formula : f.op = "F" =>
        (Smt(sig, t, f, m) <=> \E i \in f.int.lower .. f.int.upper : Smt(sig, t + i, f.phi, m))
BY SmtCases

LEMMA SmtUntil ==
    \A sig, m : \A t \in Int : \A f \in Formula : f.op = "U" =>
        (Smt(sig, t, f, m) <=>
            \E i \in f.int.lower .. f.int.upper :
                /\ Smt(sig, t + i, f.right, m)
                /\ \A j \in Lefts(f.int, i, m) : Smt(sig, t + j, f.left, m))
BY SmtCases

LEMMA SmtRelease ==
    \A sig, m : \A t \in Int : \A f \in Formula : f.op = "R" =>
        (Smt(sig, t, f, m) <=>
            \A i \in f.int.lower .. f.int.upper :
                \/ Smt(sig, t + i, f.right, m)
                \/ \E j \in Lefts(f.int, i, m) : Smt(sig, t + j, f.left, m))
BY SmtCases

----------------------------------------------------------------------------
(* Congruence: formulas of one operator whose operands mean the same,      *)
(* maybe to other signals and at other instants, mean the same.            *)

\* The instants at which operands of f count, from the one at which f is asked
Reach(f, m) == IF m THEN f.int.lower .. f.int.upper ELSE 0 .. f.int.upper

\* f and k have one operator, and their operands mean the same where they count.
Matches(f, sig, t, k, other, u, d, m, n) ==
    /\ k.op = f.op
    /\ f.op = "prop" => (sig[t][f.e.var] \in f.e.holds <=> other[u][k.e.var] \in k.e.holds)
    /\ f.op = "not" => (Smt(sig, t, f.phi, m) <=> Smt(other, u, k.phi, n))
    /\ f.op \in {"and", "or"} =>
         /\ DOMAIN k.args = DOMAIN f.args
         /\ \A i \in DOMAIN f.args : Smt(sig, t, f.args[i], m) <=> Smt(other, u, k.args[i], n)
    /\ f.op = "imply" =>
         /\ Smt(sig, t, f.left, m) <=> Smt(other, u, k.left, n)
         /\ Smt(sig, t, f.right, m) <=> Smt(other, u, k.right, n)
    /\ f.op \in {"G", "F", "U", "R"} =>
         /\ f.int \in Interval /\ d \in Int /\ (m \/ d = 0)
         /\ k.int.lower = f.int.lower + d /\ k.int.upper = f.int.upper + d
         /\ f.op \in {"U", "R"} => n = m
    /\ f.op \in {"G", "F"} =>
         \A i \in Reach(f, m) : Smt(sig, t + i, f.phi, m) <=> Smt(other, u + (i + d), k.phi, n)
    /\ f.op \in {"U", "R"} =>
         \A i \in Reach(f, m) :
             /\ Smt(sig, t + i, f.left, m) <=> Smt(other, u + (i + d), k.left, n)
             /\ Smt(sig, t + i, f.right, m) <=> Smt(other, u + (i + d), k.right, n)

\* Then f and k mean the same.
LEMMA Congruence ==
    ASSUME NEW f \in Formula, NEW k \in Formula, NEW sig, NEW other, NEW t \in Int, NEW u \in Int,
           NEW d, NEW m \in BOOLEAN, NEW n \in BOOLEAN, Matches(f, sig, t, k, other, u, d, m, n)
    PROVE  Smt(sig, t, f, m) <=> Smt(other, u, k, n)
<1> DEFINE A(i, g) == Smt(sig, t + i, g, m)
           B(i, g) == Smt(other, u + i, g, n)
<1>1. CASE f.op \in {"prop", "not", "imply"}
  <2>1. k.op = f.op
    BY DEF Matches
  <2>2. CASE f.op = "prop"
    BY <2>1, <2>2, SmtCases DEF Matches
  <2>3. CASE f.op = "not"
    <3>1. Smt(sig, t, f, m) <=> ~Smt(sig, t, f.phi, m)
      BY <2>3, SmtCases
    <3>2. Smt(other, u, k, n) <=> ~Smt(other, u, k.phi, n)
      BY <2>1, <2>3, SmtCases
    <3> QED
      BY <2>3, <3>1, <3>2 DEF Matches
  <2>4. CASE f.op = "imply"
    BY <2>1, <2>4, SmtImply DEF Matches
  <2> QED
    BY <1>1, <2>2, <2>3, <2>4
<1>2. CASE f.op \in {"and", "or"}
  <2>1. /\ k.op = f.op /\ DOMAIN k.args = DOMAIN f.args
        /\ \A i \in DOMAIN f.args : Smt(sig, t, f.args[i], m) <=> Smt(other, u, k.args[i], n)
    BY <1>2 DEF Matches
  <2>2. CASE f.op = "and"
    <3>1. Smt(sig, t, f, m) <=> \A i \in DOMAIN f.args : Smt(sig, t, f.args[i], m)
      BY <2>2, SmtAnd
    <3>2. Smt(other, u, k, n) <=> \A i \in DOMAIN k.args : Smt(other, u, k.args[i], n)
      BY <2>1, <2>2, SmtAnd
    <3> QED
      BY <2>1, <3>1, <3>2
  <2>3. CASE f.op = "or"
    <3>1. Smt(sig, t, f, m) <=> \E i \in DOMAIN f.args : Smt(sig, t, f.args[i], m)
      BY <2>3, SmtOr
    <3>2. Smt(other, u, k, n) <=> \E i \in DOMAIN k.args : Smt(other, u, k.args[i], n)
      BY <2>1, <2>3, SmtOr
    <3> QED
      BY <2>1, <3>1, <3>2
  <2> QED
    BY <1>2, <2>2, <2>3
<1>3. CASE f.op \in {"G", "F", "U", "R"}
  <2> DEFINE a == f.int.lower
             b == f.int.upper
  <2>1. a \in Nat /\ b \in Nat /\ d \in Int /\ (m \/ d = 0)
    BY <1>3 DEF Matches, Interval
  <2>2. k.op = f.op /\ k.int.lower = a + d /\ k.int.upper = b + d
    BY <1>3 DEF Matches
  <2>3. \A i \in a .. b : i \in Reach(f, m) /\ i \in Int /\ i + d \in k.int.lower .. k.int.upper
    BY <2>1, <2>2 DEF Reach
  <2>4. \A i \in k.int.lower .. k.int.upper : i - d \in a .. b /\ (i - d) + d = i /\ i \in Int
    BY <2>1, <2>2
  <2>5. CASE f.op \in {"G", "F"}
    <3>1. \A i \in Reach(f, m) : A(i, f.phi) <=> B(i + d, k.phi)
      BY <2>5 DEF Matches
    <3>2. /\ f.op = "G" => (Smt(sig, t, f, m) <=> \A i \in a .. b : A(i, f.phi))
          /\ f.op = "F" => (Smt(sig, t, f, m) <=> \E i \in a .. b : A(i, f.phi))
      BY SmtCases
    <3>3. /\ f.op = "G" => (Smt(other, u, k, n) <=> \A i \in k.int.lower .. k.int.upper : B(i, k.phi))
          /\ f.op = "F" => (Smt(other, u, k, n) <=> \E i \in k.int.lower .. k.int.upper : B(i, k.phi))
      BY <2>2, SmtCases
    <3> HIDE DEF A, B, a, b
    <3>4. CASE f.op = "G"
      BY <2>3, <2>4, <3>1, <3>2, <3>3, <3>4
    <3>5. CASE f.op = "F"
      BY <2>3, <2>4, <3>1, <3>2, <3>3, <3>5
    <3> QED
      BY <2>5, <3>4, <3>5
  <2>6. CASE f.op \in {"U", "R"}
    <3>1. \A i \in Reach(f, m) : (A(i, f.left) <=> B(i + d, k.left)) /\ (A(i, f.right) <=> B(i + d, k.right))
      BY <2>6 DEF Matches
    <3>2. /\ f.op = "U" => (Smt(sig, t, f, m) <=> \E i \in a .. b :
                               A(i, f.right) /\ \A j \in Lefts(f.int, i, m) : A(j, f.left))
          /\ f.op = "R" => (Smt(sig, t, f, m) <=> \A i \in a .. b :
                               A(i, f.right) \/ \E j \in Lefts(f.int, i, m) : A(j, f.left))
      BY SmtCases
    <3>0. n = m
      BY <2>6 DEF Matches
    <3>3. /\ f.op = "U" => (Smt(other, u, k, n) <=> \E i \in k.int.lower .. k.int.upper :
                               B(i, k.right) /\ \A j \in Lefts(k.int, i, m) : B(j, k.left))
          /\ f.op = "R" => (Smt(other, u, k, n) <=> \A i \in k.int.lower .. k.int.upper :
                               B(i, k.right) \/ \E j \in Lefts(k.int, i, m) : B(j, k.left))
      BY <2>2, <3>0, SmtUntil, SmtRelease
    <3>4. ASSUME NEW i \in a .. b
          PROVE  /\ \A j \in Lefts(f.int, i, m) : j \in Reach(f, m) /\ j + d \in Lefts(k.int, i + d, m)
                 /\ \A j \in Lefts(k.int, i + d, m) :
                        j - d \in Lefts(f.int, i, m) /\ j - d \in Reach(f, m) /\ (j - d) + d = j
      <4>1. CASE m
        BY <2>1, <2>2, <4>1 DEF Lefts, Reach
      <4>2. CASE ~m
        <5>1. d = 0 /\ i \in Nat /\ i <= b
          BY <2>1, <4>2
        <5> HIDE DEF a, b
        <5>2. /\ Lefts(f.int, i, m) = 0 .. i /\ Reach(f, m) = 0 .. b
              /\ Lefts(k.int, i + d, m) = 0 .. i
          BY <4>2, <5>1 DEF Lefts, Reach, b
        <5>3. /\ \A j \in 0 .. i : j \in 0 .. b /\ j + d \in 0 .. i /\ j - d \in 0 .. i
              /\ \A j \in 0 .. i : j - d \in 0 .. b /\ (j - d) + d = j
          BY <2>1, <5>1
        <5> QED
          BY <5>2, <5>3
      <4> QED
        BY <4>1, <4>2
    <3> HIDE DEF A, B, a, b
    <3>5. \A i \in a .. b : (\A j \in Lefts(f.int, i, m) : A(j, f.left))
                                <=> \A j \in Lefts(k.int, i + d, m) : B(j, k.left)
      BY <3>1, <3>4
    <3>6. \A i \in a .. b : (\E j \in Lefts(f.int, i, m) : A(j, f.left))
                                <=> \E j \in Lefts(k.int, i + d, m) : B(j, k.left)
      BY <3>1, <3>4
    <3>7. \A i \in a .. b : A(i, f.right) <=> B(i + d, k.right)
      BY <2>3, <3>1
    <3>8. CASE f.op = "U"
      <4>1. ASSUME Smt(sig, t, f, m) PROVE Smt(other, u, k, n)
        <5>1. PICK i \in a .. b : A(i, f.right) /\ \A j \in Lefts(f.int, i, m) : A(j, f.left)
          BY <3>2, <3>8, <4>1
        <5>2. i + d \in k.int.lower .. k.int.upper
          BY <2>3
        <5>3. B(i + d, k.right) /\ \A j \in Lefts(k.int, i + d, m) : B(j, k.left)
          BY <3>5, <3>7, <5>1
        <5> QED
          BY <3>3, <3>8, <5>2, <5>3
      <4>2. ASSUME Smt(other, u, k, n) PROVE Smt(sig, t, f, m)
        <5>1. PICK i \in k.int.lower .. k.int.upper :
                  B(i, k.right) /\ \A j \in Lefts(k.int, i, m) : B(j, k.left)
          BY <3>3, <3>8, <4>2
        <5>2. i - d \in a .. b /\ (i - d) + d = i
          BY <2>4
        <5> DEFINE c == i - d
        <5>3. c \in a .. b /\ c + d = i
          BY <5>2
        <5> HIDE DEF c
        <5>4. A(c, f.right) /\ \A j \in Lefts(f.int, c, m) : A(j, f.left)
          BY <3>5, <3>7, <5>1, <5>3
        <5> QED
          BY <3>2, <3>8, <5>3, <5>4
      <4> QED
        BY <4>1, <4>2
    <3>9. CASE f.op = "R"
      <4>1. ASSUME Smt(sig, t, f, m) PROVE Smt(other, u, k, n)
        <5>1. ASSUME NEW i \in k.int.lower .. k.int.upper
              PROVE  B(i, k.right) \/ \E j \in Lefts(k.int, i, m) : B(j, k.left)
          <6>1. i - d \in a .. b /\ (i - d) + d = i
            BY <2>4
          <6> DEFINE c == i - d
          <6>2. c \in a .. b /\ c + d = i
            BY <6>1
          <6> HIDE DEF c
          <6>3. A(c, f.right) \/ \E j \in Lefts(f.int, c, m) : A(j, f.left)
            BY <3>2, <3>9, <4>1, <6>2
          <6> QED
            BY <3>6, <3>7, <6>2, <6>3
        <5> QED
          BY <3>3, <3>9, <5>1
      <4>2. ASSUME Smt(other, u, k, n) PROVE Smt(sig, t, f, m)
        <5>1. ASSUME NEW i \in a .. b
              PROVE  A(i, f.right) \/ \E j \in Lefts(f.int, i, m) : A(j, f.left)
          <6>1. i + d \in k.int.lower .. k.int.upper
            BY <2>3
          <6>2. B(i + d, k.right) \/ \E j \in Lefts(k.int, i + d, m) : B(j, k.left)
            BY <3>3, <3>9, <4>2, <6>1
          <6> QED
            BY <3>6, <3>7, <6>2
        <5> QED
          BY <3>2, <3>9, <5>1
      <4> QED
        BY <4>1, <4>2
    <3> QED
      BY <2>6, <3>8, <3>9
  <2> QED
    BY <1>3, <2>5, <2>6
<1> QED
  BY <1>1, <1>2, <1>3, FormulaShape

----------------------------------------------------------------------------
(* The parts of a formula *)
\* Subformulas is defined at every formula.
LEMMA SubformulasEquation ==
    /\ Subformulas \in [Formula -> SUBSET Formula]
    /\ \A f \in Formula : Subformulas[f] = {f} \cup UNION {Subformulas[g] : g \in Operands(f)}
<1> DEFINE V == SUBSET Formula
           W(f, h) == {f} \cup UNION {h[g] : g \in Operands(f)}
           step == [p \in Formula \X [Formula -> V] |-> W(p[1], p[2])]
<1>1. V # {}
  OBVIOUS
<1>2. ASSUME NEW f \in Formula, NEW h \in [Formula -> V] PROVE W(f, h) \in V
  <2>1. \A g \in Operands(f) : h[g] \in V
    BY OperandsInFormula
  <2> QED
    BY <2>1
<1>3. step \in [Formula \X [Formula -> V] -> V]
  <2> HIDE DEF W, V
  <2> QED
    BY <1>2
<1>4. \A f \in Formula : \A a \in [Formula -> V] : step[<<f, a>>] = W(f, a)
  <2> HIDE DEF W, V
  <2> QED
    OBVIOUS
<1>5. ASSUME NEW f \in Formula, NEW a, NEW b, \A g \in Operands(f) : a[g] = b[g]
      PROVE  W(f, a) = W(f, b)
  <2>1. {a[g] : g \in Operands(f)} = {b[g] : g \in Operands(f)}
    BY <1>5
  <2> QED
    BY <2>1
<1> HIDE DEF V, W, step
<1>6. DependsOnOperands(step, V)
  BY <1>4, <1>5 DEF DependsOnOperands
<1>7. PICK h \in [Formula -> V] : \A f \in Formula : h[f] = step[<<f, h>>]
  BY <1>1, <1>3, <1>6, RecursiveFunction
<1>8. h = [f \in Formula |-> W(f, h)]
  BY <1>4, <1>7
<1>9. \E w : w = [f \in Formula |-> W(f, w)]
  BY <1>8, Zenon
<1>10. Subformulas = [f \in Formula |-> W(f, Subformulas)]
  BY <1>9, Zenon DEF Subformulas, W
<1> DEFINE parts == Subformulas
<1>11. parts = [f \in Formula |-> W(f, parts)]
  BY <1>10
<1> DEFINE S == {f \in Formula : parts[f] \in V}
<1>12. Formula \subseteq S
  <2>1. ASSUME NEW f \in Formula, Operands(f) \subseteq S PROVE f \in S
    <3>1. \A g \in Operands(f) : parts[g] \subseteq Formula
      BY <2>1 DEF V
    <3> HIDE DEF parts
    <3>2. parts[f] = {f} \cup UNION {parts[g] : g \in Operands(f)}
      BY <1>11 DEF W
    <3> QED
      BY <3>1, <3>2 DEF V
  <2> HIDE DEF S
  <2> QED
    BY <2>1, FormulaInduction
<1> HIDE DEF parts
<1>13. parts \in [Formula -> V]
  BY <1>11, <1>12
<1>14. \A f \in Formula : parts[f] = W(f, parts)
  BY <1>11
<1> QED
  BY <1>13, <1>14 DEF V, W, parts

\* A formula is a part of itself; its other parts are those of its operands.
LEMMA PartsOf ==
    ASSUME NEW f \in Formula
    PROVE  /\ f \in Subformulas[f] /\ Subformulas[f] \subseteq Formula
           /\ \A g \in Operands(f) : g \in Formula /\ Subformulas[g] \subseteq Subformulas[f]
           /\ \A h \in Subformulas[f] : h = f \/ \E g \in Operands(f) : h \in Subformulas[g]
<1>1. Subformulas[f] = {f} \cup UNION {Subformulas[g] : g \in Operands(f)}
  BY SubformulasEquation
<1> QED
  BY <1>1, SubformulasEquation, OperandsInFormula

\* What holds at a formula and of its operands' parts holds of its parts.
LEMMA OfParts ==
    ASSUME NEW f \in Formula, NEW S, f \in S, \A g \in Operands(f) : Subformulas[g] \subseteq S
    PROVE  Subformulas[f] \subseteq S
BY PartsOf

----------------------------------------------------------------------------
(* Formulas of proper intervals *)
\* All intervals are ordered and begin at 0 or later.
Proper(f) == \A g \in Subformulas[f] : IsTemporal(g) => g.int \in Interval

\* A formula is proper if its interval and its operands are.
LEMMA ProperFacts ==
    ASSUME NEW f \in Formula
    PROVE  Proper(f) <=> /\ IsTemporal(f) => f.int \in Interval
                         /\ \A g \in Operands(f) : Proper(g)
BY PartsOf DEF Proper

\* The second left part of an implication is not in its scope: it says nothing new.
LEMMA ScopeOperands == \A f \in Formula : Scope(f) \subseteq Operands(f) /\ Scope(f) \subseteq Formula
BY ScopeFact, OperandsInFormula

\* The horizon of a proper formula is a bound of those of its operands, and is reached.
LEMMA HorizonOfProper ==
    ASSUME NEW f \in Formula, Proper(f)
    PROVE  /\ Horizon[f] \in Nat
           /\ \A g \in Scope(f) : Horizon[g] \in Nat
           /\ f.op \in {"prop", "not", "and", "or", "imply"} =>
                \A g \in Scope(f) : Horizon[g] <= Horizon[f]
           /\ IsTemporal(f) => f.int.upper <= Horizon[f] /\
                \A g \in Scope(f) : f.int.upper + Horizon[g] <= Horizon[f]
           /\ \/ Scope(f) = {} /\ Horizon[f] = 0
              \/ \E g \in Scope(f) : Horizon[f] = (IF IsTemporal(f) THEN f.int.upper ELSE 0) + Horizon[g]
<1> DEFINE S == {g \in Formula : Proper(g) => Horizon[g] \in Nat}
           u(g) == IF IsTemporal(g) THEN g.int.upper ELSE 0
           m(g) == Max({0} \cup {Horizon[h] : h \in Scope(g)})
<1>1. ASSUME NEW g \in Formula, Proper(g), \A h \in Scope(g) : Horizon[h] \in Nat
      PROVE  /\ m(g) \in Nat /\ (\A h \in Scope(g) : Horizon[h] <= m(g))
             /\ u(g) \in Nat /\ Horizon[g] = u(g) + m(g) /\ Horizon[g] \in Nat
             /\ (Scope(g) = {} /\ m(g) = 0) \/ \E h \in Scope(g) : m(g) = Horizon[h]
  <2> DEFINE N == {0} \cup {Horizon[h] : h \in Scope(g)}
  <2>1. u(g) \in Nat
    BY <1>1, ProperFacts DEF Interval
  <2>2. Horizon[g] = u(g) + m(g)
    BY HorizonEquation
  <2>3. N \in SUBSET Int /\ N # {} /\ N \subseteq Nat
    BY <1>1
  <2>4. IsFiniteSet(N)
    <3>1. IsFiniteSet({Horizon[h] : h \in Scope(g)})
      BY ScopeFact, ImageFinite
    <3> QED
      BY <3>1, FS_Union, FS_Singleton
  <2> HIDE DEF N
  <2>5. Max(N) \in N /\ \A k \in N : Max(N) >= k
    BY <2>3, <2>4, MaxFact
  <2>6. Max(N) = m(g)
    BY DEF N
  <2> HIDE DEF u, m
  <2>7. m(g) \in Nat /\ Horizon[g] \in Nat
    <3>1. m(g) \in Nat
      BY <2>3, <2>5, <2>6, Zenon
    <3> QED
      BY <2>1, <2>2, <3>1
  <2>8. \A h \in Scope(g) : Horizon[h] <= m(g)
    BY <2>5, <2>6, <2>7, <1>1 DEF N
  <2>9. (Scope(g) = {} /\ m(g) = 0) \/ \E h \in Scope(g) : m(g) = Horizon[h]
    <3>1. CASE Scope(g) = {}
      BY <2>5, <2>6, <3>1 DEF N
    <3>2. CASE Scope(g) # {}
      <4>1. PICK h \in Scope(g) : TRUE
        BY <3>2
      <4>2. CASE m(g) = 0
        <5>1. Horizon[h] = 0
          BY <1>1, <2>8, <4>1, <4>2
        <5> QED
          BY <4>1, <4>2, <5>1
      <4>3. CASE m(g) # 0
        BY <2>5, <2>6, <4>3 DEF N
      <4> QED
        BY <4>2, <4>3
    <3> QED
      BY <3>1, <3>2
  <2> QED
    BY <2>1, <2>2, <2>7, <2>8, <2>9
<1>2. Formula \subseteq S
  <2>1. ASSUME NEW g \in Formula, Operands(g) \subseteq S PROVE g \in S
    <3> SUFFICES ASSUME Proper(g) PROVE Horizon[g] \in Nat
      OBVIOUS
    <3>1. \A h \in Scope(g) : Horizon[h] \in Nat
      BY <2>1, ScopeOperands, ProperFacts
    <3> QED
      BY <1>1, <3>1
  <2> HIDE DEF S
  <2> QED
    BY <2>1, FormulaInduction
<1>3. \A g \in Scope(f) : Horizon[g] \in Nat
  BY <1>2, ScopeOperands, ProperFacts
<1>4. /\ m(f) \in Nat /\ (\A h \in Scope(f) : Horizon[h] <= m(f))
      /\ u(f) \in Nat /\ Horizon[f] = u(f) + m(f) /\ Horizon[f] \in Nat
      /\ (Scope(f) = {} /\ m(f) = 0) \/ \E h \in Scope(f) : m(f) = Horizon[h]
  BY <1>1, <1>3
<1>5. f.op \in {"prop", "not", "and", "or", "imply"} => u(f) = 0
  BY DEF IsTemporal
<1>6. IsTemporal(f) => u(f) = f.int.upper
  OBVIOUS
<1>7. f.op = "prop" => Scope(f) = {}
  BY DEF Scope, Operands
<1>8. IsTemporal(f) => Scope(f) # {}
  BY DEF Scope, Operands, IsTemporal
<1> HIDE DEF m, u
<1>9. /\ f.op \in {"prop", "not", "and", "or", "imply"} => \A g \in Scope(f) : Horizon[g] <= Horizon[f]
      /\ IsTemporal(f) => f.int.upper <= Horizon[f] /\
             \A g \in Scope(f) : f.int.upper + Horizon[g] <= Horizon[f]
  BY <1>3, <1>4, <1>5, <1>6
<1>10. CASE Scope(f) = {}
  <2>1. ~IsTemporal(f)
    BY <1>8, <1>10
  <2>2. u(f) = 0
    BY <2>1 DEF u
  <2> QED
    BY <1>3, <1>4, <1>9, <1>10, <2>2
<1>11. CASE Scope(f) # {}
  <2>1. PICK g \in Scope(f) : m(f) = Horizon[g]
    BY <1>4, <1>11
  <2>2. Horizon[f] = u(f) + Horizon[g]
    BY <1>4, <2>1
  <2> QED
    BY <1>3, <1>4, <1>9, <2>1, <2>2 DEF u
<1> QED
  BY <1>10, <1>11

\* Offsets at which operands count lie in the horizon.
LEMMA ReachInHorizon ==
    ASSUME NEW f \in Formula, Proper(f), f.op \in {"G", "F", "U", "R"}, NEW m \in BOOLEAN,
           NEW i \in Reach(f, m)
    PROVE  i \in Nat /\ i <= f.int.upper /\ \A g \in Scope(f) : i + Horizon[g] <= Horizon[f]
<1>1. IsTemporal(f) /\ f.int \in Interval
  BY ProperFacts DEF IsTemporal
<1>2. f.int.lower \in Nat /\ f.int.upper \in Nat
  BY <1>1 DEF Interval
<1>3. i \in Nat /\ i <= f.int.upper
  BY <1>2 DEF Reach
<1>4. Horizon[f] \in Nat /\ \A g \in Scope(f) : Horizon[g] \in Nat /\ f.int.upper + Horizon[g] <= Horizon[f]
  BY <1>1, HorizonOfProper
<1> QED
  BY <1>2, <1>3, <1>4

\* A formula means the same to two signals that agree up to its horizon.
LEMMA SmtTransfer ==
    ASSUME NEW sig, NEW other, NEW m \in BOOLEAN
    PROVE  \A f \in Formula : Proper(f) => \A t, u \in Int :
               (\A i \in 0 .. Horizon[f] : sig[t + i] = other[u + i])
                   => (Smt(sig, t, f, m) <=> Smt(other, u, f, m))
<1> DEFINE Alike(f, t, u) == \A i \in 0 .. Horizon[f] : sig[t + i] = other[u + i]
           S == {f \in Formula : Proper(f) => \A t, u \in Int :
                    Alike(f, t, u) => (Smt(sig, t, f, m) <=> Smt(other, u, f, m))}
<1>1. ASSUME NEW f \in Formula, Operands(f) \subseteq S PROVE f \in S
  <2> SUFFICES ASSUME Proper(f), NEW t \in Int, NEW u \in Int, Alike(f, t, u)
               PROVE  Smt(sig, t, f, m) <=> Smt(other, u, f, m)
    OBVIOUS
  <2>1. ASSUME NEW g \in Scope(f), NEW i \in Nat, i + Horizon[g] <= Horizon[f]
        PROVE  Smt(sig, t + i, g, m) <=> Smt(other, u + i, g, m)
    <3>1. Horizon[g] \in Nat /\ Horizon[f] \in Nat
      BY HorizonOfProper
    <3>2. \A j \in 0 .. Horizon[g] : i + j \in 0 .. Horizon[f] /\ (t + i) + j = t + (i + j) /\ (u + i) + j = u + (i + j)
      BY <2>1, <3>1
    <3>3. Alike(g, t + i, u + i)
      BY <3>2
    <3>4. g \in S /\ Proper(g) /\ t + i \in Int /\ u + i \in Int
      BY <1>1, ScopeOperands, ProperFacts
    <3> HIDE DEF Alike
    <3> QED
      BY <3>3, <3>4
  <2>2. f.op \in {"prop", "not", "and", "or", "imply"} => \A g \in Scope(f) :
            Smt(sig, t, g, m) <=> Smt(other, u, g, m)
    <3> SUFFICES ASSUME f.op \in {"prop", "not", "and", "or", "imply"}, NEW g \in Scope(f)
                 PROVE  Smt(sig, t, g, m) <=> Smt(other, u, g, m)
      OBVIOUS
    <3>1. 0 + Horizon[g] <= Horizon[f]
      BY HorizonOfProper
    <3>2. 0 \in Nat /\ t + 0 = t /\ u + 0 = u
      OBVIOUS
    <3> HIDE DEF S, Alike
    <3> QED
      BY <2>1, <3>1, <3>2
  <2>3. f.op = "prop" => sig[t] = other[u]
    <3>1. 0 \in 0 .. Horizon[f] /\ t + 0 = t /\ u + 0 = u
      BY HorizonOfProper
    <3> QED
      BY <3>1
  <2>4. f.op \in {"G", "F", "U", "R"} => \A i \in Reach(f, m) : \A g \in Scope(f) :
            Smt(sig, t + i, g, m) <=> Smt(other, u + (i + 0), g, m)
    <3> SUFFICES ASSUME f.op \in {"G", "F", "U", "R"}, NEW i \in Reach(f, m), NEW g \in Scope(f)
                 PROVE  Smt(sig, t + i, g, m) <=> Smt(other, u + (i + 0), g, m)
      OBVIOUS
    <3>1. i \in Nat /\ i + Horizon[g] <= Horizon[f]
      BY ReachInHorizon
    <3>2. u + (i + 0) = u + i
      BY <3>1
    <3> HIDE DEF S, Alike
    <3> QED
      BY <2>1, <3>1, <3>2
  <2> HIDE DEF S, Alike
  <2>5. f.op \in {"G", "F", "U", "R"} => f.int \in Interval /\ f.int.lower = f.int.lower + 0 /\ f.int.upper = f.int.upper + 0
    BY ProperFacts DEF IsTemporal, Interval
  <2>6. /\ f.op \in {"not", "G", "F"} => f.phi \in Scope(f)
        /\ f.op \in {"and", "or"} => \A i \in DOMAIN f.args : f.args[i] \in Scope(f)
        /\ f.op \in {"U", "R", "imply"} => f.left \in Scope(f) /\ f.right \in Scope(f)
    BY DEF Scope, Operands
  <2>7. Matches(f, sig, t, f, other, u, 0, m, m)
    BY <2>2, <2>3, <2>4, <2>5, <2>6 DEF Matches
  <2> QED
    BY <2>7, Congruence
<1>2. Formula \subseteq S
  <2> HIDE DEF S
  <2> QED
    BY <1>1, FormulaInduction
<1> QED
  BY <1>2

\* Of the two semantics the tableau's is the one of MLTL.
LEMMA SmtIsHolds ==
    ASSUME NEW sig
    PROVE  \A f \in Formula : \A t \in Int : Smt(sig, t, f, TRUE) <=> Holds(sig, t, f)
<1> DEFINE S == {f \in Formula : \A t \in Int : Smt(sig, t, f, TRUE) <=> Holds(sig, t, f)}
           Q(t, f) == Smt(sig, t, f, TRUE)
           H(t, f) == Holds(sig, t, f)
<1>1. ASSUME NEW f \in Formula, Operands(f) \subseteq S PROVE f \in S
  <2> SUFFICES ASSUME NEW t \in Int PROVE Q(t, f) <=> H(t, f)
    OBVIOUS
  <2>1. \A g \in Operands(f) : \A u \in Int : Q(u, g) <=> H(u, g)
    BY <1>1
  <2>2. CASE f.op \in {"prop", "not", "imply"}
    <3>1. /\ f.op = "not" => f.phi \in Operands(f)
          /\ f.op = "imply" => f.left \in Operands(f) /\ f.right \in Operands(f)
      BY DEF Operands
    <3>2. /\ f.op = "prop" => (Q(t, f) <=> sig[t][f.e.var] \in f.e.holds)
          /\ f.op = "not" => (Q(t, f) <=> ~Q(t, f.phi))
          /\ f.op = "imply" => (Q(t, f) <=> (Q(t, f.left) => Q(t, f.right)))
      BY SmtCases
    <3>3. /\ f.op = "prop" => (H(t, f) <=> sig[t][f.e.var] \in f.e.holds)
          /\ f.op = "not" => (H(t, f) <=> ~H(t, f.phi))
          /\ f.op = "imply" => (H(t, f) <=> (H(t, f.left) => H(t, f.right)))
      BY HoldsCases
    <3> HIDE DEF Q, H
    <3> QED
      BY <2>1, <2>2, <3>1, <3>2, <3>3
  <2>3. CASE f.op \in {"and", "or"}
    <3>1. \A i \in DOMAIN f.args : f.args[i] \in Operands(f)
      BY <2>3 DEF Operands
    <3>2. /\ f.op = "and" => (Q(t, f) <=> \A i \in DOMAIN f.args : Q(t, f.args[i]))
          /\ f.op = "or" => (Q(t, f) <=> \E i \in DOMAIN f.args : Q(t, f.args[i]))
      BY SmtCases
    <3>3. /\ f.op = "and" => (H(t, f) <=> \A i \in DOMAIN f.args : H(t, f.args[i]))
          /\ f.op = "or" => (H(t, f) <=> \E i \in DOMAIN f.args : H(t, f.args[i]))
      BY HoldsCases
    <3> HIDE DEF Q, H
    <3> QED
      BY <2>1, <2>3, <3>1, <3>2, <3>3
  <2>4. CASE f.op \in {"G", "F"}
    <3>1. f.phi \in Operands(f)
      BY <2>4 DEF Operands
    <3>2. /\ f.op = "G" => (Q(t, f) <=> \A i \in f.int.lower .. f.int.upper : Q(t + i, f.phi))
          /\ f.op = "F" => (Q(t, f) <=> \E i \in f.int.lower .. f.int.upper : Q(t + i, f.phi))
      BY SmtCases
    <3>3. /\ f.op = "G" => (H(t, f) <=> \A i \in f.int.lower .. f.int.upper : H(t + i, f.phi))
          /\ f.op = "F" => (H(t, f) <=> \E i \in f.int.lower .. f.int.upper : H(t + i, f.phi))
      BY HoldsCases
    <3>4. \A i \in f.int.lower .. f.int.upper : t + i \in Int
      BY <2>4, FormulaShape DEF Times
    <3> HIDE DEF Q, H
    <3> QED
      BY <2>1, <2>4, <3>1, <3>2, <3>3, <3>4
  <2>5. CASE f.op \in {"U", "R"}
    <3>1. f.left \in Operands(f) /\ f.right \in Operands(f)
      BY <2>5 DEF Operands
    <3>2. /\ f.op = "U" => (Q(t, f) <=> \E i \in f.int.lower .. f.int.upper :
                Q(t + i, f.right) /\ \A j \in f.int.lower .. i - 1 : Q(t + j, f.left))
          /\ f.op = "R" => (Q(t, f) <=> \A i \in f.int.lower .. f.int.upper :
                Q(t + i, f.right) \/ \E j \in f.int.lower .. i - 1 : Q(t + j, f.left))
      <4>1. \A i : Lefts(f.int, i, TRUE) = f.int.lower .. i - 1
        BY DEF Lefts
      <4>2. /\ f.op = "U" => (Q(t, f) <=> \E i \in f.int.lower .. f.int.upper :
                  Q(t + i, f.right) /\ \A j \in Lefts(f.int, i, TRUE) : Q(t + j, f.left))
            /\ f.op = "R" => (Q(t, f) <=> \A i \in f.int.lower .. f.int.upper :
                  Q(t + i, f.right) \/ \E j \in Lefts(f.int, i, TRUE) : Q(t + j, f.left))
        BY SmtCases
      <4> HIDE DEF Q
      <4> QED
        BY <4>1, <4>2
    <3>3. /\ f.op = "U" => (H(t, f) <=> \E i \in f.int.lower .. f.int.upper :
                H(t + i, f.right) /\ \A j \in f.int.lower .. i - 1 : H(t + j, f.left))
          /\ f.op = "R" => (H(t, f) <=> \A i \in f.int.lower .. f.int.upper :
                H(t + i, f.right) \/ \E j \in f.int.lower .. i - 1 : H(t + j, f.left))
      BY HoldsCases
    <3>4. \A i \in f.int.lower .. f.int.upper : t + i \in Int /\ \A j \in f.int.lower .. i - 1 : t + j \in Int
      BY <2>5, FormulaShape DEF Times
    <3> HIDE DEF Q, H
    <3>5. \A i \in f.int.lower .. f.int.upper :
              /\ Q(t + i, f.right) <=> H(t + i, f.right)
              /\ (\A j \in f.int.lower .. i - 1 : Q(t + j, f.left)) <=> \A j \in f.int.lower .. i - 1 : H(t + j, f.left)
              /\ (\E j \in f.int.lower .. i - 1 : Q(t + j, f.left)) <=> \E j \in f.int.lower .. i - 1 : H(t + j, f.left)
      BY <2>1, <3>1, <3>4
    <3> QED
      BY <2>5, <3>2, <3>3, <3>5
  <2> QED
    BY <2>2, <2>3, <2>4, <2>5, FormulaShape
<1>2. Formula \subseteq S
  <2> HIDE DEF S
  <2> QED
    BY <1>1, FormulaInduction
<1> QED
  BY <1>2

----------------------------------------------------------------------------
(* The quantified formula of the FOL engine *)
\* What the quantified formula says only depends on what its operands say.
LEMMA FolOfOperands ==
    ASSUME NEW f \in Formula, NEW sig, NEW t, NEW m, NEW a, NEW b, \A g \in Operands(f) : a[g] = b[g]
    PROVE  FolOf(f, sig, t, m, a) = FolOf(f, sig, t, m, b)
<1>1. f.op \in {"and", "or"} => \A i \in DOMAIN f.args : a[f.args[i]] = b[f.args[i]]
  BY DEF Operands
<1>2. f.op \in {"not", "G", "F"} => a[f.phi] = b[f.phi]
  BY DEF Operands
<1>3. f.op \in {"U", "R", "imply"} => a[f.left] = b[f.left] /\ a[f.right] = b[f.right]
  BY DEF Operands
<1> QED
  BY <1>1, <1>2, <1>3 DEF FolOf

\* So it is defined at every formula and instant.
LEMMA FolEquation ==
    ASSUME NEW sig, NEW m
    PROVE  \A f \in Formula : \A t \in Int :
               Fol(sig, t, f, m) = FolOf(f, sig, t, m, FolTruth(sig, m))
<1> DEFINE V == [Int -> BOOLEAN]
           step == [p \in Formula \X [Formula -> V] |-> [t \in Int |-> FolOf(p[1], sig, t, m, p[2])]]
<1>1. V # {}
  <2>1. [t \in Int |-> TRUE] \in V
    OBVIOUS
  <2> QED
    BY <2>1
<1>2. \A f, a, t : FolOf(f, sig, t, m, a) \in BOOLEAN
  BY DEF FolOf
<1>3. step \in [Formula \X [Formula -> V] -> V]
  BY <1>2
<1>4. \A f \in Formula : \A a \in [Formula -> V] : step[<<f, a>>] = [t \in Int |-> FolOf(f, sig, t, m, a)]
  OBVIOUS
<1> HIDE DEF V, step
<1>5. DependsOnOperands(step, V)
  <2> SUFFICES ASSUME NEW f \in Formula, NEW a \in [Formula -> V], NEW b \in [Formula -> V],
                      \A g \in Operands(f) : a[g] = b[g]
               PROVE  step[<<f, a>>] = step[<<f, b>>]
    BY DEF DependsOnOperands
  <2>1. \A t \in Int : FolOf(f, sig, t, m, a) = FolOf(f, sig, t, m, b)
    BY FolOfOperands
  <2>2. [t \in Int |-> FolOf(f, sig, t, m, a)] = [t \in Int |-> FolOf(f, sig, t, m, b)]
    BY <2>1
  <2>3. step[<<f, a>>] = [t \in Int |-> FolOf(f, sig, t, m, a)]
    BY <1>4
  <2>4. step[<<f, b>>] = [t \in Int |-> FolOf(f, sig, t, m, b)]
    BY <1>4
  <2> QED
    BY <2>2, <2>3, <2>4
<1>6. PICK h \in [Formula -> V] : \A f \in Formula : h[f] = step[<<f, h>>]
  BY <1>1, <1>3, <1>5, RecursiveFunction
<1>7. h = [f \in Formula |-> [t \in Int |-> FolOf(f, sig, t, m, h)]]
  BY <1>4, <1>6
<1>8. \E truth : truth = [f \in Formula |-> [t \in Int |-> FolOf(f, sig, t, m, truth)]]
  BY <1>7, Zenon
<1>9. FolTruth(sig, m) = [f \in Formula |-> [t \in Int |-> FolOf(f, sig, t, m, FolTruth(sig, m))]]
  BY <1>8, Zenon DEF FolTruth
<1> DEFINE M(g, u) == FolOf(g, sig, u, m, FolTruth(sig, m))
           truth == FolTruth(sig, m)
<1>10. truth = [g \in Formula |-> [u \in Int |-> M(g, u)]]
  BY <1>9
<1> HIDE DEF M, truth
<1>11. \A g \in Formula : \A u \in Int : truth[g][u] = M(g, u)
  BY <1>10, Zenon
<1> QED
  BY <1>11, Zenon DEF Fol, M, truth

\* The instants at which operands are asked, of a formula asked at t
Reached(f, t) == IF IsTemporal(f) THEN t .. t + f.int.upper ELSE {t}

\* Operands asked there stay in the horizon of the formula.
LEMMA ReachedInHorizon ==
    ASSUME NEW f \in Formula, Proper(f), NEW t \in Nat, NEW i \in Reached(f, t), NEW g \in Scope(f)
    PROVE  i \in Nat /\ t <= i /\ i + Horizon[g] <= t + Horizon[f]
<1>1. Horizon[f] \in Nat /\ Horizon[g] \in Nat
  BY HorizonOfProper
<1>2. CASE IsTemporal(f)
  <2>1. f.int.upper \in Nat
    BY <1>2, ProperFacts DEF Interval
  <2>2. f.int.upper + Horizon[g] <= Horizon[f]
    BY <1>2, HorizonOfProper
  <2>3. i \in t .. t + f.int.upper
    BY <1>2 DEF Reached
  <2> QED
    BY <1>1, <2>1, <2>2, <2>3
<1>3. CASE ~IsTemporal(f)
  <2>1. f.op \in {"prop", "not", "and", "or", "imply"}
    BY <1>3, FormulaShape DEF IsTemporal
  <2>2. Horizon[g] <= Horizon[f] /\ i = t
    BY <1>3, <2>1, HorizonOfProper DEF Reached
  <2> QED
    BY <1>1, <2>2
<1> QED
  BY <1>2, <1>3

\* The quantifiers range over instants at which operands are asked.
LEMMA LeftInstantsReached ==
    ASSUME NEW f \in Formula, Proper(f), IsTemporal(f), NEW t \in Nat, NEW m \in BOOLEAN
    PROVE  /\ \A i \in t + f.int.lower .. t + f.int.upper : i \in Reached(f, t)
           /\ \A i \in t + f.int.lower .. t + f.int.upper :
                  \A j \in LeftInstants(t, f.int, i, m) : j \in Reached(f, t)
<1>1. f.int.lower \in Nat /\ f.int.upper \in Nat
  BY ProperFacts DEF Interval
<1>2. Reached(f, t) = t .. t + f.int.upper
  BY DEF Reached
<1> QED
  BY <1>1, <1>2 DEF LeftInstants

\* The quantified formula holds at the instants of a signal that covers it where the
\* unrolled formula does.
LEMMA FolAgrees ==
    ASSUME NEW N \in Nat, NEW sig, DOMAIN sig = 0 .. N, NEW m \in BOOLEAN
    PROVE  \A f \in Formula : Proper(f) => \A t \in Nat : t + Horizon[f] <= N =>
               (Smt(sig, t, f, m) <=> Fol(sig, t, f, m))
<1> DEFINE A(t, g) == Smt(sig, t, g, m)
           B(t, g) == Fol(sig, t, g, m)
           S == {f \in Formula : Proper(f) => \A t \in Nat : t + Horizon[f] <= N => (A(t, f) <=> B(t, f))}
<1>1. ASSUME NEW f \in Formula, Operands(f) \subseteq S PROVE f \in S
  <2> SUFFICES ASSUME Proper(f), NEW t \in Nat, t + Horizon[f] <= N PROVE A(t, f) <=> B(t, f)
    OBVIOUS
  <2>1. ASSUME NEW i \in Reached(f, t), NEW g \in Scope(f) PROVE A(i, g) <=> B(i, g)
    <3>1. i \in Nat /\ i + Horizon[g] <= t + Horizon[f]
      BY ReachedInHorizon
    <3>2. Horizon[f] \in Nat /\ Horizon[g] \in Nat
      BY HorizonOfProper
    <3>3. i + Horizon[g] <= N
      BY <3>1, <3>2
    <3>4. g \in S /\ Proper(g)
      BY <1>1, ScopeOperands, ProperFacts
    <3> HIDE DEF A, B
    <3> QED
      BY <3>1, <3>3, <3>4
  <2> HIDE DEF S
  <2>2. /\ f.op \in {"not", "G", "F"} => f.phi \in Scope(f)
        /\ f.op \in {"and", "or"} => \A i \in DOMAIN f.args : f.args[i] \in Scope(f)
        /\ f.op \in {"U", "R", "imply"} => f.left \in Scope(f) /\ f.right \in Scope(f)
    BY DEF Scope, Operands
  <2>3. A(t, f) <=> SmtOf(f, sig, t, m, SmtTruth(sig, m))
    BY SmtEquation
  <2>4. B(t, f) <=> FolOf(f, sig, t, m, FolTruth(sig, m))
    BY FolEquation
  <2>5. CASE f.op \in {"prop", "not", "and", "or", "imply"}
    <3>1. \A g \in Scope(f) : A(t, g) <=> B(t, g)
      BY <2>1, <2>5 DEF Reached, IsTemporal
    <3>5. t \in Int
      OBVIOUS
    <3>2. /\ f.op = "prop" => (A(t, f) <=> sig[t][f.e.var] \in f.e.holds)
          /\ f.op = "not" => (A(t, f) <=> ~A(t, f.phi))
          /\ f.op = "and" => (A(t, f) <=> \A i \in DOMAIN f.args : A(t, f.args[i]))
          /\ f.op = "or" => (A(t, f) <=> \E i \in DOMAIN f.args : A(t, f.args[i]))
          /\ f.op = "imply" => (A(t, f) <=> (A(t, f.left) => A(t, f.right)))
      BY <3>5, SmtCases
    <3>3. /\ f.op = "prop" => (B(t, f) <=> sig[t][f.e.var] \in f.e.holds)
          /\ f.op = "not" => (B(t, f) <=> ~B(t, f.phi))
          /\ f.op = "and" => (B(t, f) <=> \A i \in DOMAIN f.args : B(t, f.args[i]))
          /\ f.op = "or" => (B(t, f) <=> \E i \in DOMAIN f.args : B(t, f.args[i]))
          /\ f.op = "imply" => (B(t, f) <=> (B(t, f.left) => B(t, f.right)))
      BY <2>4, <2>5 DEF FolOf, Fol
    <3> HIDE DEF A, B
    <3>4. CASE f.op \in {"and", "or"}
      <4>1. \A i \in DOMAIN f.args : A(t, f.args[i]) <=> B(t, f.args[i])
        BY <2>2, <3>1, <3>4
      <4> QED
        BY <3>2, <3>3, <3>4, <4>1
    <3> QED
      BY <2>2, <2>5, <3>1, <3>2, <3>3, <3>4
  <2>6. CASE f.op \in {"G", "F", "U", "R"}
    <3> DEFINE a == t + f.int.lower
               b == t + f.int.upper
               L(i) == LeftInstants(t, f.int, i, m)
    <3>1. IsTemporal(f) /\ f.int.lower \in Nat /\ f.int.upper \in Nat
      BY <2>6, ProperFacts DEF IsTemporal, Interval
    <3>2. b <= N
      <4>1. Horizon[f] \in Nat /\ f.int.upper <= Horizon[f]
        BY <3>1, HorizonOfProper
      <4> QED
        BY <3>1, <4>1
    <3>3. \A i : (i \in DOMAIN sig /\ InRange(t, f.int, i)) <=> i \in a .. b
      BY <3>1, <3>2 DEF InRange
    <3>4. \A i \in a .. b : \A j : (j \in DOMAIN sig /\ LeftRange(t, f.int, i, j, m)) <=> j \in L(i)
      BY <3>1, <3>2 DEF LeftRange, LeftInstants
    <3>5. \A i \in a .. b : i \in Reached(f, t) /\ \A j \in L(i) : j \in Reached(f, t)
      BY <3>1, LeftInstantsReached
    <3>6. /\ f.op = "G" => (A(t, f) <=> \A i \in a .. b : A(i, f.phi))
          /\ f.op = "F" => (A(t, f) <=> \E i \in a .. b : A(i, f.phi))
          /\ f.op = "U" => (A(t, f) <=> \E i \in a .. b : A(i, f.right) /\ \A j \in L(i) : A(j, f.left))
          /\ f.op = "R" => (A(t, f) <=> \A i \in a .. b : A(i, f.right) \/ \E j \in L(i) : A(j, f.left))
      BY <2>3, <2>6 DEF SmtOf, Smt
    <3>7. /\ f.op = "G" => (B(t, f) <=> \A i \in DOMAIN sig : InRange(t, f.int, i) => B(i, f.phi))
          /\ f.op = "F" => (B(t, f) <=> \E i \in DOMAIN sig : InRange(t, f.int, i) /\ B(i, f.phi))
          /\ f.op = "U" => (B(t, f) <=> \E i \in DOMAIN sig : InRange(t, f.int, i) /\ B(i, f.right)
                                /\ \A j \in DOMAIN sig : LeftRange(t, f.int, i, j, m) => B(j, f.left))
          /\ f.op = "R" => (B(t, f) <=> \A i \in DOMAIN sig : InRange(t, f.int, i) =>
                                B(i, f.right) \/ \E j \in DOMAIN sig : LeftRange(t, f.int, i, j, m) /\ B(j, f.left))
      BY <2>4, <2>6 DEF FolOf, Fol
    <3> HIDE DEF A, B, a, b, L
    <3>8. CASE f.op = "G"
      <4>1. \A i \in a .. b : A(i, f.phi) <=> B(i, f.phi)
        BY <2>1, <2>2, <3>5, <3>8
      <4>2. B(t, f) <=> \A i \in a .. b : B(i, f.phi)
        BY <3>3, <3>7, <3>8
      <4> QED
        BY <3>6, <3>8, <4>1, <4>2
    <3>9. CASE f.op = "F"
      <4>1. \A i \in a .. b : A(i, f.phi) <=> B(i, f.phi)
        BY <2>1, <2>2, <3>5, <3>9
      <4>2. B(t, f) <=> \E i \in a .. b : B(i, f.phi)
        BY <3>3, <3>7, <3>9
      <4> QED
        BY <3>6, <3>9, <4>1, <4>2
    <3>10. CASE f.op \in {"U", "R"}
      <4>1. \A i \in a .. b : A(i, f.right) <=> B(i, f.right)
        BY <2>1, <2>2, <3>5, <3>10
      <4>2. \A i \in a .. b : \A j \in L(i) : A(j, f.left) <=> B(j, f.left)
        BY <2>1, <2>2, <3>5, <3>10
      <4>3. \A i \in a .. b : (\A j \in L(i) : A(j, f.left))
                <=> \A j \in DOMAIN sig : LeftRange(t, f.int, i, j, m) => B(j, f.left)
        BY <3>4, <4>2
      <4>4. \A i \in a .. b : (\E j \in L(i) : A(j, f.left))
                <=> \E j \in DOMAIN sig : LeftRange(t, f.int, i, j, m) /\ B(j, f.left)
        BY <3>4, <4>2
      <4>5. CASE f.op = "U"
        <5> DEFINE C(i) == \A j \in DOMAIN sig : LeftRange(t, f.int, i, j, m) => B(j, f.left)
        <5>1. \A i \in a .. b : (\A j \in L(i) : A(j, f.left)) <=> C(i)
          BY <4>3
        <5>2. B(t, f) <=> \E i \in DOMAIN sig : InRange(t, f.int, i) /\ B(i, f.right) /\ C(i)
          BY <3>7, <4>5
        <5> HIDE DEF C
        <5>3. B(t, f) <=> \E i \in a .. b : B(i, f.right) /\ C(i)
          BY <3>3, <5>2
        <5> QED
          BY <3>6, <4>1, <4>5, <5>1, <5>3
      <4>6. CASE f.op = "R"
        <5> DEFINE C(i) == \E j \in DOMAIN sig : LeftRange(t, f.int, i, j, m) /\ B(j, f.left)
        <5>1. \A i \in a .. b : (\E j \in L(i) : A(j, f.left)) <=> C(i)
          BY <4>4
        <5>2. B(t, f) <=> \A i \in DOMAIN sig : InRange(t, f.int, i) => B(i, f.right) \/ C(i)
          BY <3>7, <4>6
        <5> HIDE DEF C
        <5>3. B(t, f) <=> \A i \in a .. b : B(i, f.right) \/ C(i)
          BY <3>3, <5>2
        <5> QED
          BY <3>6, <4>1, <4>6, <5>1, <5>3
      <4> QED
        BY <3>10, <4>5, <4>6
    <3> QED
      BY <2>6, <3>8, <3>9, <3>10
  <2> QED
    BY <2>5, <2>6, FormulaShape
<1>2. Formula \subseteq S
  <2> HIDE DEF S
  <2> QED
    BY <1>1, FormulaInduction
<1> QED
  BY <1>2

----------------------------------------------------------------------------
(* What the unrolling looks up *)
\* The lookups of a formula only depend on those of its operands.
LEMMA LookupsOfOperands ==
    ASSUME NEW f \in Formula, NEW t, NEW m, NEW a, NEW b, \A g \in Operands(f) : a[g] = b[g]
    PROVE  LookupsOf(f, t, m, a) = LookupsOf(f, t, m, b)
<1>1. CASE f.op = "prop"
  BY <1>1 DEF LookupsOf
<1>2. CASE f.op \in {"G", "F"}
  <2>1. a[f.phi] = b[f.phi]
    BY <1>2 DEF Operands
  <2> QED
    BY <1>2, <2>1 DEF LookupsOf
<1>3. CASE f.op \in {"U", "R"}
  <2>1. a[f.left] = b[f.left] /\ a[f.right] = b[f.right]
    BY <1>3 DEF Operands
  <2> QED
    BY <1>3, <2>1 DEF LookupsOf
<1>4. CASE f.op \in {"not", "and", "or", "imply"}
  <2>1. \A g \in Scope(f) : a[g] = b[g]
    BY ScopeOperands
  <2>2. {a[g][t] : g \in Scope(f)} = {b[g][t] : g \in Scope(f)}
    BY <2>1
  <2>3. /\ LookupsOf(f, t, m, a) = UNION {a[g][t] : g \in Scope(f)}
        /\ LookupsOf(f, t, m, b) = UNION {b[g][t] : g \in Scope(f)}
    BY <1>4 DEF LookupsOf, Scope
  <2> QED
    BY <2>2, <2>3
<1> QED
  BY <1>1, <1>2, <1>3, <1>4, FormulaShape

\* The lookups of a formula over results that lie in bounds
LooksWithin(f, t, m, a, B) ==
    /\ t \in B
    /\ ~IsTemporal(f) => \A g \in Scope(f) : a[g][t] \subseteq B
    /\ IsTemporal(f) =>
         \A g \in Scope(f) : \A i \in t + f.int.lower .. t + f.int.upper :
             a[g][i] \subseteq B /\ \A j \in LeftInstants(t, f.int, i, m) : a[g][j] \subseteq B

\* They lie in the bounds of its operands.
LEMMA LookupsWithin ==
    ASSUME NEW f \in Formula, NEW t \in Int, NEW m \in BOOLEAN, NEW a, NEW B,
           LooksWithin(f, t, m, a, B)
    PROVE  LookupsOf(f, t, m, a) \subseteq B
<1> USE DEF LooksWithin
<1>1. CASE f.op = "prop"
  BY <1>1 DEF LookupsOf
<1>2. CASE f.op \in {"G", "F"}
  <2>1. f.phi \in Scope(f) /\ IsTemporal(f)
    BY <1>2 DEF Scope, Operands, IsTemporal
  <2>2. LookupsOf(f, t, m, a) = UNION {a[f.phi][i] : i \in t + f.int.lower .. t + f.int.upper}
    BY <1>2 DEF LookupsOf
  <2> QED
    BY <2>1, <2>2
<1>3. CASE f.op \in {"U", "R"}
  <2>1. f.left \in Scope(f) /\ f.right \in Scope(f) /\ IsTemporal(f)
    BY <1>3 DEF Scope, Operands, IsTemporal
  <2> DEFINE D == t + f.int.lower .. t + f.int.upper
             L(i) == UNION {a[f.left][j] : j \in LeftInstants(t, f.int, i, m)}
  <2>2. LookupsOf(f, t, m, a) = UNION {a[f.right][i] \cup L(i) : i \in D}
    BY <1>3 DEF LookupsOf
  <2>3. \A i \in D : a[f.right][i] \subseteq B /\ L(i) \subseteq B
    BY <2>1
  <2> HIDE DEF L, D
  <2> QED
    BY <2>2, <2>3
<1>4. CASE f.op \in {"not", "and", "or", "imply"}
  <2>1. LookupsOf(f, t, m, a) = UNION {a[g][t] : g \in Scope(f)}
    BY <1>4 DEF LookupsOf, Scope
  <2>2. ~IsTemporal(f)
    BY <1>4 DEF IsTemporal
  <2> QED
    BY <2>1, <2>2
<1> QED
  BY <1>1, <1>2, <1>3, <1>4, FormulaShape

\* Lookups is defined at every formula and instant.
LEMMA LookupsEquation ==
    ASSUME NEW m \in BOOLEAN
    PROVE  \A f \in Formula : \A t \in Int :
               Lookups(t, f, m) = LookupsOf(f, t, m, LookupsFrom(m))
<1> DEFINE V == [Int -> SUBSET Int]
           step == [p \in Formula \X [Formula -> V] |-> [t \in Int |-> LookupsOf(p[1], t, m, p[2])]]
<1>1. V # {}
  <2>1. [t \in Int |-> {}] \in V
    OBVIOUS
  <2> QED
    BY <2>1
<1>2. ASSUME NEW f \in Formula, NEW a \in [Formula -> V], NEW t \in Int
      PROVE  LookupsOf(f, t, m, a) \in SUBSET Int
  <2>1. \A g \in Formula : \A i \in Int : a[g][i] \subseteq Int
    OBVIOUS
  <2>2. Scope(f) \subseteq Formula
    BY ScopeOperands
  <2>3. IsTemporal(f) => f.int.lower \in Int /\ f.int.upper \in Int
    BY FormulaShape DEF Times, IsTemporal
  <2>4. \A i \in Int : IsTemporal(f) => \A j \in LeftInstants(t, f.int, i, m) : j \in Int
    BY <2>3 DEF LeftInstants
  <2>5. IsTemporal(f) => \A i \in t + f.int.lower .. t + f.int.upper : i \in Int
    BY <2>3
  <2> DEFINE B == Int
  <2>6. t \in B /\ \A g \in Formula : \A i \in Int : a[g][i] \subseteq B
    BY <2>1
  <2> HIDE DEF B, V
  <2>8. LooksWithin(f, t, m, a, B)
    BY <2>2, <2>4, <2>5, <2>6 DEF LooksWithin
  <2>7. LookupsOf(f, t, m, a) \subseteq B
    BY <2>8, LookupsWithin
  <2> QED
    BY <2>7 DEF B
<1>3. step \in [Formula \X [Formula -> V] -> V]
  <2>1. ASSUME NEW p \in Formula \X [Formula -> V]
        PROVE  [t \in Int |-> LookupsOf(p[1], t, m, p[2])] \in V
    <3>1. p[1] \in Formula /\ p[2] \in [Formula -> V]
      OBVIOUS
    <3>2. \A t \in Int : LookupsOf(p[1], t, m, p[2]) \in SUBSET Int
      <4> HIDE DEF V
      <4> QED
        BY <1>2, <3>1
    <3> QED
      BY <3>2
  <2> QED
    BY <2>1
<1>4. \A f \in Formula : \A a \in [Formula -> V] : step[<<f, a>>] = [t \in Int |-> LookupsOf(f, t, m, a)]
  OBVIOUS
<1> HIDE DEF V, step
<1>5. DependsOnOperands(step, V)
  <2> SUFFICES ASSUME NEW f \in Formula, NEW a \in [Formula -> V], NEW b \in [Formula -> V],
                      \A g \in Operands(f) : a[g] = b[g]
               PROVE  step[<<f, a>>] = step[<<f, b>>]
    BY DEF DependsOnOperands
  <2>1. \A t \in Int : LookupsOf(f, t, m, a) = LookupsOf(f, t, m, b)
    BY LookupsOfOperands
  <2>2. [t \in Int |-> LookupsOf(f, t, m, a)] = [t \in Int |-> LookupsOf(f, t, m, b)]
    BY <2>1
  <2>3. step[<<f, a>>] = [t \in Int |-> LookupsOf(f, t, m, a)]
    BY <1>4
  <2>4. step[<<f, b>>] = [t \in Int |-> LookupsOf(f, t, m, b)]
    BY <1>4
  <2> QED
    BY <2>2, <2>3, <2>4
<1>6. PICK h \in [Formula -> V] : \A f \in Formula : h[f] = step[<<f, h>>]
  BY <1>1, <1>3, <1>5, RecursiveFunction
<1>7. h = [f \in Formula |-> [t \in Int |-> LookupsOf(f, t, m, h)]]
  BY <1>4, <1>6
<1>8. \E lookups : lookups = [f \in Formula |-> [t \in Int |-> LookupsOf(f, t, m, lookups)]]
  BY <1>7, Zenon
<1>9. LookupsFrom(m) = [f \in Formula |-> [t \in Int |-> LookupsOf(f, t, m, LookupsFrom(m))]]
  BY <1>8, Zenon DEF LookupsFrom
<1> DEFINE M(g, u) == LookupsOf(g, u, m, LookupsFrom(m))
           looked == LookupsFrom(m)
<1>10. looked = [g \in Formula |-> [u \in Int |-> M(g, u)]]
  BY <1>9
<1> HIDE DEF M, looked
<1>11. \A g \in Formula : \A u \in Int : looked[g][u] = M(g, u)
  BY <1>10, Zenon
<1> QED
  BY <1>11, Zenon DEF Lookups, M, looked

\* A formula asked at t looks up nothing after its horizon.
LEMMA LookupsInHorizon ==
    ASSUME NEW m \in BOOLEAN
    PROVE  \A f \in Formula : Proper(f) => \A t \in Nat : Lookups(t, f, m) \subseteq t .. t + Horizon[f]
<1> DEFINE S == {f \in Formula : Proper(f) => \A t \in Nat : Lookups(t, f, m) \subseteq t .. t + Horizon[f]}
<1>1. ASSUME NEW f \in Formula, Operands(f) \subseteq S PROVE f \in S
  <2> SUFFICES ASSUME Proper(f), NEW t \in Nat PROVE Lookups(t, f, m) \subseteq t .. t + Horizon[f]
    OBVIOUS
  <2> DEFINE B == t .. t + Horizon[f]
  <2>1. ASSUME NEW i \in Reached(f, t), NEW g \in Scope(f) PROVE Lookups(i, g, m) \subseteq B
    <3>1. i \in Nat /\ t <= i /\ i + Horizon[g] <= t + Horizon[f]
      BY ReachedInHorizon
    <3>2. Horizon[f] \in Nat /\ Horizon[g] \in Nat
      BY HorizonOfProper
    <3>3. Lookups(i, g, m) \subseteq i .. i + Horizon[g]
      BY <1>1, <3>1, ScopeOperands, ProperFacts
    <3>4. i .. i + Horizon[g] \subseteq B
      BY <3>1, <3>2
    <3> QED
      BY <3>3, <3>4
  <2>2. t \in B
    BY HorizonOfProper
  <2> HIDE DEF S, B
  <2>3. \A i \in Reached(f, t) : \A g \in Scope(f) : LookupsFrom(m)[g][i] \subseteq B
    BY <2>1 DEF Lookups
  <2> DEFINE a == LookupsFrom(m)
  <2>4. LooksWithin(f, t, m, a, B)
    <3>1. CASE IsTemporal(f)
      BY <2>2, <2>3, <3>1, LeftInstantsReached DEF LooksWithin
    <3>2. CASE ~IsTemporal(f)
      BY <2>2, <2>3, <3>2 DEF LooksWithin, Reached
    <3> QED
      BY <3>1, <3>2
  <2>5. t \in Int
    OBVIOUS
  <2> HIDE DEF a
  <2>6. LookupsOf(f, t, m, a) \subseteq B
    BY <2>4, <2>5, LookupsWithin
  <2> QED
    BY <2>5, <2>6, LookupsEquation DEF B, a
<1>2. Formula \subseteq S
  <2> HIDE DEF S
  <2> QED
    BY <1>1, FormulaInduction
<1> QED
  BY <1>2

----------------------------------------------------------------------------
(* The transformers are defined along the levels of formulas. *)

\* x makes formulas of a level of formulas of that level.
StaysInLevels(x) ==
    /\ \A f \in Formula : x[f] \in Formula
    /\ \A f \in Propositions : x[f] \in Propositions
    /\ \A n \in Nat : n <= Nesting => \A f \in FormulaUpTo[n] : x[f] \in FormulaUpTo[n]

\* A transformer stays in the levels if it does one step of a level up.
LEMMA LevelInduction ==
    ASSUME NEW x, \A f \in Propositions : x[f] \in Propositions,
           \A n \in Nat : n + 1 <= Nesting /\ (\A g \in FormulaUpTo[n] : x[g] \in FormulaUpTo[n]) =>
               \A f \in Compound(FormulaUpTo[n]) : x[f] \in FormulaUpTo[n + 1]
    PROVE  StaysInLevels(x)
<1> DEFINE T == {n \in Nat : n <= Nesting => \A f \in FormulaUpTo[n] : x[f] \in FormulaUpTo[n]}
<1>1. 0 \in T
  BY LevelEquations
<1>2. ASSUME NEW n \in Nat, n \in T PROVE n + 1 \in T
  <2>1. n + 1 \in Nat /\ (n + 1 <= Nesting => n <= Nesting)
    BY NestingAssumption
  <2> SUFFICES ASSUME n + 1 <= Nesting, NEW f \in FormulaUpTo[n + 1] PROVE x[f] \in FormulaUpTo[n + 1]
    BY <2>1
  <2>2. \A g \in FormulaUpTo[n] : x[g] \in FormulaUpTo[n]
    BY <1>2, <2>1
  <2>3. FormulaUpTo[n + 1] = Propositions \cup Compound(FormulaUpTo[n])
    BY LevelEquations
  <2> QED
    BY <2>2, <2>3
<1>3. Nat \subseteq T
  <2> HIDE DEF T
  <2> QED
    BY <1>1, <1>2, NatSetInduction
<1>4. \A f \in Formula : x[f] \in Formula
  BY <1>3, NestingAssumption DEF Formula
<1> QED
  BY <1>3, <1>4 DEF StaysInLevels

\* The levels of formulas, one in the next
LEMMA LevelFacts ==
    ASSUME NEW n \in Nat, n + 1 <= Nesting
    PROVE  /\ n <= Nesting
           /\ FormulaUpTo[n] \subseteq Formula
           /\ FormulaUpTo[n + 1] \subseteq Formula
           /\ Propositions \subseteq FormulaUpTo[n]
           /\ FormulaUpTo[n + 1] = Propositions \cup Compound(FormulaUpTo[n])
           /\ FormulaUpTo[n] \subseteq FormulaUpTo[n + 1]
<1>1. n <= Nesting /\ n + 1 \in Nat
  BY NestingAssumption
<1>2. FormulaUpTo[n] \subseteq Formula
  BY <1>1, LevelsInFormula
<1> DEFINE k == n + 1
<1>3. k \in Nat /\ k <= Nesting
  BY <1>1
<1> HIDE DEF k
<1>4. FormulaUpTo[k] \subseteq Formula
  BY <1>3, LevelsInFormula
<1>5. Propositions \subseteq FormulaUpTo[n]
  <2>1. CASE n = 0
    BY <2>1, LevelEquations
  <2>2. CASE n # 0
    <3> DEFINE j == n - 1
    <3>1. j \in Nat /\ j + 1 = n
      BY <2>2
    <3> HIDE DEF j
    <3> QED
      BY <3>1, LevelEquations
  <2> QED
    BY <2>1, <2>2
<1> QED
  BY <1>1, <1>2, <1>4, <1>5, LevelEquations, LevelsGrow DEF k

\* Another id leaves a proposition one.
LEMMA OtherId ==
    ASSUME NEW f \in Propositions, NEW i \in Int
    PROVE  [f EXCEPT !.e.id = i] \in Propositions
<1>1. f = [op |-> "prop", e |-> f.e] /\ f.e \in Expr
  BY PropositionShape
<1>2. [f.e EXCEPT !.id = i] \in Expr
  BY <1>1 DEF Expr
<1>3. [f EXCEPT !.e.id = i] = [op |-> "prop", e |-> [f.e EXCEPT !.id = i]]
  BY <1>1
<1> QED
  BY <1>2, <1>3 DEF Propositions

\* DupeFormula is defined at every formula and does not nest deeper.
LEMMA DupeEquation ==
    /\ \A f \in Formula : Dupe[f] = DupeOf(f, Dupe)
    /\ StaysInLevels(Dupe)
<1> DEFINE step == [p \in Formula \X [Formula -> Formula] |-> DupeOf(p[1], p[2])]
<1>1. ASSUME NEW f \in Propositions, NEW a, NEW b
      PROVE  DupeOf(f, a) = DupeOf(f, b) /\ DupeOf(f, a) \in Propositions
  <2>1. f.op = "prop" /\ f.e.id + DupeOffset \in Int
    BY PropositionShape DEF Expr, DupeOffset
  <2>2. [f EXCEPT !.e.id = f.e.id + DupeOffset] \in Propositions
    BY <2>1, OtherId
  <2> QED
    BY <2>1, <2>2 DEF DupeOf
<1>2. ASSUME NEW n \in Nat, n + 1 <= Nesting, NEW f \in Compound(FormulaUpTo[n]), NEW a, NEW b,
             \A g \in FormulaUpTo[n] : a[g] = b[g] /\ a[g] \in FormulaUpTo[n]
      PROVE  DupeOf(f, a) = DupeOf(f, b) /\ DupeOf(f, a) \in FormulaUpTo[n + 1]
  <2>1. f.op # "prop" /\ Operands(f) \subseteq FormulaUpTo[n] /\ f \in Formula
    BY <1>2, PropositionShape, CompoundOperands, LevelFacts
  <2>2. Visited(f, a) = Visited(f, b)
    BY <1>2, <2>1, VisitedSame
  <2>3. Visited(f, a) \in Compound(FormulaUpTo[n])
    BY <1>2, <2>1, VisitedShape
  <2> QED
    BY <1>2, <2>1, <2>2, <2>3, LevelFacts DEF DupeOf
<1>3. \A f \in Formula : \A a \in [Formula -> Formula] : step[<<f, a>>] = DupeOf(f, a)
  OBVIOUS
<1> HIDE DEF step
<1>4. PreservesLevels(step)
  <2>1. \A n \in Nat : n + 1 <= Nesting => Compound(FormulaUpTo[n]) \subseteq Formula
    BY LevelFacts
  <2> QED
    BY <1>1, <1>2, <1>3, <2>1, PropositionsInFormula DEF PreservesLevels
<1>5. PICK h \in [Formula -> Formula] : \A f \in Formula : h[f] = step[<<f, h>>]
  BY <1>4, LevelMap
<1>6. h = [f \in Formula |-> DupeOf(f, h)]
  BY <1>3, <1>5
<1>7. \E x : x = [f \in Formula |-> DupeOf(f, x)]
  BY <1>6, Zenon
<1>8. Dupe = [f \in Formula |-> DupeOf(f, Dupe)]
  BY <1>7, Zenon DEF Dupe
<1> DEFINE x == Dupe
<1>9. x = [f \in Formula |-> DupeOf(f, x)]
  BY <1>8
<1> HIDE DEF x
<1>10. \A f \in Formula : x[f] = DupeOf(f, x)
  BY <1>9
<1>11. StaysInLevels(x)
  <2>1. \A f \in Propositions : x[f] \in Propositions
    BY <1>1, <1>10, PropositionsInFormula
  <2>2. ASSUME NEW n \in Nat, n + 1 <= Nesting, \A g \in FormulaUpTo[n] : x[g] \in FormulaUpTo[n],
               NEW f \in Compound(FormulaUpTo[n])
        PROVE  x[f] \in FormulaUpTo[n + 1]
    BY <1>2, <1>10, <2>2, LevelFacts
  <2> QED
    BY <2>1, <2>2, LevelInduction
<1> QED
  BY <1>10, <1>11 DEF x

\* So is the formula without ids.
LEMMA AnonymousEquation ==
    /\ \A f \in Formula : Anonymous[f] = AnonymousOf(f, Anonymous)
    /\ StaysInLevels(Anonymous)
<1> DEFINE step == [p \in Formula \X [Formula -> Formula] |-> AnonymousOf(p[1], p[2])]
<1>1. ASSUME NEW f \in Propositions, NEW a, NEW b
      PROVE  AnonymousOf(f, a) = AnonymousOf(f, b) /\ AnonymousOf(f, a) \in Propositions
  <2>1. f.op = "prop"
    BY PropositionShape
  <2>2. [f EXCEPT !.e.id = 0] \in Propositions
    BY OtherId
  <2> QED
    BY <2>1, <2>2 DEF AnonymousOf
<1>2. ASSUME NEW n \in Nat, n + 1 <= Nesting, NEW f \in Compound(FormulaUpTo[n]), NEW a, NEW b,
             \A g \in FormulaUpTo[n] : a[g] = b[g] /\ a[g] \in FormulaUpTo[n]
      PROVE  AnonymousOf(f, a) = AnonymousOf(f, b) /\ AnonymousOf(f, a) \in FormulaUpTo[n + 1]
  <2>1. f.op # "prop" /\ Operands(f) \subseteq FormulaUpTo[n] /\ f \in Formula
    BY <1>2, PropositionShape, CompoundOperands, LevelFacts
  <2>2. Visited(f, a) = Visited(f, b)
    BY <1>2, <2>1, VisitedSame
  <2>3. Visited(f, a) \in Compound(FormulaUpTo[n])
    BY <1>2, <2>1, VisitedShape
  <2> QED
    BY <1>2, <2>1, <2>2, <2>3, LevelFacts DEF AnonymousOf
<1>3. \A f \in Formula : \A a \in [Formula -> Formula] : step[<<f, a>>] = AnonymousOf(f, a)
  OBVIOUS
<1> HIDE DEF step
<1>4. PreservesLevels(step)
  <2>1. \A n \in Nat : n + 1 <= Nesting => Compound(FormulaUpTo[n]) \subseteq Formula
    BY LevelFacts
  <2> QED
    BY <1>1, <1>2, <1>3, <2>1, PropositionsInFormula DEF PreservesLevels
<1>5. PICK h \in [Formula -> Formula] : \A f \in Formula : h[f] = step[<<f, h>>]
  BY <1>4, LevelMap
<1>6. h = [f \in Formula |-> AnonymousOf(f, h)]
  BY <1>3, <1>5
<1>7. \E x : x = [f \in Formula |-> AnonymousOf(f, x)]
  BY <1>6, Zenon
<1>8. Anonymous = [f \in Formula |-> AnonymousOf(f, Anonymous)]
  BY <1>7, Zenon DEF Anonymous
<1> DEFINE x == Anonymous
<1>9. x = [f \in Formula |-> AnonymousOf(f, x)]
  BY <1>8
<1> HIDE DEF x
<1>10. \A f \in Formula : x[f] = AnonymousOf(f, x)
  BY <1>9
<1>11. StaysInLevels(x)
  <2>1. \A f \in Propositions : x[f] \in Propositions
    BY <1>1, <1>10, PropositionsInFormula
  <2>2. ASSUME NEW n \in Nat, n + 1 <= Nesting, \A g \in FormulaUpTo[n] : x[g] \in FormulaUpTo[n],
               NEW f \in Compound(FormulaUpTo[n])
        PROVE  x[f] \in FormulaUpTo[n + 1]
    BY <1>2, <1>10, <2>2, LevelFacts
  <2> QED
    BY <2>1, <2>2, LevelInduction
<1> QED
  BY <1>10, <1>11 DEF x

\* The dual operator over the same operands
LEMMA DualShape ==
    ASSUME NEW S, NEW f \in Compound(S), f.op \in {"and", "or", "G", "F", "U", "R"}
    PROVE  /\ Dual(f) \in Compound(S) /\ Dual(f).op = DualOf(f.op)
           /\ f.op \in {"and", "or"} => Dual(f).args = f.args
           /\ f.op \in {"G", "F"} => Dual(f).phi = f.phi
           /\ f.op \in {"U", "R"} => Dual(f).left = f.left /\ Dual(f).right = f.right
           /\ IsTemporal(f) => Dual(f).int = f.int
           /\ Operands(Dual(f)) = Operands(f)
<1> DEFINE k == Dual(f)
<1>1. CASE f.op \in {"and", "or"}
  <2>1. f = [op |-> f.op, args |-> f.args] /\ f.args \in Seq(S)
    BY <1>1, CompoundShape
  <2>2. DualOf(f.op) \in {"and", "or"}
    BY <1>1 DEF DualOf
  <2>3. k = [op |-> DualOf(f.op), args |-> f.args]
    BY <2>1 DEF Dual
  <2> HIDE DEF k
  <2>4. k \in Compound(S)
    BY <2>1, <2>2, <2>3, Built
  <2> QED
    BY <1>1, <2>2, <2>3, <2>4 DEF IsTemporal, Operands, k
<1>2. CASE f.op \in {"G", "F"}
  <2>1. f = [op |-> f.op, int |-> f.int, phi |-> f.phi] /\ f.int \in Times /\ f.phi \in S
    BY <1>2, CompoundShape
  <2>2. DualOf(f.op) \in {"G", "F"}
    BY <1>2 DEF DualOf
  <2>3. k = Over(DualOf(f.op), f.int, f.phi)
    BY <2>1 DEF Dual, Over
  <2> HIDE DEF k
  <2>4. k \in Compound(S)
    BY <2>1, <2>2, <2>3, Built
  <2>5. k.op = DualOf(f.op) /\ k.int = f.int /\ k.phi = f.phi
    BY <2>3 DEF Over
  <2> QED
    BY <1>2, <2>2, <2>4, <2>5 DEF IsTemporal, Operands, k
<1>3. CASE f.op \in {"U", "R"}
  <2>1. /\ f = [op |-> f.op, int |-> f.int, left |-> f.left, right |-> f.right]
        /\ f.int \in Times /\ f.left \in S /\ f.right \in S
    BY <1>3, CompoundShape
  <2>2. DualOf(f.op) \in {"U", "R"}
    BY <1>3 DEF DualOf
  <2>3. k = [op |-> DualOf(f.op), int |-> f.int, left |-> f.left, right |-> f.right]
    BY <2>1 DEF Dual
  <2> HIDE DEF k
  <2>4. k \in Compound(S)
    BY <2>1, <2>2, <2>3, Built
  <2>5. k.op = DualOf(f.op) /\ k.int = f.int /\ k.left = f.left /\ k.right = f.right
    BY <2>3
  <2> QED
    BY <1>3, <2>2, <2>4, <2>5 DEF IsTemporal, Operands, k
<1> QED
  BY <1>1, <1>2, <1>3

\* What the negation of a formula becomes
LEMMA NnfCases ==
    ASSUME NEW f \in Formula, NEW x
    PROVE  /\ f.op # "not" => NnfOf(f, x) = Visited(f, x)
           /\ f.op = "not" =>
                /\ f.phi.op = "not" => NnfOf(f, x) = x[f.phi.phi]
                /\ f.phi.op = "prop" => NnfOf(f, x) = f
                /\ f.phi.op = "imply" => NnfOf(f, x) = And(<< f.phi.left, x[Not(f.phi.right)] >>)
                /\ f.phi.op \in {"and", "or", "G", "F", "U", "R"} =>
                     NnfOf(f, x) = Visited(Dual(f.phi), [g \in Operands(f.phi) |-> x[Not(g)]])
BY DEF NnfOf

\* The negation normal form is defined at every formula and does not nest deeper.
LEMMA NnfEquation ==
    /\ \A f \in Formula : Nnf[f] = NnfOf(f, Nnf)
    /\ StaysInLevels(Nnf)
<1> DEFINE step == [p \in Formula \X [Formula -> Formula] |-> NnfOf(p[1], p[2])]
<1>1. ASSUME NEW f \in Propositions, NEW a, NEW b
      PROVE  NnfOf(f, a) = NnfOf(f, b) /\ NnfOf(f, a) \in Propositions
  <2>1. f.op = "prop" /\ f \in Formula
    BY PropositionShape, PropositionsInFormula
  <2> QED
    BY <2>1 DEF NnfOf, Visited
<1>2. ASSUME NEW n \in Nat, n + 1 <= Nesting, NEW f \in Compound(FormulaUpTo[n]), NEW a, NEW b,
             \A g \in FormulaUpTo[n] : a[g] = b[g] /\ a[g] \in FormulaUpTo[n]
      PROVE  NnfOf(f, a) = NnfOf(f, b) /\ NnfOf(f, a) \in FormulaUpTo[n + 1]
  <2> DEFINE S == FormulaUpTo[n]
             k == n + 1
  <2>1. /\ S \subseteq Formula /\ FormulaUpTo[k] = Propositions \cup Compound(S)
        /\ S \subseteq FormulaUpTo[k] /\ f \in Formula
    BY <1>2, LevelFacts
  <2>2. f.op # "prop" /\ Operands(f) \subseteq S
    BY PropositionShape, CompoundOperands
  <2>3. \A g \in S : a[g] = b[g] /\ a[g] \in S
    BY <1>2
  <2>4. n \in Nat
    OBVIOUS
  <2>5. \A g \in S : g \notin Propositions => \E Q : g \in Compound(Q) /\ Q \subseteq S /\ Compound(Q) \subseteq S
    BY LevelBelow
  <2> HIDE DEF k
  <2>6. NnfOf(f, a) = NnfOf(f, b) /\ NnfOf(f, a) \in FormulaUpTo[k]
    <3> HIDE DEF S
    <3>1. CASE f.op # "not"
      <4>1. Visited(f, a) = Visited(f, b)
        BY <2>1, <2>2, <2>3, VisitedSame
      <4>2. Visited(f, a) \in Compound(S)
        BY <2>2, <2>3, VisitedShape DEF S
      <4> QED
        BY <2>1, <3>1, <4>1, <4>2, NnfCases
    <3>2. CASE f.op = "not"
      <4>1. f.phi \in S
        BY <2>2, <3>2 DEF Operands
      <4> DEFINE p == f.phi
      <4>2. p \in S /\ p \in Formula
        BY <2>1, <4>1
      <4>3. CASE p \in Propositions
        <5>1. p.op = "prop"
          BY <4>3, PropositionShape
        <5> QED
          BY <2>1, <3>2, <5>1, NnfCases DEF S
      <4>4. CASE p \notin Propositions
        <5>1. PICK Q : p \in Compound(Q) /\ Q \subseteq S /\ Compound(Q) \subseteq S
          BY <2>5, <4>2, <4>4
        <5>2. Operands(p) \subseteq Q
          BY <5>1, CompoundOperands
        <5>3. \A g \in Q : Not(g) \in S
          BY <5>1, Built
        <5> HIDE DEF p
        <5>4. CASE p.op = "not"
          <6>1. p.phi \in S
            BY <5>1, <5>2, <5>4 DEF Operands
          <6> QED
            BY <2>1, <2>3, <3>2, <5>4, <6>1, NnfCases DEF p
        <5>5. CASE p.op = "imply"
          <6>1. p.left \in Q /\ p.right \in Q
            BY <5>2, <5>5 DEF Operands
          <6> DEFINE q == a[Not(p.right)]
          <6>2. q \in S /\ q = b[Not(p.right)] /\ p.left \in S
            BY <2>3, <5>1, <5>3, <6>1
          <6> HIDE DEF q
          <6>3. << p.left, q >> \in Seq(S)
            BY <6>2
          <6>4. And(<< p.left, q >>) \in Compound(S)
            BY <6>3, Built DEF And
          <6>6. /\ NnfOf(f, a) = And(<< p.left, a[Not(p.right)] >>)
                /\ NnfOf(f, b) = And(<< p.left, b[Not(p.right)] >>)
            BY <3>2, <5>5 DEF NnfOf, p
          <6>5. NnfOf(f, a) = And(<< p.left, q >>) /\ NnfOf(f, b) = And(<< p.left, q >>)
            BY <6>2, <6>6 DEF q
          <6> QED
            BY <2>1, <6>4, <6>5
        <5>6. CASE p.op \in {"and", "or", "G", "F", "U", "R"}
          <6> DEFINE of(y) == [g \in Operands(p) |-> y[Not(g)]]
                     d == Dual(p)
          <6>1. d \in Compound(Q) /\ Operands(d) = Operands(p)
            BY <5>1, <5>6, DualShape
          <6>2. \A g \in Operands(p) : a[Not(g)] = b[Not(g)] /\ a[Not(g)] \in S
            BY <2>3, <5>2, <5>3
          <6>3. of(a) = of(b) /\ \A g \in Operands(p) : of(a)[g] \in S
            BY <6>2
          <6>4. NnfOf(f, a) = Visited(d, of(a)) /\ NnfOf(f, b) = Visited(d, of(b))
            BY <2>1, <3>2, <5>6, NnfCases DEF p
          <6> HIDE DEF of, d
          <6>5. d \in Formula /\ d.op # "prop"
            BY <2>1, <5>1, <6>1, PropositionShape
          <6>6. Visited(d, of(a)) \in Compound(S)
            BY <6>1, <6>3, <6>5, VisitedShape
          <6> QED
            BY <2>1, <6>3, <6>4, <6>6
        <5>7. p.op \in {"not", "and", "or", "imply", "G", "F", "U", "R"}
          BY <5>1, CompoundShape
        <5> QED
          BY <5>4, <5>5, <5>6, <5>7
      <4> QED
        BY <4>3, <4>4
    <3> QED
      BY <3>1, <3>2
  <2> QED
    BY <2>6 DEF k
<1>3. \A f \in Formula : \A a \in [Formula -> Formula] : step[<<f, a>>] = NnfOf(f, a)
  OBVIOUS
<1> HIDE DEF step
<1>4. PreservesLevels(step)
  <2>1. \A n \in Nat : n + 1 <= Nesting => Compound(FormulaUpTo[n]) \subseteq Formula
    BY LevelFacts
  <2> QED
    BY <1>1, <1>2, <1>3, <2>1, PropositionsInFormula DEF PreservesLevels
<1>5. PICK h \in [Formula -> Formula] : \A f \in Formula : h[f] = step[<<f, h>>]
  BY <1>4, LevelMap
<1>6. h = [f \in Formula |-> NnfOf(f, h)]
  BY <1>3, <1>5
<1>7. \E x : x = [f \in Formula |-> NnfOf(f, x)]
  BY <1>6, Zenon
<1>8. Nnf = [f \in Formula |-> NnfOf(f, Nnf)]
  BY <1>7, Zenon DEF Nnf
<1> DEFINE x == Nnf
<1>9. x = [f \in Formula |-> NnfOf(f, x)]
  BY <1>8
<1> HIDE DEF x
<1>10. \A f \in Formula : x[f] = NnfOf(f, x)
  BY <1>9
<1>11. StaysInLevels(x)
  <2>1. \A f \in Propositions : x[f] \in Propositions
    BY <1>1, <1>10, PropositionsInFormula
  <2>2. ASSUME NEW n \in Nat, n + 1 <= Nesting, \A g \in FormulaUpTo[n] : x[g] \in FormulaUpTo[n],
               NEW f \in Compound(FormulaUpTo[n])
        PROVE  x[f] \in FormulaUpTo[n + 1]
    BY <1>2, <1>10, <2>2, LevelFacts
  <2> QED
    BY <2>1, <2>2, LevelInduction
<1> QED
  BY <1>10, <1>11 DEF x

----------------------------------------------------------------------------
(* Sequences of formulas that are spliced or thinned out *)
\* The elements of a list into which junctions of one operator are spliced
LEMMA SplicedElements ==
    ASSUME NEW S, NEW op, NEW fs \in Seq(S), \A g \in S : g.op = op => g.args \in Seq(S)
    PROVE  /\ Spliced(op, fs) \in Seq(S)
           /\ ToSet(Spliced(op, fs)) =
                  UNION {IF g.op = op THEN ToSet(g.args) ELSE {g} : g \in ToSet(fs)}
<1> DEFINE seqs == [i \in DOMAIN fs |-> IF fs[i].op = op THEN fs[i].args ELSE << fs[i] >>]
           E(g) == IF g.op = op THEN ToSet(g.args) ELSE {g}
<1>1. \A i \in DOMAIN fs : fs[i] \in S
  OBVIOUS
<1>2. \A g \in S : << g >> \in Seq(S) /\ ToSet(<< g >>) = {g}
  BY DEF ToSet
<1>3. \A i \in DOMAIN fs : seqs[i] \in Seq(S) /\ ToSet(seqs[i]) = E(fs[i])
  BY <1>1, <1>2
<1>4. DOMAIN seqs = DOMAIN fs
  OBVIOUS
<1>5. seqs \in Seq(Seq(S))
  <2>1. \A i \in DOMAIN fs : seqs[i] \in Seq(S)
    BY <1>3
  <2>2. DOMAIN fs = 1 .. Len(fs) /\ Len(fs) \in Nat
    OBVIOUS
  <2> QED
    BY <2>1, <2>2
<1>6. Spliced(op, fs) = FlattenSeq(seqs)
  BY DEF Spliced
<1> HIDE DEF seqs, E
<1>7. FlattenSeq(seqs) \in Seq(S) /\ ToSet(FlattenSeq(seqs)) = UNION {ToSet(seqs[i]) : i \in DOMAIN seqs}
  BY <1>5, FlattenElements
<1>8. UNION {ToSet(seqs[i]) : i \in DOMAIN seqs} = UNION {E(g) : g \in ToSet(fs)}
  <2>1. \A i \in DOMAIN seqs : ToSet(seqs[i]) = E(fs[i])
    BY <1>3, <1>4
  <2>2. ToSet(fs) = {fs[i] : i \in DOMAIN seqs}
    BY <1>4 DEF ToSet
  <2> QED
    BY <2>1, <2>2
<1> QED
  BY <1>6, <1>7, <1>8 DEF E

\* The elements of a list that is thinned out
LEMMA ThoseElements ==
    ASSUME NEW S, NEW fs \in Seq(S), NEW places
    PROVE  /\ Those(fs, places) \in Seq(S)
           /\ ToSet(Those(fs, places)) = {fs[i] : i \in DOMAIN fs \cap places}
<1> DEFINE seqs == [i \in DOMAIN fs |-> IF i \in places THEN << fs[i] >> ELSE <<>>]
<1>1. \A i \in DOMAIN fs : fs[i] \in S
  OBVIOUS
<1>2. \A g \in S : << g >> \in Seq(S) /\ ToSet(<< g >>) = {g}
  BY DEF ToSet
<1>3. <<>> \in Seq(S) /\ ToSet(<<>>) = {}
  BY DEF ToSet
<1>4. \A i \in DOMAIN fs : seqs[i] \in Seq(S) /\ ToSet(seqs[i]) = IF i \in places THEN {fs[i]} ELSE {}
  BY <1>1, <1>2, <1>3
<1>5. DOMAIN seqs = DOMAIN fs
  OBVIOUS
<1>6. seqs \in Seq(Seq(S))
  <2>1. \A i \in DOMAIN fs : seqs[i] \in Seq(S)
    BY <1>4
  <2>2. DOMAIN fs = 1 .. Len(fs) /\ Len(fs) \in Nat
    OBVIOUS
  <2> QED
    BY <2>1, <2>2
<1>7. Those(fs, places) = FlattenSeq(seqs)
  BY DEF Those
<1> HIDE DEF seqs
<1>8. FlattenSeq(seqs) \in Seq(S) /\ ToSet(FlattenSeq(seqs)) = UNION {ToSet(seqs[i]) : i \in DOMAIN seqs}
  BY <1>6, FlattenElements
<1>9. UNION {ToSet(seqs[i]) : i \in DOMAIN seqs} = {fs[i] : i \in DOMAIN fs \cap places}
  BY <1>4, <1>5
<1> QED
  BY <1>7, <1>8, <1>9

\* What a junction of a level joins is of that level.
LEMMA LevelArgs ==
    ASSUME NEW n \in Nat
    PROVE  \A g \in FormulaUpTo[n] : g.op \in {"and", "or"} => g.args \in Seq(FormulaUpTo[n])
<1> DEFINE S == FormulaUpTo[n]
<1>1. \A g \in S : g \notin Propositions => \E Q : g \in Compound(Q) /\ Q \subseteq S /\ Compound(Q) \subseteq S
  BY LevelBelow
<1> HIDE DEF S
<1> SUFFICES ASSUME NEW g \in S, g.op \in {"and", "or"} PROVE g.args \in Seq(S)
  BY DEF S
<1>2. g \notin Propositions
  BY PropositionShape
<1>3. PICK Q : g \in Compound(Q) /\ Q \subseteq S
  BY <1>1, <1>2
<1>4. g.args \in Seq(Q)
  BY <1>3, CompoundShape
<1> QED
  BY <1>3, <1>4

\* A junction with other operands
LEMMA WithArgs ==
    ASSUME NEW S, NEW T, NEW f \in Compound(S), f.op \in {"and", "or"}, NEW fs \in Seq(T)
    PROVE  [f EXCEPT !.args = fs] = [op |-> f.op, args |-> fs] /\ [f EXCEPT !.args = fs] \in Compound(T)
<1>1. f = [op |-> f.op, args |-> f.args]
  BY CompoundShape
<1>2. [f EXCEPT !.args = fs] = [op |-> f.op, args |-> fs]
  BY <1>1
<1> QED
  BY <1>2, Built

\* An operator with another interval
LEMMA WithInt ==
    ASSUME NEW S, NEW f \in Compound(S), IsTemporal(f), NEW int \in Times
    PROVE  LET k == [f EXCEPT !.int = int]
           IN  /\ k \in Compound(S) /\ k.op = f.op /\ k.int = int
               /\ f.op \in {"G", "F"} => k.phi = f.phi
               /\ f.op \in {"U", "R"} => k.left = f.left /\ k.right = f.right
<1> DEFINE k == [f EXCEPT !.int = int]
<1>1. CASE f.op \in {"G", "F"}
  <2>1. f = [op |-> f.op, int |-> f.int, phi |-> f.phi] /\ f.phi \in S
    BY <1>1, CompoundShape
  <2>2. k = Over(f.op, int, f.phi)
    BY <2>1 DEF Over
  <2> HIDE DEF k
  <2>3. k \in Compound(S)
    BY <1>1, <2>1, <2>2, Built
  <2>4. k.op = f.op /\ k.int = int /\ k.phi = f.phi
    BY <2>2 DEF Over
  <2> QED
    BY <1>1, <2>3, <2>4 DEF k
<1>2. CASE f.op \in {"U", "R"}
  <2>1. /\ f = [op |-> f.op, int |-> f.int, left |-> f.left, right |-> f.right]
        /\ f.left \in S /\ f.right \in S
    BY <1>2, CompoundShape
  <2>2. k = [op |-> f.op, int |-> int, left |-> f.left, right |-> f.right]
    BY <2>1
  <2> HIDE DEF k
  <2>3. k \in Compound(S)
    BY <1>2, <2>1, <2>2, Built
  <2>4. k.op = f.op /\ k.int = int /\ k.left = f.left /\ k.right = f.right
    BY <2>2
  <2> QED
    BY <1>2, <2>3, <2>4 DEF k
<1> QED
  BY <1>1, <1>2 DEF IsTemporal

\* A shifted interval has integer bounds, or none above.
LEMMA ShiftedTimes ==
    ASSUME NEW int \in Times, NEW s \in Int
    PROVE  ShiftLeft(int, s) \in Times /\ ShiftRight(int, s) \in Times
BY DEF ShiftLeft, ShiftRight, Span, Times, Greater

\* Flattening is defined at every formula and does not nest deeper.
LEMMA FlatEquation ==
    /\ \A f \in Formula : Flat[f] = FlatOf(f, Flat)
    /\ StaysInLevels(Flat)
<1> DEFINE step == [p \in Formula \X [Formula -> Formula] |-> FlatOf(p[1], p[2])]
<1>1. ASSUME NEW f \in Propositions, NEW a, NEW b
      PROVE  FlatOf(f, a) = FlatOf(f, b) /\ FlatOf(f, a) \in Propositions
  <2>1. f.op = "prop"
    BY PropositionShape
  <2> QED
    BY <2>1 DEF FlatOf, FlatJunction, Visited
<1>2. ASSUME NEW n \in Nat, n + 1 <= Nesting, NEW f \in Compound(FormulaUpTo[n]), NEW a, NEW b,
             \A g \in FormulaUpTo[n] : a[g] = b[g] /\ a[g] \in FormulaUpTo[n]
      PROVE  FlatOf(f, a) = FlatOf(f, b) /\ FlatOf(f, a) \in FormulaUpTo[n + 1]
  <2>1. f.op # "prop" /\ Operands(f) \subseteq FormulaUpTo[n] /\ f \in Formula
    BY <1>2, PropositionShape, CompoundOperands, LevelFacts
  <2>2. Visited(f, a) = Visited(f, b)
    BY <1>2, <2>1, VisitedSame
  <2>3. Visited(f, a) \in Compound(FormulaUpTo[n])
    BY <1>2, <2>1, VisitedShape
  <2> DEFINE k == Visited(f, a)
             S == FormulaUpTo[n]
  <2>4. FlatOf(f, a) \in Compound(S)
    <3>1. CASE k.op \in {"and", "or"}
      <4>1. k.args \in Seq(S) /\ \A g \in S : g.op = k.op => g.args \in Seq(S)
        BY <2>3, <3>1, CompoundShape, LevelArgs
      <4> HIDE DEF k, S
      <4>2. Spliced(k.op, k.args) \in Seq(S)
        BY <4>1, SplicedElements
      <4>3. [k EXCEPT !.args = Spliced(k.op, k.args)] \in Compound(S)
        BY <2>3, <3>1, <4>2, WithArgs DEF k, S
      <4> QED
        BY <3>1, <4>3 DEF FlatOf, FlatJunction, k
    <3>2. CASE k.op \notin {"and", "or"}
      BY <2>3, <3>2 DEF FlatOf, FlatJunction
    <3> QED
      BY <3>1, <3>2
  <2> QED
    BY <1>2, <2>2, <2>4, LevelFacts DEF FlatOf
<1>3. \A f \in Formula : \A a \in [Formula -> Formula] : step[<<f, a>>] = FlatOf(f, a)
  OBVIOUS
<1> HIDE DEF step
<1>4. PreservesLevels(step)
  <2>1. \A n \in Nat : n + 1 <= Nesting => Compound(FormulaUpTo[n]) \subseteq Formula
    BY LevelFacts
  <2> QED
    BY <1>1, <1>2, <1>3, <2>1, PropositionsInFormula DEF PreservesLevels
<1>5. PICK h \in [Formula -> Formula] : \A f \in Formula : h[f] = step[<<f, h>>]
  BY <1>4, LevelMap
<1>6. h = [f \in Formula |-> FlatOf(f, h)]
  BY <1>3, <1>5
<1>7. \E x : x = [f \in Formula |-> FlatOf(f, x)]
  BY <1>6, Zenon
<1>8. Flat = [f \in Formula |-> FlatOf(f, Flat)]
  BY <1>7, Zenon DEF Flat
<1> DEFINE x == Flat
<1>9. x = [f \in Formula |-> FlatOf(f, x)]
  BY <1>8
<1> HIDE DEF x
<1>10. \A f \in Formula : x[f] = FlatOf(f, x)
  BY <1>9
<1>11. StaysInLevels(x)
  <2>1. \A f \in Propositions : x[f] \in Propositions
    BY <1>1, <1>10, PropositionsInFormula
  <2>2. ASSUME NEW n \in Nat, n + 1 <= Nesting, \A g \in FormulaUpTo[n] : x[g] \in FormulaUpTo[n],
               NEW f \in Compound(FormulaUpTo[n])
        PROVE  x[f] \in FormulaUpTo[n + 1]
    <3>1. FlatOf(f, x) \in FormulaUpTo[n + 1]
      BY <1>2, <2>2
    <3> QED
      BY <1>10, <2>2, <3>1, LevelFacts
  <2> QED
    BY <2>1, <2>2, LevelInduction
<1> QED
  BY <1>10, <1>11 DEF x

\* So is the shift to an earlier instant.
LEMMA ShiftBackwardEquation ==
    ASSUME NEW s \in Int
    PROVE  /\ \A f \in Formula : ShiftBackward(s)[f] = ShiftBackwardOf(f, s, ShiftBackward(s))
           /\ StaysInLevels(ShiftBackward(s))
<1> DEFINE step == [p \in Formula \X [Formula -> Formula] |-> ShiftBackwardOf(p[1], s, p[2])]
<1>1. ASSUME NEW f \in Propositions, NEW a, NEW b
      PROVE  ShiftBackwardOf(f, s, a) = ShiftBackwardOf(f, s, b) /\ ShiftBackwardOf(f, s, a) \in Propositions
  <2>1. f.op = "prop"
    BY PropositionShape
  <2> QED
    BY <2>1 DEF ShiftBackwardOf, Visited, IsTemporal
<1>2. ASSUME NEW n \in Nat, n + 1 <= Nesting, NEW f \in Compound(FormulaUpTo[n]), NEW a, NEW b,
             \A g \in FormulaUpTo[n] : a[g] = b[g] /\ a[g] \in FormulaUpTo[n]
      PROVE  ShiftBackwardOf(f, s, a) = ShiftBackwardOf(f, s, b) /\ ShiftBackwardOf(f, s, a) \in FormulaUpTo[n + 1]
  <2>1. f.op # "prop" /\ Operands(f) \subseteq FormulaUpTo[n] /\ f \in Formula
    BY <1>2, PropositionShape, CompoundOperands, LevelFacts
  <2>2. Visited(f, a) = Visited(f, b)
    BY <1>2, <2>1, VisitedSame
  <2>3. Visited(f, a) \in Compound(FormulaUpTo[n])
    BY <1>2, <2>1, VisitedShape
  <2>4. CASE IsTemporal(f)
    <3>1. f.int \in Times
      BY <2>4, CompoundShape DEF IsTemporal
    <3>2. [f EXCEPT !.int = ShiftLeft(f.int, s)] \in Compound(FormulaUpTo[n])
      BY <2>4, <3>1, ShiftedTimes, WithInt
    <3> QED
      BY <1>2, <2>4, <3>2, LevelFacts DEF ShiftBackwardOf
  <2>5. CASE ~IsTemporal(f)
    BY <1>2, <2>2, <2>3, <2>5, LevelFacts DEF ShiftBackwardOf
  <2> QED
    BY <2>4, <2>5
<1>3. \A f \in Formula : \A a \in [Formula -> Formula] : step[<<f, a>>] = ShiftBackwardOf(f, s, a)
  OBVIOUS
<1> HIDE DEF step
<1>4. PreservesLevels(step)
  <2>1. \A n \in Nat : n + 1 <= Nesting => Compound(FormulaUpTo[n]) \subseteq Formula
    BY LevelFacts
  <2> QED
    BY <1>1, <1>2, <1>3, <2>1, PropositionsInFormula DEF PreservesLevels
<1>5. PICK h \in [Formula -> Formula] : \A f \in Formula : h[f] = step[<<f, h>>]
  BY <1>4, LevelMap
<1>6. h = [f \in Formula |-> ShiftBackwardOf(f, s, h)]
  BY <1>3, <1>5
<1>7. \E x : x = [f \in Formula |-> ShiftBackwardOf(f, s, x)]
  BY <1>6, Zenon
<1>8. ShiftBackward(s) = [f \in Formula |-> ShiftBackwardOf(f, s, ShiftBackward(s))]
  BY <1>7, Zenon DEF ShiftBackward
<1> DEFINE x == ShiftBackward(s)
<1>9. x = [f \in Formula |-> ShiftBackwardOf(f, s, x)]
  BY <1>8
<1> HIDE DEF x
<1>10. \A f \in Formula : x[f] = ShiftBackwardOf(f, s, x)
  BY <1>9
<1>11. StaysInLevels(x)
  <2>1. \A f \in Propositions : x[f] \in Propositions
    BY <1>1, <1>10, PropositionsInFormula
  <2>2. ASSUME NEW n \in Nat, n + 1 <= Nesting, \A g \in FormulaUpTo[n] : x[g] \in FormulaUpTo[n],
               NEW f \in Compound(FormulaUpTo[n])
        PROVE  x[f] \in FormulaUpTo[n + 1]
    BY <1>2, <1>10, <2>2, LevelFacts
  <2> QED
    BY <2>1, <2>2, LevelInduction
<1> QED
  BY <1>10, <1>11 DEF x

----------------------------------------------------------------------------
(* Least elements *)
\* The least element of a set
LEMMA MinFact ==
    ASSUME NEW S \in SUBSET Int, IsFiniteSet(S), S # {}
    PROVE  Min(S) \in S /\ \A k \in S : Min(S) <= k
<1> DEFINE h == [k \in Int |-> 0 - k]
           T == {h[k] : k \in S}
<1>1. IsFiniteSet(T)
  BY ImageFinite
<1>2. T \in SUBSET Int /\ T # {}
  <2>1. \A k \in S : h[k] \in Int
    OBVIOUS
  <2> HIDE DEF h
  <2> QED
    BY <2>1
<1>3. PICK m \in T : \A k \in T : m >= k
  <2> HIDE DEF T
  <2> QED
    BY <1>1, <1>2, LargestElement
<1>4. PICK s \in S : m = 0 - s
  BY <1>3
<1>5. \A k \in S : s <= k
  <2> SUFFICES ASSUME NEW k \in S PROVE s <= k
    OBVIOUS
  <2>1. 0 - k \in T
    OBVIOUS
  <2> HIDE DEF T, h
  <2>2. 0 - s >= 0 - k
    BY <1>3, <1>4, <2>1
  <2> QED
    BY <1>4, <2>2
<1>6. \E x \in S : \A k \in S : x <= k
  BY <1>5
<1> QED
  BY <1>6, Zenon DEF Min

\* The least of the values of a function at the operands of a formula
LEMMA LeastOfOperands ==
    ASSUME NEW f \in Formula, Operands(f) # {}, NEW h, \A g \in Operands(f) : h[g] \in Int
    PROVE  LET m == Least({h[g] : g \in Operands(f)})
           IN  m \in Int /\ (\A g \in Operands(f) : m <= h[g]) /\ \E g \in Operands(f) : m = h[g]
<1> DEFINE S == {h[g] : g \in Operands(f)}
<1>1. IsFiniteSet(S)
  BY OperandsFinite, ImageFinite
<1>2. S \in SUBSET Int /\ S # {}
  OBVIOUS
<1> HIDE DEF S
<1>3. Min(S) \in S /\ \A k \in S : Min(S) <= k
  BY <1>1, <1>2, MinFact
<1> QED
  BY <1>2, <1>3 DEF S, Least

----------------------------------------------------------------------------
(* What is defined over the operands *)
\* GetShift is defined at every formula.
LEMMA GetShiftEquation ==
    /\ GetShift \in [Formula -> Int]
    /\ \A f \in Formula : GetShift[f] = GetShiftOf(f, GetShift)
<1> DEFINE V == Int
           W(f, h) == GetShiftOf(f, h)
           step == [p \in Formula \X [Formula -> V] |-> W(p[1], p[2])]
<1>1. V # {}
  OBVIOUS
<1>2. ASSUME NEW f \in Formula, NEW h, \A g \in Operands(f) : h[g] \in V
      PROVE  W(f, h) \in V
  <2>1. CASE f.op \in {"and", "or", "imply"} /\ Operands(f) # {}
    BY <1>2, <2>1, LeastOfOperands DEF GetShiftOf
  <2>2. CASE IsTemporal(f)
    <3>1. f.int \in Times
      BY <2>2, FormulaShape DEF IsTemporal
    <3> QED
      BY <2>2, <3>1 DEF GetShiftOf, IsTemporal, Times
  <2>3. CASE ~(f.op \in {"and", "or", "imply"} /\ Operands(f) # {}) /\ ~IsTemporal(f)
    BY <2>3 DEF GetShiftOf, NoShift
  <2> QED
    BY <2>1, <2>2, <2>3
<1>3. step \in [Formula \X [Formula -> V] -> V]
  <2>1. ASSUME NEW f \in Formula, NEW h \in [Formula -> V] PROVE W(f, h) \in V
    <3>1. \A g \in Operands(f) : h[g] \in V
      BY OperandsInFormula
    <3> HIDE DEF W, V
    <3> QED
      BY <1>2, <3>1
  <2> HIDE DEF W, V
  <2> QED
    BY <2>1
<1>4. \A f \in Formula : \A a \in [Formula -> V] : step[<<f, a>>] = W(f, a)
  <2> HIDE DEF W, V
  <2> QED
    OBVIOUS
<1>5. ASSUME NEW f \in Formula, NEW a, NEW b, \A g \in Operands(f) : a[g] = b[g]
      PROVE  W(f, a) = W(f, b)
  <2>1. {a[g] : g \in Operands(f)} = {b[g] : g \in Operands(f)}
    BY <1>5
  <2> QED
    BY <2>1 DEF GetShiftOf
<1> HIDE DEF V, W, step
<1>6. DependsOnOperands(step, V)
  BY <1>4, <1>5 DEF DependsOnOperands
<1>7. PICK h \in [Formula -> V] : \A f \in Formula : h[f] = step[<<f, h>>]
  BY <1>1, <1>3, <1>6, RecursiveFunction
<1>8. h = [f \in Formula |-> W(f, h)]
  BY <1>4, <1>7
<1>9. \E w : w = [f \in Formula |-> W(f, w)]
  BY <1>8, Zenon
<1>10. GetShift = [f \in Formula |-> W(f, GetShift)]
  BY <1>9, Zenon DEF GetShift, W
<1> DEFINE x == GetShift
<1>11. x = [f \in Formula |-> W(f, x)]
  BY <1>10
<1> HIDE DEF x
<1>12. \A f \in Formula : x[f] = W(f, x)
  BY <1>11
<1> DEFINE S == {f \in Formula : x[f] \in V}
<1>13. Formula \subseteq S
  <2>1. ASSUME NEW f \in Formula, Operands(f) \subseteq S PROVE f \in S
    BY <1>2, <1>12, <2>1
  <2> HIDE DEF S
  <2> QED
    BY <2>1, FormulaInduction
<1>14. x \in [Formula -> V]
  BY <1>11, <1>13
<1> QED
  BY <1>12, <1>14 DEF V, W, x

\* Whether a formula is parsed is a matter of its interval and its operands.
LEMMA ParsedEquation ==
    /\ Parsed \in [Formula -> BOOLEAN]
    /\ \A f \in Formula : Parsed[f] = ((IsTemporal(f) => f.int \in Interval)
               /\ (f.op \in {"and", "or"} => f.args # <<>>)
               /\ (f.op = "imply" => f = Implication(f.left, f.right))
               /\ \A g \in IF f.op = "imply" THEN {f.left, f.right} ELSE Operands(f) : Parsed[g])
<1> DEFINE V == BOOLEAN
           W(f, h) == ((IsTemporal(f) => f.int \in Interval)
               /\ (f.op \in {"and", "or"} => f.args # <<>>)
               /\ (f.op = "imply" => f = Implication(f.left, f.right))
               /\ \A g \in IF f.op = "imply" THEN {f.left, f.right} ELSE Operands(f) : h[g])
           step == [p \in Formula \X [Formula -> V] |-> W(p[1], p[2])]
<1>1. V # {}
  OBVIOUS
<1>2. ASSUME NEW f \in Formula, NEW h, \A g \in Operands(f) : h[g] \in V
      PROVE  W(f, h) \in V
  OBVIOUS
<1>3. step \in [Formula \X [Formula -> V] -> V]
  <2>1. ASSUME NEW f \in Formula, NEW h \in [Formula -> V] PROVE W(f, h) \in V
    <3>1. \A g \in Operands(f) : h[g] \in V
      BY OperandsInFormula
    <3> HIDE DEF W, V
    <3> QED
      BY <1>2, <3>1
  <2> HIDE DEF W, V
  <2> QED
    BY <2>1
<1>4. \A f \in Formula : \A a \in [Formula -> V] : step[<<f, a>>] = W(f, a)
  <2> HIDE DEF W, V
  <2> QED
    OBVIOUS
<1>5. ASSUME NEW f \in Formula, NEW a, NEW b, \A g \in Operands(f) : a[g] = b[g]
      PROVE  W(f, a) = W(f, b)
  <2>1. f.op = "imply" => f.left \in Operands(f) /\ f.right \in Operands(f)
    BY DEF Operands
  <2> QED
    BY <1>5, <2>1
<1> HIDE DEF V, W, step
<1>6. DependsOnOperands(step, V)
  BY <1>4, <1>5 DEF DependsOnOperands
<1>7. PICK h \in [Formula -> V] : \A f \in Formula : h[f] = step[<<f, h>>]
  BY <1>1, <1>3, <1>6, RecursiveFunction
<1>8. h = [f \in Formula |-> W(f, h)]
  BY <1>4, <1>7
<1>9. \E w : w = [f \in Formula |-> W(f, w)]
  BY <1>8, Zenon
<1>10. Parsed = [f \in Formula |-> W(f, Parsed)]
  BY <1>9, Zenon DEF Parsed, W
<1> DEFINE x == Parsed
<1>11. x = [f \in Formula |-> W(f, x)]
  BY <1>10
<1> HIDE DEF x
<1>12. \A f \in Formula : x[f] = W(f, x)
  BY <1>11
<1> DEFINE S == {f \in Formula : x[f] \in V}
<1>13. Formula \subseteq S
  <2>1. ASSUME NEW f \in Formula, Operands(f) \subseteq S PROVE f \in S
    BY <1>2, <1>12, <2>1
  <2> HIDE DEF S
  <2> QED
    BY <2>1, FormulaInduction
<1>14. x \in [Formula -> V]
  BY <1>11, <1>13
<1> QED
  BY <1>12, <1>14 DEF V, W, x

\* Unvisited is defined at every formula.
LEMMA UnvisitedEquation ==
    /\ Unvisited \in [Formula -> [BOOLEAN -> SUBSET Formula]]
    /\ \A f \in Formula : Unvisited[f] = [negated \in BOOLEAN |-> UnvisitedOf(f, negated, Unvisited)]
<1> DEFINE V == [BOOLEAN -> SUBSET Formula]
           W(f, h) == [negated \in BOOLEAN |-> UnvisitedOf(f, negated, h)]
           step == [p \in Formula \X [Formula -> V] |-> W(p[1], p[2])]
<1>1. V # {}
  <2>1. [b \in BOOLEAN |-> {}] \in V
    OBVIOUS
  <2> QED
    BY <2>1
<1>2. ASSUME NEW f \in Formula, NEW h, \A g \in Operands(f) : h[g] \in V
      PROVE  W(f, h) \in V
  <2> SUFFICES ASSUME NEW negated \in BOOLEAN PROVE UnvisitedOf(f, negated, h) \in SUBSET Formula
    OBVIOUS
  <2>1. \A g \in Operands(f) : \A b \in BOOLEAN : h[g][b] \in SUBSET Formula
    BY <1>2
  <2>2. (~negated) \in BOOLEAN /\ TRUE \in BOOLEAN
    OBVIOUS
  <2> HIDE DEF V
  <2>3. CASE f.op = "not"
    <3>1. f.phi \in Operands(f)
      BY <2>3 DEF Operands
    <3> QED
      BY <2>1, <2>2, <2>3, <3>1 DEF UnvisitedOf
  <2>4. CASE f.op = "imply" /\ negated
    <3>1. f.right \in Operands(f) /\ f.left \in Operands(f)
      BY <2>4 DEF Operands
    <3>2. f.left \in Formula
      BY <3>1, OperandsInFormula
    <3> QED
      BY <2>1, <2>2, <2>4, <3>1, <3>2 DEF UnvisitedOf
  <2>5. CASE f.op # "not" /\ ~(f.op = "imply" /\ negated)
    <3>1. UnvisitedOf(f, negated, h) = UNION {h[g][negated] : g \in Operands(f)}
      BY <2>5 DEF UnvisitedOf
    <3> QED
      BY <2>1, <3>1
  <2> QED
    BY <2>3, <2>4, <2>5
<1>3. step \in [Formula \X [Formula -> V] -> V]
  <2>1. ASSUME NEW f \in Formula, NEW h \in [Formula -> V] PROVE W(f, h) \in V
    <3>1. \A g \in Operands(f) : h[g] \in V
      BY OperandsInFormula
    <3> HIDE DEF W, V
    <3> QED
      BY <1>2, <3>1
  <2> HIDE DEF W, V
  <2> QED
    BY <2>1
<1>4. \A f \in Formula : \A a \in [Formula -> V] : step[<<f, a>>] = W(f, a)
  <2> HIDE DEF W, V
  <2> QED
    OBVIOUS
<1>5. ASSUME NEW f \in Formula, NEW a, NEW b, \A g \in Operands(f) : a[g] = b[g]
      PROVE  W(f, a) = W(f, b)
  <2> SUFFICES ASSUME NEW negated \in BOOLEAN
               PROVE  UnvisitedOf(f, negated, a) = UnvisitedOf(f, negated, b)
    OBVIOUS
  <2>1. f.op = "not" => f.phi \in Operands(f)
    BY DEF Operands
  <2>2. f.op = "imply" => f.right \in Operands(f)
    BY DEF Operands
  <2>3. {a[g][negated] : g \in Operands(f)} = {b[g][negated] : g \in Operands(f)}
    BY <1>5
  <2> QED
    BY <1>5, <2>1, <2>2, <2>3 DEF UnvisitedOf
<1> HIDE DEF V, W, step
<1>6. DependsOnOperands(step, V)
  BY <1>4, <1>5 DEF DependsOnOperands
<1>7. PICK h \in [Formula -> V] : \A f \in Formula : h[f] = step[<<f, h>>]
  BY <1>1, <1>3, <1>6, RecursiveFunction
<1>8. h = [f \in Formula |-> W(f, h)]
  BY <1>4, <1>7
<1>9. \E w : w = [f \in Formula |-> W(f, w)]
  BY <1>8, Zenon
<1>10. Unvisited = [f \in Formula |-> W(f, Unvisited)]
  BY <1>9, Zenon DEF Unvisited, W
<1> DEFINE x == Unvisited
<1>11. x = [f \in Formula |-> W(f, x)]
  BY <1>10
<1> HIDE DEF x
<1>12. \A f \in Formula : x[f] = W(f, x)
  BY <1>11
<1> DEFINE S == {f \in Formula : x[f] \in V}
<1>13. Formula \subseteq S
  <2>1. ASSUME NEW f \in Formula, Operands(f) \subseteq S PROVE f \in S
    BY <1>2, <1>12, <2>1
  <2> HIDE DEF S
  <2> QED
    BY <2>1, FormulaInduction
<1>14. x \in [Formula -> V]
  BY <1>11, <1>13
<1> QED
  BY <1>12, <1>14 DEF V, W, x

\* What GetShift is
LEMMA GetShiftFacts ==
    ASSUME NEW f \in Formula
    PROVE  /\ GetShift[f] \in Int
           /\ IsTemporal(f) => GetShift[f] = f.int.lower
           /\ f.op \in {"prop", "not"} => GetShift[f] = NoShift
           /\ f.op \in {"and", "or", "imply"} =>
                IF Operands(f) = {} THEN GetShift[f] = NoShift
                ELSE \A g \in Operands(f) : GetShift[f] <= GetShift[g]
<1>1. GetShift[f] \in Int /\ GetShift[f] = GetShiftOf(f, GetShift)
  BY GetShiftEquation
<1>2. \A g \in Operands(f) : GetShift[g] \in Int
  BY OperandsInFormula, GetShiftEquation
<1>3. IsTemporal(f) => GetShift[f] = f.int.lower
  BY <1>1 DEF GetShiftOf, IsTemporal
<1>4. f.op \in {"prop", "not"} => GetShift[f] = NoShift
  BY <1>1 DEF GetShiftOf, IsTemporal
<1>5. ASSUME f.op \in {"and", "or", "imply"}
      PROVE  IF Operands(f) = {} THEN GetShift[f] = NoShift
             ELSE \A g \in Operands(f) : GetShift[f] <= GetShift[g]
  <2>1. CASE Operands(f) = {}
    BY <1>1, <1>5, <2>1 DEF GetShiftOf, IsTemporal
  <2>2. CASE Operands(f) # {}
    <3>1. GetShift[f] = Least({GetShift[g] : g \in Operands(f)})
      BY <1>1, <1>5, <2>2 DEF GetShiftOf
    <3> QED
      BY <1>2, <2>2, <3>1, LeastOfOperands
  <2> QED
    BY <2>1, <2>2
<1> QED
  BY <1>1, <1>3, <1>4, <1>5

\* The shift that is taken out is at most the shift of each operand.
LEMMA CommonShiftFacts ==
    ASSUME NEW f \in Formula, IsTemporal(f)
    PROVE  CommonShift(f) \in Int /\ \A g \in Operands(f) : CommonShift(f) <= GetShift[g]
<1>1. Operands(f) # {}
  BY DEF IsTemporal, Operands
<1>2. \A g \in Operands(f) : GetShift[g] \in Int
  BY OperandsInFormula, GetShiftEquation
<1> QED
  BY <1>1, <1>2, LeastOfOperands DEF CommonShift

----------------------------------------------------------------------------
(* Induction along the levels, and along the visits of Nnf *)
\* Induction with the formulas of a level for hypothesis
LEMMA LevelwiseInduction ==
    ASSUME NEW P, Propositions \subseteq P,
           \A n \in Nat : n + 1 <= Nesting /\ FormulaUpTo[n] \subseteq P
               => Compound(FormulaUpTo[n]) \subseteq P
    PROVE  Formula \subseteq P
<1> DEFINE T == {n \in Nat : n <= Nesting => FormulaUpTo[n] \subseteq P}
<1>1. 0 \in T
  BY LevelEquations
<1>2. ASSUME NEW n \in Nat, n \in T PROVE n + 1 \in T
  <2> SUFFICES ASSUME n + 1 <= Nesting PROVE FormulaUpTo[n + 1] \subseteq P
    OBVIOUS
  <2>1. n <= Nesting
    BY NestingAssumption
  <2> QED
    BY <1>2, <2>1, LevelEquations
<1>3. Nat \subseteq T
  <2> HIDE DEF T
  <2> QED
    BY <1>1, <1>2, NatSetInduction
<1> QED
  BY <1>3, NestingAssumption DEF Formula

\* The formulas that NegativeNormalForm goes on to: none is an operand, if f is a negation.
NnfVisits(f) ==
    IF f.op # "not" THEN Operands(f)
    ELSE IF f.phi.op = "not" THEN {f.phi.phi}
    ELSE IF f.phi.op = "imply" THEN {Not(f.phi.right)}
    ELSE {Not(g) : g \in Operands(f.phi)}

\* Induction along its visits, by the nesting of the formulas without negations on top
LEMMA NnfInduction ==
    ASSUME NEW P, \A f \in Formula : NnfVisits(f) \subseteq P /\ NnfVisits(f) \subseteq Formula => f \in P
    PROVE  Formula \subseteq P
<1>1. Propositions \subseteq P
  <2>1. \A f \in Propositions : NnfVisits(f) = {} /\ f \in Formula
    BY PropositionShape, PropositionOperands, PropositionsInFormula DEF NnfVisits
  <2> QED
    BY <2>1
<1>2. ASSUME NEW n \in Nat, n + 1 <= Nesting, FormulaUpTo[n] \subseteq P, NEW f \in Compound(FormulaUpTo[n])
      PROVE  f \in P
  <2> DEFINE S == FormulaUpTo[n]
  <2>1. S \subseteq Formula /\ f \in Formula
    BY <1>2, LevelFacts
  <2>2. Operands(f) \subseteq S
    BY CompoundOperands
  <2>3. \A g \in S : g \notin Propositions => \E Q : g \in Compound(Q) /\ Q \subseteq S /\ Compound(Q) \subseteq S
    BY LevelBelow
  <2>4. S \subseteq P
    BY <1>2
  <2> HIDE DEF S
  <2>5. NnfVisits(f) \subseteq S
    <3>1. CASE f.op # "not"
      BY <2>2, <3>1 DEF NnfVisits
    <3>2. CASE f.op = "not"
      <4> DEFINE p == f.phi
      <4>1. p \in S
        BY <2>2, <3>2 DEF Operands
      <4>2. CASE p \in Propositions
        <5>1. p.op = "prop" /\ Operands(p) = {}
          BY <4>2, PropositionShape, PropositionOperands
        <5> QED
          BY <3>2, <5>1 DEF NnfVisits
      <4>3. CASE p \notin Propositions
        <5>1. PICK Q : p \in Compound(Q) /\ Q \subseteq S /\ Compound(Q) \subseteq S
          BY <2>3, <4>1, <4>3
        <5>2. Operands(p) \subseteq Q
          BY <5>1, CompoundOperands
        <5>3. \A g \in Q : Not(g) \in S
          BY <5>1, Built
        <5>4. p.op = "not" => p.phi \in Operands(p)
          BY DEF Operands
        <5>5. p.op = "imply" => p.right \in Operands(p)
          BY DEF Operands
        <5> HIDE DEF p
        <5> QED
          BY <3>2, <5>1, <5>2, <5>3, <5>4, <5>5 DEF NnfVisits, p
      <4> QED
        BY <4>2, <4>3
    <3> QED
      BY <3>1, <3>2
  <2> QED
    BY <2>1, <2>4, <2>5
<1> QED
  BY <1>1, <1>2, LevelwiseInduction

----------------------------------------------------------------------------
(* What the passes keep.  m tells the semantics: MLTL or STL.              *)

\* k means at any instant what f means s instants later.
Means(f, m, k, n, s) ==
    \A sig : Steady(sig) => \A t \in Int : Smt(sig, t, k, n) <=> Smt(sig, t + s, f, m)

\* Of f and k just one holds, at any instant.
Opposites(f, k, m) ==
    \A sig : Steady(sig) => \A t \in Int : Smt(sig, t, k, m) <=> ~Smt(sig, t, f, m)

\* What the passes rely on at a formula
SoundAt(f, m, strict) ==
    /\ IsTemporal(f) => f.int \in Interval
    /\ f.op \in {"and", "or"} => DOMAIN f.args # {}
    /\ f.op = "imply" => Opposites(f.left, f.notLeft, m)
    /\ strict /\ f.op = "not" => f.phi.op = "prop"

\* Intervals are proper, no junction is empty, implications are split into opposites and, for strict
\* formulas, negations stand before propositions.
Sound(f, m, strict) == \A g \in Subformulas[f] : SoundAt(g, m, strict)

\* k can stand for f, s instants earlier.
Stands(f, m, k, n, s, strict) ==
    /\ k \in Formula
    /\ Sound(k, n, strict)
    /\ Horizon[k] <= Horizon[f] + s
    /\ Means(f, m, k, n, s)

\* A formula is sound if it is so itself and its operands are.
LEMMA SoundFacts ==
    ASSUME NEW f \in Formula, NEW m, NEW strict
    PROVE  /\ Sound(f, m, strict) <=>
                SoundAt(f, m, strict) /\ \A g \in Operands(f) : Sound(g, m, strict)
           /\ Sound(f, m, strict) => Proper(f)
<1>1. Sound(f, m, strict) <=>
          SoundAt(f, m, strict) /\ \A g \in Operands(f) : Sound(g, m, strict)
  BY PartsOf DEF Sound
<1>2. Sound(f, m, strict) => Proper(f)
  BY DEF Sound, SoundAt, Proper
<1> QED
  BY <1>1, <1>2

\* A bound of the horizon
LEMMA HorizonBound ==
    ASSUME NEW k \in Formula, Proper(k), NEW b \in Int, b >= 0 \/ Scope(k) # {},
           \A g \in Scope(k) : (IF IsTemporal(k) THEN k.int.upper ELSE 0) + Horizon[g] <= b
    PROVE  Horizon[k] <= b
BY HorizonOfProper

\* The operands that count, operator by operator
LEMMA ScopeParts ==
    ASSUME NEW f \in Formula
    PROVE  /\ f.op = "prop" => Scope(f) = {}
           /\ f.op \in {"not", "G", "F"} => Scope(f) = {f.phi} /\ Operands(f) = {f.phi}
           /\ f.op \in {"and", "or"} => /\ Scope(f) = {f.args[i] : i \in DOMAIN f.args}
                                        /\ Operands(f) = {f.args[i] : i \in DOMAIN f.args}
           /\ f.op = "imply" => /\ Scope(f) = {f.left, f.right}
                                /\ Operands(f) = {f.left, f.right, f.notLeft}
           /\ f.op \in {"U", "R"} => Scope(f) = {f.left, f.right} /\ Operands(f) = {f.left, f.right}
BY DEF Scope, Operands

----------------------------------------------------------------------------
(* An operator is carried over to operands that stand for those it has;    *)
(* its interval may be moved by d when they are moved back by as much.     *)
\* k has the operator of f over operands that stand for those of f.
Carried(f, m, k, n, s, d, strict) ==
    /\ k.op = f.op
    /\ Scope(f) = {} => s >= 0
    /\ f.op = "prop" => s = 0 /\ k = f
    /\ f.op = "not" => /\ Stands(f.phi, m, k.phi, n, s, strict)
                       /\ f.phi.op = "prop" => k.phi.op = "prop"
    /\ f.op \in {"and", "or"} =>
         /\ DOMAIN k.args = DOMAIN f.args
         /\ \A i \in DOMAIN f.args : Stands(f.args[i], m, k.args[i], n, s, strict)
    /\ f.op = "imply" =>
         /\ Stands(f.left, m, k.left, n, s, strict)
         /\ Stands(f.right, m, k.right, n, s, strict)
         /\ Stands(f.notLeft, m, k.notLeft, n, s, strict)
    /\ IsTemporal(f) =>
         /\ d \in Int /\ (m \/ d = 0) /\ (f.op \in {"U", "R"} => n = m)
         /\ k.int \in Interval
         /\ k.int.lower = f.int.lower + d /\ k.int.upper = f.int.upper + d
    /\ f.op \in {"G", "F"} => Stands(f.phi, m, k.phi, n, s - d, strict)
    /\ f.op \in {"U", "R"} =>
         /\ Stands(f.left, m, k.left, n, s - d, strict)
         /\ Stands(f.right, m, k.right, n, s - d, strict)

\* Then k means what f means s instants later,
LEMMA CarriedMeans ==
    ASSUME NEW f \in Formula, NEW k \in Formula, NEW m \in BOOLEAN, NEW n \in BOOLEAN,
           NEW s \in Int, NEW d, NEW strict, Sound(f, m, strict), Carried(f, m, k, n, s, d, strict)
    PROVE  Means(f, m, k, n, s)
<1> SUFFICES ASSUME NEW sig, Steady(sig), NEW t \in Int
             PROVE  Smt(sig, t, k, n) <=> Smt(sig, t + s, f, m)
  BY DEF Means
<1> DEFINE v == t + s
<1>1. v \in Int
  OBVIOUS
<1>2. \A g, h, r : Stands(g, m, h, n, r, strict) => \A i \in Int : Smt(sig, i, h, n) <=> Smt(sig, i + r, g, m)
  BY DEF Stands, Means
<1>3. f.op \in {"G", "F", "U", "R"} => f.int \in Interval
  BY SoundFacts DEF SoundAt, IsTemporal
<1>4. ASSUME f.op \in {"G", "F", "U", "R"}
      PROVE  /\ d \in Int /\ (m \/ d = 0) /\ k.int.lower = f.int.lower + d /\ k.int.upper = f.int.upper + d
             /\ \A i \in Reach(f, m) : i \in Int /\ t + (i + d) \in Int /\ (t + (i + d)) + (s - d) = v + i
  <2>1. d \in Int /\ (m \/ d = 0) /\ k.int.lower = f.int.lower + d /\ k.int.upper = f.int.upper + d
    BY <1>4 DEF Carried, IsTemporal
  <2>2. \A i \in Reach(f, m) : i \in Int
    BY <1>3, <1>4 DEF Reach
  <2> QED
    BY <2>1, <2>2
<1>5. Matches(f, sig, v, k, sig, t, d, m, n)
  <2> HIDE DEF v
  <2>1. f.op = "prop" => (sig[v][f.e.var] \in f.e.holds <=> sig[t][k.e.var] \in k.e.holds)
    BY DEF Carried, v
  <2>2. f.op = "not" => (Smt(sig, v, f.phi, m) <=> Smt(sig, t, k.phi, n))
    BY <1>2 DEF Carried, v
  <2>3. f.op \in {"and", "or"} =>
          /\ DOMAIN k.args = DOMAIN f.args
          /\ \A i \in DOMAIN f.args : Smt(sig, v, f.args[i], m) <=> Smt(sig, t, k.args[i], n)
    BY <1>2 DEF Carried, v
  <2>4. f.op = "imply" =>
          /\ Smt(sig, v, f.left, m) <=> Smt(sig, t, k.left, n)
          /\ Smt(sig, v, f.right, m) <=> Smt(sig, t, k.right, n)
    BY <1>2 DEF Carried, v
  <2>5. f.op \in {"G", "F"} =>
          \A i \in Reach(f, m) : Smt(sig, v + i, f.phi, m) <=> Smt(sig, t + (i + d), k.phi, n)
    <3> SUFFICES ASSUME f.op \in {"G", "F"}, NEW i \in Reach(f, m)
                 PROVE  Smt(sig, v + i, f.phi, m) <=> Smt(sig, t + (i + d), k.phi, n)
      OBVIOUS
    <3>1. t + (i + d) \in Int /\ (t + (i + d)) + (s - d) = v + i
      BY <1>4
    <3>2. Stands(f.phi, m, k.phi, n, s - d, strict)
      BY DEF Carried
    <3> QED
      BY <1>2, <3>1, <3>2
  <2>6. f.op \in {"U", "R"} =>
          \A i \in Reach(f, m) :
              /\ Smt(sig, v + i, f.left, m) <=> Smt(sig, t + (i + d), k.left, n)
              /\ Smt(sig, v + i, f.right, m) <=> Smt(sig, t + (i + d), k.right, n)
    <3> SUFFICES ASSUME f.op \in {"U", "R"}, NEW i \in Reach(f, m)
                 PROVE  /\ Smt(sig, v + i, f.left, m) <=> Smt(sig, t + (i + d), k.left, n)
                        /\ Smt(sig, v + i, f.right, m) <=> Smt(sig, t + (i + d), k.right, n)
      OBVIOUS
    <3>1. t + (i + d) \in Int /\ (t + (i + d)) + (s - d) = v + i
      BY <1>4
    <3>2. Stands(f.left, m, k.left, n, s - d, strict) /\ Stands(f.right, m, k.right, n, s - d, strict)
      BY DEF Carried
    <3> QED
      BY <1>2, <3>1, <3>2
  <2>7. k.op = f.op /\ (f.op \in {"U", "R"} => n = m)
    BY DEF Carried, IsTemporal
  <2> QED
    BY <1>3, <1>4, <2>1, <2>2, <2>3, <2>4, <2>5, <2>6, <2>7 DEF Matches
<1> HIDE DEF v
<1>6. Smt(sig, v, f, m) <=> Smt(sig, t, k, n)
  BY <1>1, <1>5, Congruence
<1> QED
  BY <1>6 DEF v

\* Formulas of opposite parts stand for opposite parts.
LEMMA OppositesKept ==
    ASSUME NEW f, NEW k, NEW g, NEW h, NEW m, NEW n, NEW s \in Int, NEW strict,
           Opposites(f, k, m), Stands(f, m, g, n, s, strict), Stands(k, m, h, n, s, strict)
    PROVE  Opposites(g, h, n)
<1> SUFFICES ASSUME NEW sig, Steady(sig), NEW t \in Int
             PROVE  Smt(sig, t, h, n) <=> ~Smt(sig, t, g, n)
  BY DEF Opposites
<1> DEFINE v == t + s
<1>1. v \in Int
  OBVIOUS
<1>2. (Smt(sig, t, h, n) <=> Smt(sig, v, k, m)) /\ (Smt(sig, t, g, n) <=> Smt(sig, v, f, m))
  BY DEF Stands, Means
<1> HIDE DEF v
<1>3. Smt(sig, v, k, m) <=> ~Smt(sig, v, f, m)
  BY <1>1 DEF Opposites
<1> QED
  BY <1>2, <1>3

\* and stands for f.
LEMMA CarriedStands ==
    ASSUME NEW f \in Formula, NEW k \in Formula, NEW m \in BOOLEAN, NEW n \in BOOLEAN,
           NEW s \in Int, NEW d, NEW strict, Sound(f, m, strict), Carried(f, m, k, n, s, d, strict)
    PROVE  Stands(f, m, k, n, s, strict)
<1>1. SoundAt(f, m, strict) /\ Proper(f) /\ k.op = f.op
  BY SoundFacts DEF Carried
<1>2. \A g, h, r : Stands(g, m, h, n, r, strict) => Sound(h, n, strict) /\ Horizon[h] <= Horizon[g] + r
  BY DEF Stands
<1>3. SoundAt(k, n, strict)
  <2>1. IsTemporal(k) => k.int \in Interval
    BY <1>1 DEF Carried, IsTemporal
  <2>2. k.op = "imply" => Opposites(k.left, k.notLeft, n)
    <3> SUFFICES ASSUME f.op = "imply" PROVE Opposites(k.left, k.notLeft, n)
      BY <1>1
    <3>1. Opposites(f.left, f.notLeft, m)
      BY <1>1 DEF SoundAt
    <3>2. Stands(f.left, m, k.left, n, s, strict) /\ Stands(f.notLeft, m, k.notLeft, n, s, strict)
      BY DEF Carried
    <3> QED
      BY <3>1, <3>2, OppositesKept
  <2>3. strict /\ k.op = "not" => k.phi.op = "prop"
    BY <1>1 DEF Carried, SoundAt
  <2>4. k.op \in {"and", "or"} => DOMAIN k.args # {}
    BY <1>1 DEF Carried, SoundAt
  <2> QED
    BY <2>1, <2>2, <2>3, <2>4 DEF SoundAt
<1>4. \A g \in Operands(k) : Sound(g, n, strict)
  <2>1. CASE f.op = "prop"
    BY <2>1, <1>1 DEF Operands
  <2>2. CASE f.op \in {"not", "G", "F"}
    BY <1>1, <1>2, <2>2, ScopeParts DEF Carried
  <2>3. CASE f.op \in {"and", "or"}
    BY <1>1, <1>2, <2>3, ScopeParts DEF Carried
  <2>4. CASE f.op = "imply"
    BY <1>1, <1>2, <2>4, ScopeParts DEF Carried
  <2>5. CASE f.op \in {"U", "R"}
    BY <1>1, <1>2, <2>5, ScopeParts DEF Carried
  <2> QED
    BY <2>1, <2>2, <2>3, <2>4, <2>5, FormulaShape
<1>5. Sound(k, n, strict) /\ Proper(k)
  BY <1>3, <1>4, SoundFacts
<1>6. Horizon[k] <= Horizon[f] + s
  <2> DEFINE b == Horizon[f] + s
  <2>1. /\ Horizon[f] \in Nat
        /\ \A g \in Scope(f) : Horizon[g] \in Nat
        /\ f.op \in {"prop", "not", "and", "or", "imply"} => \A g \in Scope(f) : Horizon[g] <= Horizon[f]
        /\ IsTemporal(f) => \A g \in Scope(f) : f.int.upper + Horizon[g] <= Horizon[f]
    BY <1>1, HorizonOfProper
  <2>2. \A g \in Scope(k) : Horizon[g] \in Nat
    BY <1>5, HorizonOfProper
  <2>3. b \in Int
    BY <2>1
  <2>4. CASE f.op = "prop"
    BY <2>4, <2>1 DEF Carried
  <2>5. CASE f.op = "not"
    <3>1. Horizon[k.phi] <= Horizon[f.phi] + s /\ Scope(k) = {k.phi} /\ Scope(f) = {f.phi}
      BY <1>1, <1>2, <2>5, ScopeParts DEF Carried
    <3>2. Horizon[k.phi] \in Nat /\ Horizon[f.phi] \in Nat /\ Horizon[f.phi] <= Horizon[f]
      BY <2>1, <2>2, <2>5, <3>1
    <3>3. Horizon[k.phi] <= b
      BY <2>1, <3>1, <3>2
    <3> HIDE DEF b
    <3> QED
      BY <1>1, <1>5, <2>3, <2>5, <3>1, <3>2, <3>3, HorizonBound DEF b, IsTemporal
  <2>6. CASE f.op \in {"and", "or"}
    <3>1. /\ DOMAIN k.args = DOMAIN f.args
          /\ \A i \in DOMAIN f.args : Horizon[k.args[i]] <= Horizon[f.args[i]] + s
          /\ Scope(f) = {f.args[i] : i \in DOMAIN f.args} /\ Scope(k) = {k.args[i] : i \in DOMAIN k.args}
      BY <1>1, <1>2, <2>6, ScopeParts DEF Carried
    <3>2. \A i \in DOMAIN f.args : Horizon[k.args[i]] \in Nat /\ Horizon[f.args[i]] \in Nat /\ Horizon[f.args[i]] <= Horizon[f]
      BY <2>1, <2>2, <2>6, <3>1
    <3>3. \A i \in DOMAIN f.args : Horizon[k.args[i]] <= b
      BY <2>1, <3>1, <3>2
    <3>4. b >= 0 \/ Scope(k) # {}
      <4>1. CASE Scope(f) = {}
        BY <2>1, <4>1 DEF Carried
      <4>2. CASE Scope(f) # {}
        BY <3>1, <4>2
      <4> QED
        BY <4>1, <4>2
    <3> HIDE DEF b
    <3>5. \A g \in Scope(k) : 0 + Horizon[g] <= b
      BY <2>2, <3>1, <3>3
    <3> QED
      BY <1>1, <1>5, <2>3, <2>6, <3>4, <3>5, HorizonBound DEF b, IsTemporal
  <2>7. CASE f.op = "imply"
    <3>1. /\ Horizon[k.left] <= Horizon[f.left] + s /\ Horizon[k.right] <= Horizon[f.right] + s
          /\ Scope(k) = {k.left, k.right} /\ Scope(f) = {f.left, f.right}
      BY <1>1, <1>2, <2>7, ScopeParts DEF Carried
    <3>2. /\ Horizon[k.left] \in Nat /\ Horizon[f.left] \in Nat /\ Horizon[f.left] <= Horizon[f]
          /\ Horizon[k.right] \in Nat /\ Horizon[f.right] \in Nat /\ Horizon[f.right] <= Horizon[f]
      BY <2>1, <2>2, <2>7, <3>1
    <3>3. Horizon[k.left] <= b /\ Horizon[k.right] <= b
      BY <2>1, <3>1, <3>2
    <3> HIDE DEF b
    <3>4. \A g \in Scope(k) : 0 + Horizon[g] <= b
      BY <2>2, <3>1, <3>3
    <3> QED
      BY <1>1, <1>5, <2>3, <2>7, <3>1, <3>4, HorizonBound DEF b, IsTemporal
  <2>8. CASE f.op \in {"G", "F", "U", "R"}
    <3>1. /\ d \in Int /\ k.int.upper = f.int.upper + d /\ IsTemporal(f) /\ IsTemporal(k)
      BY <1>1, <2>8 DEF Carried, IsTemporal
    <3>2. f.int.upper \in Nat
      BY <1>1, <3>1 DEF SoundAt, Interval
    <3>3. \A g \in Scope(k) : \E h \in Scope(f) : Horizon[g] <= Horizon[h] + (s - d)
      <4>1. CASE f.op \in {"G", "F"}
        BY <1>1, <1>2, <4>1, ScopeParts DEF Carried
      <4>2. CASE f.op \in {"U", "R"}
        BY <1>1, <1>2, <4>2, ScopeParts DEF Carried
      <4> QED
        BY <2>8, <4>1, <4>2
    <3>4. \A g \in Scope(k) : k.int.upper + Horizon[g] <= b
      <4> SUFFICES ASSUME NEW g \in Scope(k) PROVE k.int.upper + Horizon[g] <= b
        OBVIOUS
      <4>1. PICK h \in Scope(f) : Horizon[g] <= Horizon[h] + (s - d)
        BY <3>3
      <4>2. Horizon[h] \in Nat /\ Horizon[g] \in Nat /\ f.int.upper + Horizon[h] <= Horizon[f]
        BY <2>1, <2>2, <3>1
      <4> QED
        BY <2>1, <3>1, <3>2, <4>1, <4>2
    <3>5. Scope(k) # {}
      BY <1>1, <2>8, ScopeParts
    <3> HIDE DEF b
    <3> QED
      BY <1>5, <2>3, <3>1, <3>4, <3>5, HorizonBound DEF b
  <2> QED
    BY <2>4, <2>5, <2>6, <2>7, <2>8, FormulaShape
<1>7. Means(f, m, k, n, s)
  BY CarriedMeans
<1> QED
  BY <1>5, <1>6, <1>7 DEF Stands

----------------------------------------------------------------------------
(* Formulas that stand for themselves, for each other, for their like *)
\* A sound formula stands for itself.
LEMMA StandsForItself ==
    ASSUME NEW f \in Formula, NEW m, NEW strict, Sound(f, m, strict)
    PROVE  Stands(f, m, f, m, 0, strict)
<1>1. Horizon[f] \in Nat
  BY SoundFacts, HorizonOfProper
<1>2. Means(f, m, f, m, 0)
  BY DEF Means
<1> QED
  BY <1>1, <1>2 DEF Stands

\* What stands for a formula that stands for another stands for that one.
LEMMA StandsInTurn ==
    ASSUME NEW f \in Formula, NEW g, NEW h, NEW m, NEW n, NEW l, NEW strict, NEW r \in Int, NEW s \in Int,
           Proper(f), Stands(f, m, g, n, r, strict), Stands(g, n, h, l, s, strict)
    PROVE  Stands(f, m, h, l, r + s, strict)
<1>1. g \in Formula /\ h \in Formula /\ Sound(g, n, strict) /\ Sound(h, l, strict)
  BY DEF Stands
<1>2. Horizon[f] \in Nat /\ Horizon[g] \in Nat /\ Horizon[h] \in Nat
  BY <1>1, SoundFacts, HorizonOfProper
<1>3. Horizon[h] <= Horizon[f] + (r + s)
  BY <1>2 DEF Stands
<1>4. Means(f, m, h, l, r + s)
  <2> SUFFICES ASSUME NEW sig, Steady(sig), NEW t \in Int
               PROVE  Smt(sig, t, h, l) <=> Smt(sig, t + (r + s), f, m)
    BY DEF Means
  <2>1. Smt(sig, t, h, l) <=> Smt(sig, t + s, g, n)
    BY DEF Stands, Means
  <2> DEFINE u == t + s
  <2>2. u \in Int /\ u + r = t + (r + s)
    OBVIOUS
  <2>3. Smt(sig, u, g, n) <=> Smt(sig, u + r, f, m)
    <3> HIDE DEF u
    <3> QED
      BY <2>2 DEF Stands, Means
  <2> QED
    BY <2>1, <2>2, <2>3
<1> QED
  BY <1>1, <1>3, <1>4 DEF Stands

\* Propositions with the same constraint stand for each other.
LEMMA PropositionStands ==
    ASSUME NEW f \in Propositions, NEW k \in Propositions, NEW m, NEW n, NEW strict,
           k.e.var = f.e.var, k.e.holds = f.e.holds
    PROVE  Stands(f, m, k, n, 0, strict) /\ Sound(k, n, strict)
<1>1. f \in Formula /\ k \in Formula /\ f.op = "prop" /\ k.op = "prop"
  BY PropositionsInFormula, PropositionShape
<1>2. \A g \in {f, k} : \A l : Sound(g, l, strict)
  <2>1. \A l : SoundAt(f, l, strict) /\ SoundAt(k, l, strict)
    BY <1>1 DEF SoundAt, IsTemporal
  <2>2. Operands(f) = {} /\ Operands(k) = {}
    BY PropositionOperands
  <2> QED
    BY <1>1, <2>1, <2>2, SoundFacts
<1>3. Horizon[f] = 0 /\ Horizon[k] = 0
  <2>1. Proper(f) /\ Proper(k) /\ Scope(f) = {} /\ Scope(k) = {}
    BY <1>1, <1>2, SoundFacts, ScopeParts
  <2> QED
    BY <1>1, <2>1, HorizonOfProper
<1>4. Means(f, m, k, n, 0)
  <2> SUFFICES ASSUME NEW sig, NEW t \in Int PROVE Smt(sig, t, k, n) <=> Smt(sig, t + 0, f, m)
    BY DEF Means
  <2>1. Smt(sig, t, k, n) <=> sig[t][k.e.var] \in k.e.holds
    BY <1>1, SmtCases
  <2>2. Smt(sig, t, f, m) <=> sig[t][f.e.var] \in f.e.holds
    BY <1>1, SmtCases
  <2> QED
    BY <2>1, <2>2
<1> QED
  BY <1>1, <1>2, <1>3, <1>4 DEF Stands

\* Visited operands that stand for the operands make a formula that stands for the whole.
OperandsStand(f, m, of, n, s, strict) ==
    \A g \in Operands(f) : Stands(g, m, of[g], n, s, strict) /\ (g.op = "prop" => of[g].op = "prop")

\* A visit is carried over.
LEMMA VisitedStands ==
    ASSUME NEW f \in Formula, NEW m \in BOOLEAN, NEW n \in BOOLEAN, NEW s \in Int, NEW strict, NEW of,
           Sound(f, m, strict), f.op \in {"U", "R"} => n = m,
           IsTemporal(f) \/ f.op = "prop" => s = 0, Scope(f) = {} => s >= 0,
           Visited(f, of) \in Formula, OperandsStand(f, m, of, n, s, strict)
    PROVE  Stands(f, m, Visited(f, of), n, s, strict)
<1> DEFINE k == Visited(f, of)
<1>1. VisitsTo(f, of, k)
  <2>1. f \in Propositions \cup Compound(Formula)
    BY FormulaCases
  <2>2. \A g \in Operands(f) : of[g] \in Formula
    BY DEF OperandsStand, Stands
  <2> QED
    BY <2>1, <2>2, VisitedShape
<1>2. k \in Formula
  OBVIOUS
<1> HIDE DEF k
<1>3. SoundAt(f, m, strict)
  BY SoundFacts
<1>4. Carried(f, m, k, n, s, 0, strict)
  <2>1. k.op = f.op /\ (f.op = "prop" => k = f /\ s = 0)
    BY <1>1 DEF VisitsTo
  <2>2. f.op = "not" => Stands(f.phi, m, k.phi, n, s, strict) /\ (f.phi.op = "prop" => k.phi.op = "prop")
    BY <1>1, ScopeParts DEF VisitsTo, OperandsStand
  <2>3. f.op \in {"and", "or"} =>
          /\ DOMAIN k.args = DOMAIN f.args
          /\ \A i \in DOMAIN f.args : Stands(f.args[i], m, k.args[i], n, s, strict)
    BY <1>1, ScopeParts DEF VisitsTo, OperandsStand
  <2>4. f.op = "imply" =>
          /\ Stands(f.left, m, k.left, n, s, strict)
          /\ Stands(f.right, m, k.right, n, s, strict)
          /\ Stands(f.notLeft, m, k.notLeft, n, s, strict)
    BY <1>1, ScopeParts DEF VisitsTo, OperandsStand
  <2>5. IsTemporal(f) =>
          /\ k.int \in Interval
          /\ k.int.lower = f.int.lower + 0 /\ k.int.upper = f.int.upper + 0
    BY <1>1, <1>3 DEF VisitsTo, SoundAt, Interval
  <2>6. f.op \in {"G", "F"} => Stands(f.phi, m, k.phi, n, s - 0, strict)
    BY <1>1, ScopeParts DEF VisitsTo, OperandsStand
  <2>7. f.op \in {"U", "R"} =>
          Stands(f.left, m, k.left, n, s - 0, strict) /\ Stands(f.right, m, k.right, n, s - 0, strict)
    BY <1>1, ScopeParts DEF VisitsTo, OperandsStand
  <2> QED
    BY <2>1, <2>2, <2>3, <2>4, <2>5, <2>6, <2>7 DEF Carried
<1>5. Stands(f, m, k, n, s, strict)
  BY <1>2, <1>4, CarriedStands
<1> QED
  BY <1>5 DEF k

----------------------------------------------------------------------------
(* Junctions, by the set of what they join *)
\* When a sequence is empty
LEMMA NotEmpty ==
    /\ \A s \in Seq(Formula) : (s = <<>> <=> DOMAIN s = {}) /\ (Len(s) = 0 <=> DOMAIN s = {})
    /\ \A s : ToSet(s) = {} <=> DOMAIN s = {}
<1>1. ASSUME NEW s \in Seq(Formula)
      PROVE  (s = <<>> <=> DOMAIN s = {}) /\ (Len(s) = 0 <=> DOMAIN s = {})
  <2>1. DOMAIN s = 1 .. Len(s) /\ Len(s) \in Nat
    OBVIOUS
  <2>2. Len(s) = 0 => DOMAIN s = {}
    BY <2>1
  <2>3. Len(s) # 0 => 1 \in DOMAIN s
    BY <2>1
  <2>4. s = <<>> <=> Len(s) = 0
    OBVIOUS
  <2> QED
    BY <2>2, <2>3, <2>4
<1>2. ASSUME NEW s PROVE ToSet(s) = {} <=> DOMAIN s = {}
  <2> DEFINE d == DOMAIN s
  <2>1. ToSet(s) = {s[i] : i \in d}
    BY DEF ToSet
  <2> HIDE DEF d
  <2>2. ToSet(s) = {} <=> d = {}
    BY <2>1
  <2> QED
    BY <2>2 DEF d
<1> QED
  BY <1>1, <1>2

\* A junction is a matter of the set of what it joins: its operands,
LEMMA JunctionParts ==
    ASSUME NEW k \in Formula, k.op \in {"and", "or"}
    PROVE  Operands(k) = ToSet(k.args) /\ Scope(k) = ToSet(k.args) /\ k.args \in Seq(Formula)
BY ScopeParts, FormulaShape DEF ToSet

\* its meaning,
LEMMA JunctionMeans ==
    ASSUME NEW k \in Formula, NEW sig, NEW t \in Int, NEW m
    PROVE  /\ k.op = "and" => (Smt(sig, t, k, m) <=> \A g \in ToSet(k.args) : Smt(sig, t, g, m))
           /\ k.op = "or" => (Smt(sig, t, k, m) <=> \E g \in ToSet(k.args) : Smt(sig, t, g, m))
<1>1. CASE k.op = "and"
  BY <1>1, SmtAnd DEF ToSet
<1>2. CASE k.op = "or"
  BY <1>2, SmtOr DEF ToSet
<1> QED
  BY <1>1, <1>2

\* and whether it is sound.
LEMMA JunctionSound ==
    ASSUME NEW k \in Formula, k.op \in {"and", "or"}, NEW n, NEW strict, NEW b \in Nat,
           ToSet(k.args) # {}, \A g \in ToSet(k.args) : Sound(g, n, strict) /\ Horizon[g] <= b
    PROVE  Sound(k, n, strict) /\ Horizon[k] <= b
<1>1. Operands(k) = ToSet(k.args) /\ Scope(k) = ToSet(k.args)
  BY JunctionParts
<1>2. SoundAt(k, n, strict) /\ ~IsTemporal(k)
  BY DEF SoundAt, IsTemporal, ToSet
<1>3. Sound(k, n, strict) /\ Proper(k)
  BY <1>1, <1>2, SoundFacts
<1>4. \A g \in Scope(k) : Horizon[g] \in Nat
  BY <1>3, HorizonOfProper
<1>5. \A g \in Scope(k) : 0 + Horizon[g] <= b
  BY <1>1, <1>4
<1> QED
  BY <1>2, <1>3, <1>5, HorizonBound

\* The elements of a pair
LEMMA PairElements == \A a, b : ToSet(<< a, b >>) = {a, b}
BY DEF ToSet

\* When G and F are sound
LEMMA UnarySound ==
    ASSUME NEW k \in Formula, k.op \in {"G", "F"}, NEW n, NEW strict, NEW b \in Nat,
           k.int \in Interval, Sound(k.phi, n, strict), k.int.upper + Horizon[k.phi] <= b
    PROVE  Sound(k, n, strict) /\ Horizon[k] <= b
<1>1. Operands(k) = {k.phi} /\ Scope(k) = {k.phi} /\ IsTemporal(k)
  BY ScopeParts DEF IsTemporal
<1>2. SoundAt(k, n, strict)
  BY <1>1 DEF SoundAt, IsTemporal
<1>3. Sound(k, n, strict) /\ Proper(k)
  BY <1>1, <1>2, SoundFacts
<1> QED
  BY <1>1, <1>3, HorizonBound

\* When U and R are sound
LEMMA BinarySound ==
    ASSUME NEW k \in Formula, k.op \in {"U", "R"}, NEW n, NEW strict, NEW b \in Nat,
           k.int \in Interval, Sound(k.left, n, strict), Sound(k.right, n, strict),
           k.int.upper + Horizon[k.left] <= b, k.int.upper + Horizon[k.right] <= b
    PROVE  Sound(k, n, strict) /\ Horizon[k] <= b
<1>1. Operands(k) = {k.left, k.right} /\ Scope(k) = {k.left, k.right} /\ IsTemporal(k)
  BY ScopeParts DEF IsTemporal
<1>2. SoundAt(k, n, strict)
  BY <1>1 DEF SoundAt, IsTemporal
<1>3. Sound(k, n, strict) /\ Proper(k)
  BY <1>1, <1>2, SoundFacts
<1> QED
  BY <1>1, <1>3, HorizonBound

\* When a negation is sound
LEMMA NotSound ==
    ASSUME NEW f \in Formula, f.op = "not", NEW m, NEW strict
    PROVE  /\ f.phi \in Formula
           /\ Sound(f, m, strict) => Sound(f.phi, m, strict)
           /\ ~strict /\ Sound(f.phi, m, strict) => Sound(f, m, strict)
           /\ Sound(f.phi, m, strict) => Horizon[f] = Horizon[f.phi] /\ Horizon[f] \in Nat
<1>1. Operands(f) = {f.phi} /\ Scope(f) = {f.phi} /\ f.phi \in Formula
  BY ScopeParts, FormulaShape
<1>2. ~strict => SoundAt(f, m, strict)
  BY DEF SoundAt, IsTemporal
<1>3. Sound(f, m, strict) => Sound(f.phi, m, strict)
  BY <1>1, SoundFacts
<1>4. ~strict /\ Sound(f.phi, m, strict) => Sound(f, m, strict)
  BY <1>1, <1>2, SoundFacts
<1>5. Sound(f.phi, m, strict) => Proper(f)
  BY <1>1, SoundFacts, ProperFacts DEF IsTemporal
<1>6. Proper(f) => Horizon[f] = Horizon[f.phi] /\ Horizon[f] \in Nat
  <2> SUFFICES ASSUME Proper(f) PROVE Horizon[f] = Horizon[f.phi] /\ Horizon[f] \in Nat
    OBVIOUS
  <2>1. Horizon[f.phi] \in Nat /\ Horizon[f] \in Nat
    BY <1>1, HorizonOfProper
  <2> QED
    BY <1>1, <2>1, HorizonOfProper DEF IsTemporal
<1> QED
  BY <1>1, <1>3, <1>4, <1>5, <1>6

----------------------------------------------------------------------------
(* DupeFormula and the negation normal form *)
\* The copy of a formula stands for it.
LEMMA DupeStands ==
    ASSUME NEW m \in BOOLEAN, NEW strict
    PROVE  \A f \in Formula : Sound(f, m, strict) =>
               Stands(f, m, Dupe[f], m, 0, strict) /\ (f.op = "prop" => Dupe[f].op = "prop")
<1> DEFINE S == {f \in Formula : Sound(f, m, strict) =>
                    Stands(f, m, Dupe[f], m, 0, strict) /\ (f.op = "prop" => Dupe[f].op = "prop")}
<1>1. ASSUME NEW f \in Formula, Operands(f) \subseteq S PROVE f \in S
  <2> SUFFICES ASSUME Sound(f, m, strict)
               PROVE  Stands(f, m, Dupe[f], m, 0, strict) /\ (f.op = "prop" => Dupe[f].op = "prop")
    OBVIOUS
  <2>1. Dupe[f] = DupeOf(f, Dupe) /\ Dupe[f] \in Formula
    BY DupeEquation DEF StaysInLevels
  <2>2. CASE f.op = "prop"
    <3>1. f \in Propositions /\ Dupe[f] \in Propositions
      BY <2>2, PropositionShape, DupeEquation DEF StaysInLevels
    <3>2. f = [op |-> "prop", e |-> f.e] /\ f.e \in Expr
      BY <3>1, PropositionShape
    <3>3. Dupe[f] = [f EXCEPT !.e.id = @ + DupeOffset]
      BY <2>1, <2>2 DEF DupeOf
    <3>4. Dupe[f].e = [f.e EXCEPT !.id = f.e.id + DupeOffset]
      BY <3>2, <3>3
    <3>5. Dupe[f].e.var = f.e.var /\ Dupe[f].e.holds = f.e.holds
      BY <3>2, <3>4 DEF Expr
    <3> QED
      BY <3>1, <3>5, PropositionStands, PropositionShape
  <2>3. CASE f.op # "prop"
    <3>1. Dupe[f] = Visited(f, Dupe)
      BY <2>1, <2>3 DEF DupeOf
    <3>2. OperandsStand(f, m, Dupe, m, 0, strict)
      BY <1>1, SoundFacts DEF OperandsStand
    <3> QED
      BY <2>1, <2>3, <3>1, <3>2, VisitedStands
  <2> QED
    BY <2>2, <2>3
<1>2. Formula \subseteq S
  <2> HIDE DEF S
  <2> QED
    BY <1>1, FormulaInduction
<1> QED
  BY <1>2

\* k means the opposite of f.
Denies(f, m, k, strict) ==
    k \in Formula /\ Sound(k, m, strict) /\ Horizon[k] <= Horizon[f] /\ Opposites(f, k, m)

\* The dual operator over opposite operands is the opposite.
LEMMA DualMeans ==
    ASSUME NEW p \in Formula, NEW k \in Formula, NEW m \in BOOLEAN, NEW of,
           p.op \in {"and", "or", "G", "F", "U", "R"}, VisitsTo(Dual(p), of, k),
           k.op = DualOf(p.op),
           p.op \in {"and", "or"} => Dual(p).args = p.args,
           p.op \in {"G", "F"} => Dual(p).phi = p.phi,
           p.op \in {"U", "R"} => Dual(p).left = p.left /\ Dual(p).right = p.right,
           IsTemporal(p) => k.int = p.int /\ p.int \in Interval,
           \A g \in Operands(p) : Opposites(g, of[g], m)
    PROVE  Opposites(p, k, m)
<1> SUFFICES ASSUME NEW sig, Steady(sig), NEW t \in Int
             PROVE  Smt(sig, t, k, m) <=> ~Smt(sig, t, p, m)
  BY DEF Opposites
<1>1. \A g \in Operands(p) : \A i \in Int : Smt(sig, i, of[g], m) <=> ~Smt(sig, i, g, m)
  BY DEF Opposites
<1>2. ASSUME p.op \in {"and", "or"}
      PROVE  /\ DOMAIN k.args = DOMAIN p.args
             /\ \A i \in DOMAIN p.args : Smt(sig, t, k.args[i], m) <=> ~Smt(sig, t, p.args[i], m)
  <2>1. k.op \in {"and", "or"} /\ Dual(p).op = k.op
    BY <1>2 DEF DualOf, VisitsTo
  <2>2. DOMAIN k.args = DOMAIN p.args /\ \A i \in DOMAIN p.args : k.args[i] = of[p.args[i]]
    BY <1>2, <2>1 DEF VisitsTo
  <2> QED
    BY <1>1, <1>2, <2>2, ScopeParts
<1>3. ASSUME p.op \in {"G", "F"}
      PROVE  \A i \in Int : Smt(sig, i, k.phi, m) <=> ~Smt(sig, i, p.phi, m)
  <2>1. k.op \in {"G", "F"} /\ Dual(p).op = k.op
    BY <1>3 DEF DualOf, VisitsTo
  <2>2. k.phi = of[p.phi]
    BY <1>3, <2>1 DEF VisitsTo
  <2> QED
    BY <1>1, <1>3, <2>2, ScopeParts
<1>4. ASSUME p.op \in {"U", "R"}
      PROVE  \A i \in Int : /\ Smt(sig, i, k.left, m) <=> ~Smt(sig, i, p.left, m)
                            /\ Smt(sig, i, k.right, m) <=> ~Smt(sig, i, p.right, m)
  <2>1. k.op \in {"U", "R"} /\ Dual(p).op = k.op
    BY <1>4 DEF DualOf, VisitsTo
  <2>2. k.left = of[p.left] /\ k.right = of[p.right]
    BY <1>4, <2>1 DEF VisitsTo
  <2> QED
    BY <1>1, <1>4, <2>2, ScopeParts
<1>5. IsTemporal(p) => /\ k.int = p.int
                       /\ \A i \in p.int.lower .. p.int.upper : t + i \in Int /\ \A j \in Lefts(p.int, i, m) : t + j \in Int
  <2>1. ASSUME IsTemporal(p)
        PROVE  \A i \in p.int.lower .. p.int.upper : t + i \in Int /\ \A j \in Lefts(p.int, i, m) : t + j \in Int
    <3>1. p.int.lower \in Int /\ p.int.upper \in Int
      BY <2>1 DEF Interval
    <3>2. CASE m
      BY <3>1, <3>2 DEF Lefts
    <3>3. CASE ~m
      BY <3>1, <3>3 DEF Lefts
    <3> QED
      BY <3>2, <3>3
  <2> QED
    BY <2>1
<1>6. CASE p.op = "and"
  <2>1. k.op = "or"
    BY <1>6 DEF DualOf
  <2> QED
    BY <1>2, <1>6, <2>1, SmtAnd, SmtOr
<1>7. CASE p.op = "or"
  <2>1. k.op = "and"
    BY <1>7 DEF DualOf
  <2> QED
    BY <1>2, <1>7, <2>1, SmtAnd, SmtOr
<1>8. CASE p.op = "G"
  <2>1. k.op = "F" /\ IsTemporal(p)
    BY <1>8 DEF DualOf, IsTemporal
  <2>2. Smt(sig, t, p, m) <=> \A i \in p.int.lower .. p.int.upper : Smt(sig, t + i, p.phi, m)
    BY <1>8, SmtGlobally
  <2>3. Smt(sig, t, k, m) <=> \E i \in p.int.lower .. p.int.upper : Smt(sig, t + i, k.phi, m)
    BY <1>5, <2>1, SmtFinally
  <2> QED
    BY <1>3, <1>5, <1>8, <2>1, <2>2, <2>3
<1>9. CASE p.op = "F"
  <2>1. k.op = "G" /\ IsTemporal(p)
    BY <1>9 DEF DualOf, IsTemporal
  <2>2. Smt(sig, t, p, m) <=> \E i \in p.int.lower .. p.int.upper : Smt(sig, t + i, p.phi, m)
    BY <1>9, SmtFinally
  <2>3. Smt(sig, t, k, m) <=> \A i \in p.int.lower .. p.int.upper : Smt(sig, t + i, k.phi, m)
    BY <1>5, <2>1, SmtGlobally
  <2> QED
    BY <1>3, <1>5, <1>9, <2>1, <2>2, <2>3
<1>10. CASE p.op = "U"
  <2>1. k.op = "R" /\ IsTemporal(p)
    BY <1>10 DEF DualOf, IsTemporal
  <2>2. Smt(sig, t, p, m) <=> \E i \in p.int.lower .. p.int.upper :
            /\ Smt(sig, t + i, p.right, m)
            /\ \A j \in Lefts(p.int, i, m) : Smt(sig, t + j, p.left, m)
    BY <1>10, SmtUntil
  <2>3. Smt(sig, t, k, m) <=> \A i \in p.int.lower .. p.int.upper :
            \/ Smt(sig, t + i, k.right, m)
            \/ \E j \in Lefts(p.int, i, m) : Smt(sig, t + j, k.left, m)
    BY <1>5, <2>1, SmtRelease
  <2> QED
    BY <1>4, <1>5, <1>10, <2>1, <2>2, <2>3
<1>11. CASE p.op = "R"
  <2>1. k.op = "U" /\ IsTemporal(p)
    BY <1>11 DEF DualOf, IsTemporal
  <2>2. Smt(sig, t, p, m) <=> \A i \in p.int.lower .. p.int.upper :
            \/ Smt(sig, t + i, p.right, m)
            \/ \E j \in Lefts(p.int, i, m) : Smt(sig, t + j, p.left, m)
    BY <1>11, SmtRelease
  <2>3. Smt(sig, t, k, m) <=> \E i \in p.int.lower .. p.int.upper :
            /\ Smt(sig, t + i, k.right, m)
            /\ \A j \in Lefts(p.int, i, m) : Smt(sig, t + j, k.left, m)
    BY <1>5, <2>1, SmtUntil
  <2> QED
    BY <1>4, <1>5, <1>11, <2>1, <2>2, <2>3
<1> QED
  BY <1>6, <1>7, <1>8, <1>9, <1>10, <1>11

\* A negation that is pushed inwards
LEMMA DualStands ==
    ASSUME NEW f \in Formula, f.op = "not", f.phi.op \in {"and", "or", "G", "F", "U", "R"},
           NEW m \in BOOLEAN, NEW strict, ~strict, Sound(f, m, strict), NEW of,
           \A g \in Operands(f.phi) : Denies(g, m, of[g], strict),
           NEW k \in Formula, k = Visited(Dual(f.phi), of)
    PROVE  Stands(f, m, k, m, 0, strict)
<1> DEFINE p == f.phi
           b == Horizon[p]
<1>1. p \in Formula /\ Sound(p, m, strict) /\ Horizon[f] = b /\ b \in Nat
  BY NotSound
<1>2. p.op \in {"and", "or", "G", "F", "U", "R"} /\ \A g \in Operands(p) : Denies(g, m, of[g], strict)
  OBVIOUS
<1>3. k = Visited(Dual(p), of)
  OBVIOUS
<1>4. \A sig : \A t \in Int : Smt(sig, t, f, m) <=> ~Smt(sig, t, p, m)
  BY SmtNot
<1> HIDE DEF p
<1>5. p \in Compound(Formula)
  BY <1>1, <1>2, FormulaCases, PropositionShape
<1> DEFINE d == Dual(p)
<1>6. /\ d \in Compound(Formula) /\ d.op = DualOf(p.op)
      /\ p.op \in {"and", "or"} => d.args = p.args
      /\ p.op \in {"G", "F"} => d.phi = p.phi
      /\ p.op \in {"U", "R"} => d.left = p.left /\ d.right = p.right
      /\ IsTemporal(p) => d.int = p.int
      /\ Operands(d) = Operands(p)
  BY <1>2, <1>5, DualShape
<1>7. VisitsTo(d, of, k)
  <2>1. \A g \in Operands(d) : of[g] \in Formula
    BY <1>2, <1>6 DEF Denies
  <2> HIDE DEF d
  <2> QED
    BY <1>3, <1>6, <2>1, VisitedShape DEF d
<1>8. k.op = DualOf(p.op)
  BY <1>6, <1>7 DEF VisitsTo
<1>9. IsTemporal(p) => k.int = p.int /\ p.int \in Interval
  <2> SUFFICES ASSUME IsTemporal(p) PROVE k.int = p.int /\ p.int \in Interval
    OBVIOUS
  <2>1. IsTemporal(d)
    BY <1>2, <1>6 DEF IsTemporal, DualOf
  <2>2. k.int = p.int
    BY <1>6, <1>7, <2>1 DEF VisitsTo
  <2>3. SoundAt(p, m, strict)
    BY <1>1, SoundFacts
  <2> QED
    BY <2>2, <2>3 DEF SoundAt
<1>10. Opposites(p, k, m)
  <2>1. \A g \in Operands(p) : Opposites(g, of[g], m)
    BY <1>2 DEF Denies
  <2> QED
    BY <1>1, <1>2, <1>6, <1>7, <1>8, <1>9, <2>1, DualMeans
<1>11. Means(f, m, k, m, 0)
  <2> SUFFICES ASSUME NEW sig, Steady(sig), NEW t \in Int
               PROVE  Smt(sig, t, k, m) <=> Smt(sig, t + 0, f, m)
    BY DEF Means
  <2>1. Smt(sig, t, k, m) <=> ~Smt(sig, t, p, m)
    BY <1>10 DEF Opposites
  <2>2. t + 0 = t
    OBVIOUS
  <2> QED
    BY <1>4, <2>1, <2>2
<1>12. \A g \in Operands(p) : Sound(of[g], m, strict) /\ Horizon[of[g]] <= Horizon[g] /\ of[g] \in Formula
  BY <1>2 DEF Denies
<1>13. \A g \in Operands(p) : Horizon[of[g]] \in Nat /\ Horizon[g] \in Nat
  <2>1. \A g \in Operands(p) : g \in Formula /\ Sound(g, m, strict)
    BY <1>1, SoundFacts, OperandsInFormula
  <2> QED
    BY <1>12, <2>1, SoundFacts, HorizonOfProper
<1>14. Sound(k, m, strict) /\ Horizon[k] <= b
  <2>1. /\ p.op \in {"and", "or"} => \A g \in Scope(p) : Horizon[g] <= b
        /\ IsTemporal(p) => p.int.upper \in Nat /\ \A g \in Scope(p) : p.int.upper + Horizon[g] <= b
    <3>1. Proper(p)
      BY <1>1, SoundFacts
    <3>2. IsTemporal(p) => p.int.upper \in Nat
      BY <1>9 DEF Interval
    <3> QED
      BY <1>1, <3>1, <3>2, HorizonOfProper DEF p
  <2> HIDE DEF b
  <2>2. CASE p.op \in {"and", "or"}
    <3>1. k.op \in {"and", "or"} /\ d.op = k.op
      BY <1>6, <1>8, <2>2 DEF DualOf
    <3>2. \A g \in ToSet(k.args) : \E h \in Operands(p) : g = of[h]
      <4>1. DOMAIN k.args = DOMAIN p.args /\ \A i \in DOMAIN p.args : k.args[i] = of[p.args[i]]
        BY <1>6, <1>7, <2>2, <3>1 DEF VisitsTo
      <4> QED
        BY <1>1, <2>2, <4>1, ScopeParts DEF ToSet
    <3>3. Operands(p) = Scope(p)
      BY <1>1, <2>2, ScopeParts
    <3>4. \A g \in ToSet(k.args) : Sound(g, m, strict) /\ Horizon[g] <= b
      <4> SUFFICES ASSUME NEW h \in Operands(p) PROVE Sound(of[h], m, strict) /\ Horizon[of[h]] <= b
        BY <3>2
      <4>1. Horizon[h] <= b /\ Horizon[of[h]] <= Horizon[h] /\ Horizon[h] \in Nat /\ Horizon[of[h]] \in Nat
        BY <1>12, <1>13, <2>1, <2>2, <3>3
      <4> QED
        BY <1>1, <1>12, <4>1
    <3>5. ToSet(k.args) # {}
      <4>1. DOMAIN p.args # {}
        BY <1>1, <2>2, SoundFacts DEF SoundAt
      <4>2. DOMAIN k.args = DOMAIN p.args
        BY <1>6, <1>7, <2>2, <3>1 DEF VisitsTo
      <4> QED
        BY <4>1, <4>2 DEF ToSet
    <3> QED
      BY <1>1, <3>1, <3>4, <3>5, JunctionSound
  <2>3. CASE p.op \in {"G", "F"}
    <3>1. k.op \in {"G", "F"} /\ d.op = k.op /\ IsTemporal(p)
      BY <1>6, <1>8, <2>3 DEF DualOf, IsTemporal
    <3>2. k.phi = of[p.phi] /\ k.int = p.int /\ k.int \in Interval
      BY <1>6, <1>7, <1>9, <2>3, <3>1 DEF VisitsTo
    <3>3. p.phi \in Scope(p) /\ p.phi \in Operands(p)
      BY <1>1, <2>3, ScopeParts
    <3>4. /\ p.int.upper + Horizon[p.phi] <= b /\ Horizon[of[p.phi]] <= Horizon[p.phi]
          /\ Horizon[p.phi] \in Nat /\ Horizon[of[p.phi]] \in Nat /\ p.int.upper \in Nat
      BY <1>12, <1>13, <2>1, <3>1, <3>3
    <3>5. k.int.upper + Horizon[k.phi] <= b
      BY <1>1, <3>2, <3>4
    <3> QED
      BY <1>1, <1>12, <3>1, <3>2, <3>3, <3>5, UnarySound
  <2>4. CASE p.op \in {"U", "R"}
    <3>1. k.op \in {"U", "R"} /\ d.op = k.op /\ IsTemporal(p)
      BY <1>6, <1>8, <2>4 DEF DualOf, IsTemporal
    <3>2. k.left = of[p.left] /\ k.right = of[p.right] /\ k.int = p.int /\ k.int \in Interval
      BY <1>6, <1>7, <1>9, <2>4, <3>1 DEF VisitsTo
    <3>3. {p.left} \cup {p.right} \subseteq Scope(p) /\ {p.left} \cup {p.right} \subseteq Operands(p)
      BY <1>1, <2>4, ScopeParts
    <3>4. \A g \in {p.left} \cup {p.right} :
            /\ p.int.upper + Horizon[g] <= b /\ Horizon[of[g]] <= Horizon[g]
            /\ Horizon[g] \in Nat /\ Horizon[of[g]] \in Nat /\ p.int.upper \in Nat
      BY <1>12, <1>13, <2>1, <3>1, <3>3
    <3>5. k.int.upper + Horizon[k.left] <= b /\ k.int.upper + Horizon[k.right] <= b
      <4>1. \A g \in {p.left} \cup {p.right} : p.int.upper + Horizon[of[g]] <= b
        BY <1>1, <3>4
      <4> QED
        BY <3>2, <4>1
    <3> QED
      BY <1>1, <1>12, <3>1, <3>2, <3>3, <3>5, BinarySound
  <2> QED
    BY <1>2, <2>2, <2>3, <2>4
<1>15. Horizon[k] <= Horizon[f] + 0
  BY <1>1, <1>14
<1> QED
  BY <1>11, <1>14, <1>15 DEF Stands

\* The negation normal form stands for the formula, under both semantics.
LEMMA NnfStands ==
    ASSUME NEW m \in BOOLEAN, NEW strict, ~strict
    PROVE  \A f \in Formula : Sound(f, m, strict) => Stands(f, m, Nnf[f], m, 0, strict)
<1> DEFINE S == {f \in Formula : Sound(f, m, strict) =>
                    Stands(f, m, Nnf[f], m, 0, strict) /\ (f.op = "prop" => Nnf[f].op = "prop")}
<1>1. ASSUME NEW f \in Formula, NnfVisits(f) \subseteq S PROVE f \in S
  <2> SUFFICES ASSUME Sound(f, m, strict)
               PROVE  Stands(f, m, Nnf[f], m, 0, strict) /\ (f.op = "prop" => Nnf[f].op = "prop")
    OBVIOUS
  <2>1. Nnf[f] = NnfOf(f, Nnf) /\ Nnf[f] \in Formula
    BY NnfEquation DEF StaysInLevels
  <2>2. \A g \in NnfVisits(f) : g \in Formula /\ (Sound(g, m, strict) =>
            Stands(g, m, Nnf[g], m, 0, strict) /\ (g.op = "prop" => Nnf[g].op = "prop"))
    BY <1>1
  <2> HIDE DEF S
  <2>3. CASE f.op = "prop"
    <3>1. Nnf[f] = f
      BY <2>1, <2>3, NnfCases DEF Visited
    <3> QED
      BY <2>3, <3>1, StandsForItself
  <2>4. CASE f.op # "prop" /\ f.op # "not"
    <3>1. Nnf[f] = Visited(f, Nnf)
      BY <2>1, <2>4, NnfCases
    <3>2. OperandsStand(f, m, Nnf, m, 0, strict)
      BY <2>2, <2>4, SoundFacts DEF OperandsStand, NnfVisits
    <3> QED
      BY <2>1, <2>4, <3>1, <3>2, VisitedStands
  <2>5. CASE f.op = "not"
    <3> DEFINE p == f.phi
    <3>1. p \in Formula /\ Sound(p, m, strict) /\ Horizon[f] = Horizon[p] /\ Horizon[f] \in Nat
      BY <2>5, NotSound
    <3>2. \A sig : \A t \in Int : Smt(sig, t, f, m) <=> ~Smt(sig, t, p, m)
      BY <2>5, SmtNot
    <3>3. CASE p.op = "prop"
      <4>1. Nnf[f] = f
        BY <2>1, <2>5, <3>3, NnfCases
      <4> QED
        BY <2>5, <4>1, StandsForItself
    <3>4. CASE p.op = "not"
      <4> DEFINE q == p.phi
      <4>1. Nnf[f] = Nnf[q]
        BY <2>1, <2>5, <3>4, NnfCases
      <4>2. q \in NnfVisits(f)
        BY <2>5, <3>4 DEF NnfVisits
      <4> HIDE DEF p
      <4>3. q \in Formula /\ Sound(q, m, strict) /\ Horizon[p] = Horizon[q]
        BY <3>1, <3>4, NotSound
      <4>4. \A sig : \A t \in Int : Smt(sig, t, p, m) <=> ~Smt(sig, t, q, m)
        BY <3>1, <3>4, SmtNot
      <4> HIDE DEF q
      <4>5. Stands(q, m, Nnf[q], m, 0, strict)
        BY <2>2, <4>2, <4>3
      <4>6. Means(f, m, Nnf[q], m, 0)
        <5> SUFFICES ASSUME NEW sig, Steady(sig), NEW t \in Int
                     PROVE  Smt(sig, t, Nnf[q], m) <=> Smt(sig, t + 0, f, m)
          BY DEF Means
        <5>1. Smt(sig, t, Nnf[q], m) <=> Smt(sig, t + 0, q, m)
          BY <4>5 DEF Stands, Means
        <5>2. t + 0 = t
          OBVIOUS
        <5> QED
          BY <3>2, <4>4, <5>1, <5>2
      <4> QED
        BY <2>5, <3>1, <4>1, <4>3, <4>5, <4>6 DEF Stands
    <3>5. CASE p.op = "imply"
      <4> DEFINE r == Not(p.right)
                 q == Nnf[r]
                 k == And(<< p.left, q >>)
      <4>1. Nnf[f] = k
        BY <2>1, <2>5, <3>5, NnfCases
      <4>2. r \in NnfVisits(f)
        BY <2>5, <3>5 DEF NnfVisits
      <4>3. k.op = "and" /\ k.args = << p.left, q >>
        BY DEF And
      <4>4. r.op = "not" /\ r.phi = p.right
        BY DEF Not
      <4>5. k \in Formula
        BY <2>1, <4>1
      <4> HIDE DEF p, r, k
      <4>6. p.left \in Formula /\ p.right \in Formula /\ Sound(p.left, m, strict) /\ Sound(p.right, m, strict)
        BY <3>1, <3>5, FormulaShape, SoundFacts, ScopeParts
      <4>7. r \in Formula /\ Sound(r, m, strict) /\ Horizon[r] = Horizon[p.right]
        BY <2>2, <4>2, <4>4, <4>6, NotSound
      <4>8. Stands(r, m, q, m, 0, strict)
        BY <2>2, <4>2, <4>7
      <4> HIDE DEF q
      <4>9. Horizon[p.left] \in Nat /\ Horizon[p.right] \in Nat /\ Horizon[p.left] <= Horizon[p] /\ Horizon[p.right] <= Horizon[p]
        BY <3>1, <3>5, SoundFacts, HorizonOfProper, ScopeParts
      <4>10. q \in Formula /\ Sound(q, m, strict) /\ Horizon[q] \in Nat /\ Horizon[q] <= Horizon[p]
        BY <3>1, <4>7, <4>8, <4>9, SoundFacts, HorizonOfProper DEF Stands
      <4>11. Sound(k, m, strict) /\ Horizon[k] <= Horizon[p]
        <5>1. \A g \in {p.left} \cup {q} : Sound(g, m, strict) /\ Horizon[g] <= Horizon[p]
          BY <4>6, <4>9, <4>10
        <5>2. ToSet(k.args) = {p.left} \cup {q}
          BY <4>3, PairElements
        <5> QED
          BY <3>1, <4>3, <4>5, <5>1, <5>2, JunctionSound
      <4>12. Means(f, m, k, m, 0)
        <5> SUFFICES ASSUME NEW sig, Steady(sig), NEW t \in Int
                     PROVE  Smt(sig, t, k, m) <=> Smt(sig, t + 0, f, m)
          BY DEF Means
        <5>1. Smt(sig, t, q, m) <=> Smt(sig, t + 0, r, m)
          BY <4>8 DEF Stands, Means
        <5>2. t + 0 = t
          OBVIOUS
        <5>3. Smt(sig, t, r, m) <=> ~Smt(sig, t, p.right, m)
          BY <4>4, <4>7, SmtNot
        <5>4. Smt(sig, t, p, m) <=> (Smt(sig, t, p.left, m) => Smt(sig, t, p.right, m))
          BY <3>1, <3>5, SmtImply
        <5>5. Smt(sig, t, k, m) <=> Smt(sig, t, p.left, m) /\ Smt(sig, t, q, m)
          <6>1. ToSet(k.args) = {p.left} \cup {q}
            BY <4>3, PairElements
          <6> QED
            BY <4>3, <4>5, <6>1, JunctionMeans
        <5> QED
          BY <3>2, <5>1, <5>2, <5>3, <5>4, <5>5
      <4> QED
        BY <2>5, <3>1, <4>1, <4>5, <4>11, <4>12 DEF Stands
    <3>6. CASE p.op \in {"and", "or", "G", "F", "U", "R"}
      <4> DEFINE of == [g \in Operands(p) |-> Nnf[Not(g)]]
      <4>1. Nnf[f] = Visited(Dual(p), of)
        BY <2>1, <2>5, <3>6, NnfCases
      <4>2. \A g \in Operands(p) : Not(g) \in NnfVisits(f) /\ of[g] = Nnf[Not(g)]
        BY <2>5, <3>6 DEF NnfVisits
      <4> HIDE DEF of
      <4>3. ASSUME NEW g \in Operands(p) PROVE Denies(g, m, of[g], strict)
        <5> DEFINE r == Not(g)
        <5>1. r.op = "not" /\ r.phi = g
          BY DEF Not
        <5>2. r \in NnfVisits(f) /\ of[g] = Nnf[r]
          BY <4>2
        <5> HIDE DEF r
        <5>3. g \in Formula /\ Sound(g, m, strict)
          BY <3>1, OperandsInFormula, SoundFacts
        <5>4. r \in Formula /\ Sound(r, m, strict) /\ Horizon[r] = Horizon[g]
          BY <2>2, <5>1, <5>2, <5>3, NotSound
        <5>5. Stands(r, m, of[g], m, 0, strict)
          BY <2>2, <5>2, <5>4
        <5>6. Opposites(g, of[g], m)
          <6> SUFFICES ASSUME NEW sig, Steady(sig), NEW t \in Int
                       PROVE  Smt(sig, t, of[g], m) <=> ~Smt(sig, t, g, m)
            BY DEF Opposites
          <6>1. Smt(sig, t, of[g], m) <=> Smt(sig, t + 0, r, m)
            BY <5>5 DEF Stands, Means
          <6>2. Smt(sig, t, r, m) <=> ~Smt(sig, t, g, m)
            BY <5>1, <5>4, SmtNot
          <6>3. t + 0 = t
            OBVIOUS
          <6> QED
            BY <6>1, <6>2, <6>3
        <5>7. Horizon[of[g]] <= Horizon[g]
          <6>1. Horizon[g] \in Nat
            BY <5>3, SoundFacts, HorizonOfProper
          <6> QED
            BY <5>4, <5>5, <6>1 DEF Stands
        <5> QED
          BY <5>5, <5>6, <5>7 DEF Stands, Denies
      <4> QED
        BY <2>1, <2>5, <3>6, <4>1, <4>3, DualStands
    <3>7. p.op \in {"prop", "not", "imply", "and", "or", "G", "F", "U", "R"}
      BY <3>1, FormulaShape
    <3> QED
      BY <3>3, <3>4, <3>5, <3>6, <3>7
  <2> QED
    BY <2>3, <2>4, <2>5
<1>2. Formula \subseteq S
  <2> HIDE DEF S
  <2> QED
    BY <1>1, NnfInduction
<1> QED
  BY <1>2

----------------------------------------------------------------------------
(* Parsed formulas *)
\* What the parser makes is sound: implications come with the opposite of their left part.
LEMMA ParsedSound ==
    ASSUME NEW strict, ~strict
    PROVE  \A f \in Formula : Parsed[f] => \A m \in BOOLEAN : Sound(f, m, strict)
<1> DEFINE P == {f \in Formula : Parsed[f] => \A m \in BOOLEAN : Sound(f, m, strict)}
<1>1. \A f \in Formula :
        Parsed[f] =>
          /\ IsTemporal(f) => f.int \in Interval
          /\ f.op \in {"and", "or"} => f.args # <<>>
          /\ f.op = "imply" => f = Implication(f.left, f.right)
          /\ \A g \in IF f.op = "imply" THEN {f.left, f.right} ELSE Operands(f) : Parsed[g]
  BY ParsedEquation
<1>2. Propositions \subseteq P
  <2> SUFFICES ASSUME NEW f \in Propositions, NEW m \in BOOLEAN PROVE Sound(f, m, strict)
    BY PropositionsInFormula
  <2> QED
    BY PropositionStands
<1>3. ASSUME NEW n \in Nat, n + 1 <= Nesting, FormulaUpTo[n] \subseteq P, NEW f \in Compound(FormulaUpTo[n])
      PROVE  f \in P
  <2> DEFINE S == FormulaUpTo[n]
  <2>1. S \subseteq Formula /\ f \in Formula /\ Compound(S) \subseteq Formula
    BY <1>3, LevelFacts
  <2>2. Operands(f) \subseteq S
    BY CompoundOperands
  <2>3. \A g \in S : Dupe[g] \in S
    <3>1. n <= Nesting
      BY <1>3, LevelFacts
    <3> QED
      BY <3>1, DupeEquation DEF StaysInLevels
  <2>4. S \subseteq P
    BY <1>3
  <2> HIDE DEF S
  <2> SUFFICES ASSUME Parsed[f], NEW m \in BOOLEAN PROVE Sound(f, m, strict)
    BY <2>1
  <2>5. CASE f.op # "imply"
    <3>1. SoundAt(f, m, strict)
      <4>1. f.op \in {"and", "or"} => f.args \in Seq(Formula) /\ f.args # <<>>
        BY <1>1, <2>1, JunctionParts
      <4> QED
        BY <1>1, <2>1, <2>5, <4>1, NotEmpty DEF SoundAt
    <3>2. \A g \in Operands(f) : Parsed[g]
      BY <1>1, <2>1, <2>5
    <3>3. \A g \in Operands(f) : Sound(g, m, strict)
      BY <2>2, <2>4, <3>2
    <3> QED
      BY <2>1, <3>1, <3>3, SoundFacts
  <2>6. CASE f.op = "imply"
    <3> DEFINE l == f.left
               r == f.right
               d == Dupe[l]
               o == Not(d)
    <3>1. Parsed[l] /\ Parsed[r] /\ f = Implication(l, r)
      BY <1>1, <2>1, <2>6
    <3>2. l \in S /\ r \in S /\ l \in Formula
      BY <2>1, <2>2, <2>6, ScopeParts
    <3>3. Sound(l, m, strict) /\ Sound(r, m, strict)
      BY <2>4, <3>1, <3>2
    <3>4. f.notLeft = Nnf[o]
      <4> HIDE DEF l, r
      <4>1. Implication(l, r).notLeft = Nnf[o]
        BY DEF Implication, Imply
      <4> QED
        BY <3>1, <4>1
    <3> HIDE DEF l, r
    <3>5. Stands(l, m, d, m, 0, strict) /\ d \in S /\ d \in Formula
      BY <2>1, <2>3, <3>2, <3>3, DupeStands
    <3>6. o \in Formula /\ o.op = "not" /\ o.phi = d
      <4>1. o \in Compound(S)
        BY <3>5, Built
      <4> QED
        BY <2>1, <4>1 DEF Not
    <3> HIDE DEF o, d
    <3>7. Sound(o, m, strict)
      BY <3>5, <3>6, NotSound DEF Stands
    <3>8. Stands(o, m, f.notLeft, m, 0, strict)
      BY <3>4, <3>6, <3>7, NnfStands
    <3>9. Opposites(l, f.notLeft, m)
      <4> SUFFICES ASSUME NEW sig, Steady(sig), NEW t \in Int
                   PROVE  Smt(sig, t, f.notLeft, m) <=> ~Smt(sig, t, l, m)
        BY DEF Opposites
      <4>1. Smt(sig, t, f.notLeft, m) <=> Smt(sig, t + 0, o, m)
        BY <3>8 DEF Stands, Means
      <4>2. Smt(sig, t, d, m) <=> Smt(sig, t + 0, l, m)
        BY <3>5 DEF Stands, Means
      <4>3. Smt(sig, t, o, m) <=> ~Smt(sig, t, d, m)
        BY <3>6, SmtNot
      <4>4. t + 0 = t
        OBVIOUS
      <4> QED
        BY <4>1, <4>2, <4>3, <4>4
    <3>10. SoundAt(f, m, strict)
      BY <2>6, <3>9 DEF SoundAt, IsTemporal, l
    <3>11. Sound(f.notLeft, m, strict)
      BY <3>8 DEF Stands
    <3>12. \A g \in Operands(f) : Sound(g, m, strict)
      <4>1. Operands(f) = {l, r, f.notLeft}
        BY <2>1, <2>6, ScopeParts DEF l, r
      <4> QED
        BY <3>3, <3>11, <4>1
    <3> QED
      BY <2>1, <3>10, <3>12, SoundFacts
  <2> QED
    BY <2>5, <2>6
<1>4. Formula \subseteq P
  <2> HIDE DEF P
  <2> QED
    BY <1>2, <1>3, LevelwiseInduction
<1> QED
  BY <1>4

----------------------------------------------------------------------------
(* The rewriting of STL, which makes formulas of three times the depth *)

\* Any level, also one above those of Formula
LEMMA LevelAbove ==
    ASSUME NEW n \in Nat
    PROVE  /\ Propositions \subseteq FormulaUpTo[n]
           /\ FormulaUpTo[n] \subseteq FormulaUpTo[n + 1]
           /\ Compound(FormulaUpTo[n]) \subseteq FormulaUpTo[n + 1]
           /\ FormulaUpTo[n + 1] = Propositions \cup Compound(FormulaUpTo[n])
<1>1. Propositions \subseteq FormulaUpTo[n]
  <2>1. CASE n = 0
    BY <2>1, LevelEquations
  <2>2. CASE n # 0
    <3> DEFINE k == n - 1
    <3>1. k \in Nat /\ k + 1 = n
      BY <2>2
    <3> HIDE DEF k
    <3> QED
      BY <3>1, LevelEquations
  <2> QED
    BY <2>1, <2>2
<1> QED
  BY <1>1, LevelEquations, LevelsGrow

\* What stands for an operator of STL nests up to three operators deeper.
LEMMA MltlBuilt ==
    ASSUME NEW n \in Nat, NEW l \in FormulaUpTo[n], NEW r \in FormulaUpTo[n], NEW int \in Times
    PROVE  MltlUntil(int, l, r) \in FormulaUpTo[n + 3] /\ MltlRelease(int, l, r) \in FormulaUpTo[n + 3]
<1> DEFINE S0 == FormulaUpTo[n]
           S1 == FormulaUpTo[n + 1]
           S2 == FormulaUpTo[n + 2]
           S3 == FormulaUpTo[n + 3]
<1>1. /\ S0 \subseteq S1 /\ Compound(S0) \subseteq S1
      /\ S1 \subseteq S2 /\ Compound(S1) \subseteq S2
      /\ S2 \subseteq S3 /\ Compound(S2) \subseteq S3
  <2> DEFINE a == n + 1
             b == n + 2
             c == n + 3
  <2>1. a \in Nat /\ b \in Nat /\ b = a + 1 /\ c = b + 1 /\ a = n + 1
    OBVIOUS
  <2> HIDE DEF a, b, c
  <2>2. /\ FormulaUpTo[n] \subseteq FormulaUpTo[a] /\ Compound(FormulaUpTo[n]) \subseteq FormulaUpTo[a]
        /\ FormulaUpTo[a] \subseteq FormulaUpTo[b] /\ Compound(FormulaUpTo[a]) \subseteq FormulaUpTo[b]
        /\ FormulaUpTo[b] \subseteq FormulaUpTo[c] /\ Compound(FormulaUpTo[b]) \subseteq FormulaUpTo[c]
    BY <2>1, LevelAbove
  <2> QED
    BY <2>2 DEF a, b, c
<1>2. l \in S0 /\ r \in S0
  OBVIOUS
<1> HIDE DEF S0, S1, S2, S3
<1>3. Span(0, int.lower) \in Times /\ Span(int.lower, int.upper) \in Times
  BY DEF Span, Times
<1>4. /\ G(0, int.lower, l) \in S2 /\ F(0, int.lower, l) \in S2 /\ Over("G", int, r) \in S2
  <2>1. /\ Over("G", Span(0, int.lower), l) \in Compound(S0) /\ Over("F", Span(0, int.lower), l) \in Compound(S0)
        /\ Over("G", int, r) \in Compound(S0)
    BY <1>2, <1>3, Built
  <2> QED
    BY <1>1, <2>1 DEF Over, G, F
<1>5. And(<< l, r >>) \in S1
  <2>1. << l, r >> \in Seq(S0)
    BY <1>2
  <2>2. And(<< l, r >>) \in Compound(S0)
    BY <2>1, Built DEF And
  <2> QED
    BY <1>1, <2>2
<1>6. U(int.lower, int.upper, l, And(<< l, r >>)) \in S2 /\ U(int.lower, int.upper, r, l) \in S2
  <2>1. \A x, y \in S1 : U(int.lower, int.upper, x, y) \in Compound(S1)
    BY <1>3, Built DEF U
  <2> QED
    BY <1>1, <1>2, <1>5, <2>1
<1>7. \A x, y \in S2 : And(<< x, y >>) \in S3
  <2> SUFFICES ASSUME NEW x \in S2, NEW y \in S2 PROVE And(<< x, y >>) \in S3
    OBVIOUS
  <2>1. << x, y >> \in Seq(S2)
    OBVIOUS
  <2>2. And(<< x, y >>) \in Compound(S2)
    BY <2>1, Built DEF And
  <2> QED
    BY <1>1, <2>2
<1>8. \A x, y, z \in S2 : Or(<< x, y, z >>) \in S3
  <2> SUFFICES ASSUME NEW x \in S2, NEW y \in S2, NEW z \in S2 PROVE Or(<< x, y, z >>) \in S3
    OBVIOUS
  <2>1. << x, y, z >> \in Seq(S2)
    OBVIOUS
  <2>2. Or(<< x, y, z >>) \in Compound(S2)
    BY <2>1, Built DEF Or
  <2> QED
    BY <1>1, <2>2
<1>9. MltlUntil(int, l, r) \in S3
  BY <1>4, <1>6, <1>7 DEF MltlUntil
<1>10. MltlRelease(int, l, r) \in S3
  BY <1>4, <1>6, <1>8 DEF MltlRelease
<1> QED
  BY <1>9, <1>10 DEF S3

\* The rewriting of STL is defined at every formula, within Formula or not.
LEMMA MltlEquation == \A f \in Formula : Mltl[f] = MltlOf(f, Mltl)
<1> DEFINE V == {0} \cup UNION {FormulaUpTo[n] : n \in Nat}
           W == [n \in Nat |-> FormulaUpTo[3 * n]]
           step == [p \in Formula \X [Formula -> V] |-> MltlOf(p[1], p[2])]
<1>1. V # {}
  OBVIOUS
<1>2. \A n \in Nat : FormulaUpTo[n] \subseteq V
  OBVIOUS
<1>3. W \in [Nat -> SUBSET V]
  <2>1. \A n \in Nat : 3 * n \in Nat
    OBVIOUS
  <2> HIDE DEF V
  <2> QED
    BY <1>2, <2>1
<1>4. \A f \in Formula : \A a \in [Formula -> V] : step[<<f, a>>] = MltlOf(f, a)
  <2> HIDE DEF V
  <2> QED
    OBVIOUS
<1>5. \A n \in Nat : W[n] = FormulaUpTo[3 * n]
  OBVIOUS
<1> HIDE DEF V, W, step
<1>6. ASSUME NEW n \in Nat, n <= Nesting, NEW f \in FormulaUpTo[n], NEW a \in [Formula -> V], NEW b \in [Formula -> V],
             n # 0 => \A g \in FormulaUpTo[n - 1] : a[g] = b[g] /\ a[g] \in W[n - 1]
      PROVE  step[<<f, a>>] = step[<<f, b>>] /\ step[<<f, a>>] \in W[n]
  <2>1. f \in Formula
    BY <1>6, LevelsInFormula
  <2>2. step[<<f, a>>] = MltlOf(f, a) /\ step[<<f, b>>] = MltlOf(f, b)
    BY <1>4, <2>1
  <2>3. CASE f \in Propositions
    <3>1. f.op = "prop"
      BY <2>3, PropositionShape
    <3>2. MltlOf(f, a) = f /\ MltlOf(f, b) = f
      BY <3>1 DEF MltlOf, Visited
    <3>3. Propositions \subseteq FormulaUpTo[3 * n]
      <4> DEFINE k == 3 * n
      <4>1. k \in Nat
        OBVIOUS
      <4> HIDE DEF k
      <4>2. Propositions \subseteq FormulaUpTo[k]
        BY <4>1, LevelAbove
      <4> QED
        BY <4>2 DEF k
    <3> QED
      BY <1>5, <2>2, <2>3, <3>2, <3>3
  <2>4. CASE f \notin Propositions
    <3> DEFINE k == n - 1
               q == 3 * k
    <3>1. n # 0
      BY <2>4, LevelEquations
    <3>2. k \in Nat /\ n = k + 1 /\ q \in Nat /\ 3 * n = q + 3
      BY <3>1
    <3>3. \A g \in FormulaUpTo[k] : a[g] = b[g] /\ a[g] \in W[k]
      BY <1>6, <3>1
    <3>4. W[k] = FormulaUpTo[q] /\ W[n] = FormulaUpTo[q + 3]
      BY <1>5, <3>2
    <3> HIDE DEF q, k
    <3> DEFINE S == FormulaUpTo[k]
               T == FormulaUpTo[q]
    <3>5. f \in Compound(S)
      BY <2>4, <3>2, LevelEquations
    <3>6. Operands(f) \subseteq S
      BY <3>5, CompoundOperands
    <3>7. \A g \in Operands(f) : a[g] = b[g] /\ a[g] \in T
      BY <3>3, <3>4, <3>6
    <3>8. \A int \in Times : \A l, r \in T :
             MltlUntil(int, l, r) \in FormulaUpTo[q + 3] /\ MltlRelease(int, l, r) \in FormulaUpTo[q + 3]
      BY <3>2, MltlBuilt
    <3>9. Compound(T) \subseteq FormulaUpTo[q + 3]
      <4> DEFINE x == q + 1
                 y == q + 2
                 z == q + 3
      <4>1. x \in Nat /\ y \in Nat /\ x = q + 1 /\ y = x + 1 /\ z = y + 1
        BY <3>2
      <4> HIDE DEF x, y, z
      <4>2. Compound(T) \subseteq FormulaUpTo[x] /\ FormulaUpTo[x] \subseteq FormulaUpTo[y] /\ FormulaUpTo[y] \subseteq FormulaUpTo[z]
        BY <3>2, <4>1, LevelAbove
      <4> QED
        BY <4>2 DEF z
    <3> HIDE DEF S, T
    <3>10. CASE f.op \in {"U", "R"}
      <4>1. f.left \in Operands(f) /\ f.right \in Operands(f) /\ f.int \in Times
        BY <2>1, <3>10, ScopeParts, FormulaShape
      <4>2. MltlOf(f, a) = MltlOf(f, b)
        BY <3>7, <3>10, <4>1 DEF MltlOf
      <4>3. MltlOf(f, a) \in FormulaUpTo[q + 3]
        BY <3>7, <3>8, <3>10, <4>1 DEF MltlOf
      <4> QED
        BY <2>2, <3>4, <4>2, <4>3
    <3>11. CASE f.op \notin {"U", "R"}
      <4>1. MltlOf(f, a) = Visited(f, a) /\ MltlOf(f, b) = Visited(f, b)
        BY <3>11 DEF MltlOf
      <4>2. Visited(f, a) = Visited(f, b)
        BY <2>1, <3>7, VisitedSame
      <4>3. Visited(f, a) \in Compound(T)
        BY <3>5, <3>7, VisitedShape, PropositionShape
      <4> QED
        BY <2>2, <3>4, <3>9, <4>1, <4>2, <4>3
    <3> QED
      BY <3>10, <3>11
  <2> QED
    BY <2>3, <2>4
<1>7. DependsOnLevels(step, V, W)
  BY <1>6 DEF DependsOnLevels
<1> HIDE DEF DependsOnLevels
<1>8. PICK h : Recurs(h, step, V, W)
  BY <1>1, <1>3, <1>7, LevelRecursion
<1>9. h = [f \in Formula |-> MltlOf(f, h)]
  BY <1>4, <1>8 DEF Recurs
<1>10. \E x : x = [f \in Formula |-> MltlOf(f, x)]
  BY <1>9, Zenon
<1>11. Mltl = [f \in Formula |-> MltlOf(f, Mltl)]
  BY <1>10, Zenon DEF Mltl
<1> DEFINE x == Mltl
<1>12. x = [f \in Formula |-> MltlOf(f, x)]
  BY <1>11
<1> HIDE DEF x
<1>13. \A f \in Formula : x[f] = MltlOf(f, x)
  BY <1>12
<1> QED
  BY <1>13 DEF x

----------------------------------------------------------------------------
(* The sets of instants of an STL until and release *)

\* The instants of an STL until, of its left part in L and its right part in P, are
\* those of the formula that stands for it.
LEMMA UntilInstants ==
    ASSUME NEW a \in Nat, NEW b \in Nat, NEW L, NEW P
    PROVE  (\E i \in a .. b : i \in P /\ \A j \in 0 .. i : j \in L)
             <=> /\ \A i \in 0 .. a : i \in L
                 /\ \E i \in a .. b : (i \in L /\ i \in P) /\ \A j \in a .. i - 1 : j \in L
<1>1. ASSUME NEW i \in a .. b, i \in P, \A j \in 0 .. i : j \in L
      PROVE  /\ \A j \in 0 .. a : j \in L
             /\ \E k \in a .. b : (k \in L /\ k \in P) /\ \A j \in a .. k - 1 : j \in L
  <2>1. \A j \in 0 .. a : j \in 0 .. i
    OBVIOUS
  <2>2. i \in 0 .. i /\ \A j \in a .. i - 1 : j \in 0 .. i
    OBVIOUS
  <2> QED
    BY <1>1, <2>1, <2>2
<1>2. ASSUME \A i \in 0 .. a : i \in L, NEW i \in a .. b, i \in L, i \in P, \A j \in a .. i - 1 : j \in L
      PROVE  \E k \in a .. b : k \in P /\ \A j \in 0 .. k : j \in L
  <2>1. \A j \in 0 .. i : j \in 0 .. a \/ j \in a .. i - 1 \/ j = i
    OBVIOUS
  <2> QED
    BY <1>2, <2>1
<1> QED
  BY <1>1, <1>2

\* The same of an STL release
LEMMA ReleaseInstants ==
    ASSUME NEW a \in Nat, NEW b \in Nat, NEW L, NEW P
    PROVE  (\A i \in a .. b : i \in P \/ \E j \in 0 .. i : j \in L)
             <=> \/ \E i \in 0 .. a : i \in L
                 \/ \E i \in a .. b : i \in L /\ \A j \in a .. i - 1 : j \in P
                 \/ \A i \in a .. b : i \in P
<1>1. ASSUME \A i \in a .. b : i \in P \/ \E j \in 0 .. i : j \in L
      PROVE  \/ \E i \in 0 .. a : i \in L
             \/ \E i \in a .. b : i \in L /\ \A j \in a .. i - 1 : j \in P
             \/ \A i \in a .. b : i \in P
  <2> DEFINE S == {i \in a .. b : i \notin P}
  <2>1. CASE S = {}
    BY <2>1
  <2>2. CASE S # {}
    <3>1. S \in SUBSET Nat
      OBVIOUS
    <3>2. PICK i \in S : \A k \in S : i <= k
      <4> HIDE DEF S
      <4> QED
        BY <2>2, <3>1, SmallestElement
    <3>3. i \in a .. b /\ i \notin P
      BY <3>2
    <3>4. PICK j \in 0 .. i : j \in L
      BY <1>1, <3>3
    <3>5. CASE j <= a
      <4>1. j \in 0 .. a
        BY <3>4, <3>5
      <4> QED
        BY <3>4, <4>1
    <3>6. CASE ~(j <= a)
      <4>1. j \in a .. b /\ j <= i
        BY <3>3, <3>4, <3>6
      <4>2. \A q \in a .. j - 1 : q \in a .. b /\ ~(i <= q)
        BY <3>3, <4>1
      <4>3. \A q \in a .. j - 1 : q \in P
        BY <3>2, <4>2
      <4> QED
        BY <3>4, <4>1, <4>3
    <3> QED
      BY <3>5, <3>6
  <2> QED
    BY <2>1, <2>2
<1>2. ASSUME NEW q \in 0 .. a, q \in L, NEW i \in a .. b PROVE \E j \in 0 .. i : j \in L
  <2>1. q \in 0 .. i
    OBVIOUS
  <2> QED
    BY <1>2, <2>1
<1>3. ASSUME NEW q \in a .. b, q \in L, \A j \in a .. q - 1 : j \in P, NEW i \in a .. b
      PROVE  i \in P \/ \E j \in 0 .. i : j \in L
  <2>1. i \in a .. q - 1 \/ q \in 0 .. i
    OBVIOUS
  <2> QED
    BY <1>3, <2>1
<1> QED
  BY <1>1, <1>2, <1>3

\* What the visits of the operands of a formula in Formula are
LEMMA VisitedInFormula ==
    ASSUME NEW f \in Formula, NEW of, Visited(f, of) \in Formula
    PROVE  VisitsTo(f, of, Visited(f, of)) /\ \A g \in Operands(f) : of[g] \in Formula
<1> DEFINE T == {of[g] : g \in Operands(f)}
           k == Visited(f, of)
<1>1. f \in Propositions \cup Compound(Formula)
  BY FormulaCases
<1>2. \A g \in Operands(f) : of[g] \in T
  OBVIOUS
<1> HIDE DEF T
<1>3. VisitsTo(f, of, k)
  BY <1>1, <1>2, VisitedShape
<1>4. k \in Formula
  OBVIOUS
<1> HIDE DEF k
<1>5. Operands(k) \subseteq Formula
  BY <1>4, OperandsInFormula
<1>6. \A g \in Operands(f) : of[g] \in Operands(k)
  <2>1. CASE f.op = "prop"
    BY <2>1, ScopeParts DEF Operands
  <2>2. CASE f.op \in {"not", "G", "F"}
    BY <1>3, <1>4, <2>2, ScopeParts DEF VisitsTo
  <2>3. CASE f.op \in {"and", "or"}
    BY <1>3, <1>4, <2>3, ScopeParts DEF VisitsTo
  <2>4. CASE f.op = "imply"
    BY <1>3, <1>4, <2>4, ScopeParts DEF VisitsTo
  <2>5. CASE f.op \in {"U", "R"}
    BY <1>3, <1>4, <2>5, ScopeParts DEF VisitsTo
  <2> QED
    BY <2>1, <2>2, <2>3, <2>4, <2>5, FormulaShape
<1> QED
  BY <1>3, <1>5, <1>6 DEF k

\* The parts of what stands for an STL until
LEMMA MltlUntilParts ==
    ASSUME NEW int, NEW l, NEW r, NEW k \in Formula, k = MltlUntil(int, l, r)
    PROVE  \E g, u, w \in Formula :
             /\ k.op = "and" /\ k.args = << g, u >> /\ l \in Formula /\ r \in Formula
             /\ g.op = "G" /\ g.int = Span(0, int.lower) /\ g.phi = l
             /\ u.op = "U" /\ u.int = Span(int.lower, int.upper) /\ u.left = l /\ u.right = w
             /\ w.op = "and" /\ w.args = << l, r >>
<1> DEFINE g == G(0, int.lower, l)
           w == And(<< l, r >>)
           u == U(int.lower, int.upper, l, w)
<1>1. k.op = "and" /\ k.args = << g, u >>
  BY DEF MltlUntil, And
<1>2. g.op = "G" /\ g.int = Span(0, int.lower) /\ g.phi = l
  BY DEF G
<1>3. w.op = "and" /\ w.args = << l, r >>
  BY DEF And
<1>4. u.op = "U" /\ u.int = Span(int.lower, int.upper) /\ u.left = l /\ u.right = w
  BY DEF U
<1> HIDE DEF g, w, u
<1>5. g \in Formula /\ u \in Formula
  <2>1. Operands(k) = {g, u}
    BY <1>1, JunctionParts, PairElements
  <2> QED
    BY <2>1, OperandsInFormula
<1>6. l \in Formula /\ w \in Formula
  BY <1>4, <1>5, FormulaShape
<1>7. r \in Formula
  <2>1. Operands(w) = {l, r}
    BY <1>3, <1>6, JunctionParts, PairElements
  <2> QED
    BY <1>6, <2>1, OperandsInFormula
<1> QED
  BY <1>1, <1>2, <1>3, <1>4, <1>5, <1>6, <1>7

\* The elements of a triple
LEMMA TripleElements == \A a, b, c : ToSet(<< a, b, c >>) = {a, b, c}
BY DEF ToSet

\* The parts of what stands for an STL release
LEMMA MltlReleaseParts ==
    ASSUME NEW int, NEW l, NEW r, NEW k \in Formula, k = MltlRelease(int, l, r)
    PROVE  \E g, u, w \in Formula :
             /\ k.op = "or" /\ k.args = << g, u, w >> /\ l \in Formula /\ r \in Formula
             /\ g.op = "F" /\ g.int = Span(0, int.lower) /\ g.phi = l
             /\ u.op = "U" /\ u.int = Span(int.lower, int.upper) /\ u.left = r /\ u.right = l
             /\ w.op = "G" /\ w.int = int /\ w.phi = r
<1> DEFINE g == F(0, int.lower, l)
           u == U(int.lower, int.upper, r, l)
           w == Over("G", int, r)
<1>1. k.op = "or" /\ k.args = << g, u, w >>
  BY DEF MltlRelease, Or
<1>2. g.op = "F" /\ g.int = Span(0, int.lower) /\ g.phi = l
  BY DEF F
<1>3. w.op = "G" /\ w.int = int /\ w.phi = r
  BY DEF Over
<1>4. u.op = "U" /\ u.int = Span(int.lower, int.upper) /\ u.left = r /\ u.right = l
  BY DEF U
<1> HIDE DEF g, w, u
<1>5. g \in Formula /\ u \in Formula /\ w \in Formula
  <2>1. Operands(k) = {g, u, w}
    BY <1>1, JunctionParts, TripleElements
  <2> QED
    BY <2>1, OperandsInFormula
<1>6. l \in Formula /\ r \in Formula
  BY <1>4, <1>5, FormulaShape
<1> QED
  BY <1>1, <1>2, <1>3, <1>4, <1>5, <1>6

\* The facts about an operator of STL and its rewritten parts that both cases use
LEMMA MltlOperand ==
    ASSUME NEW f \in Formula, f.op \in {"U", "R"}, NEW m, NEW n, NEW strict, Sound(f, m, strict),
           NEW l, NEW r, Stands(f.left, m, l, n, 0, strict), Stands(f.right, m, r, n, 0, strict)
    PROVE  /\ f.int \in Interval /\ f.int.lower \in Nat /\ f.int.upper \in Nat /\ f.int.lower <= f.int.upper
           /\ Span(0, f.int.lower) \in Interval /\ Span(f.int.lower, f.int.upper) \in Interval
           /\ l \in Formula /\ r \in Formula /\ Sound(l, n, strict) /\ Sound(r, n, strict)
           /\ Horizon[f] \in Nat /\ Horizon[f] - f.int.upper \in Nat
           /\ Horizon[l] \in Nat /\ Horizon[r] \in Nat
           /\ f.int.upper + Horizon[l] <= Horizon[f] /\ f.int.upper + Horizon[r] <= Horizon[f]
<1>1. IsTemporal(f) /\ SoundAt(f, m, strict) /\ Proper(f)
  BY SoundFacts DEF IsTemporal
<1>2. f.int \in Interval /\ f.int.lower \in Nat /\ f.int.upper \in Nat /\ f.int.lower <= f.int.upper
  BY <1>1 DEF SoundAt, Interval
<1>3. Span(0, f.int.lower) \in Interval /\ Span(f.int.lower, f.int.upper) \in Interval
  BY <1>2 DEF Span, Interval
<1>4. /\ Horizon[f] \in Nat /\ Horizon[f.left] \in Nat /\ Horizon[f.right] \in Nat
      /\ f.int.upper + Horizon[f.left] <= Horizon[f] /\ f.int.upper + Horizon[f.right] <= Horizon[f]
  <2>1. f.left \in Scope(f) /\ f.right \in Scope(f)
    BY ScopeParts
  <2> QED
    BY <1>1, <2>1, HorizonOfProper
<1>5. /\ l \in Formula /\ r \in Formula /\ Sound(l, n, strict) /\ Sound(r, n, strict)
      /\ Horizon[l] <= Horizon[f.left] + 0 /\ Horizon[r] <= Horizon[f.right] + 0
  BY DEF Stands
<1>6. Horizon[l] \in Nat /\ Horizon[r] \in Nat
  BY <1>5, SoundFacts, HorizonOfProper
<1> QED
  BY <1>2, <1>3, <1>4, <1>5, <1>6

\* An STL until is rewritten to a formula of MLTL that stands for it.
LEMMA MltlUntilStands ==
    ASSUME NEW f \in Formula, f.op = "U", NEW m \in BOOLEAN, ~m, NEW n \in BOOLEAN, n, NEW strict,
           Sound(f, m, strict), NEW l, NEW r,
           Stands(f.left, m, l, n, 0, strict), Stands(f.right, m, r, n, 0, strict),
           NEW k \in Formula, k = MltlUntil(f.int, l, r)
    PROVE  Stands(f, m, k, n, 0, strict)
<1> DEFINE a == f.int.lower
           b == f.int.upper
           c == Horizon[f] - b
<1>1. PICK g \in Formula, u \in Formula, w \in Formula :
             /\ k.op = "and" /\ k.args = << g, u >> /\ l \in Formula /\ r \in Formula
             /\ g.op = "G" /\ g.int = Span(0, a) /\ g.phi = l
             /\ u.op = "U" /\ u.int = Span(a, b) /\ u.left = l /\ u.right = w
             /\ w.op = "and" /\ w.args = << l, r >>
  BY MltlUntilParts
<1>2. /\ a \in Nat /\ b \in Nat /\ a <= b
      /\ Span(0, a) \in Interval /\ Span(a, b) \in Interval
      /\ Sound(l, n, strict) /\ Sound(r, n, strict)
      /\ Horizon[f] \in Nat /\ c \in Nat
      /\ Horizon[l] \in Nat /\ Horizon[r] \in Nat
      /\ b + Horizon[l] <= Horizon[f] /\ b + Horizon[r] <= Horizon[f]
  BY MltlOperand
<1>3. Horizon[l] <= c /\ Horizon[r] <= c /\ a + Horizon[l] <= Horizon[f]
  BY <1>2
<1>4. Sound(w, n, strict) /\ Horizon[w] <= c
  <2> HIDE DEF c
  <2>1. ToSet(w.args) = {l} \cup {r}
    BY <1>1, PairElements
  <2>2. \A h \in {l} \cup {r} : Sound(h, n, strict) /\ Horizon[h] <= c
    BY <1>2, <1>3
  <2> QED
    BY <1>1, <1>2, <2>1, <2>2, JunctionSound
<1>5. Sound(g, n, strict) /\ Horizon[g] <= Horizon[f]
  <2>1. g.int \in Interval /\ g.int.upper = a
    BY <1>1, <1>2 DEF Span
  <2>2. g.int.upper + Horizon[g.phi] <= Horizon[f] /\ Sound(g.phi, n, strict)
    BY <1>1, <1>2, <1>3, <2>1
  <2> QED
    BY <1>1, <1>2, <2>1, <2>2, UnarySound
<1>6. Sound(u, n, strict) /\ Horizon[u] <= Horizon[f]
  <2>1. u.int \in Interval /\ u.int.upper = b
    BY <1>1, <1>2 DEF Span
  <2>2. Horizon[w] \in Nat
    BY <1>4, SoundFacts, HorizonOfProper
  <2>3. b + Horizon[w] <= Horizon[f]
    BY <1>2, <1>4, <2>2
  <2> HIDE DEF c
  <2> QED
    BY <1>1, <1>2, <1>4, <2>1, <2>3, BinarySound
<1>7. Sound(k, n, strict) /\ Horizon[k] <= Horizon[f]
  <2>1. ToSet(k.args) = {g} \cup {u}
    BY <1>1, PairElements
  <2>2. \A h \in {g} \cup {u} : Sound(h, n, strict) /\ Horizon[h] <= Horizon[f]
    BY <1>5, <1>6
  <2> QED
    BY <1>1, <1>2, <2>1, <2>2, JunctionSound
<1>8. Means(f, m, k, n, 0)
  <2> SUFFICES ASSUME NEW sig, Steady(sig), NEW t \in Int
               PROVE  Smt(sig, t, k, n) <=> Smt(sig, t + 0, f, m)
    BY DEF Means
  <2> HIDE DEF a, b, c
  <2> DEFINE L == {i \in Int : Smt(sig, t + i, l, n)}
             P == {i \in Int : Smt(sig, t + i, r, n)}
  <2>1. \A i \in Int : t + i \in Int /\ (Smt(sig, t + i, f.left, m) <=> i \in L) /\ (Smt(sig, t + i, f.right, m) <=> i \in P)
    <3> SUFFICES ASSUME NEW i \in Int
                 PROVE  /\ t + i \in Int
                        /\ Smt(sig, t + i, f.left, m) <=> Smt(sig, t + i, l, n)
                        /\ Smt(sig, t + i, f.right, m) <=> Smt(sig, t + i, r, n)
      OBVIOUS
    <3> DEFINE v == t + i
    <3>1. v \in Int /\ v + 0 = v
      OBVIOUS
    <3> HIDE DEF v
    <3>2. (Smt(sig, v, l, n) <=> Smt(sig, v + 0, f.left, m)) /\ (Smt(sig, v, r, n) <=> Smt(sig, v + 0, f.right, m))
      BY <3>1 DEF Stands, Means
    <3> QED
      BY <3>1, <3>2 DEF v
  <2>2. \A i \in Int : (i \in L <=> Smt(sig, t + i, l, n)) /\ (i \in P <=> Smt(sig, t + i, r, n))
    OBVIOUS
  <2> HIDE DEF L, P
  <2>3. Smt(sig, t, f, m) <=> \E i \in a .. b : i \in P /\ \A j \in 0 .. i : j \in L
    <3>1. Smt(sig, t, f, m) <=> \E i \in a .. b :
             Smt(sig, t + i, f.right, m) /\ \A j \in Lefts(f.int, i, m) : Smt(sig, t + j, f.left, m)
      BY SmtUntil DEF a, b
    <3>2. \A i \in a .. b : i \in Int /\ Lefts(f.int, i, m) = 0 .. i /\ \A j \in 0 .. i : j \in Int
      BY <1>2 DEF Lefts
    <3> QED
      BY <2>1, <3>1, <3>2
  <2>4. Smt(sig, t, w, n) <=> Smt(sig, t, l, n) /\ Smt(sig, t, r, n)
    <3>1. ToSet(w.args) = {l} \cup {r}
      BY <1>1, PairElements
    <3>2. Smt(sig, t, w, n) <=> \A x \in ToSet(w.args) : Smt(sig, t, x, n)
      BY <1>1, JunctionMeans
    <3> QED
      BY <3>1, <3>2
  <2>5. \A i \in Int : Smt(sig, t + i, w, n) <=> i \in L /\ i \in P
    <3> SUFFICES ASSUME NEW i \in Int PROVE Smt(sig, t + i, w, n) <=> i \in L /\ i \in P
      OBVIOUS
    <3> DEFINE v == t + i
    <3>1. v \in Int
      OBVIOUS
    <3> HIDE DEF v
    <3>2. ToSet(w.args) = {l} \cup {r}
      BY <1>1, PairElements
    <3>3. Smt(sig, v, w, n) <=> \A x \in ToSet(w.args) : Smt(sig, v, x, n)
      BY <1>1, <3>1, JunctionMeans
    <3>4. Smt(sig, v, w, n) <=> Smt(sig, v, l, n) /\ Smt(sig, v, r, n)
      BY <3>2, <3>3
    <3> QED
      BY <2>2, <3>4 DEF v
  <2>6. Smt(sig, t, g, n) <=> \A i \in 0 .. a : i \in L
    <3>1. g.int.lower = 0 /\ g.int.upper = a /\ g.phi = l
      BY <1>1 DEF Span
    <3>2. Smt(sig, t, g, n) <=> \A i \in g.int.lower .. g.int.upper : Smt(sig, t + i, g.phi, n)
      BY <1>1, SmtGlobally
    <3>3. \A i \in 0 .. a : i \in Int
      OBVIOUS
    <3> QED
      BY <2>2, <3>1, <3>2, <3>3
  <2>7. Smt(sig, t, u, n) <=> \E i \in a .. b : (i \in L /\ i \in P) /\ \A j \in a .. i - 1 : j \in L
    <3>1. u.int.lower = a /\ u.int.upper = b /\ u.left = l /\ u.right = w
      BY <1>1 DEF Span
    <3>4. Smt(sig, t, u, n) <=> \E i \in u.int.lower .. u.int.upper :
             Smt(sig, t + i, u.right, n) /\ \A j \in Lefts(u.int, i, n) : Smt(sig, t + j, u.left, n)
      BY <1>1, SmtUntil
    <3>2. Smt(sig, t, u, n) <=> \E i \in a .. b :
             Smt(sig, t + i, w, n) /\ \A j \in Lefts(u.int, i, n) : Smt(sig, t + j, l, n)
      BY <3>1, <3>4
    <3>3. \A i \in a .. b : i \in Int /\ Lefts(u.int, i, n) = a .. i - 1 /\ \A j \in a .. i - 1 : j \in Int
      BY <1>2, <3>1 DEF Lefts
    <3> QED
      BY <2>2, <2>5, <3>2, <3>3
  <2>8. Smt(sig, t, k, n) <=> Smt(sig, t, g, n) /\ Smt(sig, t, u, n)
    <3>1. ToSet(k.args) = {g} \cup {u}
      BY <1>1, PairElements
    <3> QED
      BY <1>1, <3>1, JunctionMeans
  <2>9. (\E i \in a .. b : i \in P /\ \A j \in 0 .. i : j \in L)
             <=> /\ \A i \in 0 .. a : i \in L
                 /\ \E i \in a .. b : (i \in L /\ i \in P) /\ \A j \in a .. i - 1 : j \in L
    BY <1>2, UntilInstants
  <2>10. t + 0 = t
    OBVIOUS
  <2> QED
    BY <2>3, <2>6, <2>7, <2>8, <2>9, <2>10
<1>9. Horizon[k] <= Horizon[f] + 0
  BY <1>2, <1>7
<1> QED
  BY <1>7, <1>8, <1>9 DEF Stands

\* An STL release is, too.
LEMMA MltlReleaseStands ==
    ASSUME NEW f \in Formula, f.op = "R", NEW m \in BOOLEAN, ~m, NEW n \in BOOLEAN, n, NEW strict,
           Sound(f, m, strict), NEW l, NEW r,
           Stands(f.left, m, l, n, 0, strict), Stands(f.right, m, r, n, 0, strict),
           NEW k \in Formula, k = MltlRelease(f.int, l, r)
    PROVE  Stands(f, m, k, n, 0, strict)
<1> DEFINE a == f.int.lower
           b == f.int.upper
<1>1. PICK g \in Formula, u \in Formula, w \in Formula :
             /\ k.op = "or" /\ k.args = << g, u, w >> /\ l \in Formula /\ r \in Formula
             /\ g.op = "F" /\ g.int = Span(0, a) /\ g.phi = l
             /\ u.op = "U" /\ u.int = Span(a, b) /\ u.left = r /\ u.right = l
             /\ w.op = "G" /\ w.int = f.int /\ w.phi = r
  BY MltlReleaseParts
<1>2. /\ a \in Nat /\ b \in Nat /\ a <= b /\ f.int \in Interval
      /\ Span(0, a) \in Interval /\ Span(a, b) \in Interval
      /\ Sound(l, n, strict) /\ Sound(r, n, strict)
      /\ Horizon[f] \in Nat
      /\ Horizon[l] \in Nat /\ Horizon[r] \in Nat
      /\ b + Horizon[l] <= Horizon[f] /\ b + Horizon[r] <= Horizon[f]
  BY MltlOperand
<1>3. a + Horizon[l] <= Horizon[f]
  BY <1>2
<1>4. Sound(w, n, strict) /\ Horizon[w] <= Horizon[f]
  <2>1. w.int \in Interval /\ w.int.upper + Horizon[w.phi] <= Horizon[f] /\ Sound(w.phi, n, strict)
    BY <1>1, <1>2
  <2> QED
    BY <1>1, <1>2, <2>1, UnarySound
<1>5. Sound(g, n, strict) /\ Horizon[g] <= Horizon[f]
  <2>1. g.int \in Interval /\ g.int.upper = a
    BY <1>1, <1>2 DEF Span
  <2>2. g.int.upper + Horizon[g.phi] <= Horizon[f] /\ Sound(g.phi, n, strict)
    BY <1>1, <1>2, <1>3, <2>1
  <2> QED
    BY <1>1, <1>2, <2>1, <2>2, UnarySound
<1>6. Sound(u, n, strict) /\ Horizon[u] <= Horizon[f]
  <2>1. u.int \in Interval /\ u.int.upper = b
    BY <1>1, <1>2 DEF Span
  <2>2. /\ u.int.upper + Horizon[u.left] <= Horizon[f] /\ u.int.upper + Horizon[u.right] <= Horizon[f]
        /\ Sound(u.left, n, strict) /\ Sound(u.right, n, strict)
    BY <1>1, <1>2, <2>1
  <2> QED
    BY <1>1, <1>2, <2>1, <2>2, BinarySound
<1>7. ToSet(k.args) = {g} \cup {u} \cup {w}
  <2>1. {g, u, w} = {g} \cup {u} \cup {w}
    OBVIOUS
  <2> QED
    BY <1>1, <2>1, TripleElements
<1>8. Sound(k, n, strict) /\ Horizon[k] <= Horizon[f]
  <2>1. \A h \in {g} \cup {u} \cup {w} : Sound(h, n, strict) /\ Horizon[h] <= Horizon[f]
    BY <1>4, <1>5, <1>6
  <2> QED
    BY <1>1, <1>2, <1>7, <2>1, JunctionSound
<1>9. Means(f, m, k, n, 0)
  <2> SUFFICES ASSUME NEW sig, Steady(sig), NEW t \in Int
               PROVE  Smt(sig, t, k, n) <=> Smt(sig, t + 0, f, m)
    BY DEF Means
  <2> HIDE DEF a, b
  <2> DEFINE L == {i \in Int : Smt(sig, t + i, l, n)}
             P == {i \in Int : Smt(sig, t + i, r, n)}
  <2>1. \A i \in Int : t + i \in Int /\ (Smt(sig, t + i, f.left, m) <=> i \in L) /\ (Smt(sig, t + i, f.right, m) <=> i \in P)
    <3> SUFFICES ASSUME NEW i \in Int
                 PROVE  /\ t + i \in Int
                        /\ Smt(sig, t + i, f.left, m) <=> Smt(sig, t + i, l, n)
                        /\ Smt(sig, t + i, f.right, m) <=> Smt(sig, t + i, r, n)
      OBVIOUS
    <3> DEFINE v == t + i
    <3>1. v \in Int /\ v + 0 = v
      OBVIOUS
    <3> HIDE DEF v
    <3>2. (Smt(sig, v, l, n) <=> Smt(sig, v + 0, f.left, m)) /\ (Smt(sig, v, r, n) <=> Smt(sig, v + 0, f.right, m))
      BY <3>1 DEF Stands, Means
    <3> QED
      BY <3>1, <3>2 DEF v
  <2>2. \A i \in Int : (i \in L <=> Smt(sig, t + i, l, n)) /\ (i \in P <=> Smt(sig, t + i, r, n))
    OBVIOUS
  <2> HIDE DEF L, P
  <2>3. Smt(sig, t, f, m) <=> \A i \in a .. b : i \in P \/ \E j \in 0 .. i : j \in L
    <3>1. Smt(sig, t, f, m) <=> \A i \in a .. b :
             Smt(sig, t + i, f.right, m) \/ \E j \in Lefts(f.int, i, m) : Smt(sig, t + j, f.left, m)
      BY SmtRelease DEF a, b
    <3>2. \A i \in a .. b : i \in Int /\ Lefts(f.int, i, m) = 0 .. i /\ \A j \in 0 .. i : j \in Int
      BY <1>2 DEF Lefts
    <3> QED
      BY <2>1, <3>1, <3>2
  <2>4. Smt(sig, t, g, n) <=> \E i \in 0 .. a : i \in L
    <3>1. g.int.lower = 0 /\ g.int.upper = a /\ g.phi = l
      BY <1>1 DEF Span
    <3>2. Smt(sig, t, g, n) <=> \E i \in g.int.lower .. g.int.upper : Smt(sig, t + i, g.phi, n)
      BY <1>1, SmtFinally
    <3>3. \A i \in 0 .. a : i \in Int
      OBVIOUS
    <3> QED
      BY <2>2, <3>1, <3>2, <3>3
  <2>5. Smt(sig, t, u, n) <=> \E i \in a .. b : i \in L /\ \A j \in a .. i - 1 : j \in P
    <3>1. u.int.lower = a /\ u.int.upper = b /\ u.left = r /\ u.right = l
      BY <1>1 DEF Span
    <3>4. Smt(sig, t, u, n) <=> \E i \in u.int.lower .. u.int.upper :
             Smt(sig, t + i, u.right, n) /\ \A j \in Lefts(u.int, i, n) : Smt(sig, t + j, u.left, n)
      BY <1>1, SmtUntil
    <3>2. Smt(sig, t, u, n) <=> \E i \in a .. b :
             Smt(sig, t + i, l, n) /\ \A j \in Lefts(u.int, i, n) : Smt(sig, t + j, r, n)
      BY <3>1, <3>4
    <3>3. \A i \in a .. b : i \in Int /\ Lefts(u.int, i, n) = a .. i - 1 /\ \A j \in a .. i - 1 : j \in Int
      BY <1>2, <3>1 DEF Lefts
    <3> QED
      BY <2>2, <3>2, <3>3
  <2>6. Smt(sig, t, w, n) <=> \A i \in a .. b : i \in P
    <3>1. Smt(sig, t, w, n) <=> \A i \in a .. b : Smt(sig, t + i, r, n)
      <4>1. Smt(sig, t, w, n) <=> \A i \in w.int.lower .. w.int.upper : Smt(sig, t + i, w.phi, n)
        BY <1>1, SmtGlobally
      <4> QED
        BY <1>1, <4>1 DEF a, b
    <3>2. \A i \in a .. b : i \in Int
      OBVIOUS
    <3> QED
      BY <2>2, <3>1, <3>2
  <2>7. Smt(sig, t, k, n) <=> Smt(sig, t, g, n) \/ Smt(sig, t, u, n) \/ Smt(sig, t, w, n)
    <3>1. Smt(sig, t, k, n) <=> \E h \in ToSet(k.args) : Smt(sig, t, h, n)
      BY <1>1, JunctionMeans
    <3> QED
      BY <1>7, <3>1
  <2>8. (\A i \in a .. b : i \in P \/ \E j \in 0 .. i : j \in L)
             <=> \/ \E i \in 0 .. a : i \in L
                 \/ \E i \in a .. b : i \in L /\ \A j \in a .. i - 1 : j \in P
                 \/ \A i \in a .. b : i \in P
    BY <1>2, ReleaseInstants
  <2>9. t + 0 = t
    OBVIOUS
  <2> QED
    BY <2>3, <2>4, <2>5, <2>6, <2>7, <2>8, <2>9
<1>10. Horizon[k] <= Horizon[f] + 0
  BY <1>2, <1>8
<1> QED
  BY <1>8, <1>9, <1>10 DEF Stands

\* The other operators mean the same in both semantics.
LEMMA VisitedAcross ==
    ASSUME NEW f \in Formula, NEW m \in BOOLEAN, NEW n \in BOOLEAN, NEW strict, NEW of,
           Sound(f, m, strict), f.op \notin {"U", "R"},
           Visited(f, of) \in Formula, OperandsStand(f, m, of, n, 0, strict)
    PROVE  Stands(f, m, Visited(f, of), n, 0, strict)
BY VisitedStands

\* The rewritten formula of MLTL stands for the formula of STL.
LEMMA MltlStands ==
    ASSUME NEW m \in BOOLEAN, ~m, NEW n \in BOOLEAN, n, NEW strict
    PROVE  \A f \in Formula : Sound(f, m, strict) /\ Mltl[f] \in Formula =>
               Stands(f, m, Mltl[f], n, 0, strict)
<1> DEFINE S == {f \in Formula : Sound(f, m, strict) /\ Mltl[f] \in Formula =>
                    Stands(f, m, Mltl[f], n, 0, strict) /\ (f.op = "prop" => Mltl[f].op = "prop")}
<1>1. ASSUME NEW f \in Formula, Operands(f) \subseteq S PROVE f \in S
  <2> SUFFICES ASSUME Sound(f, m, strict), Mltl[f] \in Formula
               PROVE  Stands(f, m, Mltl[f], n, 0, strict) /\ (f.op = "prop" => Mltl[f].op = "prop")
    OBVIOUS
  <2>1. Mltl[f] = MltlOf(f, Mltl)
    BY MltlEquation
  <2>2. \A g \in Operands(f) : Mltl[g] \in Formula =>
            Stands(g, m, Mltl[g], n, 0, strict) /\ (g.op = "prop" => Mltl[g].op = "prop")
    BY <1>1, SoundFacts
  <2> HIDE DEF S
  <2>3. CASE f.op \notin {"U", "R"}
    <3>1. Mltl[f] = Visited(f, Mltl)
      BY <2>1, <2>3 DEF MltlOf
    <3>2. VisitsTo(f, Mltl, Mltl[f]) /\ \A g \in Operands(f) : Mltl[g] \in Formula
      BY <3>1, VisitedInFormula
    <3>3. OperandsStand(f, m, Mltl, n, 0, strict)
      BY <2>2, <3>2 DEF OperandsStand
    <3>4. Stands(f, m, Visited(f, Mltl), n, 0, strict)
      <4>1. Visited(f, Mltl) \in Formula
        BY <3>1
      <4> QED
        BY <2>3, <3>3, <4>1, VisitedAcross
    <3> QED
      BY <3>1, <3>2, <3>4 DEF VisitsTo
  <2>4. CASE f.op = "U"
    <3>1. Mltl[f] = MltlUntil(f.int, Mltl[f.left], Mltl[f.right])
      BY <2>1, <2>4 DEF MltlOf
    <3>2. Mltl[f.left] \in Formula /\ Mltl[f.right] \in Formula
      BY <3>1, MltlUntilParts
    <3>3. Stands(f.left, m, Mltl[f.left], n, 0, strict) /\ Stands(f.right, m, Mltl[f.right], n, 0, strict)
      BY <2>2, <2>4, <3>2, ScopeParts
    <3> QED
      BY <2>4, <3>1, <3>3, MltlUntilStands
  <2>5. CASE f.op = "R"
    <3>1. Mltl[f] = MltlRelease(f.int, Mltl[f.left], Mltl[f.right])
      BY <2>1, <2>5 DEF MltlOf
    <3>2. Mltl[f.left] \in Formula /\ Mltl[f.right] \in Formula
      BY <3>1, MltlReleaseParts
    <3>3. Stands(f.left, m, Mltl[f.left], n, 0, strict) /\ Stands(f.right, m, Mltl[f.right], n, 0, strict)
      BY <2>2, <2>5, <3>2, ScopeParts
    <3> QED
      BY <2>5, <3>1, <3>3, MltlReleaseStands
  <2> QED
    BY <2>3, <2>4, <2>5
<1>2. Formula \subseteq S
  <2> HIDE DEF S
  <2> QED
    BY <1>1, FormulaInduction
<1> QED
  BY <1>2

----------------------------------------------------------------------------
(* Flattening *)
\* A junction may take in its operands of the same kind.
LEMMA SplicedStands ==
    ASSUME NEW f \in Formula, f.op \in {"and", "or"}, NEW m, NEW strict, Sound(f, m, strict),
           NEW k \in Formula, k.op = f.op,
           ToSet(k.args) = UNION {IF g.op = f.op THEN ToSet(g.args) ELSE {g} : g \in ToSet(f.args)}
    PROVE  Stands(f, m, k, m, 0, strict)
<1> DEFINE b == Horizon[f]
           A == ToSet(f.args)
           B == ToSet(k.args)
<1>1. /\ \A g \in A : g.op # f.op => g \in B
      /\ \A g \in A : g.op = f.op => ToSet(g.args) \subseteq B
      /\ \A h \in B : h \in A \/ \E g \in A : g.op = f.op /\ h \in ToSet(g.args)
  OBVIOUS
<1>2. Operands(f) = A /\ Scope(f) = A
  BY JunctionParts
<1>3. \A g \in A : g \in Formula /\ Sound(g, m, strict)
  BY <1>2, SoundFacts, OperandsInFormula
<1>4. b \in Nat /\ \A g \in A : Horizon[g] \in Nat /\ Horizon[g] <= b
  BY <1>2, SoundFacts, HorizonOfProper
<1> HIDE DEF A, B, b
<1>5. ASSUME NEW g \in A, g.op = f.op, NEW h \in ToSet(g.args)
      PROVE  Sound(h, m, strict) /\ Horizon[h] <= b
  <2>1. g \in Formula /\ Sound(g, m, strict) /\ g.op \in {"and", "or"}
    BY <1>3, <1>5
  <2>2. Operands(g) = ToSet(g.args) /\ Scope(g) = ToSet(g.args)
    BY <2>1, JunctionParts
  <2>3. Sound(h, m, strict)
    BY <1>5, <2>1, <2>2, SoundFacts
  <2>4. Horizon[h] \in Nat /\ Horizon[h] <= Horizon[g]
    BY <1>5, <2>1, <2>2, SoundFacts, HorizonOfProper
  <2> QED
    BY <1>4, <2>3, <2>4
<1>6. Sound(k, m, strict) /\ Horizon[k] <= b
  <2>1. \A h \in B : Sound(h, m, strict) /\ Horizon[h] <= b
    BY <1>1, <1>3, <1>4, <1>5
  <2>2. \A g \in Formula : g.op \in {"and", "or"} /\ Sound(g, m, strict) => ToSet(g.args) # {}
    BY SoundFacts, NotEmpty DEF SoundAt
  <2>3. PICK g \in A : TRUE
    BY <2>2 DEF A
  <2>4. B # {}
    <3>1. CASE g.op = f.op
      <4>1. ToSet(g.args) # {}
        BY <1>3, <2>2, <3>1
      <4> QED
        BY <1>1, <3>1, <4>1
    <3>2. CASE g.op # f.op
      BY <1>1, <3>2
    <3> QED
      BY <3>1, <3>2
  <2> QED
    BY <1>4, <2>1, <2>4, JunctionSound DEF B
<1>7. Means(f, m, k, m, 0)
  <2> SUFFICES ASSUME NEW sig, NEW t \in Int PROVE Smt(sig, t, k, m) <=> Smt(sig, t + 0, f, m)
    BY DEF Means
  <2>1. t + 0 = t
    OBVIOUS
  <2>2. CASE f.op = "and"
    <3>1. Smt(sig, t, f, m) <=> \A g \in A : Smt(sig, t, g, m)
      BY <2>2, JunctionMeans DEF A
    <3>2. Smt(sig, t, k, m) <=> \A h \in B : Smt(sig, t, h, m)
      BY <2>2, JunctionMeans DEF B
    <3>3. \A g \in A : g.op = "and" => (Smt(sig, t, g, m) <=> \A h \in ToSet(g.args) : Smt(sig, t, h, m))
      BY <1>3, JunctionMeans
    <3>4. ASSUME Smt(sig, t, f, m), NEW h \in B PROVE Smt(sig, t, h, m)
      BY <1>1, <2>2, <3>1, <3>3, <3>4
    <3>5. ASSUME Smt(sig, t, k, m), NEW g \in A PROVE Smt(sig, t, g, m)
      <4>1. CASE g.op = f.op
        BY <1>1, <2>2, <3>2, <3>3, <3>5, <4>1
      <4>2. CASE g.op # f.op
        BY <1>1, <3>2, <3>5, <4>2
      <4> QED
        BY <4>1, <4>2
    <3> QED
      BY <2>1, <3>1, <3>2, <3>4, <3>5
  <2>3. CASE f.op = "or"
    <3>1. Smt(sig, t, f, m) <=> \E g \in A : Smt(sig, t, g, m)
      BY <2>3, JunctionMeans DEF A
    <3>2. Smt(sig, t, k, m) <=> \E h \in B : Smt(sig, t, h, m)
      BY <2>3, JunctionMeans DEF B
    <3>3. \A g \in A : g.op = "or" => (Smt(sig, t, g, m) <=> \E h \in ToSet(g.args) : Smt(sig, t, h, m))
      BY <1>3, JunctionMeans
    <3>4. ASSUME NEW h \in B, Smt(sig, t, h, m) PROVE Smt(sig, t, f, m)
      BY <1>1, <2>3, <3>1, <3>3, <3>4
    <3>5. ASSUME NEW g \in A, Smt(sig, t, g, m) PROVE Smt(sig, t, k, m)
      <4>1. CASE g.op = f.op
        BY <1>1, <2>3, <3>2, <3>3, <3>5, <4>1
      <4>2. CASE g.op # f.op
        BY <1>1, <3>2, <3>5, <4>2
      <4> QED
        BY <4>1, <4>2
    <3> QED
      BY <2>1, <3>1, <3>2, <3>4, <3>5
  <2> QED
    BY <2>2, <2>3
<1>8. Horizon[k] <= Horizon[f] + 0
  BY <1>4, <1>6 DEF b
<1> QED
  BY <1>6, <1>7, <1>8 DEF Stands

\* What FlatJunction makes of a junction
LEMMA FlatJunctionArgs ==
    ASSUME NEW v \in Formula, v.op \in {"and", "or"}, NEW k, k = FlatJunction(v)
    PROVE  /\ k.op = v.op
           /\ ToSet(k.args) = UNION {IF g.op = v.op THEN ToSet(g.args) ELSE {g} : g \in ToSet(v.args)}
<1>1. v = [op |-> v.op, args |-> v.args] /\ v.args \in Seq(Formula)
  BY FormulaShape
<1>2. \A g \in Formula : g.op \in {"and", "or"} => g.args \in Seq(Formula)
  BY FormulaShape
<1>3. \A g \in Formula : g.op = v.op => g.args \in Seq(Formula)
  BY <1>2
<1> DEFINE fs == Spliced(v.op, v.args)
<1>4. ToSet(fs) = UNION {IF g.op = v.op THEN ToSet(g.args) ELSE {g} : g \in ToSet(v.args)}
  BY <1>1, <1>3, SplicedElements
<1>5. k = [v EXCEPT !.args = fs]
  BY DEF FlatJunction
<1> HIDE DEF fs
<1>6. k.op = v.op /\ k.args = fs
  BY <1>1, <1>5
<1> QED
  BY <1>4, <1>6

\* What a transformer that stays in the levels visits is a formula.
LEMMA VisitedInLevels ==
    ASSUME NEW f \in Formula, NEW x, StaysInLevels(x)
    PROVE  Visited(f, x) \in Formula /\ VisitsTo(f, x, Visited(f, x))
<1>1. Visited(f, x) \in Formula
  <2>1. CASE f \in Propositions
    <3>1. Visited(f, x) = f
      BY <2>1, PropositionShape DEF Visited
    <3> QED
      BY <3>1
  <2>2. CASE f \notin Propositions
    <3> DEFINE n == Nesting - 1
    <3>1. Nesting \in Nat /\ Nesting # 0
      BY <2>2, LevelEquations, NestingAssumption DEF Formula
    <3>2. n \in Nat /\ n + 1 = Nesting /\ n <= Nesting
      BY <3>1
    <3> HIDE DEF n
    <3>3. f \in Compound(FormulaUpTo[n])
      BY <2>2, <3>2, LevelFacts DEF Formula
    <3>4. Operands(f) \subseteq FormulaUpTo[n]
      BY <3>3, CompoundOperands
    <3>5. \A g \in Operands(f) : x[g] \in FormulaUpTo[n]
      BY <3>2, <3>4 DEF StaysInLevels
    <3>6. Visited(f, x) \in Propositions \cup Compound(FormulaUpTo[n])
      BY <3>3, <3>5, VisitedShape
    <3> QED
      BY <3>2, <3>6, LevelFacts
  <2> QED
    BY <2>1, <2>2
<1> QED
  BY <1>1, VisitedInFormula

\* The flat formula stands for the formula.
LEMMA FlatStands ==
    ASSUME NEW m \in BOOLEAN, NEW strict
    PROVE  \A f \in Formula : Sound(f, m, strict) =>
               Stands(f, m, Flat[f], m, 0, strict) /\ (f.op = "prop" => Flat[f].op = "prop")
<1> DEFINE S == {f \in Formula : Sound(f, m, strict) =>
                    Stands(f, m, Flat[f], m, 0, strict) /\ (f.op = "prop" => Flat[f].op = "prop")}
<1>1. ASSUME NEW f \in Formula, Operands(f) \subseteq S PROVE f \in S
  <2> SUFFICES ASSUME Sound(f, m, strict)
               PROVE  Stands(f, m, Flat[f], m, 0, strict) /\ (f.op = "prop" => Flat[f].op = "prop")
    OBVIOUS
  <2> DEFINE v == Visited(f, Flat)
             k == Flat[f]
  <2>1. k = FlatJunction(v) /\ k \in Formula
    BY FlatEquation DEF FlatOf, StaysInLevels
  <2>2. OperandsStand(f, m, Flat, m, 0, strict)
    BY <1>1, SoundFacts DEF OperandsStand
  <2>3. v \in Formula /\ v.op = f.op
    BY VisitedInLevels, FlatEquation DEF VisitsTo
  <2>4. Stands(f, m, v, m, 0, strict)
    BY <2>2, <2>3, VisitedStands
  <2> HIDE DEF v, k
  <2>5. CASE f.op \in {"and", "or"}
    <3>1. v.op \in {"and", "or"}
      BY <2>3, <2>5
    <3>2. k.op = v.op /\ ToSet(k.args) = UNION {IF g.op = v.op THEN ToSet(g.args) ELSE {g} : g \in ToSet(v.args)}
      BY <2>1, <2>3, <3>1, FlatJunctionArgs
    <3>3. Sound(v, m, strict)
      BY <2>4 DEF Stands
    <3>4. Stands(v, m, k, m, 0, strict)
      BY <2>1, <2>3, <3>1, <3>2, <3>3, SplicedStands
    <3>5. Proper(f)
      BY SoundFacts
    <3>6. Stands(f, m, k, m, 0 + 0, strict)
      BY <2>4, <3>4, <3>5, StandsInTurn
    <3> QED
      BY <2>5, <3>6 DEF k
  <2>6. CASE f.op \notin {"and", "or"}
    <3>1. k = v
      BY <2>1, <2>3, <2>6 DEF FlatJunction
    <3> QED
      BY <2>3, <2>4, <3>1 DEF k
  <2> QED
    BY <2>5, <2>6
<1>2. Formula \subseteq S
  <2> HIDE DEF S
  <2> QED
    BY <1>1, FormulaInduction
<1> QED
  BY <1>2

\* Nothing below f has an operand of its own junction.
FlatForm(f) ==
    \A g \in Subformulas[f] : g.op \in {"and", "or"} => \A h \in Operands(g) : h.op # g.op

\* A formula is flat if its operands are, and are no junctions of its kind.
LEMMA FlatFormFacts ==
    ASSUME NEW f \in Formula
    PROVE  FlatForm(f) <=> /\ f.op \in {"and", "or"} => \A h \in Operands(f) : h.op # f.op
                           /\ \A g \in Operands(f) : FlatForm(g)
<1> DEFINE P(g) == g.op \in {"and", "or"} => \A h \in Operands(g) : h.op # g.op
<1>1. \A g \in Subformulas[f] : g = f \/ \E o \in Operands(f) : g \in Subformulas[o]
  BY PartsOf
<1>2. f \in Subformulas[f] /\ \A g \in Operands(f) : Subformulas[g] \subseteq Subformulas[f]
  BY PartsOf
<1>3. \A g : FlatForm(g) <=> \A h \in Subformulas[g] : P(h)
  BY DEF FlatForm
<1>4. P(f) <=> (f.op \in {"and", "or"} => \A h \in Operands(f) : h.op # f.op)
  OBVIOUS
<1> HIDE DEF P
<1> QED
  BY <1>1, <1>2, <1>3, <1>4

\* Passes that keep the operators
LEMMA FlatFormKept ==
    ASSUME NEW f \in Formula, NEW k \in Formula, FlatForm(f), k.op = f.op,
           \A h \in Operands(k) : FlatForm(h) /\ \E g \in Operands(f) : h.op = g.op
    PROVE  FlatForm(k)
<1>1. f.op \in {"and", "or"} => \A g \in Operands(f) : g.op # f.op
  BY FlatFormFacts
<1> QED
  BY <1>1, FlatFormFacts

\* The operands of a visited formula are the visited operands.
LEMMA VisitedOperands ==
    ASSUME NEW f \in Formula, NEW k \in Formula, NEW of, VisitsTo(f, of, k)
    PROVE  /\ \A h \in Operands(k) : \E g \in Operands(f) : h = of[g]
           /\ \A g \in Operands(f) : of[g] \in Operands(k)
<1>1. k.op = f.op
  BY DEF VisitsTo
<1>2. CASE f.op = "prop"
  BY <1>1, <1>2 DEF Operands
<1>3. CASE f.op \in {"and", "or"}
  <2>1. DOMAIN k.args = DOMAIN f.args /\ \A i \in DOMAIN f.args : k.args[i] = of[f.args[i]]
    BY <1>3 DEF VisitsTo
  <2>2. Operands(f) = {f.args[i] : i \in DOMAIN f.args} /\ Operands(k) = {k.args[i] : i \in DOMAIN k.args}
    BY <1>1, <1>3, ScopeParts
  <2> QED
    BY <2>1, <2>2
<1>4. CASE f.op \in {"not", "G", "F"}
  <2>1. Operands(f) = {f.phi} /\ Operands(k) = {k.phi}
    BY <1>1, <1>4, ScopeParts
  <2> QED
    BY <1>4, <2>1 DEF VisitsTo
<1>5. CASE f.op \in {"U", "R"}
  <2>1. Operands(f) = {f.left, f.right} /\ Operands(k) = {k.left, k.right}
    BY <1>1, <1>5, ScopeParts
  <2> QED
    BY <1>5, <2>1 DEF VisitsTo
<1>6. CASE f.op = "imply"
  <2>1. Operands(f) = {f.left, f.right, f.notLeft} /\ Operands(k) = {k.left, k.right, k.notLeft}
    BY <1>1, <1>6, ScopeParts
  <2> QED
    BY <1>6, <2>1 DEF VisitsTo
<1> QED
  BY <1>2, <1>3, <1>4, <1>5, <1>6, FormulaShape

\* Flattening leaves no junction below one of its kind.
LEMMA FlatMakesFlat == \A f \in Formula : FlatForm(Flat[f])
<1> DEFINE S == {f \in Formula : FlatForm(Flat[f])}
<1>1. ASSUME NEW f \in Formula, Operands(f) \subseteq S PROVE FlatForm(Flat[f])
  <2> DEFINE v == Visited(f, Flat)
             k == Flat[f]
  <2>1. k = FlatJunction(v) /\ k \in Formula
    BY FlatEquation DEF FlatOf, StaysInLevels
  <2>2. v \in Formula /\ v.op = f.op /\ VisitsTo(f, Flat, v)
    BY VisitedInLevels, FlatEquation DEF VisitsTo
  <2>3. \A h \in Operands(v) : h \in Formula /\ FlatForm(h)
    <3>1. \A h \in Operands(v) : \E g \in Operands(f) : h = Flat[g]
      BY <2>2, VisitedOperands
    <3> QED
      BY <1>1, <3>1, <2>2, OperandsInFormula
  <2> HIDE DEF v, k
  <2>4. CASE f.op \in {"and", "or"}
    <3>1. v.op \in {"and", "or"}
      BY <2>2, <2>4
    <3>2. k.op = v.op /\ ToSet(k.args) = UNION {IF g.op = v.op THEN ToSet(g.args) ELSE {g} : g \in ToSet(v.args)}
      BY <2>1, <2>2, <3>1, FlatJunctionArgs
    <3>3. Operands(v) = ToSet(v.args) /\ Operands(k) = ToSet(k.args)
      BY <2>1, <2>2, <3>1, <3>2, JunctionParts
    <3>4. ASSUME NEW h \in Operands(k) PROVE h.op # v.op /\ FlatForm(h)
      <4>1. PICK g \in ToSet(v.args) : h \in IF g.op = v.op THEN ToSet(g.args) ELSE {g}
        BY <3>2, <3>3, <3>4
      <4>2. g \in Formula /\ FlatForm(g)
        BY <2>3, <3>3, <4>1
      <4>3. CASE g.op = v.op
        <5>1. h \in Operands(g)
          BY <3>1, <4>1, <4>2, <4>3, JunctionParts
        <5> QED
          BY <3>1, <4>2, <4>3, <5>1, FlatFormFacts
      <4>4. CASE g.op # v.op
        BY <4>1, <4>2, <4>4
      <4> QED
        BY <4>3, <4>4
    <3> QED
      BY <2>1, <3>2, <3>4, FlatFormFacts DEF k
  <2>5. CASE f.op \notin {"and", "or"}
    <3>1. k = v
      BY <2>1, <2>2, <2>5 DEF FlatJunction
    <3> QED
      BY <2>2, <2>3, <2>5, <3>1, FlatFormFacts DEF k
  <2> QED
    BY <2>4, <2>5
<1>2. Formula \subseteq S
  <2>1. \A f \in Formula : Operands(f) \subseteq S => f \in S
    BY <1>1
  <2> HIDE DEF S
  <2> QED
    BY <2>1, FormulaInduction
<1> QED
  BY <1>2

----------------------------------------------------------------------------
(* Shifting *)
\* The operators that a shift keeps
LEMMA ShiftBackwardForm ==
    ASSUME NEW s \in Int
    PROVE  \A f \in Formula :
               /\ ShiftBackward(s)[f].op = f.op
               /\ FlatForm(f) => FlatForm(ShiftBackward(s)[f])
<1> DEFINE x == ShiftBackward(s)
           S == {f \in Formula : x[f].op = f.op /\ (FlatForm(f) => FlatForm(x[f]))}
<1>1. /\ \A f \in Formula : x[f] = ShiftBackwardOf(f, s, x)
      /\ StaysInLevels(x)
  BY ShiftBackwardEquation
<1> HIDE DEF x
<1>2. ASSUME NEW f \in Formula, Operands(f) \subseteq S
      PROVE  x[f].op = f.op /\ (FlatForm(f) => FlatForm(x[f]))
  <2>1. x[f] = ShiftBackwardOf(f, s, x) /\ x[f] \in Formula
    BY <1>1 DEF StaysInLevels
  <2>2. CASE IsTemporal(f)
    <3>1. x[f] = [f EXCEPT !.int = ShiftLeft(f.int, s)]
      BY <2>1, <2>2 DEF ShiftBackwardOf
    <3>2. x[f].op = f.op /\ Operands(x[f]) = Operands(f)
      BY <2>2, <3>1, FormulaShape DEF IsTemporal, Operands
    <3> QED
      BY <2>1, <2>2, <3>2, FlatFormFacts DEF IsTemporal
  <2>3. CASE ~IsTemporal(f)
    <3>1. x[f] = Visited(f, x)
      BY <2>1, <2>3 DEF ShiftBackwardOf
    <3>2. VisitsTo(f, x, x[f])
      BY <1>1, <3>1, VisitedInLevels
    <3>3. x[f].op = f.op
      BY <3>2 DEF VisitsTo
    <3>4. \A h \in Operands(x[f]) : \E g \in Operands(f) : h = x[g]
      BY <2>1, <3>2, VisitedOperands
    <3>5. ASSUME FlatForm(f) PROVE FlatForm(x[f])
      <4>1. \A g \in Operands(f) : FlatForm(g)
        BY <3>5, FlatFormFacts
      <4>2. \A g \in Operands(f) : FlatForm(x[g]) /\ x[g].op = g.op
        BY <1>2, <4>1
      <4>3. \A h \in Operands(x[f]) : FlatForm(h) /\ \E g \in Operands(f) : h.op = g.op
        BY <3>4, <4>2
      <4> QED
        BY <2>1, <3>3, <3>5, <4>3, FlatFormKept
    <3> QED
      BY <3>3, <3>5
  <2> QED
    BY <2>2, <2>3
<1>3. Formula \subseteq S
  <2>1. \A f \in Formula : Operands(f) \subseteq S => f \in S
    BY <1>2
  <2> HIDE DEF S
  <2> QED
    BY <2>1, FormulaInduction
<1> QED
  BY <1>3 DEF x

\* A formula whose parts all wait for s instants means what it meant s instants later.
LEMMA ShiftBackwardStands ==
    ASSUME NEW m \in BOOLEAN, m, NEW strict, NEW s \in Nat, NEW z \in Int, z = -s
    PROVE  \A f \in Formula : Sound(f, m, strict) /\ s <= GetShift[f] =>
               Stands(f, m, ShiftBackward(s)[f], m, z, strict)
<1> DEFINE x == ShiftBackward(s)
           S == {f \in Formula : Sound(f, m, strict) /\ s <= GetShift[f] => Stands(f, m, x[f], m, z, strict)}
<1>1. /\ \A f \in Formula : x[f] = ShiftBackwardOf(f, s, x)
      /\ StaysInLevels(x)
  BY ShiftBackwardEquation
<1>2. \A f \in Formula : x[f].op = f.op
  BY ShiftBackwardForm
<1> HIDE DEF x
<1>3. ASSUME NEW f \in Formula, Operands(f) \subseteq S, Sound(f, m, strict), s <= GetShift[f]
      PROVE  Stands(f, m, x[f], m, z, strict)
  <2> DEFINE k == x[f]
  <2>1. k = ShiftBackwardOf(f, s, x) /\ k \in Formula
    BY <1>1, <1>3 DEF StaysInLevels
  <2>2. SoundAt(f, m, strict) /\ \A g \in Operands(f) : Sound(g, m, strict)
    BY <1>3, SoundFacts
  <2>3. CASE IsTemporal(f)
    <3>1. k = [f EXCEPT !.int = ShiftLeft(f.int, s)]
      BY <2>1, <2>3 DEF ShiftBackwardOf
    <3> HIDE DEF k
    <3>2. f.int \in Interval /\ f.int.lower \in Nat /\ f.int.upper \in Nat /\ f.int.lower <= f.int.upper
      BY <2>2, <2>3 DEF SoundAt, Interval
    <3>3. s <= f.int.lower
      BY <1>3, <2>3, GetShiftFacts
    <3>4. ShiftLeft(f.int, s) = Span(f.int.lower + z, f.int.upper + z)
      <4>1. f.int.lower - s = f.int.lower + z /\ f.int.upper - s = f.int.upper + z /\ f.int.lower - s >= 0
        BY <3>2, <3>3
      <4> QED
        BY <4>1 DEF ShiftLeft, Greater
    <3>5. k.op = f.op /\ k.int = ShiftLeft(f.int, s)
          /\ (f.op \in {"G", "F"} => k.phi = f.phi)
          /\ (f.op \in {"U", "R"} => k.left = f.left /\ k.right = f.right)
      BY <1>3, <2>3, <3>1, FormulaShape DEF IsTemporal
    <3>6. k.int.lower = f.int.lower + z /\ k.int.upper = f.int.upper + z
      BY <3>4, <3>5 DEF Span
    <3>7. k.int \in Interval
      BY <3>2, <3>3, <3>4, <3>5 DEF Span, Interval
    <3>8. \A g \in Operands(f) : Stands(g, m, g, m, z - z, strict)
      <4>1. z - z = 0
        OBVIOUS
      <4> QED
        BY <1>3, <2>2, <4>1, StandsForItself, OperandsInFormula
    <3>9. Carried(f, m, k, m, z, z, strict)
      <4>1. Scope(f) # {}
        BY <1>3, <2>3, ScopeParts DEF IsTemporal
      <4>2. f.op \in {"G", "F"} => f.phi \in Operands(f)
        BY <1>3, ScopeParts
      <4>3. f.op \in {"U", "R"} => f.left \in Operands(f) /\ f.right \in Operands(f)
        BY <1>3, ScopeParts
      <4>4. f.op \notin {"prop", "not", "and", "or", "imply"}
        BY <2>3 DEF IsTemporal
      <4> QED
        BY <2>3, <3>5, <3>6, <3>7, <3>8, <4>1, <4>2, <4>3, <4>4 DEF Carried
    <3> QED
      BY <1>3, <2>1, <3>9, CarriedStands DEF k
  <2>4. CASE ~IsTemporal(f)
    <3>1. k = Visited(f, x)
      BY <2>1, <2>4 DEF ShiftBackwardOf
    <3>2. f.op \in {"and", "or", "imply"} /\ Operands(f) # {}
      <4>1. GetShift[f] # NoShift
        BY <1>3 DEF NoShift
      <4> QED
        BY <1>3, <2>4, <4>1, GetShiftFacts, FormulaShape DEF IsTemporal
    <3>3. \A g \in Operands(f) : s <= GetShift[g]
      <4>1. \A g \in Operands(f) : GetShift[f] <= GetShift[g] /\ GetShift[g] \in Int /\ GetShift[f] \in Int
        BY <1>3, <3>2, GetShiftFacts, OperandsInFormula
      <4> QED
        BY <1>3, <4>1
    <3>4. OperandsStand(f, m, x, m, z, strict)
      BY <1>2, <1>3, <2>2, <3>3, OperandsInFormula DEF OperandsStand
    <3>5. Scope(f) # {}
      BY <1>3, <3>2, ScopeParts
    <3>6. f.op \notin {"U", "R"} /\ f.op # "prop"
      BY <3>2
    <3> HIDE DEF S, k
    <3>7. Stands(f, m, Visited(f, x), m, z, strict)
      BY <1>3, <2>1, <2>4, <3>1, <3>4, <3>5, <3>6, VisitedStands
    <3> QED
      BY <3>1, <3>7 DEF k
  <2> QED
    BY <2>3, <2>4
<1>4. Formula \subseteq S
  <2>1. \A f \in Formula : Operands(f) \subseteq S => f \in S
    BY <1>3
  <2> HIDE DEF S
  <2> QED
    BY <2>1, FormulaInduction
<1> QED
  BY <1>4 DEF x

\* What MoveShift leaves as it is
LEMMA MoveShiftParts ==
    ASSUME NEW S, NEW f \in Formula, f \in Compound(S), IsTemporal(f), NEW k, k = MoveShift(f),
           \A s \in Int : \A g \in S : ShiftBackward(s)[g] \in S
    PROVE  /\ k \in Compound(S)
           /\ k.op = f.op
           /\ CommonShift(f) = NoShift => k = f
           /\ CommonShift(f) # NoShift =>
                /\ k.int = ShiftRight(f.int, CommonShift(f))
                /\ f.op \in {"G", "F"} => k.phi = ShiftBackward(CommonShift(f))[f.phi]
                /\ f.op \in {"U", "R"} => /\ k.left = ShiftBackward(CommonShift(f))[f.left]
                                          /\ k.right = ShiftBackward(CommonShift(f))[f.right]
<1> DEFINE s == CommonShift(f)
           x == ShiftBackward(s)
           w == [f EXCEPT !.int = ShiftRight(f.int, s)]
<1>1. s \in Int
  BY CommonShiftFacts
<1>2. k = IF s = NoShift THEN f ELSE Visited(w, x)
  BY DEF MoveShift
<1>3. f.int \in Times
  BY FormulaShape DEF IsTemporal
<1>4. /\ w \in Compound(S) /\ w.op = f.op /\ w.int = ShiftRight(f.int, s)
      /\ f.op \in {"G", "F"} => w.phi = f.phi
      /\ f.op \in {"U", "R"} => w.left = f.left /\ w.right = f.right
  BY <1>1, <1>3, WithInt, ShiftedTimes
<1>5. \A g \in S : x[g] \in S
  BY <1>1
<1> HIDE DEF s, x, w
<1>6. IsTemporal(w) /\ w.op # "prop"
  BY <1>4 DEF IsTemporal
<1>7. \A g \in Operands(w) : x[g] \in S
  BY <1>4, <1>5, CompoundOperands
<1>8. Visited(w, x) \in Compound(S) /\ VisitsTo(w, x, Visited(w, x))
  BY <1>4, <1>6, <1>7, VisitedShape
<1>9. CASE s = NoShift
  BY <1>2, <1>9 DEF s
<1>10. CASE s # NoShift
  <2>1. k = Visited(w, x)
    BY <1>2, <1>10
  <2>2. k \in Compound(S) /\ k.op = f.op /\ k.int = ShiftRight(f.int, s)
    BY <1>4, <1>6, <1>8, <2>1 DEF VisitsTo
  <2>3. f.op \in {"G", "F"} => k.phi = x[f.phi]
    BY <1>4, <1>8, <2>1 DEF VisitsTo
  <2>4. f.op \in {"U", "R"} => k.left = x[f.left] /\ k.right = x[f.right]
    BY <1>4, <1>8, <2>1 DEF VisitsTo
  <2> QED
    BY <1>10, <2>2, <2>3, <2>4 DEF s, x
<1> QED
  BY <1>9, <1>10

----------------------------------------------------------------------------
(* Taking a common shift out of operands *)

\* The semantics of the tableau
AsMltl(m) == m = TRUE

\* k can take the place of f.
Keeps(f, m, k, strict) == Stands(f, m, k, m, 0, strict)

\* A temporal operator with moved bounds over operands that are moved the other way
LEMMA TemporalStands ==
    ASSUME NEW f \in Formula, IsTemporal(f), NEW k \in Formula, NEW m \in BOOLEAN, NEW strict,
           Sound(f, m, strict), NEW s \in Int, NEW d \in Int, NEW z, z = s - d, AsMltl(m) \/ d = 0,
           k.op = f.op, k.int \in Interval,
           k.int.lower = f.int.lower + d, k.int.upper = f.int.upper + d,
           f.op \in {"G", "F"} => Stands(f.phi, m, k.phi, m, z, strict),
           f.op \in {"U", "R"} => Stands(f.left, m, k.left, m, z, strict) /\ Stands(f.right, m, k.right, m, z, strict)
    PROVE  Stands(f, m, k, m, s, strict)
<1>1. f.op \notin {"prop", "not", "and", "or", "imply"}
  BY DEF IsTemporal
<1>2. Scope(f) # {}
  BY ScopeParts DEF IsTemporal
<1>3. Carried(f, m, k, m, s, d, strict)
  BY <1>1, <1>2 DEF Carried, AsMltl
<1> QED
  BY <1>3, CarriedStands

\* The same for an operator that stays at its instant
LEMMA TemporalKeeps ==
    ASSUME NEW f \in Formula, IsTemporal(f), NEW k \in Formula, NEW m \in BOOLEAN, NEW strict,
           Sound(f, m, strict), NEW d \in Int, NEW z, z = -d, AsMltl(m) \/ d = 0,
           k.op = f.op, k.int \in Interval,
           k.int.lower = f.int.lower + d, k.int.upper = f.int.upper + d,
           f.op \in {"G", "F"} => Stands(f.phi, m, k.phi, m, z, strict),
           f.op \in {"U", "R"} => Stands(f.left, m, k.left, m, z, strict) /\ Stands(f.right, m, k.right, m, z, strict)
    PROVE  Keeps(f, m, k, strict)
<1>1. z = 0 - d
  OBVIOUS
<1>2. Stands(f, m, k, m, 0, strict)
  BY <1>1, TemporalStands
<1> QED
  BY <1>2 DEF Keeps

\* A sound formula keeps its place.
LEMMA KeepsItself ==
    ASSUME NEW f \in Formula, NEW m, NEW strict, Sound(f, m, strict)
    PROVE  Keeps(f, m, f, strict)
BY StandsForItself DEF Keeps

\* What takes its place is a sound formula.
LEMMA KeepsFacts ==
    ASSUME NEW f, NEW m, NEW k, NEW strict, Keeps(f, m, k, strict)
    PROVE  k \in Formula /\ Sound(k, m, strict)
BY DEF Keeps, Stands

\* Taking places is transitive.
LEMMA KeepsInTurn ==
    ASSUME NEW f \in Formula, NEW g, NEW h, NEW m \in BOOLEAN, NEW strict,
           Sound(f, m, strict), Keeps(f, m, g, strict), Keeps(g, m, h, strict)
    PROVE  Keeps(f, m, h, strict)
<1>1. Proper(f)
  BY SoundFacts
<1>2. Stands(f, m, g, m, 0, strict) /\ Stands(g, m, h, m, 0, strict)
  BY DEF Keeps
<1>3. Stands(f, m, h, m, 0 + 0, strict)
  BY <1>1, <1>2, StandsInTurn
<1> QED
  BY <1>3 DEF Keeps

\* A visit whose results take the places of the operands takes the place of the formula.
LEMMA VisitedKeeps ==
    ASSUME NEW f \in Formula, NEW m \in BOOLEAN, NEW strict, NEW of,
           Sound(f, m, strict), Visited(f, of) \in Formula,
           \A g \in Operands(f) : Keeps(g, m, of[g], strict) /\ (g.op = "prop" => of[g].op = "prop")
    PROVE  Keeps(f, m, Visited(f, of), strict)
<1>1. OperandsStand(f, m, of, m, 0, strict)
  BY DEF OperandsStand, Keeps
<1>2. Stands(f, m, Visited(f, of), m, 0, strict)
  BY <1>1, VisitedStands
<1> QED
  BY <1>2 DEF Keeps

\* ShiftBounds is defined at every formula and does not nest deeper.
LEMMA ShiftBoundsEquation ==
    /\ \A f \in Formula : ShiftBounds[f] = ShiftBoundsOf(f, ShiftBounds)
    /\ StaysInLevels(ShiftBounds)
<1> DEFINE step == [p \in Formula \X [Formula -> Formula] |-> ShiftBoundsOf(p[1], p[2])]
<1>1. ASSUME NEW f \in Propositions, NEW a, NEW b
      PROVE  ShiftBoundsOf(f, a) = ShiftBoundsOf(f, b) /\ ShiftBoundsOf(f, a) \in Propositions
  <2>1. f.op = "prop"
    BY PropositionShape
  <2> QED
    BY <2>1 DEF ShiftBoundsOf, Visited, IsTemporal
<1>2. ASSUME NEW n \in Nat, n + 1 <= Nesting, NEW f \in Compound(FormulaUpTo[n]), NEW a, NEW b,
             \A g \in FormulaUpTo[n] : a[g] = b[g] /\ a[g] \in FormulaUpTo[n]
      PROVE  ShiftBoundsOf(f, a) = ShiftBoundsOf(f, b) /\ ShiftBoundsOf(f, a) \in FormulaUpTo[n + 1]
  <2>1. f.op # "prop" /\ Operands(f) \subseteq FormulaUpTo[n] /\ f \in Formula
    BY <1>2, PropositionShape, CompoundOperands, LevelFacts
  <2>2. Visited(f, a) = Visited(f, b)
    BY <1>2, <2>1, VisitedSame
  <2>3. Visited(f, a) \in Compound(FormulaUpTo[n])
    BY <1>2, <2>1, VisitedShape
  <2>4. Visited(f, a).op = f.op /\ Visited(f, a) \in Formula
    BY <1>2, <2>1, <2>3, VisitedShape, LevelFacts DEF VisitsTo
  <2> DEFINE v == Visited(f, a)
             S == FormulaUpTo[n]
  <2>5. CASE IsTemporal(f)
    <3>1. IsTemporal(v)
      BY <2>4, <2>5 DEF IsTemporal
    <3>2. \A s \in Int : \A g \in S : ShiftBackward(s)[g] \in S
      BY <1>2, ShiftBackwardEquation, LevelFacts DEF StaysInLevels
    <3>3. MoveShift(v) \in Compound(S)
      <4> HIDE DEF v, S
      <4> QED
        BY <2>3, <2>4, <3>1, <3>2, MoveShiftParts DEF v, S
    <3> QED
      BY <1>2, <2>2, <2>5, <3>3, LevelFacts DEF ShiftBoundsOf
  <2>6. CASE ~IsTemporal(f)
    BY <1>2, <2>2, <2>3, <2>6, LevelFacts DEF ShiftBoundsOf
  <2> QED
    BY <2>5, <2>6
<1>3. \A f \in Formula : \A a \in [Formula -> Formula] : step[<<f, a>>] = ShiftBoundsOf(f, a)
  OBVIOUS
<1> HIDE DEF step
<1>4. PreservesLevels(step)
  <2>1. \A n \in Nat : n + 1 <= Nesting => Compound(FormulaUpTo[n]) \subseteq Formula
    BY LevelFacts
  <2> QED
    BY <1>1, <1>2, <1>3, <2>1, PropositionsInFormula DEF PreservesLevels
<1>5. PICK h \in [Formula -> Formula] : \A f \in Formula : h[f] = step[<<f, h>>]
  BY <1>4, LevelMap
<1>6. h = [f \in Formula |-> ShiftBoundsOf(f, h)]
  BY <1>3, <1>5
<1>7. \E x : x = [f \in Formula |-> ShiftBoundsOf(f, x)]
  BY <1>6, Zenon
<1>8. ShiftBounds = [f \in Formula |-> ShiftBoundsOf(f, ShiftBounds)]
  BY <1>7, Zenon DEF ShiftBounds
<1> DEFINE x == ShiftBounds
<1>9. x = [f \in Formula |-> ShiftBoundsOf(f, x)]
  BY <1>8
<1> HIDE DEF x
<1>10. \A f \in Formula : x[f] = ShiftBoundsOf(f, x)
  BY <1>9
<1>11. StaysInLevels(x)
  <2>1. \A f \in Propositions : x[f] \in Propositions
    BY <1>1, <1>10, PropositionsInFormula
  <2>2. ASSUME NEW n \in Nat, n + 1 <= Nesting, \A g \in FormulaUpTo[n] : x[g] \in FormulaUpTo[n],
               NEW f \in Compound(FormulaUpTo[n])
        PROVE  x[f] \in FormulaUpTo[n + 1]
    <3>1. ShiftBoundsOf(f, x) \in FormulaUpTo[n + 1]
      BY <1>2, <2>2
    <3> QED
      BY <1>10, <2>2, <3>1, LevelFacts
  <2> QED
    BY <2>1, <2>2, LevelInduction
<1> QED
  BY <1>10, <1>11 DEF x

\* A shift is a bound of a proper formula, or none.
LEMMA ShiftNatural ==
    \A f \in Formula : Proper(f) => GetShift[f] = NoShift \/ GetShift[f] \in Nat
<1> DEFINE S == {f \in Formula : Proper(f) => GetShift[f] = NoShift \/ GetShift[f] \in Nat}
<1>1. ASSUME NEW f \in Formula, Operands(f) \subseteq S, Proper(f)
      PROVE  GetShift[f] = NoShift \/ GetShift[f] \in Nat
  <2>1. CASE IsTemporal(f)
    <3>1. f.int \in Interval
      BY <1>1, <2>1, ProperFacts
    <3> QED
      BY <1>1, <2>1, <3>1, GetShiftFacts DEF Interval
  <2>2. CASE f.op \in {"prop", "not"}
    BY <1>1, <2>2, GetShiftFacts
  <2>3. CASE f.op \in {"and", "or", "imply"}
    <3>1. CASE Operands(f) = {}
      BY <1>1, <2>3, <3>1, GetShiftFacts
    <3>2. CASE Operands(f) # {}
      <4>1. GetShift[f] = Least({GetShift[g] : g \in Operands(f)})
        BY <1>1, <2>3, <3>2, GetShiftEquation DEF GetShiftOf
      <4>2. \A g \in Operands(f) : GetShift[g] \in Int
        BY <1>1, GetShiftFacts, OperandsInFormula
      <4>3. \E g \in Operands(f) : GetShift[f] = GetShift[g]
        <5> DEFINE h == GetShift
        <5>1. h[f] = Least({h[g] : g \in Operands(f)}) /\ \A g \in Operands(f) : h[g] \in Int
          BY <4>1, <4>2
        <5> HIDE DEF h
        <5> DEFINE l == Least({h[g] : g \in Operands(f)})
        <5>2. \E g \in Operands(f) : l = h[g]
          BY <1>1, <3>2, <5>1, LeastOfOperands
        <5> HIDE DEF l
        <5>3. h[f] = l
          BY <5>1 DEF l
        <5> QED
          BY <5>2, <5>3 DEF h
      <4> QED
        BY <1>1, <4>3, ProperFacts
    <3> QED
      BY <3>1, <3>2
  <2> QED
    BY <1>1, <2>1, <2>2, <2>3, FormulaShape DEF IsTemporal
<1>2. Formula \subseteq S
  <2>1. \A f \in Formula : Operands(f) \subseteq S => f \in S
    BY <1>1
  <2> HIDE DEF S
  <2> QED
    BY <2>1, FormulaInduction
<1> QED
  BY <1>2

\* A formula with an operator is one over the formulas of some level.
LEMMA InSomeCompound ==
    ASSUME NEW f \in Formula, f.op # "prop"
    PROVE  \E n \in Nat : n + 1 <= Nesting /\ f \in Compound(FormulaUpTo[n])
<1> DEFINE n == Nesting - 1
<1>1. f \notin Propositions
  BY PropositionShape
<1>2. Nesting \in Nat /\ Nesting # 0
  BY <1>1, LevelEquations, NestingAssumption DEF Formula
<1>3. n \in Nat /\ n + 1 = Nesting /\ n + 1 <= Nesting
  BY <1>2
<1> HIDE DEF n
<1>4. f \in Compound(FormulaUpTo[n])
  BY <1>1, <1>3, LevelFacts DEF Formula
<1> QED
  BY <1>3, <1>4

\* Taking the common shift out of the operands changes nothing.
LEMMA MoveShiftStands ==
    ASSUME NEW m \in BOOLEAN, AsMltl(m), NEW strict, NEW f \in Formula, IsTemporal(f), Sound(f, m, strict),
           NEW k, k = MoveShift(f)
    PROVE  Keeps(f, m, k, strict) /\ k.op = f.op /\ (FlatForm(f) => FlatForm(k))
<1>1. PICK n \in Nat : n + 1 <= Nesting /\ f \in Compound(FormulaUpTo[n])
  BY InSomeCompound DEF IsTemporal
<1> DEFINE S == FormulaUpTo[n]
           s == CommonShift(f)
<1>2. \A r \in Int : \A g \in S : ShiftBackward(r)[g] \in S
  BY <1>1, ShiftBackwardEquation, LevelFacts DEF StaysInLevels
<1>3. Compound(S) \subseteq Formula
  BY <1>1, LevelFacts
<1> HIDE DEF S, s
<1>4. /\ k \in Compound(S)
      /\ k.op = f.op
      /\ s = NoShift => k = f
      /\ s # NoShift =>
           /\ k.int = ShiftRight(f.int, s)
           /\ f.op \in {"G", "F"} => k.phi = ShiftBackward(s)[f.phi]
           /\ f.op \in {"U", "R"} => k.left = ShiftBackward(s)[f.left] /\ k.right = ShiftBackward(s)[f.right]
  BY <1>1, <1>2, MoveShiftParts DEF S, s
<1>5. k \in Formula
  BY <1>3, <1>4
<1>6. CASE s = NoShift
  BY <1>4, <1>6, KeepsItself
<1>7. CASE s # NoShift
  <2>1. SoundAt(f, m, strict) /\ \A g \in Operands(f) : g \in Formula /\ Sound(g, m, strict)
    BY SoundFacts, OperandsInFormula
  <2>2. f.int \in Interval /\ f.int.lower \in Nat /\ f.int.upper \in Nat /\ f.int.lower <= f.int.upper
    BY <2>1 DEF SoundAt, Interval
  <2>3. s \in Int /\ \A g \in Operands(f) : s <= GetShift[g]
    BY CommonShiftFacts DEF s
  <2>4. s \in Nat
    <3>1. \E g \in Operands(f) : s = GetShift[g]
      <4>1. Operands(f) # {} /\ \A g \in Operands(f) : GetShift[g] \in Int
        BY <2>1, ScopeParts, GetShiftFacts DEF IsTemporal
      <4> QED
        BY <4>1, LeastOfOperands DEF CommonShift, s
    <3> QED
      BY <1>7, <2>1, <2>3, <3>1, SoundFacts, ShiftNatural
  <2> DEFINE z == -s
             x == ShiftBackward(s)
  <2>5. z \in Int /\ z = -s /\ 0 - s = z
    BY <2>4
  <2>6. \A g \in Operands(f) : Stands(g, m, x[g], m, z, strict)
    <3> HIDE DEF z
    <3> QED
      BY <2>1, <2>3, <2>4, <2>5, ShiftBackwardStands DEF AsMltl
  <2> HIDE DEF z, x
  <2>7. k.int \in Interval /\ k.int.lower = f.int.lower + s /\ k.int.upper = f.int.upper + s
    BY <1>4, <1>7, <2>2, <2>4 DEF ShiftRight, Span, Interval
  <2>8. f.op \in {"G", "F"} => f.phi \in Operands(f) /\ k.phi = x[f.phi]
    BY <1>4, <1>7, ScopeParts DEF x
  <2>9. f.op \in {"U", "R"} => /\ f.left \in Operands(f) /\ f.right \in Operands(f)
                               /\ k.left = x[f.left] /\ k.right = x[f.right]
    BY <1>4, <1>7, ScopeParts DEF x
  <2>11. Keeps(f, m, k, strict)
    BY <1>4, <1>5, <2>4, <2>5, <2>6, <2>7, <2>8, <2>9, TemporalKeeps
  <2>12. ASSUME FlatForm(f) PROVE FlatForm(k)
    <3>1. \A g \in Operands(f) : FlatForm(x[g])
      BY <2>1, <2>3, <2>12, FlatFormFacts, ShiftBackwardForm DEF x
    <3>2. \A h \in Operands(k) : \E g \in Operands(f) : h = x[g]
      BY <1>4, <1>5, <2>8, <2>9, ScopeParts DEF IsTemporal
    <3>3. k.op \notin {"and", "or"}
      BY <1>4 DEF IsTemporal
    <3> QED
      BY <1>5, <3>1, <3>2, <3>3, FlatFormFacts
  <2> QED
    BY <1>4, <2>11, <2>12
<1> QED
  BY <1>6, <1>7

\* ShiftBounds asks the same and keeps the form.
LEMMA ShiftBoundsStands ==
    ASSUME NEW m \in BOOLEAN, AsMltl(m), NEW strict
    PROVE  \A f \in Formula : Sound(f, m, strict) =>
               /\ Keeps(f, m, ShiftBounds[f], strict)
               /\ ShiftBounds[f].op = f.op
               /\ FlatForm(f) => FlatForm(ShiftBounds[f])
<1> DEFINE x == ShiftBounds
           S == {f \in Formula : Sound(f, m, strict) =>
                    Keeps(f, m, x[f], strict) /\ x[f].op = f.op /\ (FlatForm(f) => FlatForm(x[f]))}
<1>1. (\A f \in Formula : x[f] = ShiftBoundsOf(f, x)) /\ StaysInLevels(x)
  BY ShiftBoundsEquation
<1> HIDE DEF x
<1>2. ASSUME NEW f \in Formula, Operands(f) \subseteq S, Sound(f, m, strict)
      PROVE  Keeps(f, m, x[f], strict) /\ x[f].op = f.op /\ (FlatForm(f) => FlatForm(x[f]))
  <2> DEFINE v == Visited(f, x)
  <2>1. x[f] = IF IsTemporal(f) THEN MoveShift(v) ELSE v
    BY <1>1 DEF ShiftBoundsOf
  <2>2. v \in Formula /\ VisitsTo(f, x, v)
    BY <1>1, VisitedInLevels
  <2>3. \A g \in Operands(f) : Keeps(g, m, x[g], strict) /\ x[g].op = g.op /\ (FlatForm(g) => FlatForm(x[g]))
    BY <1>2, SoundFacts
  <2>4. Keeps(f, m, v, strict)
    <3> HIDE DEF S
    <3> QED
      BY <1>2, <2>2, <2>3, VisitedKeeps
  <2> HIDE DEF v, S
  <2>5. v.op = f.op
    BY <2>2 DEF VisitsTo
  <2>6. ASSUME FlatForm(f) PROVE FlatForm(v)
    <3>1. \A h \in Operands(v) : \E g \in Operands(f) : h = x[g]
      BY <2>2, VisitedOperands
    <3>2. \A g \in Operands(f) : FlatForm(g)
      BY <2>6, FlatFormFacts
    <3>3. \A h \in Operands(v) : FlatForm(h) /\ \E g \in Operands(f) : h.op = g.op
      BY <2>3, <3>1, <3>2
    <3> QED
      BY <2>2, <2>5, <2>6, <3>3, FlatFormKept
  <2>7. CASE IsTemporal(f)
    <3> DEFINE k == x[f]
    <3>1. IsTemporal(v) /\ k = MoveShift(v)
      BY <2>1, <2>5, <2>7 DEF IsTemporal
    <3>2. Sound(v, m, strict)
      BY <2>4, KeepsFacts
    <3> HIDE DEF k
    <3>3. Keeps(v, m, k, strict) /\ k.op = v.op /\ (FlatForm(v) => FlatForm(k))
      BY <2>2, <3>1, <3>2, MoveShiftStands
    <3>5. Keeps(f, m, k, strict)
      BY <1>2, <2>4, <3>3, KeepsInTurn
    <3> QED
      BY <2>5, <2>6, <3>3, <3>5 DEF k
  <2>8. CASE ~IsTemporal(f)
    BY <2>1, <2>4, <2>5, <2>6, <2>8
  <2> QED
    BY <2>7, <2>8
<1>3. Formula \subseteq S
  <2>1. \A f \in Formula : Operands(f) \subseteq S => f \in S
    BY <1>2
  <2> HIDE DEF S
  <2> QED
    BY <2>1, FormulaInduction
<1> QED
  BY <1>3 DEF x

----------------------------------------------------------------------------
(* Shifting to a later instant *)

\* A formula under F[s,s] is one level higher.
LEMMA ForwardBuilt ==
    ASSUME NEW n \in Nat, NEW f \in FormulaUpTo[n], NEW s \in Int
    PROVE  F(s, s, f) \in FormulaUpTo[n + 1]
<1>1. F(s, s, f) = Over("F", Span(s, s), f)
  BY DEF F, Over
<1>2. Span(s, s) \in Times
  BY DEF Span, Times
<1>3. F(s, s, f) \in Compound(FormulaUpTo[n])
  BY <1>1, <1>2, Built
<1> QED
  BY <1>3, LevelAbove

\* ShiftForward is defined at every formula and nests at most one operator deeper.
LEMMA ShiftForwardEquation ==
    ASSUME NEW s \in Int
    PROVE  /\ \A f \in Formula : ShiftForward(s)[f] = ShiftForwardOf(f, s, ShiftForward(s))
           /\ \A n \in Nat : n <= Nesting => \A f \in FormulaUpTo[n] : ShiftForward(s)[f] \in FormulaUpTo[n + 1]
<1> DEFINE V == {0} \cup UNION {FormulaUpTo[n] : n \in Nat}
           W == [n \in Nat |-> FormulaUpTo[n + 1]]
           step == [p \in Formula \X [Formula -> V] |-> ShiftForwardOf(p[1], s, p[2])]
<1>1. V # {}
  OBVIOUS
<1>2. \A n \in Nat : FormulaUpTo[n] \subseteq V
  OBVIOUS
<1>3. W \in [Nat -> SUBSET V]
  <2>1. \A n \in Nat : n + 1 \in Nat
    OBVIOUS
  <2> HIDE DEF V
  <2> QED
    BY <1>2, <2>1
<1>4. \A f \in Formula : \A a \in [Formula -> V] : step[<<f, a>>] = ShiftForwardOf(f, s, a)
  <2> HIDE DEF V
  <2> QED
    OBVIOUS
<1>5. \A n \in Nat : W[n] = FormulaUpTo[n + 1]
  OBVIOUS
<1> HIDE DEF V, W, step
<1>6. ASSUME NEW n \in Nat, n <= Nesting, NEW f \in FormulaUpTo[n], NEW a, NEW b,
             n # 0 => \A g \in FormulaUpTo[n - 1] : a[g] = b[g] /\ a[g] \in W[n - 1]
      PROVE  ShiftForwardOf(f, s, a) = ShiftForwardOf(f, s, b) /\ ShiftForwardOf(f, s, a) \in W[n]
  <2>1. f \in Formula
    BY <1>6, LevelsInFormula
  <2>2. CASE IsLiteral(f)
    <3>1. ~IsTemporal(f)
      BY <2>2 DEF IsLiteral, IsTemporal
    <3> QED
      BY <1>5, <2>2, <3>1, ForwardBuilt DEF ShiftForwardOf
  <2>3. CASE ~IsLiteral(f)
    <3> DEFINE k == n - 1
    <3>1. f \notin Propositions
      BY <2>3, PropositionShape DEF IsLiteral
    <3>2. n # 0
      BY <3>1, LevelEquations
    <3>3. k \in Nat /\ n = k + 1
      BY <3>2
    <3>4. \A g \in FormulaUpTo[k] : a[g] = b[g] /\ a[g] \in W[k]
      BY <1>6, <3>2
    <3> HIDE DEF k
    <3> DEFINE S == FormulaUpTo[k]
               T == FormulaUpTo[n]
    <3>5. f \in Compound(S) /\ f.op # "prop"
      BY <3>1, <3>3, LevelEquations, PropositionShape
    <3>6. Operands(f) \subseteq S
      BY <3>5, CompoundOperands
    <3>7. W[k] = T
      BY <1>5, <3>3
    <3>8. S \subseteq T /\ Compound(S) \subseteq T /\ Compound(T) \subseteq W[n] /\ T \subseteq W[n]
      BY <1>5, <3>3, LevelAbove
    <3>9. \A g \in Operands(f) : a[g] = b[g] /\ a[g] \in T
      BY <3>4, <3>6, <3>7
    <3>10. Visited(f, a) = Visited(f, b)
      BY <2>1, <3>9, VisitedSame
    <3>11. Visited(f, a) \in Compound(T)
      BY <3>5, <3>9, VisitedShape
    <3>12. CASE IsTemporal(f)
      <4>1. f.int \in Times
        BY <3>5, <3>12, CompoundShape DEF IsTemporal
      <4>2. [f EXCEPT !.int = ShiftRight(f.int, s)] \in Compound(S)
        BY <3>5, <3>12, <4>1, ShiftedTimes, WithInt
      <4> HIDE DEF S, T
      <4> QED
        BY <3>8, <3>12, <4>2 DEF ShiftForwardOf
    <3>13. CASE ~IsTemporal(f)
      BY <2>3, <3>8, <3>10, <3>11, <3>13 DEF ShiftForwardOf
    <3> QED
      BY <3>12, <3>13
  <2> QED
    BY <2>2, <2>3
<1>7. DependsOnLevels(step, V, W)
  BY <1>4, <1>6, LevelsInFormula DEF DependsOnLevels
<1> HIDE DEF DependsOnLevels
<1>8. PICK h : Recurs(h, step, V, W)
  BY <1>1, <1>3, <1>7, LevelRecursion
<1>9. h = [f \in Formula |-> ShiftForwardOf(f, s, h)]
  BY <1>4, <1>8 DEF Recurs
<1>10. \E x : x = [f \in Formula |-> ShiftForwardOf(f, s, x)]
  BY <1>9, Zenon
<1>11. ShiftForward(s) = [f \in Formula |-> ShiftForwardOf(f, s, ShiftForward(s))]
  BY <1>10, Zenon DEF ShiftForward
<1> DEFINE x == ShiftForward(s)
<1>12. x = [f \in Formula |-> ShiftForwardOf(f, s, x)]
  BY <1>11
<1> HIDE DEF x
<1>13. \A f \in Formula : x[f] = ShiftForwardOf(f, s, x)
  BY <1>12
<1> DEFINE P(n) == n <= Nesting => \A f \in FormulaUpTo[n] : x[f] \in W[n]
<1>14. \A n \in Nat : P(n)
  <2>1. P(0)
    <3>1. ASSUME NEW f \in FormulaUpTo[0], 0 <= Nesting PROVE ShiftForwardOf(f, s, x) \in W[0]
      BY <1>6, <3>1
    <3> QED
      BY <1>13, <3>1, LevelsInFormula
  <2>2. ASSUME NEW n \in Nat, P(n) PROVE P(n + 1)
    <3> SUFFICES ASSUME n + 1 <= Nesting, NEW f \in FormulaUpTo[n + 1] PROVE x[f] \in W[n + 1]
      OBVIOUS
    <3>1. n <= Nesting
      BY LevelFacts
    <3> DEFINE q == n + 1
    <3>2. q \in Nat /\ q <= Nesting /\ q - 1 = n
      OBVIOUS
    <3>3. q # 0 => \A g \in FormulaUpTo[q - 1] : x[g] = x[g] /\ x[g] \in W[q - 1]
      BY <2>2, <3>1, <3>2
    <3> HIDE DEF q
    <3>4. \A g \in FormulaUpTo[q] : ShiftForwardOf(g, s, x) \in W[q]
      BY <1>6, <3>2, <3>3
    <3>5. x[f] = ShiftForwardOf(f, s, x)
      BY <1>13, <3>2, LevelsInFormula DEF q
    <3> QED
      BY <3>4, <3>5 DEF q
  <2> HIDE DEF P
  <2> DEFINE T == {n \in Nat : P(n)}
  <2>3. 0 \in T /\ \A n \in Nat : n \in T => n + 1 \in T
    BY <2>1, <2>2
  <2>4. Nat \subseteq T
    <3> HIDE DEF T
    <3> QED
      BY <2>3, NatSetInduction
  <2> QED
    BY <2>4
<1> QED
  BY <1>5, <1>13, <1>14 DEF x

\* F[s,s] f asks f at the instant s.
LEMMA ForwardLiteral ==
    ASSUME NEW f \in Formula, NEW m, NEW strict, Sound(f, m, strict), NEW s \in Nat,
           NEW k \in Formula, k = F(s, s, f)
    PROVE  Stands(f, m, k, m, s, strict)
<1>1. k.op = "F" /\ k.int = Span(s, s) /\ k.phi = f /\ k.int.lower = s /\ k.int.upper = s
  BY DEF F, Span
<1>2. k.int \in Interval
  BY <1>1 DEF Span, Interval
<1>3. Proper(f) /\ Horizon[f] \in Nat
  BY SoundFacts, HorizonOfProper
<1> DEFINE b == Horizon[f] + s
<1>4. b \in Nat /\ k.int.upper + Horizon[k.phi] <= b
  BY <1>1, <1>3
<1> HIDE DEF b
<1>5. k.op \in {"G", "F"} /\ Sound(k.phi, m, strict)
  BY <1>1
<1>6. Sound(k, m, strict) /\ Horizon[k] <= b
  BY <1>2, <1>4, <1>5, UnarySound
<1>7. Means(f, m, k, m, s)
  <2> SUFFICES ASSUME NEW sig, NEW t \in Int PROVE Smt(sig, t, k, m) <=> Smt(sig, t + s, f, m)
    BY DEF Means
  <2>1. Smt(sig, t, k, m) <=> \E i \in k.int.lower .. k.int.upper : Smt(sig, t + i, k.phi, m)
    BY <1>1, SmtFinally
  <2>2. Smt(sig, t, k, m) <=> \E i \in s .. s : Smt(sig, t + i, f, m)
    BY <1>1, <2>1
  <2>3. \A i : i \in s .. s <=> i = s
    OBVIOUS
  <2> QED
    BY <2>2, <2>3
<1> QED
  BY <1>6, <1>7 DEF Stands, b

\* ShiftForward asks the same the given number of instants later.
LEMMA ShiftForwardStands ==
    ASSUME NEW m \in BOOLEAN, AsMltl(m), NEW strict, NEW s \in Nat
    PROVE  \A f \in Formula : Sound(f, m, strict) /\ ShiftForward(s)[f] \in Formula =>
               Stands(f, m, ShiftForward(s)[f], m, s, strict)
<1> DEFINE x == ShiftForward(s)
           S == {f \in Formula : Sound(f, m, strict) /\ x[f] \in Formula => Stands(f, m, x[f], m, s, strict)}
<1>1. \A f \in Formula : x[f] = ShiftForwardOf(f, s, x)
  BY ShiftForwardEquation
<1> HIDE DEF x
<1>2. ASSUME NEW f \in Formula, Operands(f) \subseteq S, Sound(f, m, strict), x[f] \in Formula
      PROVE  Stands(f, m, x[f], m, s, strict)
  <2> DEFINE k == x[f]
  <2>1. k = ShiftForwardOf(f, s, x) /\ k \in Formula
    BY <1>1, <1>2
  <2>2. SoundAt(f, m, strict) /\ \A g \in Operands(f) : g \in Formula /\ Sound(g, m, strict)
    BY <1>2, SoundFacts, OperandsInFormula
  <2>3. CASE IsTemporal(f)
    <3>1. k = [f EXCEPT !.int = ShiftRight(f.int, s)]
      BY <2>1, <2>3 DEF ShiftForwardOf
    <3> HIDE DEF k, S
    <3>2. f.int \in Interval /\ f.int.lower \in Nat /\ f.int.upper \in Nat /\ f.int.lower <= f.int.upper
      BY <2>2, <2>3 DEF SoundAt, Interval
    <3>3. k.op = f.op /\ k.int = ShiftRight(f.int, s)
          /\ (f.op \in {"G", "F"} => k.phi = f.phi)
          /\ (f.op \in {"U", "R"} => k.left = f.left /\ k.right = f.right)
      BY <1>2, <2>3, <3>1, FormulaShape DEF IsTemporal
    <3>4. k.int \in Interval /\ k.int.lower = f.int.lower + s /\ k.int.upper = f.int.upper + s
      BY <3>2, <3>3 DEF ShiftRight, Span, Interval
    <3> DEFINE z == s - s
    <3>5. z = 0 /\ s \in Int
      OBVIOUS
    <3>6. \A g \in Operands(f) : Stands(g, m, g, m, z, strict)
      BY <2>2, <3>5, StandsForItself
    <3>7. f.op \in {"G", "F"} => Stands(f.phi, m, k.phi, m, z, strict)
      BY <1>2, <3>3, <3>6, ScopeParts
    <3>8. f.op \in {"U", "R"} => Stands(f.left, m, k.left, m, z, strict) /\ Stands(f.right, m, k.right, m, z, strict)
      BY <1>2, <3>3, <3>6, ScopeParts
    <3>9. z = s - s
      OBVIOUS
    <3> HIDE DEF z
    <3> QED
      BY <1>2, <2>1, <2>3, <3>3, <3>4, <3>5, <3>7, <3>8, <3>9, TemporalStands DEF k
  <2>4. CASE IsLiteral(f)
    <3>1. ~IsTemporal(f)
      BY <2>4 DEF IsLiteral, IsTemporal
    <3>2. k = F(s, s, f)
      BY <2>1, <2>4, <3>1 DEF ShiftForwardOf
    <3> HIDE DEF k, S
    <3> QED
      BY <1>2, <2>1, <3>2, ForwardLiteral DEF k
  <2>5. CASE ~IsTemporal(f) /\ ~IsLiteral(f)
    <3>1. k = Visited(f, x)
      BY <2>1, <2>5 DEF ShiftForwardOf
    <3>2. VisitsTo(f, x, k) /\ \A g \in Operands(f) : x[g] \in Formula
      BY <1>2, <2>1, <3>1, VisitedInFormula
    <3>3. \A g \in Operands(f) : Stands(g, m, x[g], m, s, strict)
      BY <1>2, <2>2, <3>2
    <3>4. f.op \in {"and", "or", "imply"}
      BY <1>2, <2>5, FormulaShape DEF IsTemporal, IsLiteral
    <3> HIDE DEF k, S
    <3>5. s \in Int /\ s >= 0
      OBVIOUS
    <3>6. f.op = "imply" => /\ Stands(f.left, m, k.left, m, s, strict)
                            /\ Stands(f.right, m, k.right, m, s, strict)
                            /\ Stands(f.notLeft, m, k.notLeft, m, s, strict)
      BY <1>2, <3>2, <3>3, ScopeParts DEF VisitsTo
    <3>7. f.op \in {"and", "or"} =>
            /\ DOMAIN k.args = DOMAIN f.args
            /\ \A i \in DOMAIN f.args : Stands(f.args[i], m, k.args[i], m, s, strict)
      BY <1>2, <3>2, <3>3, ScopeParts DEF VisitsTo
    <3>8. f.op \notin {"prop", "not", "G", "F", "U", "R"} /\ k.op = f.op /\ ~IsTemporal(f)
      BY <2>5, <3>2, <3>4 DEF VisitsTo
    <3>9. Carried(f, m, k, m, s, s, strict)
      BY <3>5, <3>6, <3>7, <3>8 DEF Carried
    <3> QED
      BY <1>2, <2>1, <3>5, <3>9, CarriedStands DEF k
  <2> QED
    BY <2>3, <2>4, <2>5
<1>3. Formula \subseteq S
  <2>1. \A f \in Formula : Operands(f) \subseteq S => f \in S
    BY <1>2
  <2> HIDE DEF S
  <2> QED
    BY <2>1, FormulaInduction
<1> QED
  BY <1>3 DEF x

----------------------------------------------------------------------------
(* Simplifying *)
\* Formulas that differ in the ids of occurrences only mean the same.
LEMMA AnonymousKeeps ==
    ASSUME NEW m \in BOOLEAN, NEW strict
    PROVE  \A f \in Formula : Sound(f, m, strict) =>
               Keeps(f, m, Anonymous[f], strict) /\ (f.op = "prop" => Anonymous[f].op = "prop")
<1> DEFINE x == Anonymous
           S == {f \in Formula : Sound(f, m, strict) =>
                    Keeps(f, m, x[f], strict) /\ (f.op = "prop" => x[f].op = "prop")}
<1>1. (\A f \in Formula : x[f] = AnonymousOf(f, x)) /\ StaysInLevels(x)
  BY AnonymousEquation
<1> HIDE DEF x
<1>2. ASSUME NEW f \in Formula, Operands(f) \subseteq S, Sound(f, m, strict)
      PROVE  Keeps(f, m, x[f], strict) /\ (f.op = "prop" => x[f].op = "prop")
  <2>1. x[f] = AnonymousOf(f, x) /\ x[f] \in Formula
    BY <1>1 DEF StaysInLevels
  <2>2. CASE f.op = "prop"
    <3>1. f \in Propositions /\ x[f] \in Propositions
      BY <1>1, <2>2, PropositionShape DEF StaysInLevels
    <3>2. f = [op |-> "prop", e |-> f.e] /\ f.e \in Expr
      BY <3>1, PropositionShape
    <3>3. x[f] = [f EXCEPT !.e.id = 0]
      BY <2>1, <2>2 DEF AnonymousOf
    <3>4. x[f].e = [f.e EXCEPT !.id = 0]
      BY <3>2, <3>3
    <3>5. x[f].e.var = f.e.var /\ x[f].e.holds = f.e.holds
      BY <3>2, <3>4 DEF Expr
    <3>6. Stands(f, m, x[f], m, 0, strict)
      BY <3>1, <3>5, PropositionStands
    <3> QED
      BY <3>1, <3>6, PropositionShape DEF Keeps
  <2>3. CASE f.op # "prop"
    <3>1. x[f] = Visited(f, x)
      BY <2>1, <2>3 DEF AnonymousOf
    <3>2. \A g \in Operands(f) : Keeps(g, m, x[g], strict) /\ (g.op = "prop" => x[g].op = "prop")
      BY <1>2, SoundFacts
    <3> HIDE DEF S
    <3> QED
      BY <1>2, <2>1, <2>3, <3>1, <3>2, VisitedKeeps
  <2> QED
    BY <2>2, <2>3
<1>3. Formula \subseteq S
  <2>1. \A f \in Formula : Operands(f) \subseteq S => f \in S
    BY <1>2
  <2> HIDE DEF S
  <2> QED
    BY <2>1, FormulaInduction
<1> QED
  BY <1>3 DEF x

\* What is made of the operands of an anonymous formula
LEMMA AnonymousParts ==
    ASSUME NEW f \in Formula
    PROVE  /\ Anonymous[f] \in Formula /\ Anonymous[f].op = f.op
           /\ IsTemporal(f) => Anonymous[f].int = f.int
           /\ f.op # "prop" => VisitsTo(f, Anonymous, Anonymous[f])
           /\ \A g \in Operands(f) : Anonymous[g] \in Operands(Anonymous[f])
<1> DEFINE x == Anonymous
<1>1. x[f] = AnonymousOf(f, x) /\ StaysInLevels(x) /\ x[f] \in Formula
  BY AnonymousEquation DEF StaysInLevels
<1> HIDE DEF x
<1>2. CASE f.op = "prop"
  <2>1. x[f].op = "prop" /\ Operands(f) = {} /\ ~IsTemporal(f)
    BY <1>1, <1>2, PropositionShape DEF StaysInLevels, Operands, IsTemporal
  <2> QED
    BY <1>1, <1>2, <2>1 DEF x
<1>3. CASE f.op # "prop"
  <2>1. x[f] = Visited(f, x)
    BY <1>1, <1>3 DEF AnonymousOf
  <2>2. VisitsTo(f, x, x[f])
    BY <1>1, <2>1, VisitedInLevels
  <2>3. \A g \in Operands(f) : x[g] \in Operands(x[f])
    BY <1>1, <2>2, VisitedOperands
  <2>4. x[f].op = f.op /\ (IsTemporal(f) => x[f].int = f.int)
    BY <2>2 DEF VisitsTo
  <2> QED
    BY <1>1, <2>2, <2>3, <2>4 DEF x
<1> QED
  BY <1>2, <1>3

\* Ids have no part in horizons.
LEMMA AnonymousHorizon == \A f \in Formula : Horizon[Anonymous[f]] = Horizon[f]
<1> DEFINE x == Anonymous
           S == {f \in Formula : Horizon[x[f]] = Horizon[f]}
<1>1. \A f \in Formula : /\ x[f] \in Formula /\ x[f].op = f.op
                         /\ IsTemporal(f) => x[f].int = f.int
                         /\ f.op # "prop" => VisitsTo(f, x, x[f])
  BY AnonymousParts
<1> HIDE DEF x
<1>2. ASSUME NEW f \in Formula, Operands(f) \subseteq S PROVE Horizon[x[f]] = Horizon[f]
  <2> DEFINE k == x[f]
  <2>1. k \in Formula /\ k.op = f.op /\ (IsTemporal(f) => k.int = f.int) /\ (f.op # "prop" => VisitsTo(f, x, k))
    BY <1>1
  <2> HIDE DEF k
  <2>2. {Horizon[h] : h \in Scope(k)} = {Horizon[g] : g \in Scope(f)}
    <3>1. /\ \A h \in Scope(k) : \E g \in Scope(f) : h = x[g]
          /\ \A g \in Scope(f) : x[g] \in Scope(k)
      <4>1. CASE f.op = "prop"
        BY <2>1, <4>1, ScopeParts
      <4>2. CASE f.op = "imply"
        <5>1. Scope(f) = {f.left, f.right} /\ Scope(k) = {k.left, k.right}
          BY <2>1, <4>2, ScopeParts
        <5>2. k.left = x[f.left] /\ k.right = x[f.right]
          BY <2>1, <4>2 DEF VisitsTo
        <5> QED
          BY <5>1, <5>2
      <4>3. CASE f.op \notin {"prop", "imply"}
        <5>1. Scope(f) = Operands(f) /\ Scope(k) = Operands(k)
          BY <2>1, <4>3, ScopeParts, FormulaShape
        <5> QED
          BY <2>1, <4>3, <5>1, VisitedOperands
      <4> QED
        BY <4>1, <4>2, <4>3
    <3>2. \A g \in Scope(f) : Horizon[x[g]] = Horizon[g]
      BY <1>2, ScopeOperands
    <3> QED
      BY <3>1, <3>2
  <2>3. IsTemporal(k) <=> IsTemporal(f)
    BY <2>1 DEF IsTemporal
  <2> QED
    BY <2>1, <2>2, <2>3, HorizonEquation DEF k
<1>3. Formula \subseteq S
  <2>1. \A f \in Formula : Operands(f) \subseteq S => f \in S
    BY <1>2
  <2> HIDE DEF S
  <2> QED
    BY <2>1, FormulaInduction
<1> QED
  BY <1>3 DEF x

\* Structurally equal formulas have one horizon and one meaning.
LEMMA EqualFacts ==
    ASSUME NEW f \in Formula, NEW g \in Formula, EqStructural(f, g), NEW m \in BOOLEAN, NEW strict,
           Sound(f, m, strict), Sound(g, m, strict)
    PROVE  /\ Horizon[f] = Horizon[g]
           /\ \A sig : Steady(sig) => \A t \in Int : Smt(sig, t, f, m) <=> Smt(sig, t, g, m)
<1> DEFINE a == Anonymous[f]
<1>1. a = Anonymous[g]
  BY DEF EqStructural
<1>2. Keeps(f, m, a, strict) /\ Keeps(g, m, a, strict)
  BY <1>1, AnonymousKeeps
<1>3. Horizon[f] = Horizon[g]
  BY <1>1, AnonymousHorizon
<1> HIDE DEF a
<1>4. ASSUME NEW sig, Steady(sig), NEW t \in Int PROVE Smt(sig, t, f, m) <=> Smt(sig, t, g, m)
  <2>1. t + 0 = t
    OBVIOUS
  <2>2. Smt(sig, t, a, m) <=> Smt(sig, t + 0, f, m)
    BY <1>2, <1>4 DEF Keeps, Stands, Means
  <2>3. Smt(sig, t, a, m) <=> Smt(sig, t + 0, g, m)
    BY <1>2, <1>4 DEF Keeps, Stands, Means
  <2> QED
    BY <2>1, <2>2, <2>3
<1> QED
  BY <1>3, <1>4

\* The constants are propositions.
LEMMA ConstantProposition ==
    ASSUME NEW b \in BOOLEAN
    PROVE  LET p == Prop(Constant(0, b))
           IN  /\ p \in Propositions /\ p.op = "prop"
               /\ p.e.var = ConstantVar /\ p.e.holds = IF b THEN {1} ELSE {}
<1> DEFINE e == Constant(0, b)
           p == Prop(e)
<1>1. e = [id |-> 0, real |-> FALSE, var |-> ConstantVar, holds |-> IF b THEN {1} ELSE {}]
  BY DEF Constant
<1>2. ConstantVar \in STRING
  BY ConstantVarAssumption
<1>3. e \in Expr /\ e.var = ConstantVar /\ e.holds = IF b THEN {1} ELSE {}
  <2>1. (IF b THEN {1} ELSE {}) \in SUBSET Int
    OBVIOUS
  <2> HIDE DEF e
  <2> QED
    BY <1>1, <1>2, <2>1 DEF Expr
<1> HIDE DEF e
<1>4. p = [op |-> "prop", e |-> e]
  BY DEF Prop
<1>5. p \in Propositions
  BY <1>3, <1>4 DEF Propositions
<1> QED
  BY <1>3, <1>4, <1>5 DEF e

\* The constants are always what they say.
LEMMA ConstantFacts ==
    ASSUME NEW m \in BOOLEAN, NEW strict
    PROVE  /\ True \in Propositions /\ Sound(True, m, strict) /\ Horizon[True] = 0
           /\ False \in Propositions /\ Sound(False, m, strict) /\ Horizon[False] = 0
           /\ \A sig : Steady(sig) => \A t \in Int : Smt(sig, t, True, m) /\ ~Smt(sig, t, False, m)
<1>1. \A p \in Propositions : Sound(p, m, strict) /\ Horizon[p] = 0
  <2> SUFFICES ASSUME NEW p \in Propositions PROVE Sound(p, m, strict) /\ Horizon[p] = 0
    OBVIOUS
  <2>1. p \in Formula /\ p.op = "prop"
    BY PropositionsInFormula, PropositionShape
  <2>2. Sound(p, m, strict)
    BY PropositionStands
  <2>3. Proper(p) /\ Scope(p) = {}
    BY <2>1, <2>2, SoundFacts, ScopeParts
  <2>4. Horizon[p] = 0
    BY <2>1, <2>3, HorizonOfProper
  <2> QED
    BY <2>2, <2>4
<1>2. /\ True \in Propositions /\ True.op = "prop" /\ True.e.var = ConstantVar /\ True.e.holds = {1}
      /\ False \in Propositions /\ False.op = "prop" /\ False.e.var = ConstantVar /\ False.e.holds = {}
  BY ConstantProposition DEF True, False
<1>3. ASSUME NEW sig, Steady(sig), NEW t \in Int
      PROVE  Smt(sig, t, True, m) /\ ~Smt(sig, t, False, m)
  <2>1. sig[t][ConstantVar] = 1
    BY <1>3 DEF Steady
  <2>2. \A p \in Propositions : Smt(sig, t, p, m) <=> sig[t][p.e.var] \in p.e.holds
    BY SmtCases, PropositionsInFormula, PropositionShape
  <2> QED
    BY <1>2, <2>1, <2>2
<1> QED
  BY <1>1, <1>2, <1>3

\* Formulas that are structurally a constant
LEMMA EqualConstant ==
    ASSUME NEW f \in Formula, NEW m \in BOOLEAN, NEW strict, Sound(f, m, strict),
           NEW sig, Steady(sig), NEW t \in Int
    PROVE  /\ EqStructural(f, True) => Smt(sig, t, f, m)
           /\ EqStructural(f, False) => ~Smt(sig, t, f, m)
<1>1. /\ True \in Formula /\ Sound(True, m, strict) /\ False \in Formula /\ Sound(False, m, strict)
      /\ Smt(sig, t, True, m) /\ ~Smt(sig, t, False, m)
  BY ConstantFacts, PropositionsInFormula
<1>2. EqStructural(f, True) => (Smt(sig, t, f, m) <=> Smt(sig, t, True, m))
  BY <1>1, EqualFacts
<1>3. EqStructural(f, False) => (Smt(sig, t, f, m) <=> Smt(sig, t, False, m))
  BY <1>1, EqualFacts
<1> QED
  BY <1>1, <1>2, <1>3

\* Formulas that the simplifier takes for each other's negation are.
LEMMA NegatesFacts ==
    ASSUME NEW f \in Formula, NEW g \in Formula, Negates(f, g), NEW m \in BOOLEAN, NEW strict,
           Sound(f, m, strict), Sound(g, m, strict), NEW sig, Steady(sig), NEW t \in Int
    PROVE  Smt(sig, t, f, m) <=> ~Smt(sig, t, g, m)
<1>1. ASSUME NEW h \in Formula, NEW k \in Formula, h.op = "not", EqStructural(h.phi, k),
             Sound(h, m, strict), Sound(k, m, strict)
      PROVE  Smt(sig, t, h, m) <=> ~Smt(sig, t, k, m)
  <2>1. h.phi \in Formula /\ Sound(h.phi, m, strict)
    BY <1>1, NotSound
  <2>2. Smt(sig, t, h.phi, m) <=> Smt(sig, t, k, m)
    BY <1>1, <2>1, EqualFacts
  <2>3. Smt(sig, t, h, m) <=> ~Smt(sig, t, h.phi, m)
    BY <1>1, SmtNot
  <2> QED
    BY <2>2, <2>3
<1>2. CASE f.op = "not" /\ EqStructural(f.phi, g)
  BY <1>1, <1>2
<1>3. CASE g.op = "not" /\ EqStructural(g.phi, f)
  BY <1>1, <1>3
<1> QED
  BY <1>2, <1>3 DEF Negates

----------------------------------------------------------------------------
(* What settles a junction *)
\* g leaves a junction to its other operands.
Yields(op, g, sig, t, m) == Smt(sig, t, g, m) <=> op = "and"

\* All of them do.
AllYield(op, fs, sig, t, m) == \A g \in ToSet(fs) : Yields(op, g, sig, t, m)

\* Two lists of operands are worth the same to a junction.
SameYield(op, fs, gs, m) ==
    \A sig : Steady(sig) => \A t \in Int : AllYield(op, fs, sig, t, m) <=> AllYield(op, gs, sig, t, m)

\* Sound formulas that look no further than b
SoundElements(fs, m, strict, b) ==
    fs \in Seq(Formula) /\ \A g \in ToSet(fs) : Sound(g, m, strict) /\ Horizon[g] <= b

\* gs can take the place of the operands fs of a junction.
Replaces(op, fs, gs, m, strict, b) == SoundElements(gs, m, strict, b) /\ SameYield(op, fs, gs, m)

\* A conjunction holds if all operands yield, a disjunction fails if they do.
LEMMA JunctionYields ==
    ASSUME NEW k \in Formula, k.op \in {"and", "or"}, NEW sig, NEW t \in Int, NEW m
    PROVE  Smt(sig, t, k, m) <=> (AllYield(k.op, k.args, sig, t, m) <=> k.op = "and")
<1>1. CASE k.op = "and"
  BY <1>1, JunctionMeans DEF AllYield, Yields
<1>2. CASE k.op = "or"
  BY <1>2, JunctionMeans DEF AllYield, Yields
<1> QED
  BY <1>1, <1>2

\* Replacing lists is transitive.
LEMMA ReplacesInTurn ==
    ASSUME NEW op, NEW fs, NEW gs, NEW hs, NEW m, NEW strict, NEW b,
           Replaces(op, fs, gs, m, strict, b), Replaces(op, gs, hs, m, strict, b)
    PROVE  Replaces(op, fs, hs, m, strict, b)
BY DEF Replaces, SameYield

\* Elements can be left out when those that stay yield only if they do.
LEMMA ThoseReplace ==
    ASSUME NEW op, NEW fs, NEW m, NEW strict, NEW b, SoundElements(fs, m, strict, b), NEW places,
           \A sig : Steady(sig) => \A t \in Int :
               (\A j \in DOMAIN fs \cap places : Yields(op, fs[j], sig, t, m))
                   => \A i \in DOMAIN fs : Yields(op, fs[i], sig, t, m)
    PROVE  Replaces(op, fs, Those(fs, places), m, strict, b)
<1> DEFINE gs == Those(fs, places)
<1>1. fs \in Seq(Formula)
  BY DEF SoundElements
<1>2. gs \in Seq(Formula) /\ ToSet(gs) = {fs[i] : i \in DOMAIN fs \cap places}
  BY <1>1, ThoseElements
<1>3. ToSet(fs) = {fs[i] : i \in DOMAIN fs}
  BY DEF ToSet
<1> HIDE DEF gs
<1>4. SoundElements(gs, m, strict, b)
  BY <1>2, <1>3 DEF SoundElements
<1>5. SameYield(op, fs, gs, m)
  <2> SUFFICES ASSUME NEW sig, Steady(sig), NEW t \in Int
               PROVE  AllYield(op, fs, sig, t, m) <=> AllYield(op, gs, sig, t, m)
    BY DEF SameYield
  <2>1. AllYield(op, gs, sig, t, m) <=> \A j \in DOMAIN fs \cap places : Yields(op, fs[j], sig, t, m)
    BY <1>2 DEF AllYield
  <2>2. AllYield(op, fs, sig, t, m) <=> \A i \in DOMAIN fs : Yields(op, fs[i], sig, t, m)
    BY <1>3 DEF AllYield
  <2> QED
    BY <2>1, <2>2
<1> QED
  BY <1>4, <1>5 DEF Replaces, gs

\* Structurally equal operands are worth the same.
LEMMA EqualYield ==
    ASSUME NEW f \in Formula, NEW g \in Formula, EqStructural(f, g), NEW m \in BOOLEAN, NEW strict,
           Sound(f, m, strict), Sound(g, m, strict), NEW sig, Steady(sig), NEW t \in Int, NEW op
    PROVE  Yields(op, f, sig, t, m) <=> Yields(op, g, sig, t, m)
BY EqualFacts DEF Yields

\* The elements of a list of sound formulas
LEMMA ElementFacts ==
    ASSUME NEW fs, NEW m, NEW strict, NEW b, SoundElements(fs, m, strict, b), NEW i \in DOMAIN fs
    PROVE  fs[i] \in Formula /\ Sound(fs[i], m, strict) /\ Horizon[fs[i]] <= b
<1>1. fs[i] \in ToSet(fs)
  BY DEF ToSet
<1>2. fs \in Seq(Formula)
  BY DEF SoundElements
<1>3. fs[i] \in Formula
  BY <1>2
<1> QED
  BY <1>1, <1>3 DEF SoundElements

\* Of operands that are alike the first stays.
LEMMA UniqueReplaces ==
    ASSUME NEW op, NEW fs, NEW m \in BOOLEAN, NEW strict, NEW b, SoundElements(fs, m, strict, b)
    PROVE  Replaces(op, fs, Unique(fs), m, strict, b)
<1> DEFINE places == {i \in DOMAIN fs : \A j \in 1 .. i - 1 : ~EqStructural(fs[j], fs[i])}
<1>1. Unique(fs) = Those(fs, places)
  BY DEF Unique
<1>2. ASSUME NEW i \in DOMAIN fs PROVE \E j \in DOMAIN fs \cap places : EqStructural(fs[j], fs[i])
  <2> DEFINE A == {j \in 1 .. i : EqStructural(fs[j], fs[i])}
  <2>1. fs \in Seq(Formula)
    BY DEF SoundElements
  <2>2. DOMAIN fs = 1 .. Len(fs) /\ Len(fs) \in Nat /\ i \in Nat /\ 1 <= i /\ i <= Len(fs)
    BY <1>2, <2>1
  <2>3. i \in A
    BY <2>2 DEF EqStructural
  <2>4. A \in SUBSET Nat
    BY <2>2
  <2>5. PICK j \in A : \A k \in A : j <= k
    BY <2>3, <2>4, SmallestElement
  <2>6. j \in DOMAIN fs /\ EqStructural(fs[j], fs[i]) /\ j \in Nat /\ j <= i
    BY <2>2, <2>5
  <2>7. ASSUME NEW l \in 1 .. j - 1, EqStructural(fs[l], fs[j]) PROVE FALSE
    <3>1. l \in 1 .. i /\ l < j /\ l \in Nat
      BY <2>2, <2>6, <2>7
    <3>2. EqStructural(fs[l], fs[i])
      BY <2>6, <2>7 DEF EqStructural
    <3>3. j <= l
      BY <2>5, <3>1, <3>2
    <3> QED
      BY <2>6, <3>1, <3>3
  <2> QED
    BY <2>6, <2>7
<1>3. places \subseteq DOMAIN fs
  OBVIOUS
<1> HIDE DEF places
<1>4. ASSUME NEW sig, Steady(sig), NEW t \in Int, \A j \in DOMAIN fs \cap places : Yields(op, fs[j], sig, t, m),
             NEW i \in DOMAIN fs
      PROVE  Yields(op, fs[i], sig, t, m)
  <2>1. PICK j \in DOMAIN fs \cap places : EqStructural(fs[j], fs[i])
    BY <1>2
  <2>2. fs[i] \in Formula /\ Sound(fs[i], m, strict) /\ fs[j] \in Formula /\ Sound(fs[j], m, strict)
    BY <2>1, ElementFacts
  <2>3. Yields(op, fs[j], sig, t, m) <=> Yields(op, fs[i], sig, t, m)
    BY <1>4, <2>1, <2>2, EqualYield
  <2> QED
    BY <1>4, <2>1, <2>3
<1>5. Replaces(op, fs, Those(fs, places), m, strict, b)
  BY <1>4, ThoseReplace
<1> QED
  BY <1>1, <1>5

\* Neutral constants can be left out.
LEMMA NeutralReplaces ==
    ASSUME NEW op \in {"and", "or"}, NEW fs, NEW m \in BOOLEAN, NEW strict, NEW b,
           SoundElements(fs, m, strict, b)
    PROVE  Replaces(op, fs, Those(fs, {i \in DOMAIN fs : ~EqStructural(fs[i], Neutral(op))}), m, strict, b)
<1> DEFINE places == {i \in DOMAIN fs : ~EqStructural(fs[i], Neutral(op))}
<1>1. ASSUME NEW i \in DOMAIN fs, i \notin places, NEW sig, Steady(sig), NEW t \in Int
      PROVE  Yields(op, fs[i], sig, t, m)
  <2>1. EqStructural(fs[i], Neutral(op)) /\ fs[i] \in Formula /\ Sound(fs[i], m, strict)
    BY <1>1, ElementFacts
  <2> DEFINE f == fs[i]
  <2> HIDE DEF f
  <2>2. EqStructural(f, Neutral(op)) /\ f \in Formula /\ Sound(f, m, strict)
    BY <2>1 DEF f
  <2>3. CASE op = "and"
    <3>1. EqStructural(f, True)
      BY <2>2, <2>3 DEF Neutral
    <3>2. Smt(sig, t, f, m)
      BY <1>1, <2>2, <3>1, EqualConstant
    <3> QED
      BY <2>3, <3>2 DEF Yields, f
  <2>4. CASE op = "or"
    <3>1. EqStructural(f, False)
      BY <2>2, <2>4 DEF Neutral
    <3>2. ~Smt(sig, t, f, m)
      BY <1>1, <2>2, <3>1, EqualConstant
    <3> QED
      BY <2>4, <3>2 DEF Yields, f
  <2> QED
    BY <2>3, <2>4
<1> HIDE DEF places
<1>2. \A sig : Steady(sig) => \A t \in Int :
          (\A j \in DOMAIN fs \cap places : Yields(op, fs[j], sig, t, m))
              => \A i \in DOMAIN fs : Yields(op, fs[i], sig, t, m)
  BY <1>1
<1>3. Replaces(op, fs, Those(fs, places), m, strict, b)
  BY <1>2, ThoseReplace
<1> QED
  BY <1>3 DEF places

\* A redundant operand yields when one that occurs by itself does.
LEMMA RedundantYields ==
    ASSUME NEW op \in {"and", "or"}, NEW f \in Formula, NEW fs, Redundant(op, f, fs),
           NEW m \in BOOLEAN, NEW strict, Sound(f, m, strict)
    PROVE  \E j \in DOMAIN fs : \E g \in Operands(f) :
               /\ EqStructural(fs[j], g)
               /\ \A sig : \A t \in Int : Yields(op, g, sig, t, m) => Yields(op, f, sig, t, m)
<1>1. CASE f.op = DualOf(op) /\ \E i \in DOMAIN f.args : Occurs(f.args[i], fs)
  <2>1. f.op = IF op = "and" THEN "or" ELSE "and"
    BY <1>1 DEF DualOf
  <2>2. PICK i \in DOMAIN f.args : Occurs(f.args[i], fs)
    BY <1>1
  <2> DEFINE g == f.args[i]
  <2>3. PICK j \in DOMAIN fs : EqStructural(fs[j], g)
    BY <2>2 DEF Occurs
  <2>4. g \in Operands(f) /\ g \in ToSet(f.args)
    BY <2>1, <2>2, ScopeParts DEF ToSet
  <2> HIDE DEF g
  <2>5. ASSUME NEW sig, NEW t \in Int, Yields(op, g, sig, t, m) PROVE Yields(op, f, sig, t, m)
    <3>1. CASE op = "and"
      <4>1. Smt(sig, t, g, m) /\ f.op = "or"
        BY <2>1, <2>5, <3>1 DEF Yields
      <4>2. Smt(sig, t, f, m)
        BY <2>4, <4>1, JunctionMeans
      <4> QED
        BY <3>1, <4>2 DEF Yields
    <3>2. CASE op = "or"
      <4>1. ~Smt(sig, t, g, m) /\ f.op = "and"
        BY <2>1, <2>5, <3>2 DEF Yields
      <4>2. ~Smt(sig, t, f, m)
        BY <2>4, <4>1, JunctionMeans
      <4> QED
        BY <3>2, <4>2 DEF Yields
    <3> QED
      BY <3>1, <3>2
  <2> QED
    BY <2>3, <2>4, <2>5
<1>2. CASE /\ f.op = IF op = "and" THEN "F" ELSE "G"
           /\ f.int.lower = 0
           /\ Occurs(f.phi, fs)
  <2>1. f.op \in {"G", "F"} /\ f.phi \in Operands(f)
    BY <1>2, ScopeParts
  <2>2. PICK j \in DOMAIN fs : EqStructural(fs[j], f.phi)
    BY <1>2 DEF Occurs
  <2>3. f.int \in Interval
    BY <2>1, SoundFacts DEF SoundAt, IsTemporal
  <2>4. 0 \in f.int.lower .. f.int.upper
    BY <1>2, <2>3 DEF Interval
  <2>5. ASSUME NEW sig, NEW t \in Int, Yields(op, f.phi, sig, t, m) PROVE Yields(op, f, sig, t, m)
    <3>0. t + 0 = t
      OBVIOUS
    <3>1. CASE op = "and"
      <4>1. Smt(sig, t, f.phi, m) /\ f.op = "F"
        BY <1>2, <2>5, <3>1 DEF Yields
      <4>2. Smt(sig, t, f, m) <=> \E i \in f.int.lower .. f.int.upper : Smt(sig, t + i, f.phi, m)
        BY <4>1, SmtFinally
      <4>3. Smt(sig, t, f, m)
        BY <2>4, <3>0, <4>1, <4>2
      <4> QED
        BY <3>1, <4>3 DEF Yields
    <3>2. CASE op = "or"
      <4>1. ~Smt(sig, t, f.phi, m) /\ f.op = "G"
        BY <1>2, <2>5, <3>2 DEF Yields
      <4>2. Smt(sig, t, f, m) <=> \A i \in f.int.lower .. f.int.upper : Smt(sig, t + i, f.phi, m)
        BY <4>1, SmtGlobally
      <4>3. ~Smt(sig, t, f, m)
        BY <2>4, <3>0, <4>1, <4>2
      <4> QED
        BY <3>2, <4>3 DEF Yields
    <3> QED
      BY <3>1, <3>2
  <2> QED
    BY <2>1, <2>2, <2>5
<1> QED
  BY <1>1, <1>2 DEF Redundant

\* What makes an operand redundant is smaller, so that in the end it is one that stays.
LEMMA RedundantReplaces ==
    ASSUME NEW op \in {"and", "or"}, NEW fs, NEW m \in BOOLEAN, NEW strict, NEW b,
           SoundElements(fs, m, strict, b)
    PROVE  Replaces(op, fs, Those(fs, {i \in DOMAIN fs : ~Redundant(op, fs[i], fs)}), m, strict, b)
<1> DEFINE places == {i \in DOMAIN fs : ~Redundant(op, fs[i], fs)}
<1>0. \A i \in DOMAIN fs : i \notin places => Redundant(op, fs[i], fs)
  OBVIOUS
<1> HIDE DEF places
<1>1. ASSUME NEW sig, Steady(sig), NEW t \in Int, \A j \in DOMAIN fs \cap places : Yields(op, fs[j], sig, t, m)
      PROVE  \A i \in DOMAIN fs : Yields(op, fs[i], sig, t, m)
  <2> DEFINE S == {a \in Formula : \A i \in DOMAIN fs : Anonymous[fs[i]] = a => Yields(op, fs[i], sig, t, m)}
  <2>1. ASSUME NEW a \in Formula, Operands(a) \subseteq S, NEW i \in DOMAIN fs, Anonymous[fs[i]] = a
        PROVE  Yields(op, fs[i], sig, t, m)
    <3>1. CASE i \in places
      BY <1>1, <2>1, <3>1
    <3>2. CASE i \notin places
      <4> DEFINE f == fs[i]
      <4>1. f \in Formula /\ Sound(f, m, strict) /\ Redundant(op, f, fs) /\ Anonymous[f] = a
        BY <1>0, <2>1, <3>2, ElementFacts
      <4> HIDE DEF f
      <4>2. PICK j \in DOMAIN fs : \E g \in Operands(f) :
               /\ EqStructural(fs[j], g)
               /\ \A sg : \A u \in Int : Yields(op, g, sg, u, m) => Yields(op, f, sg, u, m)
        BY <4>1, RedundantYields
      <4>3. PICK g \in Operands(f) :
               /\ EqStructural(fs[j], g)
               /\ \A sg : \A u \in Int : Yields(op, g, sg, u, m) => Yields(op, f, sg, u, m)
        BY <4>2
      <4>4. Anonymous[fs[j]] \in S
        <5>1. Anonymous[g] \in Operands(a)
          BY <4>1, AnonymousParts
        <5> QED
          BY <2>1, <4>3, <5>1 DEF EqStructural
      <4>5. Yields(op, fs[j], sig, t, m)
        BY <4>2, <4>4
      <4>6. g \in Formula /\ Sound(g, m, strict) /\ fs[j] \in Formula /\ Sound(fs[j], m, strict)
        BY <4>1, <4>2, SoundFacts, OperandsInFormula, ElementFacts
      <4>7. Yields(op, g, sig, t, m)
        <5> HIDE DEF S
        <5> QED
          BY <1>1, <4>3, <4>5, <4>6, EqualYield
      <4> QED
        BY <4>3, <4>7 DEF f
    <3> QED
      BY <3>1, <3>2
  <2>2. Formula \subseteq S
    <3>1. \A a \in Formula : Operands(a) \subseteq S => a \in S
      BY <2>1
    <3> HIDE DEF S
    <3> QED
      BY <3>1, FormulaInduction
  <2>3. \A i \in DOMAIN fs : Anonymous[fs[i]] \in Formula
    BY ElementFacts, AnonymousParts
  <2> QED
    BY <2>2, <2>3
<1>2. Replaces(op, fs, Those(fs, places), m, strict, b)
  BY <1>1, ThoseReplace
<1> QED
  BY <1>2 DEF places

----------------------------------------------------------------------------
(* Of two G over the same formula the wider one says more *)

\* A G over a wider interval implies the narrower one.
LEMMA GloballyIncludes ==
    ASSUME NEW f \in Formula, NEW g \in Formula, f.op = "G", g.op = "G", EqStructural(f.phi, g.phi),
           Includes(f.int, g.int), NEW m \in BOOLEAN, NEW strict, Sound(f, m, strict), Sound(g, m, strict),
           NEW sig, Steady(sig), NEW t \in Int, Smt(sig, t, f, m)
    PROVE  Smt(sig, t, g, m)
<1>1. f.phi \in Formula /\ g.phi \in Formula /\ f.phi \in Operands(f) /\ g.phi \in Operands(g)
  BY FormulaShape, ScopeParts
<1>2. Sound(f.phi, m, strict) /\ Sound(g.phi, m, strict) /\ f.int \in Interval /\ g.int \in Interval
  BY <1>1, SoundFacts DEF SoundAt, IsTemporal
<1>3. \A i \in f.int.lower .. f.int.upper : Smt(sig, t + i, f.phi, m)
  BY SmtGlobally
<1>4. \A i \in g.int.lower .. g.int.upper : i \in f.int.lower .. f.int.upper /\ t + i \in Int
  BY <1>2 DEF Includes, Interval
<1>5. ASSUME NEW i \in g.int.lower .. g.int.upper PROVE Smt(sig, t + i, g.phi, m)
  <2> DEFINE u == t + i
  <2>1. u \in Int /\ Smt(sig, u, f.phi, m)
    BY <1>3, <1>4
  <2> HIDE DEF u
  <2>2. Smt(sig, u, g.phi, m)
    BY <1>1, <1>2, <2>1, EqualFacts
  <2> QED
    BY <2>2 DEF u
<1> QED
  BY <1>5, SmtGlobally

\* The first G over the same formula
FirstAlike(fs, i) == Min({j \in 1 .. i : SameGlobally(fs[j], fs[i])})

\* There is a first, and it is the first.
LEMMA FirstAlikeFacts ==
    ASSUME NEW fs, NEW i \in DOMAIN fs, fs \in Seq(Formula), fs[i].op = "G"
    PROVE  /\ FirstAlike(fs, i) \in DOMAIN fs
           /\ SameGlobally(fs[FirstAlike(fs, i)], fs[i])
           /\ FirstAlike(fs, i) <= i
           /\ \A j \in 1 .. i : SameGlobally(fs[j], fs[i]) => FirstAlike(fs, i) <= j
<1> DEFINE A == {j \in 1 .. i : SameGlobally(fs[j], fs[i])}
<1>1. i \in Nat /\ 1 <= i /\ DOMAIN fs = 1 .. Len(fs) /\ Len(fs) \in Nat /\ i <= Len(fs)
  OBVIOUS
<1>2. i \in A
  BY <1>1 DEF SameGlobally, EqStructural
<1>3. IsFiniteSet(A)
  <2>1. A \subseteq 1 .. i /\ IsFiniteSet(1 .. i)
    BY <1>1, FS_Interval
  <2> QED
    BY <2>1, FS_Subset
<1>4. A \in SUBSET Int
  BY <1>1
<1>5. FirstAlike(fs, i) = Min(A)
  BY DEF FirstAlike
<1> HIDE DEF A
<1>6. Min(A) \in A /\ \A k \in A : Min(A) <= k
  BY <1>2, <1>3, <1>4, MinFact
<1> DEFINE a == FirstAlike(fs, i)
<1>7. a \in A /\ \A k \in A : a <= k
  BY <1>5, <1>6
<1>8. \A k : k \in A <=> k \in 1 .. i /\ SameGlobally(fs[k], fs[i])
  BY DEF A
<1> HIDE DEF a
<1>9. a \in 1 .. i /\ SameGlobally(fs[a], fs[i]) /\ \A j \in 1 .. i : SameGlobally(fs[j], fs[i]) => a <= j
  BY <1>7, <1>8
<1>10. a \in DOMAIN fs /\ a <= i
  BY <1>1, <1>9
<1> QED
  BY <1>9, <1>10 DEF a

\* Later in a list, over the same formula as the first
LEMMA SameFirst ==
    ASSUME NEW fs \in Seq(Formula), NEW i \in DOMAIN fs, NEW j \in DOMAIN fs,
           SameGlobally(fs[i], fs[j]), i <= j
    PROVE  FirstAlike(fs, i) = FirstAlike(fs, j)
<1> DEFINE a == FirstAlike(fs, i)
           b == FirstAlike(fs, j)
<1>1. fs[i].op = "G" /\ fs[j].op = "G"
  BY DEF SameGlobally
<1>2. /\ a \in DOMAIN fs /\ SameGlobally(fs[a], fs[i]) /\ a <= i
      /\ \A k \in 1 .. i : SameGlobally(fs[k], fs[i]) => a <= k
  BY <1>1, FirstAlikeFacts
<1>3. /\ b \in DOMAIN fs /\ SameGlobally(fs[b], fs[j]) /\ b <= j
      /\ \A k \in 1 .. j : SameGlobally(fs[k], fs[j]) => b <= k
  BY <1>1, FirstAlikeFacts
<1> HIDE DEF a, b
<1>4. DOMAIN fs = 1 .. Len(fs) /\ Len(fs) \in Nat /\ i \in Nat /\ j \in Nat
  OBVIOUS
<1>5. SameGlobally(fs[a], fs[j]) /\ SameGlobally(fs[b], fs[i])
  BY <1>2, <1>3 DEF SameGlobally, EqStructural
<1>6. a \in 1 .. j /\ b <= a
  BY <1>2, <1>3, <1>4, <1>5
<1>7. b \in 1 .. i /\ a <= b
  BY <1>2, <1>3, <1>4, <1>5, <1>6
<1> QED
  BY <1>2, <1>3, <1>4, <1>6, <1>7 DEF a, b

\* Inclusion of intervals is transitive.
LEMMA IncludesInTurn ==
    \A i, j, k \in Interval : Includes(i, j) /\ Includes(j, k) => Includes(i, k)
BY DEF Includes, Interval

\* A wider G that goes leaves a narrower one.
LEMMA WiderLeaves ==
    ASSUME NEW fs \in Seq(Formula), \A i \in DOMAIN fs : fs[i].op = "G" => fs[i].int \in Interval,
           NEW d \in Wider(fs)
    PROVE  /\ d \in DOMAIN fs
           /\ \E e \in DOMAIN fs \ Wider(fs) : SameGlobally(fs[d], fs[e]) /\ Includes(fs[d].int, fs[e].int)
<1> DEFINE First(i) == FirstAlike(fs, i)
           Later == {i \in DOMAIN fs : fs[i].op = "G" /\ First(i) # i}
           Narrows(j) == Includes(fs[First(j)].int, fs[j].int) /\ fs[First(j)].int # fs[j].int
<1>1. \A x : x \in Wider(fs) <=> \/ x \in Later /\ Includes(fs[x].int, fs[First(x)].int)
                                 \/ \E j \in Later : Narrows(j) /\ x = First(j)
  BY DEF Wider, FirstAlike
<1>2. \A i \in DOMAIN fs : fs[i].op = "G" =>
          First(i) \in DOMAIN fs /\ SameGlobally(fs[First(i)], fs[i]) /\ First(i) <= i
  BY FirstAlikeFacts
<1>3. \A i \in DOMAIN fs : fs[i].op = "G" => First(First(i)) = First(i)
  <2> SUFFICES ASSUME NEW i \in DOMAIN fs, fs[i].op = "G" PROVE First(First(i)) = First(i)
    OBVIOUS
  <2>1. First(i) \in DOMAIN fs /\ SameGlobally(fs[First(i)], fs[i]) /\ First(i) <= i
    BY <1>2
  <2> QED
    BY <2>1, SameFirst
<1>4. \A i \in DOMAIN fs : i \in Later <=> fs[i].op = "G" /\ First(i) # i
  OBVIOUS
<1>5. Later \subseteq DOMAIN fs
  OBVIOUS
<1> HIDE DEF First, Later
<1>6. ASSUME NEW j \in Later, Narrows(j)
      PROVE  /\ j \in DOMAIN fs \ Wider(fs) /\ First(j) \in DOMAIN fs
             /\ SameGlobally(fs[First(j)], fs[j]) /\ Includes(fs[First(j)].int, fs[j].int)
  <2>1. j \in DOMAIN fs /\ fs[j].op = "G" /\ First(j) # j
    BY <1>4, <1>5
  <2>2. First(j) \in DOMAIN fs /\ SameGlobally(fs[First(j)], fs[j])
    BY <1>2, <2>1
  <2>3. ~Includes(fs[j].int, fs[First(j)].int)
    <3> DEFINE a == fs[First(j)].int
               c == fs[j].int
    <3>1. a \in Interval /\ c \in Interval
      BY <2>1, <2>2 DEF SameGlobally
    <3>2. a = [lower |-> a.lower, upper |-> a.upper] /\ c = [lower |-> c.lower, upper |-> c.upper]
          /\ a.lower \in Nat /\ a.upper \in Nat /\ c.lower \in Nat /\ c.upper \in Nat
      BY <3>1 DEF Interval
    <3>3. Includes(a, c) /\ a # c
      BY <1>6
    <3> HIDE DEF a, c
    <3>4. ~Includes(c, a)
      <4> SUFFICES ASSUME Includes(c, a) PROVE FALSE
        OBVIOUS
      <4>1. a.lower = c.lower /\ a.upper = c.upper
        BY <3>2, <3>3 DEF Includes
      <4> QED
        BY <3>2, <3>3, <4>1
    <3> QED
      BY <3>4 DEF a, c
  <2>4. \A x \in Later : First(x) # j
    BY <1>3, <1>4, <1>5, <2>1
  <2>5. j \notin Wider(fs)
    BY <1>1, <2>3, <2>4
  <2> QED
    BY <1>6, <2>1, <2>2, <2>5
<1>7. CASE \E j \in Later : Narrows(j) /\ d = First(j)
  <2>1. PICK j \in Later : Narrows(j) /\ d = First(j)
    BY <1>7
  <2> HIDE DEF Narrows
  <2> QED
    BY <1>6, <2>1
<1>8. CASE d \in Later /\ Includes(fs[d].int, fs[First(d)].int)
  <2> DEFINE e == First(d)
  <2>1. d \in DOMAIN fs /\ fs[d].op = "G"
    BY <1>4, <1>5, <1>8
  <2>2. e \in DOMAIN fs /\ SameGlobally(fs[e], fs[d]) /\ First(e) = e /\ Includes(fs[d].int, fs[e].int)
    BY <1>2, <1>3, <1>8, <2>1
  <2> HIDE DEF e
  <2>3. SameGlobally(fs[d], fs[e])
    BY <2>2 DEF SameGlobally, EqStructural
  <2>4. CASE e \notin Wider(fs)
    BY <2>1, <2>2, <2>3, <2>4
  <2>5. CASE e \in Wider(fs)
    <3>1. e \notin Later
      BY <1>4, <1>5, <2>2
    <3>2. PICK j \in Later : Narrows(j) /\ e = First(j)
      BY <1>1, <2>5, <3>1
    <3> HIDE DEF Narrows
    <3>3. j \in DOMAIN fs \ Wider(fs) /\ SameGlobally(fs[e], fs[j]) /\ Includes(fs[e].int, fs[j].int)
      BY <1>6, <3>2
    <3>4. SameGlobally(fs[d], fs[j])
      BY <2>3, <3>3 DEF SameGlobally, EqStructural
    <3>5. Includes(fs[d].int, fs[j].int)
      <4>1. fs[d].int \in Interval /\ fs[e].int \in Interval /\ fs[j].int \in Interval
        BY <2>1, <2>2, <3>3 DEF SameGlobally
      <4> QED
        BY <2>2, <3>3, <4>1, IncludesInTurn
    <3> QED
      BY <2>1, <3>3, <3>4, <3>5
  <2> QED
    BY <2>4, <2>5
<1> QED
  BY <1>1, <1>7, <1>8

\* In a disjunction the wider G can be left out.
LEMMA WiderReplaces ==
    ASSUME NEW fs, NEW m \in BOOLEAN, NEW strict, NEW b, SoundElements(fs, m, strict, b)
    PROVE  Replaces("or", fs, Those(fs, DOMAIN fs \ Wider(fs)), m, strict, b)
<1> DEFINE places == DOMAIN fs \ Wider(fs)
<1>1. fs \in Seq(Formula)
  BY DEF SoundElements
<1>2. \A i \in DOMAIN fs : fs[i] \in Formula /\ Sound(fs[i], m, strict)
  BY ElementFacts
<1>3. \A i \in DOMAIN fs : fs[i].op = "G" => fs[i].int \in Interval
  BY <1>2, SoundFacts DEF SoundAt, IsTemporal
<1>4. \A d \in Wider(fs) :
          \E e \in places : SameGlobally(fs[d], fs[e]) /\ Includes(fs[d].int, fs[e].int)
  BY <1>1, <1>3, WiderLeaves
<1>5. \A i \in DOMAIN fs : i \notin places => i \in Wider(fs)
  OBVIOUS
<1>6. places \subseteq DOMAIN fs
  OBVIOUS
<1> HIDE DEF places
<1>7. ASSUME NEW sig, Steady(sig), NEW t \in Int,
             \A j \in DOMAIN fs \cap places : Yields("or", fs[j], sig, t, m), NEW i \in DOMAIN fs
      PROVE  Yields("or", fs[i], sig, t, m)
  <2>1. \A f : Yields("or", f, sig, t, m) <=> ~Smt(sig, t, f, m)
    BY DEF Yields
  <2>2. CASE i \in places
    BY <1>7, <2>2
  <2>3. CASE i \notin places
    <3>1. PICK e \in places : SameGlobally(fs[i], fs[e]) /\ Includes(fs[i].int, fs[e].int)
      BY <1>4, <1>5, <2>3
    <3>2. ~Smt(sig, t, fs[e], m)
      BY <1>6, <1>7, <2>1, <3>1
    <3>3. Smt(sig, t, fs[i], m) => Smt(sig, t, fs[e], m)
      BY <1>2, <1>6, <1>7, <3>1, GloballyIncludes DEF SameGlobally
    <3> QED
      BY <2>1, <3>2, <3>3
  <2> QED
    BY <2>2, <2>3
<1>8. \A sig : Steady(sig) => \A t \in Int :
          (\A j \in DOMAIN fs \cap places : Yields("or", fs[j], sig, t, m))
              => \A i \in DOMAIN fs : Yields("or", fs[i], sig, t, m)
  BY <1>7
<1>9. Replaces("or", fs, Those(fs, places), m, strict, b)
  BY <1>8, ThoseReplace
<1> QED
  BY <1>9 DEF places

----------------------------------------------------------------------------
(* A G takes in those that it meets. *)

\* A set of formulas in which a G may have any interval
HoldsAnyInterval(S) == \A g \in S : g.op = "G" => \A int \in Times : [g EXCEPT !.int = int] \in S

\* The levels are such sets.
LEMMA LevelHoldsAnyInterval ==
    ASSUME NEW n \in Nat
    PROVE  HoldsAnyInterval(FormulaUpTo[n])
<1> SUFFICES ASSUME NEW g \in FormulaUpTo[n], g.op = "G", NEW int \in Times
             PROVE  [g EXCEPT !.int = int] \in FormulaUpTo[n]
  BY DEF HoldsAnyInterval
<1>1. g \notin Propositions /\ IsTemporal(g)
  BY PropositionShape DEF IsTemporal
<1>2. PICK S : g \in Compound(S) /\ Compound(S) \subseteq FormulaUpTo[n]
  BY <1>1, LevelBelow
<1>3. [g EXCEPT !.int = int] \in Compound(S)
  BY <1>1, <1>2, WithInt
<1> QED
  BY <1>2, <1>3

\* So is the set of all formulas.
LEMMA FormulaHoldsAnyInterval == HoldsAnyInterval(Formula)
BY LevelHoldsAnyInterval, NestingAssumption DEF Formula

\* The two ways in which AddGlobally takes a formula in
LEMMA AddGloballyCases ==
    ASSUME NEW S, NEW kept \in Seq(S), NEW f \in S
    PROVE  \/ AddGlobally(kept, f) = Append(kept, f)
           \/ \E first \in DOMAIN kept :
                /\ SameGlobally(kept[first], f)
                /\ Intersects(kept[first].int, f.int) \/ Contiguous(kept[first].int, f.int)
                /\ AddGlobally(kept, f) =
                     [kept EXCEPT ![first] = [kept[first] EXCEPT !.int = Union(kept[first].int, f.int)]]
<1> DEFINE alike == {k \in DOMAIN kept : SameGlobally(kept[k], f)}
           first == Min(alike)
           meets == Intersects(kept[first].int, f.int) \/ Contiguous(kept[first].int, f.int)
<1>1. AddGlobally(kept, f) =
          IF alike # {} /\ meets
          THEN [kept EXCEPT ![first] = [kept[first] EXCEPT !.int = Union(kept[first].int, f.int)]]
          ELSE Append(kept, f)
  BY DEF AddGlobally
<1>2. CASE ~(alike # {} /\ meets)
  BY <1>1, <1>2
<1>3. CASE alike # {} /\ meets
  <2>1. DOMAIN kept = 1 .. Len(kept) /\ Len(kept) \in Nat
    OBVIOUS
  <2>2. IsFiniteSet(alike) /\ alike \in SUBSET Int
    <3>1. IsFiniteSet(1 .. Len(kept)) /\ alike \subseteq 1 .. Len(kept)
      BY <2>1, FS_Interval
    <3> HIDE DEF alike
    <3>2. IsFiniteSet(alike)
      BY <3>1, FS_Subset
    <3> QED
      BY <2>1, <3>1, <3>2
  <2>3. first \in alike
    <3> HIDE DEF alike
    <3> QED
      BY <1>3, <2>2, MinFact
  <2>4. first \in DOMAIN kept /\ SameGlobally(kept[first], f)
    BY <2>3
  <2> HIDE DEF alike, first
  <2> QED
    BY <1>1, <1>3, <2>4
<1> QED
  BY <1>2, <1>3

\* The union of two intervals has bounds like theirs.
LEMMA UnionTimes ==
    ASSUME NEW i \in Times, NEW j \in Times
    PROVE  Union(i, j) \in Times
BY DEF Union, Span, Lesser, Greater, Times

\* Gathering a G makes no formula that is not of the set.
LEMMA AddGloballyInSeq ==
    ASSUME NEW S, S \subseteq Formula, HoldsAnyInterval(S), NEW kept \in Seq(S), NEW f \in S
    PROVE  AddGlobally(kept, f) \in Seq(S)
<1>1. CASE AddGlobally(kept, f) = Append(kept, f)
  BY <1>1
<1>2. ASSUME NEW first \in DOMAIN kept, SameGlobally(kept[first], f),
             AddGlobally(kept, f) =
                [kept EXCEPT ![first] = [kept[first] EXCEPT !.int = Union(kept[first].int, f.int)]]
      PROVE  AddGlobally(kept, f) \in Seq(S)
  <2> DEFINE g == kept[first]
             w == [g EXCEPT !.int = Union(g.int, f.int)]
  <2>1. g \in S /\ g.op = "G" /\ f.op = "G"
    BY <1>2 DEF SameGlobally
  <2>2. g.int \in Times /\ f.int \in Times
    BY <2>1, FormulaShape
  <2>3. w \in S
    <3> DEFINE u == Union(g.int, f.int)
    <3>1. u \in Times
      BY <2>2, UnionTimes
    <3> HIDE DEF g, u
    <3> QED
      BY <2>1, <3>1 DEF HoldsAnyInterval, u
  <2> HIDE DEF w
  <2>4. [kept EXCEPT ![first] = w] \in Seq(S)
    BY <2>3
  <2> QED
    BY <1>2, <2>4 DEF w
<1> QED
  BY <1>1, <1>2, AddGloballyCases

\* Intervals that meet have just the instants of their union.
LEMMA UnionInstants ==
    ASSUME NEW i \in Interval, NEW j \in Interval, Intersects(i, j) \/ Contiguous(i, j)
    PROVE  /\ Union(i, j) \in Interval
           /\ \A x : x \in Union(i, j).lower .. Union(i, j).upper
                        <=> x \in i.lower .. i.upper \/ x \in j.lower .. j.upper
           /\ Union(i, j).upper = i.upper \/ Union(i, j).upper = j.upper
<1> DEFINE u == Union(i, j)
<1>1. /\ u.lower = IF i.lower <= j.lower THEN i.lower ELSE j.lower
      /\ u.upper = IF i.upper >= j.upper THEN i.upper ELSE j.upper
      /\ u = [lower |-> u.lower, upper |-> u.upper]
  BY DEF Union, Span, Lesser, Greater
<1>2. /\ i.lower \in Nat /\ i.upper \in Nat /\ i.lower <= i.upper
      /\ j.lower \in Nat /\ j.upper \in Nat /\ j.lower <= j.upper
  BY DEF Interval
<1>3. \/ i.upper >= j.lower /\ j.upper >= i.lower
      \/ i.upper + 1 = j.lower
      \/ j.upper + 1 = i.lower
  BY DEF Intersects, Contiguous
<1> HIDE DEF u
<1>4. u.lower \in Nat /\ u.upper \in Nat /\ u.lower <= u.upper
  BY <1>1, <1>2
<1>5. u \in Interval
  BY <1>1, <1>4 DEF Interval
<1>6. \A x : x \in u.lower .. u.upper <=> x \in i.lower .. i.upper \/ x \in j.lower .. j.upper
  BY <1>1, <1>2, <1>3
<1> QED
  BY <1>1, <1>5, <1>6 DEF u

\* A G that takes in one that meets it says both.
LEMMA UnionOfGlobally ==
    ASSUME NEW g \in Formula, NEW f \in Formula, SameGlobally(g, f),
           Intersects(g.int, f.int) \/ Contiguous(g.int, f.int), NEW m \in BOOLEAN, NEW strict, NEW b \in Nat,
           Sound(g, m, strict), Sound(f, m, strict), Horizon[g] <= b, Horizon[f] <= b,
           NEW w, w = [g EXCEPT !.int = Union(g.int, f.int)]
    PROVE  /\ w \in Formula /\ Sound(w, m, strict) /\ Horizon[w] <= b
           /\ \A sig : Steady(sig) => \A t \in Int :
                  Smt(sig, t, w, m) <=> Smt(sig, t, g, m) /\ Smt(sig, t, f, m)
<1> DEFINE u == Union(g.int, f.int)
<1>1. g.op = "G" /\ f.op = "G" /\ EqStructural(g.phi, f.phi)
  BY DEF SameGlobally
<1>2. g = [op |-> "G", int |-> g.int, phi |-> g.phi] /\ g.phi \in Formula /\ f.phi \in Formula
      /\ g.phi \in Operands(g) /\ f.phi \in Operands(f) /\ g.phi \in Scope(g) /\ f.phi \in Scope(f)
  BY <1>1, FormulaShape, ScopeParts
<1>3. /\ g.int \in Interval /\ f.int \in Interval /\ Sound(g.phi, m, strict) /\ Sound(f.phi, m, strict)
      /\ Proper(g) /\ Proper(f)
  BY <1>1, <1>2, SoundFacts DEF SoundAt, IsTemporal
<1>4. /\ u \in Interval
      /\ \A x : x \in u.lower .. u.upper <=> x \in g.int.lower .. g.int.upper \/ x \in f.int.lower .. f.int.upper
      /\ u.upper = g.int.upper \/ u.upper = f.int.upper
  BY <1>3, UnionInstants
<1>5. w.op = "G" /\ w.int = u /\ w.phi = g.phi
  BY <1>2
<1>6. w \in Formula
  <2>1. u \in Times
    BY <1>4 DEF Interval, Times
  <2> HIDE DEF u
  <2> QED
    BY <1>1, <2>1, FormulaHoldsAnyInterval DEF HoldsAnyInterval, u
<1> HIDE DEF u
<1>7. w.int.upper + Horizon[w.phi] <= b
  <2>1. Horizon[g.phi] = Horizon[f.phi]
    BY <1>1, <1>2, <1>3, EqualFacts
  <2>2. g.int.upper + Horizon[g.phi] <= Horizon[g] /\ Horizon[g] \in Nat /\ Horizon[g.phi] \in Nat
    BY <1>1, <1>2, <1>3, HorizonOfProper DEF IsTemporal
  <2>3. f.int.upper + Horizon[f.phi] <= Horizon[f] /\ Horizon[f] \in Nat
    BY <1>1, <1>2, <1>3, HorizonOfProper DEF IsTemporal
  <2>4. g.int.upper \in Nat /\ f.int.upper \in Nat
    BY <1>3 DEF Interval
  <2> QED
    BY <1>4, <1>5, <2>1, <2>2, <2>3, <2>4
<1>8. Sound(w, m, strict) /\ Horizon[w] <= b
  <2>1. w.op \in {"G", "F"} /\ w.int \in Interval /\ Sound(w.phi, m, strict)
    BY <1>3, <1>4, <1>5
  <2> QED
    BY <1>6, <1>7, <2>1, UnarySound
<1>9. ASSUME NEW sig, Steady(sig), NEW t \in Int
      PROVE  Smt(sig, t, w, m) <=> Smt(sig, t, g, m) /\ Smt(sig, t, f, m)
  <2>1. Smt(sig, t, w, m) <=> \A i \in w.int.lower .. w.int.upper : Smt(sig, t + i, w.phi, m)
    BY <1>5, <1>6, SmtGlobally
  <2>2. Smt(sig, t, w, m) <=> \A i \in u.lower .. u.upper : Smt(sig, t + i, g.phi, m)
    BY <1>5, <2>1
  <2>3. Smt(sig, t, g, m) <=> \A i \in g.int.lower .. g.int.upper : Smt(sig, t + i, g.phi, m)
    BY <1>1, SmtGlobally
  <2>4. Smt(sig, t, f, m) <=> \A i \in f.int.lower .. f.int.upper : Smt(sig, t + i, f.phi, m)
    BY <1>1, SmtGlobally
  <2>5. \A i \in f.int.lower .. f.int.upper : Smt(sig, t + i, f.phi, m) <=> Smt(sig, t + i, g.phi, m)
    <3> SUFFICES ASSUME NEW i \in f.int.lower .. f.int.upper
                 PROVE  Smt(sig, t + i, f.phi, m) <=> Smt(sig, t + i, g.phi, m)
      OBVIOUS
    <3> DEFINE v == t + i
    <3>1. v \in Int
      BY <1>3 DEF Interval
    <3> HIDE DEF v
    <3>2. Smt(sig, v, g.phi, m) <=> Smt(sig, v, f.phi, m)
      BY <1>1, <1>2, <1>3, <1>9, <3>1, EqualFacts
    <3> QED
      BY <3>2 DEF v
  <2> QED
    BY <1>4, <2>2, <2>3, <2>4, <2>5
<1> QED
  BY <1>6, <1>8, <1>9

\* A conjunction with a G gathered into it says what both said.
LEMMA AddGloballyYields ==
    ASSUME NEW m \in BOOLEAN, NEW strict, NEW b \in Nat, NEW kept, SoundElements(kept, m, strict, b),
           NEW f \in Formula, Sound(f, m, strict), Horizon[f] <= b,
           NEW r, r = AddGlobally(kept, f)
    PROVE  /\ SoundElements(r, m, strict, b)
           /\ \A sig : Steady(sig) => \A t \in Int :
                 AllYield("and", r, sig, t, m)
                     <=> AllYield("and", kept, sig, t, m) /\ Yields("and", f, sig, t, m)
<1>1. kept \in Seq(Formula) /\ DOMAIN kept = 1 .. Len(kept) /\ Len(kept) \in Nat
  BY DEF SoundElements
<1>2. CASE r = Append(kept, f)
  <2>1. r \in Seq(Formula) /\ ToSet(r) = ToSet(kept) \cup {f}
    BY <1>1, <1>2 DEF ToSet
  <2>2. SoundElements(r, m, strict, b)
    BY <2>1 DEF SoundElements
  <2> QED
    BY <2>1, <2>2 DEF AllYield
<1>3. ASSUME NEW first \in DOMAIN kept, SameGlobally(kept[first], f),
             Intersects(kept[first].int, f.int) \/ Contiguous(kept[first].int, f.int),
             r = [kept EXCEPT ![first] = [kept[first] EXCEPT !.int = Union(kept[first].int, f.int)]]
      PROVE  /\ SoundElements(r, m, strict, b)
             /\ \A sig : Steady(sig) => \A t \in Int :
                   AllYield("and", r, sig, t, m)
                       <=> AllYield("and", kept, sig, t, m) /\ Yields("and", f, sig, t, m)
  <2> DEFINE g == kept[first]
             w == [g EXCEPT !.int = Union(g.int, f.int)]
  <2>1. g \in Formula /\ Sound(g, m, strict) /\ Horizon[g] <= b
    BY ElementFacts
  <2>2. SameGlobally(g, f) /\ (Intersects(g.int, f.int) \/ Contiguous(g.int, f.int)) /\ r = [kept EXCEPT ![first] = w]
    BY <1>3
  <2> HIDE DEF g
  <2>3. /\ w \in Formula /\ Sound(w, m, strict) /\ Horizon[w] <= b
        /\ \A sig : Steady(sig) => \A t \in Int :
               Smt(sig, t, w, m) <=> Smt(sig, t, g, m) /\ Smt(sig, t, f, m)
    BY <2>1, <2>2, UnionOfGlobally
  <2> HIDE DEF w
  <2>4. /\ r \in Seq(Formula) /\ DOMAIN r = DOMAIN kept /\ r[first] = w
        /\ \A i \in DOMAIN kept : i # first => r[i] = kept[i]
    BY <1>1, <2>2, <2>3
  <2>5. \A i \in DOMAIN kept : kept[i] \in Formula /\ Sound(kept[i], m, strict) /\ Horizon[kept[i]] <= b
    BY ElementFacts
  <2>6. ToSet(r) = {r[i] : i \in DOMAIN r} /\ ToSet(kept) = {kept[i] : i \in DOMAIN kept}
    BY DEF ToSet
  <2>7. SoundElements(r, m, strict, b)
    <3>1. \A i \in DOMAIN r : Sound(r[i], m, strict) /\ Horizon[r[i]] <= b
      BY <2>3, <2>4, <2>5
    <3> QED
      BY <2>4, <2>6, <3>1 DEF SoundElements
  <2>8. ASSUME NEW sig, Steady(sig), NEW t \in Int
        PROVE  AllYield("and", r, sig, t, m)
                   <=> AllYield("and", kept, sig, t, m) /\ Yields("and", f, sig, t, m)
    <3>1. \A h : Yields("and", h, sig, t, m) <=> Smt(sig, t, h, m)
      BY DEF Yields
    <3>2. AllYield("and", r, sig, t, m) <=> \A i \in DOMAIN r : Smt(sig, t, r[i], m)
      BY <2>6, <3>1 DEF AllYield
    <3>3. AllYield("and", kept, sig, t, m) <=> \A i \in DOMAIN kept : Smt(sig, t, kept[i], m)
      BY <2>6, <3>1 DEF AllYield
    <3>4. Smt(sig, t, w, m) <=> Smt(sig, t, kept[first], m) /\ Smt(sig, t, f, m)
      BY <2>3, <2>8 DEF g
    <3> QED
      BY <2>4, <3>1, <3>2, <3>3, <3>4
  <2> QED
    BY <2>7, <2>8
<1> QED
  BY <1>1, <1>2, <1>3, AddGloballyCases

\* gs[n] is what the first n elements of fs are gathered to.
Gathers(gs, fs) ==
    /\ gs[0] = <<>>
    /\ \A n \in 1 .. Len(fs) : gs[n] = AddGlobally(gs[n - 1], fs[n])
    /\ Gathered(fs) = gs[Len(fs)]

\* Gathering the elements one by one is defined,
LEMMA GatheredSteps ==
    ASSUME NEW S, S \subseteq Formula, HoldsAnyInterval(S), NEW fs \in Seq(S)
    PROVE  \E gs : Gathers(gs, fs) /\ \A n \in 0 .. Len(fs) : gs[n] \in Seq(S)
<1> DEFINE L == Len(fs)
           X == Seq(S)
           h == [i \in 1 .. L |-> [kept \in X |-> AddGlobally(kept, fs[i])]]
           empty == <<>>
<1>1. L \in Nat /\ empty \in X /\ DOMAIN fs = 1 .. L
  OBVIOUS
<1>2. \A i \in 1 .. L : fs[i] \in S
  OBVIOUS
<1>3. h \in [1 .. L -> [X -> X]]
  <2>1. \A i \in 1 .. L : \A kept \in X : AddGlobally(kept, fs[i]) \in X
    BY <1>2, AddGloballyInSeq
  <2> HIDE DEF L, X
  <2> QED
    BY <2>1
<1> HIDE DEF X, h, empty
<1>4. PICK g \in [0 .. L -> X] : Iterates(g, L, empty, h)
  <2> HIDE DEF L
  <2> QED
    BY <1>1, <1>3, Iteration
<1>5. \A i \in 1 .. L : \A kept \in X : h[i][kept] = AddGlobally(kept, fs[i])
  BY DEF h
<1> HIDE DEF L
<1>6. g[0] = empty /\ \A i \in 1 .. L : g[i] = AddGlobally(g[i - 1], fs[i])
  <2>1. \A i \in 1 .. L : i - 1 \in 0 .. L
    BY <1>1
  <2> QED
    BY <1>4, <1>5, <2>1 DEF Iterates
<1>7. g = [n \in 0 .. L |-> IF n = 0 THEN empty ELSE AddGlobally(g[n - 1], fs[n])]
  <2>1. \A n \in 0 .. L : n # 0 => n \in 1 .. L
    BY <1>1
  <2>2. \A n \in 0 .. L : g[n] = IF n = 0 THEN empty ELSE AddGlobally(g[n - 1], fs[n])
    BY <1>6, <2>1
  <2> QED
    BY <2>2
<1>8. \E x : x = [n \in 0 .. L |-> IF n = 0 THEN empty ELSE AddGlobally(x[n - 1], fs[n])]
  BY <1>7, Zenon
<1> DEFINE gs == CHOOSE x : x = [n \in 0 .. L |-> IF n = 0 THEN empty ELSE AddGlobally(x[n - 1], fs[n])]
<1>9. gs = [n \in 0 .. L |-> IF n = 0 THEN empty ELSE AddGlobally(gs[n - 1], fs[n])]
  BY <1>8, Zenon
<1>10. Gathered(fs) = gs[L]
  BY Zenon DEF Gathered, L, empty
<1> HIDE DEF gs
<1>11. gs[0] = empty /\ \A n \in 1 .. L : gs[n] = AddGlobally(gs[n - 1], fs[n])
  <2>1. 0 \in 0 .. L /\ \A n \in 1 .. L : n \in 0 .. L /\ n # 0
    BY <1>1
  <2> QED
    BY <1>9, <2>1
<1>12. \A n \in 0 .. L : gs[n] \in X
  <2> DEFINE T == {n \in 0 .. L : gs[n] \in X}
  <2>1. 0 \in T
    BY <1>1, <1>11
  <2>2. ASSUME NEW i \in 0 .. L, i # L, i \in T PROVE i + 1 \in T
    <3> DEFINE j == i + 1
    <3>1. j \in 1 .. L /\ j \in 0 .. L /\ j - 1 = i
      BY <1>1, <2>2
    <3> HIDE DEF j
    <3>2. AddGlobally(gs[i], fs[j]) \in X
      BY <1>2, <2>2, <3>1, AddGloballyInSeq DEF X
    <3> QED
      BY <1>11, <3>1, <3>2 DEF j
  <2>3. 0 .. L \subseteq T
    <3> HIDE DEF T
    <3> QED
      BY <1>1, <2>1, <2>2, IntervalInduction
  <2> QED
    BY <2>3
<1>13. Gathers(gs, fs)
  BY <1>10, <1>11 DEF Gathers, L, empty
<1> QED
  BY <1>12, <1>13 DEF L, X

\* and makes formulas of the set.
LEMMA GatheredInSeq ==
    ASSUME NEW S, S \subseteq Formula, HoldsAnyInterval(S), NEW fs \in Seq(S)
    PROVE  Gathered(fs) \in Seq(S)
<1>1. PICK gs : Gathers(gs, fs) /\ \A n \in 0 .. Len(fs) : gs[n] \in Seq(S)
  BY GatheredSteps
<1>2. Len(fs) \in 0 .. Len(fs)
  OBVIOUS
<1> QED
  BY <1>1, <1>2 DEF Gathers

\* Gathering the G of a conjunction changes nothing.
LEMMA GatheredReplaces ==
    ASSUME NEW fs, NEW m \in BOOLEAN, NEW strict, NEW b \in Nat, SoundElements(fs, m, strict, b)
    PROVE  Replaces("and", fs, Gathered(fs), m, strict, b)
<1> DEFINE L == Len(fs)
<1>1. fs \in Seq(Formula) /\ L \in Nat /\ DOMAIN fs = 1 .. L
  BY DEF SoundElements
<1>2. PICK gs : Gathers(gs, fs) /\ \A n \in 0 .. L : gs[n] \in Seq(Formula)
  BY <1>1, GatheredSteps, FormulaHoldsAnyInterval
<1>3. gs[0] = <<>> /\ (\A n \in 1 .. L : gs[n] = AddGlobally(gs[n - 1], fs[n])) /\ Gathered(fs) = gs[L]
  BY <1>2 DEF Gathers
<1> HIDE DEF L
<1> DEFINE T == {n \in 0 .. L : /\ SoundElements(gs[n], m, strict, b)
                                /\ \A sig : Steady(sig) => \A t \in Int :
                                      AllYield("and", gs[n], sig, t, m)
                                          <=> \A i \in 1 .. n : Yields("and", fs[i], sig, t, m)}
<1>4. 0 \in T
  <2>1. ToSet(gs[0]) = {} /\ gs[0] \in Seq(Formula)
    BY <1>3 DEF ToSet
  <2>2. 0 \in 0 .. L /\ 1 .. 0 = {}
    BY <1>1
  <2> QED
    BY <2>1, <2>2 DEF SoundElements, AllYield
<1>5. ASSUME NEW i \in 0 .. L, i # L, i \in T PROVE i + 1 \in T
  <2> DEFINE j == i + 1
  <2>1. j \in 1 .. L /\ j \in 0 .. L /\ j - 1 = i /\ \A k : k \in 1 .. j <=> k \in 1 .. i \/ k = j
    BY <1>1, <1>5
  <2> HIDE DEF j
  <2> DEFINE f == fs[j]
             r == gs[j]
             kept == gs[i]
  <2>2. f \in Formula /\ Sound(f, m, strict) /\ Horizon[f] <= b
    BY <1>1, <2>1, ElementFacts
  <2>3. r = AddGlobally(kept, f) /\ SoundElements(kept, m, strict, b)
    BY <1>3, <1>5, <2>1
  <2>4. \A sig : Steady(sig) => \A t \in Int :
            AllYield("and", kept, sig, t, m) <=> \A k \in 1 .. i : Yields("and", fs[k], sig, t, m)
    BY <1>5
  <2> HIDE DEF f, r, kept
  <2>5. /\ SoundElements(r, m, strict, b)
        /\ \A sig : Steady(sig) => \A t \in Int :
              AllYield("and", r, sig, t, m)
                  <=> AllYield("and", kept, sig, t, m) /\ Yields("and", f, sig, t, m)
    BY <2>2, <2>3, AddGloballyYields
  <2>6. \A sig : Steady(sig) => \A t \in Int :
            AllYield("and", r, sig, t, m) <=> \A k \in 1 .. j : Yields("and", fs[k], sig, t, m)
    BY <2>1, <2>4, <2>5 DEF f
  <2> QED
    BY <2>1, <2>5, <2>6 DEF r, j
<1>6. 0 .. L \subseteq T
  <2> HIDE DEF T
  <2> QED
    BY <1>1, <1>4, <1>5, IntervalInduction
<1>7. L \in T
  BY <1>1, <1>6
<1>8. ToSet(fs) = {fs[i] : i \in 1 .. L}
  BY <1>1 DEF ToSet
<1>9. SameYield("and", fs, gs[L], m)
  BY <1>7, <1>8 DEF SameYield, AllYield
<1> QED
  BY <1>3, <1>7, <1>9 DEF Replaces

----------------------------------------------------------------------------
(* The simplification of a junction, list by list *)

\* The neutral constant yields, the absorbing one does not.
LEMMA SettlingConstants ==
    ASSUME NEW op \in {"and", "or"}, NEW m \in BOOLEAN, NEW strict
    PROVE  /\ Neutral(op) \in Propositions /\ Sound(Neutral(op), m, strict) /\ Horizon[Neutral(op)] = 0
           /\ Absorbing(op) \in Propositions /\ Sound(Absorbing(op), m, strict) /\ Horizon[Absorbing(op)] = 0
           /\ \A sig : Steady(sig) => \A t \in Int :
                 Yields(op, Neutral(op), sig, t, m) /\ ~Yields(op, Absorbing(op), sig, t, m)
<1>1. CASE op = "and"
  <2>1. Neutral(op) = True /\ Absorbing(op) = False
    BY <1>1 DEF Neutral, Absorbing
  <2> QED
    BY <1>1, <2>1, ConstantFacts DEF Yields
<1>2. CASE op = "or"
  <2>1. Neutral(op) = False /\ Absorbing(op) = True
    BY <1>2 DEF Neutral, Absorbing
  <2> QED
    BY <1>2, <2>1, ConstantFacts DEF Yields
<1> QED
  BY <1>1, <1>2

\* The lists that the simplification of a junction goes through
JunctionSteps(op, fs, unique, rest, reduced, merged) ==
    /\ unique = Unique(fs)
    /\ rest = Those(unique, {i \in DOMAIN unique : ~EqStructural(unique[i], Neutral(op))})
    /\ reduced = Those(rest, {i \in DOMAIN rest : ~Redundant(op, rest[i], rest)})
    /\ merged = MergeTemporal(op, reduced)

\* An operand stands beside its negation.
Clash(rest) == \E i \in DOMAIN rest : rest[i].op = "not" /\ Occurs(rest[i].phi, rest)

\* What the simplifier makes of a junction, by those lists
LEMMA SimplifiedJunction ==
    ASSUME NEW f
    PROVE  \E unique, rest, reduced, merged :
             /\ JunctionSteps(f.op, Spliced(f.op, f.args), unique, rest, reduced, merged)
             /\ SimplifyJunction(f) =
                  IF Occurs(Absorbing(f.op), unique) \/ Clash(rest) THEN Absorbing(f.op)
                  ELSE IF Len(merged) = 0 THEN Neutral(f.op)
                  ELSE IF Len(merged) = 1 THEN merged[1]
                  ELSE [f EXCEPT !.args = merged]
<1> DEFINE unique == Unique(Spliced(f.op, f.args))
           rest == Those(unique, {i \in DOMAIN unique : ~EqStructural(unique[i], Neutral(f.op))})
           reduced == Those(rest, {i \in DOMAIN rest : ~Redundant(f.op, rest[i], rest)})
           merged == MergeTemporal(f.op, reduced)
<1>1. JunctionSteps(f.op, Spliced(f.op, f.args), unique, rest, reduced, merged)
  BY DEF JunctionSteps
<1>2. SimplifyJunction(f) =
        IF Occurs(Absorbing(f.op), unique) \/ Clash(rest) THEN Absorbing(f.op)
        ELSE IF Len(merged) = 0 THEN Neutral(f.op)
        ELSE IF Len(merged) = 1 THEN merged[1]
        ELSE [f EXCEPT !.args = merged]
  BY DEF SimplifyJunction, Joined, Clash
<1> HIDE DEF unique, rest, reduced, merged
<1> QED
  BY <1>1, <1>2

\* The lists are of formulas of the set.
LEMMA JunctionStepsInSeq ==
    ASSUME NEW S, S \subseteq Formula, HoldsAnyInterval(S), NEW op, NEW fs \in Seq(S),
           NEW unique, NEW rest, NEW reduced, NEW merged,
           JunctionSteps(op, fs, unique, rest, reduced, merged)
    PROVE  unique \in Seq(S) /\ rest \in Seq(S) /\ reduced \in Seq(S) /\ merged \in Seq(S)
<1>1. unique \in Seq(S)
  BY ThoseElements DEF JunctionSteps, Unique
<1>2. rest \in Seq(S)
  BY <1>1, ThoseElements DEF JunctionSteps
<1>3. reduced \in Seq(S)
  BY <1>2, ThoseElements DEF JunctionSteps
<1>4. Gathered(reduced) \in Seq(S) /\ Those(reduced, DOMAIN reduced \ Wider(reduced)) \in Seq(S)
  BY <1>3, GatheredInSeq, ThoseElements
<1>5. merged = MergeTemporal(op, reduced)
  BY DEF JunctionSteps
<1>6. merged \in Seq(S)
  BY <1>4, <1>5 DEF MergeTemporal
<1> QED
  BY <1>1, <1>2, <1>3, <1>6

\* Each of them can take the place of the first.
LEMMA JunctionStepsReplace ==
    ASSUME NEW op \in {"and", "or"}, NEW m \in BOOLEAN, NEW strict, NEW b \in Nat, NEW fs,
           SoundElements(fs, m, strict, b), NEW unique, NEW rest, NEW reduced, NEW merged,
           JunctionSteps(op, fs, unique, rest, reduced, merged)
    PROVE  /\ Replaces(op, fs, unique, m, strict, b)
           /\ Replaces(op, fs, rest, m, strict, b)
           /\ Replaces(op, fs, merged, m, strict, b)
<1>1. Replaces(op, fs, unique, m, strict, b)
  BY UniqueReplaces DEF JunctionSteps
<1>2. SoundElements(unique, m, strict, b)
  BY <1>1 DEF Replaces
<1>3. Replaces(op, unique, rest, m, strict, b)
  BY <1>2, NeutralReplaces DEF JunctionSteps
<1>4. Replaces(op, fs, rest, m, strict, b) /\ SoundElements(rest, m, strict, b)
  BY <1>1, <1>3, ReplacesInTurn DEF Replaces
<1>5. Replaces(op, rest, reduced, m, strict, b)
  BY <1>4, RedundantReplaces DEF JunctionSteps
<1>6. Replaces(op, fs, reduced, m, strict, b) /\ SoundElements(reduced, m, strict, b)
  BY <1>4, <1>5, ReplacesInTurn DEF Replaces
<1>7. Replaces(op, reduced, merged, m, strict, b)
  <2>1. merged = MergeTemporal(op, reduced)
    BY DEF JunctionSteps
  <2>2. CASE op = "and"
    <3>1. merged = Gathered(reduced)
      BY <2>1, <2>2 DEF MergeTemporal
    <3>2. Replaces("and", reduced, Gathered(reduced), m, strict, b)
      BY <1>6, GatheredReplaces
    <3> QED
      BY <2>2, <3>1, <3>2
  <2>3. CASE op = "or"
    <3>1. merged = Those(reduced, DOMAIN reduced \ Wider(reduced))
      BY <2>1, <2>3 DEF MergeTemporal
    <3>2. Replaces("or", reduced, Those(reduced, DOMAIN reduced \ Wider(reduced)), m, strict, b)
      BY <1>6, WiderReplaces
    <3> QED
      BY <2>3, <3>1, <3>2
  <2> QED
    BY <2>2, <2>3
<1>8. Replaces(op, fs, merged, m, strict, b)
  BY <1>6, <1>7, ReplacesInTurn
<1> QED
  BY <1>1, <1>4, <1>8

\* What a formula of a level is simplified to is of that level.
LEMMA SimplifyJunctionInLevel ==
    ASSUME NEW n \in Nat, n + 1 <= Nesting, NEW f \in Compound(FormulaUpTo[n]), f.op \in {"and", "or"}
    PROVE  SimplifyJunction(f) \in FormulaUpTo[n + 1]
<1> DEFINE S == FormulaUpTo[n]
           fs == Spliced(f.op, f.args)
<1>1. S \subseteq Formula /\ S \subseteq FormulaUpTo[n + 1] /\ Compound(S) \subseteq FormulaUpTo[n + 1]
      /\ Propositions \subseteq FormulaUpTo[n + 1]
  BY LevelFacts
<1>2. HoldsAnyInterval(S)
  BY LevelHoldsAnyInterval
<1>3. f.args \in Seq(S) /\ \A g \in S : g.op = f.op => g.args \in Seq(S)
  BY LevelArgs, CompoundShape
<1> HIDE DEF S
<1>4. fs \in Seq(S)
  BY <1>3, SplicedElements
<1> HIDE DEF fs
<1>5. PICK unique, rest, reduced, merged :
        /\ JunctionSteps(f.op, fs, unique, rest, reduced, merged)
        /\ SimplifyJunction(f) =
             IF Occurs(Absorbing(f.op), unique) \/ Clash(rest) THEN Absorbing(f.op)
             ELSE IF Len(merged) = 0 THEN Neutral(f.op)
             ELSE IF Len(merged) = 1 THEN merged[1]
             ELSE [f EXCEPT !.args = merged]
  BY SimplifiedJunction DEF fs
<1>6. merged \in Seq(S)
  BY <1>1, <1>2, <1>4, <1>5, JunctionStepsInSeq
<1>7. Absorbing(f.op) \in Propositions /\ Neutral(f.op) \in Propositions
  <2> DEFINE op == f.op
  <2>1. op \in {"and", "or"}
    OBVIOUS
  <2> HIDE DEF op
  <2>2. Absorbing(op) \in Propositions /\ Neutral(op) \in Propositions
    BY <2>1, SettlingConstants
  <2> QED
    BY <2>2 DEF op
<1>8. Len(merged) = 1 => merged[1] \in S
  <2> SUFFICES ASSUME Len(merged) = 1 PROVE merged[1] \in S
    OBVIOUS
  <2>1. 1 \in DOMAIN merged
    BY <1>6
  <2> QED
    BY <1>6, <2>1
<1>9. [f EXCEPT !.args = merged] \in Compound(S)
  BY <1>6, WithArgs DEF S
<1> QED
  BY <1>1, <1>5, <1>7, <1>8, <1>9

\* The simplification of a junction means what it meant.
LEMMA SimplifyJunctionKeeps ==
    ASSUME NEW m \in BOOLEAN, NEW strict, NEW f \in Formula, f.op \in {"and", "or"}, Sound(f, m, strict),
           NEW k \in Formula, k = SimplifyJunction(f)
    PROVE  Keeps(f, m, k, strict)
<1> DEFINE op == f.op
           fs == Spliced(op, f.args)
           j == FlatJunction(f)
<1>1. op \in {"and", "or"}
  OBVIOUS
<1>2. j \in Formula /\ j.op = op /\ j.args = fs /\ j = [f EXCEPT !.args = fs]
  <2>1. PICK n \in Nat : n + 1 <= Nesting /\ f \in Compound(FormulaUpTo[n])
    BY InSomeCompound
  <2> DEFINE S == FormulaUpTo[n]
  <2>2. f.args \in Seq(S) /\ \A g \in S : g.op = op => g.args \in Seq(S)
    BY <2>1, LevelArgs, CompoundShape
  <2>3. Compound(S) \subseteq Formula
    BY <2>1, LevelFacts
  <2> HIDE DEF S
  <2>4. fs \in Seq(S)
    BY <2>2, SplicedElements
  <2>5. j = [f EXCEPT !.args = fs]
    BY DEF FlatJunction
  <2> HIDE DEF j, fs
  <2>6. [f EXCEPT !.args = fs] = [op |-> op, args |-> fs] /\ [f EXCEPT !.args = fs] \in Compound(S)
    BY <2>1, <2>4, WithArgs DEF S
  <2> QED
    BY <2>3, <2>5, <2>6
<1>3. Keeps(f, m, j, strict)
  <2>1. j.op = f.op /\ ToSet(j.args) = UNION {IF g.op = f.op THEN ToSet(g.args) ELSE {g} : g \in ToSet(f.args)}
    BY FlatJunctionArgs
  <2> HIDE DEF j
  <2>2. Stands(f, m, j, m, 0, strict)
    BY <1>2, <2>1, SplicedStands
  <2> QED
    BY <2>2 DEF Keeps
<1>4. PICK unique, rest, reduced, merged :
        /\ JunctionSteps(op, fs, unique, rest, reduced, merged)
        /\ k = IF Occurs(Absorbing(op), unique) \/ Clash(rest) THEN Absorbing(op)
               ELSE IF Len(merged) = 0 THEN Neutral(op)
               ELSE IF Len(merged) = 1 THEN merged[1]
               ELSE [f EXCEPT !.args = merged]
  BY SimplifiedJunction
<1>5. f = [op |-> op, args |-> f.args]
  BY FormulaShape
<1> DEFINE b == Horizon[j]
<1> HIDE DEF op, fs, j, b
<1>6. Sound(j, m, strict) /\ b \in Nat
  BY <1>2, <1>3, KeepsFacts, SoundFacts, HorizonOfProper DEF b
<1>7. SoundElements(fs, m, strict, b)
  <2>1. fs \in Seq(Formula) /\ Operands(j) = ToSet(fs) /\ Scope(j) = ToSet(fs)
    BY <1>1, <1>2, JunctionParts
  <2>2. Proper(j) /\ \A g \in ToSet(fs) : Sound(g, m, strict)
    BY <1>2, <1>6, <2>1, SoundFacts
  <2>3. \A g \in ToSet(fs) : Horizon[g] <= b
    BY <1>1, <1>2, <2>1, <2>2, HorizonOfProper DEF b
  <2> QED
    BY <2>1, <2>2, <2>3 DEF SoundElements
<1>8. /\ Replaces(op, fs, unique, m, strict, b)
      /\ Replaces(op, fs, rest, m, strict, b)
      /\ Replaces(op, fs, merged, m, strict, b)
  BY <1>1, <1>4, <1>6, <1>7, JunctionStepsReplace
<1>9. \A sig : \A t \in Int : Smt(sig, t, j, m) <=> (AllYield(op, fs, sig, t, m) <=> op = "and")
  BY <1>1, <1>2, JunctionYields
<1> DEFINE Good == /\ Sound(k, m, strict) /\ Horizon[k] <= b
                   /\ \A sig : Steady(sig) => \A t \in Int :
                         Smt(sig, t, k, m) <=> (AllYield(op, fs, sig, t, m) <=> op = "and")
<1>10. ASSUME Occurs(Absorbing(op), unique) \/ Clash(rest) PROVE Good
  <2>1. k = Absorbing(op)
    BY <1>4, <1>10
  <2>2. /\ Sound(k, m, strict) /\ Horizon[k] = 0
        /\ \A sig : Steady(sig) => \A t \in Int : ~Yields(op, k, sig, t, m)
    BY <1>1, <2>1, SettlingConstants
  <2>3. ASSUME NEW sig, Steady(sig), NEW t \in Int PROVE ~AllYield(op, fs, sig, t, m)
    <3>1. CASE Occurs(Absorbing(op), unique)
      <4>1. PICK i \in DOMAIN unique : EqStructural(unique[i], Absorbing(op))
        BY <3>1 DEF Occurs
      <4>2. SoundElements(unique, m, strict, b) /\ SameYield(op, fs, unique, m)
        BY <1>8 DEF Replaces
      <4>3. unique[i] \in Formula /\ Sound(unique[i], m, strict)
        BY <4>1, <4>2, ElementFacts
      <4>4. Yields(op, unique[i], sig, t, m) <=> Yields(op, k, sig, t, m)
        BY <2>1, <2>2, <2>3, <4>1, <4>3, EqualYield
      <4>5. ~AllYield(op, unique, sig, t, m)
        <5>1. unique[i] \in ToSet(unique)
          BY <4>1 DEF ToSet
        <5> QED
          BY <2>2, <2>3, <4>4, <5>1 DEF AllYield
      <4> QED
        BY <2>3, <4>2, <4>5 DEF SameYield
    <3>2. CASE Clash(rest)
      <4>1. PICK i \in DOMAIN rest : rest[i].op = "not" /\ Occurs(rest[i].phi, rest)
        BY <3>2 DEF Clash
      <4>2. PICK l \in DOMAIN rest : EqStructural(rest[l], rest[i].phi)
        BY <4>1 DEF Occurs
      <4>3. SoundElements(rest, m, strict, b) /\ SameYield(op, fs, rest, m)
        BY <1>8 DEF Replaces
      <4> DEFINE g == rest[i]
                 h == rest[l]
      <4>4. /\ g \in Formula /\ Sound(g, m, strict) /\ h \in Formula /\ Sound(h, m, strict)
            /\ g.op = "not" /\ EqStructural(h, g.phi)
        BY <4>1, <4>2, <4>3, ElementFacts
      <4>5. g \in ToSet(rest) /\ h \in ToSet(rest)
        BY <4>1, <4>2 DEF ToSet
      <4> HIDE DEF g, h
      <4>6. Negates(g, h)
        BY <4>4 DEF Negates, EqStructural
      <4>7. Smt(sig, t, g, m) <=> ~Smt(sig, t, h, m)
        BY <2>3, <4>4, <4>6, NegatesFacts
      <4>8. ~AllYield(op, rest, sig, t, m)
        BY <4>5, <4>7 DEF AllYield, Yields
      <4> QED
        BY <2>3, <4>3, <4>8 DEF SameYield
    <3> QED
      BY <1>10, <3>1, <3>2
  <2>4. Horizon[k] <= b
    BY <1>6, <2>2
  <2> QED
    BY <2>2, <2>3, <2>4 DEF Yields
<1>11. ASSUME ~(Occurs(Absorbing(op), unique) \/ Clash(rest)) PROVE Good
  <2>1. SoundElements(merged, m, strict, b) /\ SameYield(op, fs, merged, m) /\ merged \in Seq(Formula)
    BY <1>8 DEF Replaces, SoundElements
  <2>2. k = IF Len(merged) = 0 THEN Neutral(op)
            ELSE IF Len(merged) = 1 THEN merged[1]
            ELSE [f EXCEPT !.args = merged]
    BY <1>4, <1>11
  <2>3. ASSUME Len(merged) = 0 PROVE Good
    <3>1. k = Neutral(op) /\ ToSet(merged) = {}
      BY <2>1, <2>2, <2>3 DEF ToSet
    <3>2. Sound(k, m, strict) /\ Horizon[k] = 0 /\ \A sig : Steady(sig) => \A t \in Int : Yields(op, k, sig, t, m)
      BY <1>1, <3>1, SettlingConstants
    <3>3. \A sig : Steady(sig) => \A t \in Int : AllYield(op, fs, sig, t, m)
      BY <2>1, <3>1 DEF SameYield, AllYield
    <3>4. Horizon[k] <= b
      BY <1>6, <3>2
    <3> QED
      BY <3>2, <3>3, <3>4 DEF Yields
  <2>4. ASSUME Len(merged) = 1 PROVE Good
    <3>1. k = merged[1] /\ ToSet(merged) = {k} /\ 1 \in DOMAIN merged
      BY <2>1, <2>2, <2>4 DEF ToSet
    <3>2. Sound(k, m, strict) /\ Horizon[k] <= b
      BY <2>1, <3>1, ElementFacts
    <3>3. \A sig : Steady(sig) => \A t \in Int : AllYield(op, fs, sig, t, m) <=> Yields(op, k, sig, t, m)
      BY <2>1, <3>1 DEF SameYield, AllYield
    <3> QED
      BY <3>2, <3>3, SmtCases DEF Yields
  <2>5. ASSUME Len(merged) # 0 /\ Len(merged) # 1 PROVE Good
    <3>1. k = [f EXCEPT !.args = merged]
      BY <2>2, <2>5
    <3>2. k.op = op /\ k.args = merged
      BY <1>5, <3>1
    <3>3. k.op \in {"and", "or"} /\ \A g \in ToSet(k.args) : Sound(g, m, strict) /\ Horizon[g] <= b
      BY <1>1, <2>1, <3>2 DEF SoundElements
    <3>4. ToSet(k.args) # {}
      BY <2>1, <2>5, <3>2, NotEmpty
    <3>5. Sound(k, m, strict) /\ Horizon[k] <= b
      BY <1>6, <3>3, <3>4, JunctionSound
    <3>6. \A sig : \A t \in Int : Smt(sig, t, k, m) <=> (AllYield(op, merged, sig, t, m) <=> op = "and")
      BY <3>2, <3>3, JunctionYields
    <3> QED
      BY <2>1, <3>5, <3>6 DEF SameYield
  <2> QED
    BY <2>3, <2>4, <2>5
<1>12. Good
  BY <1>10, <1>11
<1>13. Means(j, m, k, m, 0)
  <2> SUFFICES ASSUME NEW sig, Steady(sig), NEW t \in Int PROVE Smt(sig, t, k, m) <=> Smt(sig, t + 0, j, m)
    BY DEF Means
  <2>1. t + 0 = t
    OBVIOUS
  <2> QED
    BY <1>9, <1>12, <2>1
<1>14. Keeps(j, m, k, strict)
  <2>1. Horizon[k] <= Horizon[j] + 0
    BY <1>6, <1>12 DEF b
  <2> QED
    BY <1>12, <1>13, <2>1 DEF Keeps, Stands
<1> QED
  BY <1>3, <1>14, KeepsInTurn

----------------------------------------------------------------------------
(* What the simplifier makes of a formula is of the level of the formula. *)

\* The operator that two unary operators over each other become
Nested(f) == Over(f.op, Summed(f.int, f.phi.int), f.phi.phi)

\* A G over a conjunction as a conjunction of Gs
Distributed(f) == And([i \in DOMAIN f.phi.args |-> Over("G", f.int, f.phi.args[i])] \o <<>>)

\* The merged operator is one level lower than the two.
LEMMA NestedInLevel ==
    ASSUME NEW n \in Nat, NEW f \in Compound(FormulaUpTo[n]), f.op \in {"G", "F"}, f.phi.op = f.op
    PROVE  /\ Nested(f) \in FormulaUpTo[n]
           /\ f.phi.int \in Times /\ f.phi.phi \in FormulaUpTo[n]
<1> DEFINE S == FormulaUpTo[n]
<1>1. f.int \in Times /\ f.phi \in S
  BY CompoundShape
<1>2. f.phi \notin Propositions
  BY PropositionShape
<1>3. PICK Q : f.phi \in Compound(Q) /\ Q \subseteq S /\ Compound(Q) \subseteq S
  BY <1>1, <1>2, LevelBelow
<1> HIDE DEF S
<1>4. f.phi.int \in Times /\ f.phi.phi \in Q
  BY <1>3, CompoundShape
<1>5. Summed(f.int, f.phi.int) \in Times
  BY <1>1, <1>4 DEF Summed, Span, Times
<1>6. Nested(f) \in Compound(Q)
  BY <1>4, <1>5, Built DEF Nested
<1> QED
  BY <1>3, <1>4, <1>6 DEF S

\* A distributed G is as deep as it was.
LEMMA DistributedInLevel ==
    ASSUME NEW n \in Nat, NEW f \in Compound(FormulaUpTo[n]), f.op \in {"G", "F"}, f.phi.op = "and"
    PROVE  /\ Distributed(f) \in Compound(FormulaUpTo[n])
           /\ Distributed(f).op = "and"
           /\ ToSet(Distributed(f).args) = {Over("G", f.int, g) : g \in ToSet(f.phi.args)}
           /\ f.phi.args \in Seq(FormulaUpTo[n])
<1> DEFINE S == FormulaUpTo[n]
           fs == f.phi.args
           int == f.int
           gs == [i \in DOMAIN fs |-> Over("G", int, fs[i])]
<1>1. int \in Times /\ f.phi \in S
  BY CompoundShape
<1>2. f.phi \notin Propositions
  BY PropositionShape
<1>3. PICK Q : f.phi \in Compound(Q) /\ Q \subseteq S /\ Compound(Q) \subseteq S
  BY <1>1, <1>2, LevelBelow
<1> HIDE DEF S
<1>4. fs \in Seq(Q)
  BY <1>3, CompoundShape
<1>5. Distributed(f) = And(gs \o <<>>)
  BY DEF Distributed
<1> HIDE DEF fs, int
<1>6. \A g \in Q : Over("G", int, g) \in S
  BY <1>1, <1>3, Built
<1>7. DOMAIN fs = 1 .. Len(fs) /\ Len(fs) \in Nat /\ \A i \in DOMAIN fs : fs[i] \in Q
  BY <1>4
<1>8. gs \in Seq(S)
  BY <1>6, <1>7
<1>9. gs \o <<>> = gs
  BY <1>8
<1>10. ToSet(gs) = {Over("G", int, g) : g \in ToSet(fs)}
  BY DEF ToSet
<1> HIDE DEF gs
<1>11. Distributed(f) = [op |-> "and", args |-> gs]
  BY <1>5, <1>9 DEF And
<1>12. Distributed(f) \in Compound(S)
  BY <1>8, <1>11, Built
<1>13. Distributed(f).op = "and" /\ Distributed(f).args = gs
  BY <1>11
<1>14. fs \in Seq(S)
  BY <1>3, <1>4
<1> QED
  BY <1>10, <1>12, <1>13, <1>14 DEF S, fs, int

\* What is said of one instant is at most one level higher.
LEMMA AtInstantInLevel ==
    ASSUME NEW n \in Nat, n + 1 <= Nesting, NEW int \in Times, NEW g \in FormulaUpTo[n]
    PROVE  AtInstant(int, g) \in FormulaUpTo[n + 1]
<1>1. n <= Nesting /\ int.lower \in Int /\ FormulaUpTo[n] \subseteq FormulaUpTo[n + 1]
  BY LevelFacts DEF Times
<1>2. ShiftForward(int.lower)[g] \in FormulaUpTo[n + 1]
  BY <1>1, ShiftForwardEquation
<1> QED
  BY <1>1, <1>2 DEF AtInstant

\* Two visitors that do the same to the formulas of a level, and stay in it
Alike(n, a, b) == \A g \in FormulaUpTo[n] : a[g] = b[g] /\ a[g] \in FormulaUpTo[n]

\* The simplification of G and F only depends on the level below.
LEMMA SimplifyUnaryInLevel ==
    ASSUME NEW n \in Nat, n + 1 <= Nesting, NEW f \in Compound(FormulaUpTo[n]), f.op \in {"G", "F"},
           NEW a, NEW b, Alike(n, a, b)
    PROVE  SimplifyUnary(f, a) = SimplifyUnary(f, b) /\ SimplifyUnary(f, a) \in FormulaUpTo[n + 1]
<1>1. f.int \in Times /\ f.phi \in FormulaUpTo[n]
  BY CompoundShape
<1>2. FormulaUpTo[n] \subseteq FormulaUpTo[n + 1] /\ Compound(FormulaUpTo[n]) \subseteq FormulaUpTo[n + 1]
  BY LevelFacts
<1>3. CASE IsConstant(f.phi)
  BY <1>1, <1>2, <1>3 DEF SimplifyUnary
<1>4. CASE ~IsConstant(f.phi) /\ f.phi.op = f.op
  <2>1. SimplifyUnary(f, a) = a[Nested(f)] /\ SimplifyUnary(f, b) = b[Nested(f)]
    BY <1>4 DEF SimplifyUnary, Nested
  <2> QED
    BY <1>2, <1>4, <2>1, NestedInLevel DEF Alike
<1>5. CASE ~IsConstant(f.phi) /\ f.phi.op # f.op /\ f.int.lower = f.int.upper
  <2>1. SimplifyUnary(f, a) = AtInstant(f.int, f.phi) /\ SimplifyUnary(f, b) = AtInstant(f.int, f.phi)
    BY <1>5 DEF SimplifyUnary
  <2> QED
    BY <1>1, <2>1, AtInstantInLevel
<1>6. CASE ~IsConstant(f.phi) /\ f.phi.op # f.op /\ f.int.lower # f.int.upper
  <2>1. CASE f.op = "G" /\ f.phi.op = "and"
    <3>1. SimplifyUnary(f, a) = Distributed(f) /\ SimplifyUnary(f, b) = Distributed(f)
      BY <1>6, <2>1 DEF SimplifyUnary, Distributed
    <3> QED
      BY <1>2, <2>1, <3>1, DistributedInLevel
  <2>2. CASE ~(f.op = "G" /\ f.phi.op = "and")
    <3>1. SimplifyUnary(f, a) = f /\ SimplifyUnary(f, b) = f
      BY <1>6, <2>2 DEF SimplifyUnary
    <3> QED
      BY <1>2, <3>1
  <2> QED
    BY <2>1, <2>2
<1> QED
  BY <1>3, <1>4, <1>5, <1>6

\* What an U or R becomes when its left part is a constant or the opposite of the right one
LEMMA AsUnaryParts ==
    ASSUME NEW S, NEW f \in Compound(S), f.op \in {"U", "R"}
    PROVE  /\ AsUnary(f) \in Compound(S) /\ AsUnary(f).op \in {"G", "F"} /\ AsUnary(f).phi = f.right
           /\ EqStructural(f.left, IF f.op = "U" THEN False ELSE True) =>
                AsUnary(f).op = "F" /\ AsUnary(f).int = FirstInstant(f.int)
           /\ ~EqStructural(f.left, IF f.op = "U" THEN False ELSE True) =>
                AsUnary(f).op = (IF f.op = "U" THEN "F" ELSE "G") /\ AsUnary(f).int = f.int
<1>1. f.int \in Times /\ f.right \in S
  BY CompoundShape
<1>2. FirstInstant(f.int) \in Times
  BY <1>1 DEF FirstInstant, Span, Times
<1>3. CASE EqStructural(f.left, IF f.op = "U" THEN False ELSE True)
  <2>1. AsUnary(f) = Over("F", FirstInstant(f.int), f.right)
    BY <1>3 DEF AsUnary
  <2>2. AsUnary(f) \in Compound(S)
    BY <1>1, <1>2, <2>1, Built
  <2>3. AsUnary(f).op = "F" /\ AsUnary(f).int = FirstInstant(f.int) /\ AsUnary(f).phi = f.right
    BY <2>1 DEF Over
  <2> QED
    BY <1>3, <2>2, <2>3
<1>4. CASE ~EqStructural(f.left, IF f.op = "U" THEN False ELSE True)
  <2> DEFINE op == IF f.op = "U" THEN "F" ELSE "G"
  <2>1. AsUnary(f) = Over(op, f.int, f.right)
    BY <1>4 DEF AsUnary
  <2>2. op \in {"G", "F"}
    OBVIOUS
  <2> HIDE DEF op
  <2>3. AsUnary(f) \in Compound(S)
    BY <1>1, <2>1, <2>2, Built
  <2>4. AsUnary(f).op = op /\ AsUnary(f).int = f.int /\ AsUnary(f).phi = f.right
    BY <2>1 DEF Over
  <2> QED
    BY <1>4, <2>2, <2>3, <2>4 DEF op
<1> QED
  BY <1>3, <1>4

\* A visit only depends on the level below.
LEMMA VisitedAlike ==
    ASSUME NEW n \in Nat, n + 1 <= Nesting, NEW f \in Compound(FormulaUpTo[n]), NEW a, NEW b, Alike(n, a, b)
    PROVE  /\ Visited(f, a) = Visited(f, b)
           /\ Visited(f, a) \in Compound(FormulaUpTo[n])
           /\ Visited(f, a).op = f.op /\ VisitsTo(f, a, Visited(f, a))
<1>1. f \in Formula /\ \A g \in Operands(f) : g \in FormulaUpTo[n]
  BY LevelFacts, CompoundOperands
<1>2. \A g \in Operands(f) : a[g] = b[g] /\ a[g] \in FormulaUpTo[n]
  BY <1>1 DEF Alike
<1>3. f.op # "prop"
  BY PropositionShape
<1>4. Visited(f, a) \in Compound(FormulaUpTo[n]) /\ VisitsTo(f, a, Visited(f, a))
  BY <1>2, <1>3, VisitedShape
<1> QED
  BY <1>1, <1>2, <1>4, VisitedSame DEF VisitsTo

\* Simplifying again what became a G or F only depends on the level below.
LEMMA AgainInLevel ==
    ASSUME NEW n \in Nat, n + 1 <= Nesting, NEW f \in Compound(FormulaUpTo[n]), f.op \in {"G", "F"},
           NEW a, NEW b, Alike(n, a, b)
    PROVE  Again(f, a) = Again(f, b) /\ Again(f, a) \in FormulaUpTo[n + 1]
<1> DEFINE v == Visited(f, a)
<1>1. v = Visited(f, b) /\ v \in Compound(FormulaUpTo[n]) /\ v.op \in {"G", "F"}
  BY VisitedAlike
<1>2. Again(f, a) = SimplifyUnary(v, a)
  BY DEF Again
<1> HIDE DEF v
<1>3. Again(f, b) = SimplifyUnary(v, b)
  BY <1>1 DEF Again
<1> QED
  BY <1>1, <1>2, <1>3, SimplifyUnaryInLevel

\* So does the simplification of U and R.
LEMMA SimplifyBinaryInLevel ==
    ASSUME NEW n \in Nat, n + 1 <= Nesting, NEW f \in Compound(FormulaUpTo[n]), f.op \in {"U", "R"},
           NEW a, NEW b, Alike(n, a, b)
    PROVE  /\ f.op = "U" => SimplifyUntil(f, a) = SimplifyUntil(f, b) /\ SimplifyUntil(f, a) \in FormulaUpTo[n + 1]
           /\ f.op = "R" => SimplifyRelease(f, a) = SimplifyRelease(f, b) /\ SimplifyRelease(f, a) \in FormulaUpTo[n + 1]
<1>1. f.int \in Times /\ f.right \in FormulaUpTo[n]
  BY CompoundShape
<1>2. FormulaUpTo[n] \subseteq FormulaUpTo[n + 1] /\ Compound(FormulaUpTo[n]) \subseteq FormulaUpTo[n + 1]
  BY LevelFacts
<1> DEFINE u == AsUnary(f)
<1>3. u \in Compound(FormulaUpTo[n]) /\ u.op \in {"G", "F"}
  BY AsUnaryParts
<1> HIDE DEF u
<1>4. Again(u, a) = Again(u, b) /\ Again(u, a) \in FormulaUpTo[n + 1]
  BY <1>3, AgainInLevel
<1>5. AtInstant(f.int, f.right) \in FormulaUpTo[n + 1]
  BY <1>1, AtInstantInLevel
<1> QED
  BY <1>1, <1>2, <1>4, <1>5 DEF SimplifyUntil, SimplifyRelease, u

\* So the simplifier is defined at every formula, although it calls itself on its results.
LEMMA SimplifyEquation ==
    /\ \A f \in Formula : Simplify[f] = SimplifyOf(f, Simplify)
    /\ StaysInLevels(Simplify)
<1> DEFINE step == [p \in Formula \X [Formula -> Formula] |-> SimplifyOf(p[1], p[2])]
<1>1. ASSUME NEW f \in Propositions, NEW a, NEW b
      PROVE  SimplifyOf(f, a) = SimplifyOf(f, b) /\ SimplifyOf(f, a) \in Propositions
  <2>1. f.op = "prop"
    BY PropositionShape
  <2> QED
    BY <2>1 DEF SimplifyOf, Visited
<1>2. ASSUME NEW n \in Nat, n + 1 <= Nesting, NEW f \in Compound(FormulaUpTo[n]), NEW a, NEW b, Alike(n, a, b)
      PROVE  SimplifyOf(f, a) = SimplifyOf(f, b) /\ SimplifyOf(f, a) \in FormulaUpTo[n + 1]
  <2> DEFINE v == Visited(f, a)
             w == Visited(f, b)
             S == FormulaUpTo[n]
  <2>1. v = w /\ v \in Compound(S) /\ v.op = f.op
    BY <1>2, VisitedAlike
  <2>2. Compound(S) \subseteq FormulaUpTo[n + 1]
    BY <1>2, LevelFacts
  <2>3. /\ f.op \in {"and", "or"} => SimplifyOf(f, a) = SimplifyJunction(v) /\ SimplifyOf(f, b) = SimplifyJunction(w)
        /\ f.op \in {"G", "F"} => SimplifyOf(f, a) = SimplifyUnary(v, a) /\ SimplifyOf(f, b) = SimplifyUnary(w, b)
        /\ f.op = "U" => SimplifyOf(f, a) = SimplifyUntil(v, a) /\ SimplifyOf(f, b) = SimplifyUntil(w, b)
        /\ f.op = "R" => SimplifyOf(f, a) = SimplifyRelease(v, a) /\ SimplifyOf(f, b) = SimplifyRelease(w, b)
        /\ f.op \notin {"and", "or", "G", "F", "U", "R"} => SimplifyOf(f, a) = v /\ SimplifyOf(f, b) = w
    BY DEF SimplifyOf
  <2> HIDE DEF v, w
  <2>4. CASE f.op \in {"and", "or"}
    BY <1>2, <2>1, <2>3, <2>4, SimplifyJunctionInLevel
  <2>5. CASE f.op \in {"G", "F"}
    BY <1>2, <2>1, <2>3, <2>5, SimplifyUnaryInLevel
  <2>6. CASE f.op \in {"U", "R"}
    BY <1>2, <2>1, <2>3, <2>6, SimplifyBinaryInLevel
  <2>7. CASE f.op \notin {"and", "or", "G", "F", "U", "R"}
    BY <2>1, <2>2, <2>3, <2>7
  <2> QED
    BY <2>4, <2>5, <2>6, <2>7
<1>3. \A f \in Formula : \A a \in [Formula -> Formula] : step[<<f, a>>] = SimplifyOf(f, a)
  OBVIOUS
<1> HIDE DEF step
<1>4. PreservesLevels(step)
  <2>1. \A n \in Nat : n + 1 <= Nesting => Compound(FormulaUpTo[n]) \subseteq Formula
    BY LevelFacts
  <2> QED
    BY <1>1, <1>2, <1>3, <2>1, PropositionsInFormula DEF PreservesLevels, Alike
<1>5. PICK h \in [Formula -> Formula] : \A f \in Formula : h[f] = step[<<f, h>>]
  BY <1>4, LevelMap
<1>6. h = [f \in Formula |-> SimplifyOf(f, h)]
  BY <1>3, <1>5
<1>7. \E x : x = [f \in Formula |-> SimplifyOf(f, x)]
  BY <1>6, Zenon
<1>8. Simplify = [f \in Formula |-> SimplifyOf(f, Simplify)]
  BY <1>7, Zenon DEF Simplify
<1> DEFINE x == Simplify
<1>9. x = [f \in Formula |-> SimplifyOf(f, x)]
  BY <1>8
<1> HIDE DEF x
<1>10. \A f \in Formula : x[f] = SimplifyOf(f, x)
  BY <1>9
<1>11. StaysInLevels(x)
  <2>1. \A f \in Propositions : x[f] \in Propositions
    BY <1>1, <1>10, PropositionsInFormula
  <2>2. ASSUME NEW n \in Nat, n + 1 <= Nesting, \A g \in FormulaUpTo[n] : x[g] \in FormulaUpTo[n],
               NEW f \in Compound(FormulaUpTo[n])
        PROVE  x[f] \in FormulaUpTo[n + 1]
    <3>1. SimplifyOf(f, x) \in FormulaUpTo[n + 1]
      BY <1>2, <2>2 DEF Alike
    <3> QED
      BY <1>10, <2>2, <3>1, LevelFacts
  <2> QED
    BY <2>1, <2>2, LevelInduction
<1> QED
  BY <1>10, <1>11 DEF x

----------------------------------------------------------------------------
(* The simplification of G and F keeps what they mean. *)

\* What G and F say of the instants of an interval
Spreads(op, int, g, sig, t, m) ==
    IF op = "G" THEN \A i \in int.lower .. int.upper : Smt(sig, t + i, g, m)
    ELSE \E i \in int.lower .. int.upper : Smt(sig, t + i, g, m)

\* G and F by what they say of their instants
LEMMA UnaryFacts ==
    ASSUME NEW f \in Formula, f.op \in {"G", "F"}, NEW m \in BOOLEAN, NEW strict, Sound(f, m, strict)
    PROVE  /\ f.phi \in Formula /\ Sound(f.phi, m, strict)
           /\ f.int \in Interval /\ f.int.lower \in Nat /\ f.int.upper \in Nat /\ f.int.lower <= f.int.upper
           /\ Horizon[f] \in Nat /\ Horizon[f.phi] \in Nat /\ f.int.upper + Horizon[f.phi] <= Horizon[f]
           /\ \A sig : \A t \in Int : Smt(sig, t, f, m) <=> Spreads(f.op, f.int, f.phi, sig, t, m)
<1>1. f.phi \in Formula /\ Operands(f) = {f.phi} /\ Scope(f) = {f.phi} /\ IsTemporal(f)
  BY FormulaShape, ScopeParts DEF IsTemporal
<1>2. SoundAt(f, m, strict) /\ Sound(f.phi, m, strict) /\ Proper(f)
  BY <1>1, SoundFacts
<1>3. f.int \in Interval /\ f.int.lower \in Nat /\ f.int.upper \in Nat /\ f.int.lower <= f.int.upper
  BY <1>1, <1>2 DEF SoundAt, Interval
<1>4. Horizon[f] \in Nat /\ Horizon[f.phi] \in Nat /\ f.int.upper + Horizon[f.phi] <= Horizon[f]
  BY <1>1, <1>2, HorizonOfProper
<1>5. \A sig : \A t \in Int : Smt(sig, t, f, m) <=> Spreads(f.op, f.int, f.phi, sig, t, m)
  <2>1. CASE f.op = "G"
    BY <2>1, SmtGlobally DEF Spreads
  <2>2. CASE f.op = "F"
    BY <2>2, SmtFinally DEF Spreads
  <2> QED
    BY <2>1, <2>2
<1> QED
  BY <1>1, <1>2, <1>3, <1>4, <1>5

\* What is structurally a constant is the same at all instants.
LEMMA ConstantAlways ==
    ASSUME NEW f \in Formula, IsConstant(f), NEW m \in BOOLEAN, NEW strict, Sound(f, m, strict),
           NEW sig, Steady(sig), NEW t \in Int, NEW u \in Int
    PROVE  Smt(sig, t, f, m) <=> Smt(sig, u, f, m)
BY EqualConstant DEF IsConstant

\* To keep a formula is to be sound, to look no further and to mean the same.
LEMMA KeepsWhen ==
    ASSUME NEW f \in Formula, NEW k \in Formula, NEW m, NEW strict, Sound(f, m, strict), Sound(k, m, strict),
           Horizon[k] <= Horizon[f],
           \A sig : Steady(sig) => \A t \in Int : Smt(sig, t, k, m) <=> Smt(sig, t, f, m)
    PROVE  Keeps(f, m, k, strict)
<1>1. Horizon[f] \in Nat
  BY SoundFacts, HorizonOfProper
<1>2. Horizon[k] <= Horizon[f] + 0
  BY <1>1
<1>3. Means(f, m, k, m, 0)
  <2> SUFFICES ASSUME NEW sig, Steady(sig), NEW t \in Int PROVE Smt(sig, t, k, m) <=> Smt(sig, t + 0, f, m)
    BY DEF Means
  <2>1. t + 0 = t
    OBVIOUS
  <2> QED
    BY <2>1
<1> QED
  BY <1>2, <1>3 DEF Keeps, Stands

\* G and F over a constant are the constant.
LEMMA ConstantOperandKeeps ==
    ASSUME NEW f \in Formula, f.op \in {"G", "F"}, NEW m \in BOOLEAN, NEW strict, Sound(f, m, strict),
           IsConstant(f.phi)
    PROVE  Keeps(f, m, f.phi, strict)
<1> DEFINE g == f.phi
           int == f.int
           op == f.op
<1>1. /\ g \in Formula /\ Sound(g, m, strict) /\ int.lower \in Nat /\ int.upper \in Nat /\ int.lower <= int.upper
      /\ Horizon[f] \in Nat /\ Horizon[g] \in Nat /\ int.upper + Horizon[g] <= Horizon[f]
      /\ \A sig : \A t \in Int : Smt(sig, t, f, m) <=> Spreads(op, int, g, sig, t, m)
  BY UnaryFacts
<1>2. IsConstant(g)
  OBVIOUS
<1> HIDE DEF g, int, op
<1>3. ASSUME NEW sig, Steady(sig), NEW t \in Int PROVE Smt(sig, t, g, m) <=> Smt(sig, t, f, m)
  <2>1. \A i \in int.lower .. int.upper : t + i \in Int
    BY <1>1
  <2>2. \A i \in int.lower .. int.upper : Smt(sig, t + i, g, m) <=> Smt(sig, t, g, m)
    BY <1>1, <1>2, <1>3, <2>1, ConstantAlways
  <2>3. int.lower \in int.lower .. int.upper
    BY <1>1
  <2> QED
    BY <1>1, <2>2, <2>3 DEF Spreads
<1>4. Horizon[g] <= Horizon[f]
  BY <1>1
<1> QED
  BY <1>1, <1>3, <1>4, KeepsWhen DEF g

\* The sums of the instants of two intervals
SumsOver(a, b, c, d, P) ==
    /\ (\A k \in a + c .. b + d : k \in P) <=> \A i \in a .. b : \A j \in c .. d : i + j \in P
    /\ (\E k \in a + c .. b + d : k \in P) <=> \E i \in a .. b : \E j \in c .. d : i + j \in P

\* They are the instants of the summed interval.
LEMMA SumInstants ==
    ASSUME NEW a \in Nat, NEW b \in Nat, NEW c \in Nat, NEW d \in Nat, a <= b, c <= d, NEW P
    PROVE  SumsOver(a, b, c, d, P)
<1>1. \A i \in a .. b : \A j \in c .. d : i + j \in a + c .. b + d
  OBVIOUS
<1>2. ASSUME NEW k \in a + c .. b + d PROVE \E i \in a .. b : \E j \in c .. d : i + j = k
  <2>1. CASE k - d <= a
    <3>1. a \in a .. b /\ k - a \in c .. d /\ a + (k - a) = k
      BY <2>1
    <3> QED
      BY <3>1
  <2>2. CASE k - d > a
    <3>1. k - d \in a .. b /\ d \in c .. d /\ (k - d) + d = k
      BY <2>2
    <3> QED
      BY <3>1
  <2> QED
    BY <2>1, <2>2
<1> QED
  BY <1>1, <1>2 DEF SumsOver

\* So nested operators of one kind can be merged.
LEMMA NestedKeeps ==
    ASSUME NEW f \in Formula, f.op \in {"G", "F"}, NEW m \in BOOLEAN, NEW strict, Sound(f, m, strict),
           f.phi.op = f.op, NEW k \in Formula, k = Nested(f)
    PROVE  Keeps(f, m, k, strict)
<1> DEFINE g == f.phi
           h == g.phi
           p == f.int
           q == g.int
           r == k.int
           op == f.op
<1>1. /\ g \in Formula /\ Sound(g, m, strict) /\ p.lower \in Nat /\ p.upper \in Nat /\ p.lower <= p.upper
      /\ Horizon[f] \in Nat /\ Horizon[g] \in Nat /\ p.upper + Horizon[g] <= Horizon[f]
      /\ \A sig : \A t \in Int : Smt(sig, t, f, m) <=> Spreads(op, p, g, sig, t, m)
  BY UnaryFacts
<1>2. g.op = op /\ op \in {"G", "F"}
  OBVIOUS
<1>3. k.op = op /\ k.phi = h /\ r.lower = p.lower + q.lower /\ r.upper = p.upper + q.upper
      /\ r = Span(p.lower + q.lower, p.upper + q.upper)
  BY DEF Nested, Over, Summed, Span
<1> HIDE DEF g, p, op
<1>4. /\ h \in Formula /\ Sound(h, m, strict) /\ q.lower \in Nat /\ q.upper \in Nat /\ q.lower <= q.upper
      /\ Horizon[h] \in Nat /\ q.upper + Horizon[h] <= Horizon[g]
      /\ \A sig : \A t \in Int : Smt(sig, t, g, m) <=> Spreads(op, q, h, sig, t, m)
  BY <1>1, <1>2, UnaryFacts
<1> HIDE DEF h, q
<1>5. r \in Interval
  BY <1>1, <1>3, <1>4 DEF Interval, Span
<1>6. Sound(k, m, strict) /\ Horizon[k] <= Horizon[f]
  <2>1. k.op \in {"G", "F"} /\ k.int \in Interval /\ Sound(k.phi, m, strict)
    BY <1>2, <1>3, <1>4, <1>5
  <2>2. k.int.upper + Horizon[k.phi] <= Horizon[f]
    BY <1>1, <1>3, <1>4
  <2> QED
    BY <1>1, <2>1, <2>2, UnarySound
<1>7. \A sig : \A t \in Int : Smt(sig, t, k, m) <=> Spreads(op, r, h, sig, t, m)
  BY <1>2, <1>3, <1>6, UnaryFacts
<1> HIDE DEF r
<1>8. ASSUME NEW sig, NEW t \in Int PROVE Smt(sig, t, k, m) <=> Smt(sig, t, f, m)
  <2> DEFINE P == {i \in Int : Smt(sig, t + i, h, m)}
  <2>1. \A i \in r.lower .. r.upper : i \in P <=> Smt(sig, t + i, h, m)
    BY <1>1, <1>3, <1>4
  <2>2. \A i \in p.lower .. p.upper : \A j \in q.lower .. q.upper : i + j \in P <=> Smt(sig, (t + i) + j, h, m)
    <3> SUFFICES ASSUME NEW i \in p.lower .. p.upper, NEW j \in q.lower .. q.upper
                 PROVE  i + j \in P <=> Smt(sig, (t + i) + j, h, m)
      OBVIOUS
    <3>1. i + j \in Int /\ t + (i + j) = (t + i) + j
      BY <1>1, <1>4
    <3> QED
      BY <3>1
  <2>3. \A i \in p.lower .. p.upper : t + i \in Int
    BY <1>1
  <2>4. \A i \in p.lower .. p.upper : Smt(sig, t + i, g, m) <=> Spreads(op, q, h, sig, t + i, m)
    BY <1>4, <2>3
  <2> HIDE DEF P
  <2>5. /\ (\A i \in r.lower .. r.upper : i \in P)
             <=> \A i \in p.lower .. p.upper : \A j \in q.lower .. q.upper : i + j \in P
        /\ (\E i \in r.lower .. r.upper : i \in P)
             <=> \E i \in p.lower .. p.upper : \E j \in q.lower .. q.upper : i + j \in P
    <3> DEFINE a == p.lower
               b == p.upper
               c == q.lower
               d == q.upper
    <3>1. a \in Nat /\ b \in Nat /\ c \in Nat /\ d \in Nat /\ a <= b /\ c <= d
          /\ r.lower = a + c /\ r.upper = b + d
      BY <1>1, <1>3, <1>4
    <3> HIDE DEF a, b, c, d
    <3>2. SumsOver(a, b, c, d, P)
      BY <3>1, SumInstants
    <3> QED
      BY <3>1, <3>2 DEF SumsOver, a, b, c, d
  <2>6. CASE op = "G"
    <3>1. Smt(sig, t, k, m) <=> \A i \in r.lower .. r.upper : i \in P
      BY <1>7, <2>1, <2>6 DEF Spreads
    <3>2. Smt(sig, t, f, m) <=> \A i \in p.lower .. p.upper : Smt(sig, t + i, g, m)
      BY <1>1, <2>6 DEF Spreads
    <3>3. \A i \in p.lower .. p.upper : Smt(sig, t + i, g, m) <=> \A j \in q.lower .. q.upper : i + j \in P
      BY <2>2, <2>4, <2>6 DEF Spreads
    <3> QED
      BY <2>5, <3>1, <3>2, <3>3
  <2>7. CASE op = "F"
    <3>1. Smt(sig, t, k, m) <=> \E i \in r.lower .. r.upper : i \in P
      BY <1>7, <2>1, <2>7 DEF Spreads
    <3>2. Smt(sig, t, f, m) <=> \E i \in p.lower .. p.upper : Smt(sig, t + i, g, m)
      BY <1>1, <2>7 DEF Spreads
    <3>3. \A i \in p.lower .. p.upper : Smt(sig, t + i, g, m) <=> \E j \in q.lower .. q.upper : i + j \in P
      BY <2>2, <2>4, <2>7 DEF Spreads
    <3> QED
      BY <2>5, <3>1, <3>2, <3>3
  <2> QED
    BY <1>2, <2>6, <2>7
<1> QED
  BY <1>6, <1>8, KeepsWhen

\* What is said of one instant is shifted to it.
LEMMA InstantStands ==
    ASSUME NEW m \in BOOLEAN, AsMltl(m), NEW strict, NEW g \in Formula, Sound(g, m, strict), NEW int \in Interval,
           NEW k \in Formula, k = AtInstant(int, g)
    PROVE  Stands(g, m, k, m, int.lower, strict)
<1>1. int.lower \in Nat
  BY DEF Interval
<1>2. CASE int.lower = 0
  <2>1. k = g
    BY <1>2 DEF AtInstant
  <2> QED
    BY <1>2, <2>1, StandsForItself
<1>3. CASE int.lower # 0
  <2>1. k = ShiftForward(int.lower)[g]
    BY <1>3 DEF AtInstant
  <2> QED
    BY <1>1, <2>1, ShiftForwardStands
<1> QED
  BY <1>2, <1>3

\* What is said of one instant
LEMMA InstantKeeps ==
    ASSUME NEW m \in BOOLEAN, AsMltl(m), NEW strict, NEW f \in Formula, Sound(f, m, strict),
           NEW g \in Formula, Sound(g, m, strict), NEW int \in Interval, int.lower + Horizon[g] <= Horizon[f],
           \A sig : \A t \in Int : Smt(sig, t, f, m) <=> Smt(sig, t + int.lower, g, m),
           NEW k \in Formula, k = AtInstant(int, g)
    PROVE  Keeps(f, m, k, strict)
<1>1. Stands(g, m, k, m, int.lower, strict)
  BY InstantStands
<1>2. Sound(k, m, strict) /\ Horizon[k] <= Horizon[g] + int.lower /\ Means(g, m, k, m, int.lower)
  BY <1>1 DEF Stands
<1>3. \A h \in Formula : Sound(h, m, strict) => Horizon[h] \in Nat
  BY SoundFacts, HorizonOfProper
<1>4. Horizon[k] <= Horizon[f]
  BY <1>2, <1>3 DEF Interval
<1>5. \A sig : Steady(sig) => \A t \in Int : Smt(sig, t, k, m) <=> Smt(sig, t, f, m)
  BY <1>2 DEF Means
<1> QED
  BY <1>2, <1>4, <1>5, KeepsWhen

\* G and F over one instant say so of their operand.
LEMMA UnaryInstantKeeps ==
    ASSUME NEW m \in BOOLEAN, AsMltl(m), NEW strict, NEW f \in Formula, f.op \in {"G", "F"}, Sound(f, m, strict),
           f.int.lower = f.int.upper, NEW k \in Formula, k = AtInstant(f.int, f.phi)
    PROVE  Keeps(f, m, k, strict)
<1> DEFINE g == f.phi
           int == f.int
<1>1. /\ g \in Formula /\ Sound(g, m, strict) /\ int \in Interval /\ int.lower \in Nat
      /\ int.upper + Horizon[g] <= Horizon[f]
      /\ \A sig : \A t \in Int : Smt(sig, t, f, m) <=> Spreads(f.op, int, g, sig, t, m)
  BY UnaryFacts
<1>2. int.lower = int.upper /\ k = AtInstant(int, g)
  OBVIOUS
<1> HIDE DEF g, int
<1>3. int.lower .. int.upper = {int.lower}
  BY <1>1, <1>2
<1>4. \A sig : \A t \in Int : Smt(sig, t, f, m) <=> Smt(sig, t + int.lower, g, m)
  BY <1>1, <1>3 DEF Spreads
<1> QED
  BY <1>1, <1>2, <1>4, InstantKeeps

\* A G can be distributed over a conjunction.
LEMMA DistributedKeeps ==
    ASSUME NEW n \in Nat, n + 1 <= Nesting, NEW f \in Compound(FormulaUpTo[n]), f.op = "G", f.phi.op = "and",
           NEW m \in BOOLEAN, NEW strict, Sound(f, m, strict)
    PROVE  Keeps(f, m, Distributed(f), strict)
<1> DEFINE k == Distributed(f)
           g == f.phi
           int == f.int
           E(h) == Over("G", int, h)
<1>1. f \in Formula /\ FormulaUpTo[n] \subseteq Formula /\ Compound(FormulaUpTo[n]) \subseteq Formula
  BY LevelFacts
<1>2. k \in Compound(FormulaUpTo[n]) /\ k.op = "and" /\ ToSet(k.args) = {E(h) : h \in ToSet(g.args)}
  BY DistributedInLevel
<1>3. k \in Formula
  BY <1>1, <1>2
<1>4. /\ g \in Formula /\ Sound(g, m, strict) /\ int \in Interval /\ int.lower \in Nat /\ int.upper \in Nat
      /\ Horizon[f] \in Nat /\ Horizon[g] \in Nat /\ int.upper + Horizon[g] <= Horizon[f]
      /\ \A sig : \A t \in Int : Smt(sig, t, f, m) <=> Spreads(f.op, int, g, sig, t, m)
  BY <1>1, UnaryFacts
<1>5. g.op = "and" /\ f.op = "G"
  OBVIOUS
<1> HIDE DEF k, g, int
<1>6. Operands(k) = ToSet(k.args) /\ Operands(g) = ToSet(g.args) /\ Scope(g) = ToSet(g.args)
  BY <1>2, <1>3, <1>4, <1>5, JunctionParts
<1>7. \A h \in ToSet(g.args) : h \in Formula /\ Sound(h, m, strict) /\ Horizon[h] \in Nat /\ Horizon[h] <= Horizon[g]
  BY <1>4, <1>5, <1>6, SoundFacts, HorizonOfProper, OperandsInFormula
<1>8. \A h \in ToSet(g.args) : E(h) \in Formula
  BY <1>2, <1>3, <1>6, OperandsInFormula
<1>9. \A h : E(h).op = "G" /\ E(h).int = int /\ E(h).phi = h
  BY DEF Over
<1> HIDE DEF E
<1>10. ASSUME NEW h \in ToSet(g.args)
       PROVE  /\ Sound(E(h), m, strict) /\ Horizon[E(h)] <= Horizon[f]
              /\ \A sig : \A t \in Int :
                    Smt(sig, t, E(h), m) <=> \A i \in int.lower .. int.upper : Smt(sig, t + i, h, m)
  <2>1. E(h) \in Formula /\ E(h).op \in {"G", "F"} /\ E(h).int \in Interval /\ Sound(E(h).phi, m, strict)
    BY <1>4, <1>7, <1>8, <1>9
  <2>2. E(h).int.upper + Horizon[E(h).phi] <= Horizon[f]
    BY <1>4, <1>7, <1>9
  <2>3. Sound(E(h), m, strict) /\ Horizon[E(h)] <= Horizon[f]
    BY <1>4, <2>1, <2>2, UnarySound
  <2>4. \A sig : \A t \in Int : Smt(sig, t, E(h), m) <=>
            \A i \in E(h).int.lower .. E(h).int.upper : Smt(sig, t + i, E(h).phi, m)
    BY <1>9, <2>1, SmtGlobally
  <2> QED
    BY <1>9, <2>3, <2>4
<1>11. Sound(k, m, strict) /\ Horizon[k] <= Horizon[f]
  <2>1. \A e \in ToSet(k.args) : Sound(e, m, strict) /\ Horizon[e] <= Horizon[f]
    BY <1>2, <1>10
  <2>2. ToSet(g.args) # {}
    BY <1>4, <1>5, SoundFacts DEF SoundAt, ToSet
  <2>3. ToSet(k.args) # {}
    BY <1>2, <2>2
  <2> QED
    BY <1>2, <1>3, <1>4, <2>1, <2>3, JunctionSound
<1>12. ASSUME NEW sig, NEW t \in Int PROVE Smt(sig, t, k, m) <=> Smt(sig, t, f, m)
  <2>1. Smt(sig, t, k, m) <=> \A h \in ToSet(g.args) : \A i \in int.lower .. int.upper : Smt(sig, t + i, h, m)
    <3>1. Smt(sig, t, k, m) <=> \A e \in ToSet(k.args) : Smt(sig, t, e, m)
      BY <1>2, <1>3, JunctionMeans
    <3>2. Smt(sig, t, k, m) <=> \A h \in ToSet(g.args) : Smt(sig, t, E(h), m)
      BY <1>2, <3>1
    <3> QED
      BY <1>10, <3>2
  <2>2. Smt(sig, t, f, m) <=> \A i \in int.lower .. int.upper : Smt(sig, t + i, g, m)
    BY <1>4, <1>5 DEF Spreads
  <2>3. \A i \in int.lower .. int.upper : t + i \in Int
    BY <1>4
  <2>4. \A i \in int.lower .. int.upper : Smt(sig, t + i, g, m) <=> \A h \in ToSet(g.args) : Smt(sig, t + i, h, m)
    BY <1>4, <1>5, <2>3, JunctionMeans
  <2> QED
    BY <2>1, <2>2, <2>4
<1> QED
  BY <1>1, <1>3, <1>11, <1>12, KeepsWhen DEF k

----------------------------------------------------------------------------
(* The simplification of U and R *)

\* An until whose left part is false, or is true where the right one is not
UntilOver(a, b, L, P) == \E i \in a .. b : i \in P /\ \A j \in a .. i - 1 : j \in L

\* An until is said of its first instant, or is an F, when its left part leaves no choice.
LEMMA UntilAsUnary ==
    ASSUME NEW a \in Nat, NEW b \in Nat, a <= b, NEW L, NEW P
    PROVE  /\ (\A i \in a .. b : i \notin L) => (UntilOver(a, b, L, P) <=> a \in P)
           /\ (\A i \in a .. b : i \notin P => i \in L) => (UntilOver(a, b, L, P) <=> \E i \in a .. b : i \in P)
<1>1. ASSUME \A i \in a .. b : i \notin L PROVE UntilOver(a, b, L, P) <=> a \in P
  <2>1. ASSUME NEW i \in a .. b, \A j \in a .. i - 1 : j \in L PROVE i = a
    <3> SUFFICES ASSUME i # a PROVE FALSE
      OBVIOUS
    <3>1. a \in a .. i - 1 /\ a \in a .. b
      OBVIOUS
    <3> QED
      BY <1>1, <2>1, <3>1
  <2>2. a \in a .. b /\ \A j \in a .. a - 1 : j \in L
    OBVIOUS
  <2> QED
    BY <2>1, <2>2 DEF UntilOver
<1>2. ASSUME \A i \in a .. b : i \notin P => i \in L, NEW i \in a .. b, i \in P PROVE UntilOver(a, b, L, P)
  <2> DEFINE A == {k \in a .. b : k \in P}
  <2>1. A \in SUBSET Nat /\ A # {}
    BY <1>2
  <2>2. PICK k \in A : \A l \in A : k <= l
    BY <2>1, SmallestElement
  <2>3. \A j \in a .. k - 1 : j \in a .. b /\ ~(k <= j)
    BY <2>2
  <2>4. \A j \in a .. k - 1 : j \in L
    BY <1>2, <2>2, <2>3
  <2> QED
    BY <2>2, <2>4 DEF UntilOver
<1> QED
  BY <1>1, <1>2 DEF UntilOver

\* The same of a release
ReleaseOver(a, b, L, P) == \A i \in a .. b : i \in P \/ \E j \in a .. i - 1 : j \in L

\* A release is said of its first instant, or is a G, when its left part leaves no choice.
LEMMA ReleaseAsUnary ==
    ASSUME NEW a \in Nat, NEW b \in Nat, a <= b, NEW L, NEW P
    PROVE  /\ (\A i \in a .. b : i \in L) => (ReleaseOver(a, b, L, P) <=> a \in P)
           /\ (\A i \in a .. b : i \in L => i \notin P) => (ReleaseOver(a, b, L, P) <=> \A i \in a .. b : i \in P)
<1> DEFINE N == {i \in Int : i \notin L}
           Q1 == {i \in Int : i \notin P}
<1>1. ReleaseOver(a, b, L, P) <=> ~UntilOver(a, b, N, Q1)
  <2>1. \A i \in a .. b : i \in Int /\ \A j \in a .. i - 1 : j \in Int
    OBVIOUS
  <2>2. \A i \in Int : (i \in N <=> i \notin L) /\ (i \in Q1 <=> i \notin P)
    OBVIOUS
  <2> HIDE DEF N, Q1
  <2> QED
    BY <2>1, <2>2 DEF ReleaseOver, UntilOver
<1>2. \A i \in a .. b : (i \in N <=> i \notin L) /\ (i \in Q1 <=> i \notin P)
  OBVIOUS
<1>3. a \in a .. b
  OBVIOUS
<1> HIDE DEF N, Q1
<1>4. /\ (\A i \in a .. b : i \notin N) => (UntilOver(a, b, N, Q1) <=> a \in Q1)
      /\ (\A i \in a .. b : i \notin Q1 => i \in N) => (UntilOver(a, b, N, Q1) <=> \E i \in a .. b : i \in Q1)
  BY UntilAsUnary
<1> QED
  BY <1>1, <1>2, <1>3, <1>4

\* U and R by what they say of their instants
LEMMA BinaryFacts ==
    ASSUME NEW f \in Formula, f.op \in {"U", "R"}, NEW m \in BOOLEAN, AsMltl(m), NEW strict, Sound(f, m, strict)
    PROVE  /\ f.left \in Formula /\ Sound(f.left, m, strict) /\ f.right \in Formula /\ Sound(f.right, m, strict)
           /\ f.int \in Interval /\ f.int.lower \in Nat /\ f.int.upper \in Nat /\ f.int.lower <= f.int.upper
           /\ Horizon[f] \in Nat /\ Horizon[f.left] \in Nat /\ Horizon[f.right] \in Nat
           /\ f.int.upper + Horizon[f.left] <= Horizon[f] /\ f.int.upper + Horizon[f.right] <= Horizon[f]
           /\ \A sig : \A t \in Int :
                /\ f.op = "U" => (Smt(sig, t, f, m) <=>
                      \E i \in f.int.lower .. f.int.upper :
                          Smt(sig, t + i, f.right, m) /\ \A j \in f.int.lower .. i - 1 : Smt(sig, t + j, f.left, m))
                /\ f.op = "R" => (Smt(sig, t, f, m) <=>
                      \A i \in f.int.lower .. f.int.upper :
                          Smt(sig, t + i, f.right, m) \/ \E j \in f.int.lower .. i - 1 : Smt(sig, t + j, f.left, m))
<1>1. /\ f.left \in Formula /\ f.right \in Formula /\ IsTemporal(f)
      /\ Operands(f) = {f.left, f.right} /\ Scope(f) = {f.left, f.right}
  BY FormulaShape, ScopeParts DEF IsTemporal
<1>2. SoundAt(f, m, strict) /\ Sound(f.left, m, strict) /\ Sound(f.right, m, strict) /\ Proper(f)
  BY <1>1, SoundFacts
<1>3. f.int \in Interval /\ f.int.lower \in Nat /\ f.int.upper \in Nat /\ f.int.lower <= f.int.upper
  BY <1>1, <1>2 DEF SoundAt, Interval
<1>4. /\ Horizon[f] \in Nat /\ Horizon[f.left] \in Nat /\ Horizon[f.right] \in Nat
      /\ f.int.upper + Horizon[f.left] <= Horizon[f] /\ f.int.upper + Horizon[f.right] <= Horizon[f]
  BY <1>1, <1>2, HorizonOfProper
<1>5. \A i : Lefts(f.int, i, m) = f.int.lower .. i - 1
  BY DEF Lefts, AsMltl
<1>6. ASSUME f.op = "U", NEW sig, NEW t \in Int
      PROVE  Smt(sig, t, f, m) <=>
               \E i \in f.int.lower .. f.int.upper :
                   Smt(sig, t + i, f.right, m) /\ \A j \in f.int.lower .. i - 1 : Smt(sig, t + j, f.left, m)
  <2>1. Smt(sig, t, f, m) <=>
          \E i \in f.int.lower .. f.int.upper :
              Smt(sig, t + i, f.right, m) /\ \A j \in Lefts(f.int, i, m) : Smt(sig, t + j, f.left, m)
    BY <1>6, SmtUntil
  <2> QED
    BY <1>5, <2>1
<1>7. ASSUME f.op = "R", NEW sig, NEW t \in Int
      PROVE  Smt(sig, t, f, m) <=>
               \A i \in f.int.lower .. f.int.upper :
                   Smt(sig, t + i, f.right, m) \/ \E j \in f.int.lower .. i - 1 : Smt(sig, t + j, f.left, m)
  <2>1. Smt(sig, t, f, m) <=>
          \A i \in f.int.lower .. f.int.upper :
              Smt(sig, t + i, f.right, m) \/ \E j \in Lefts(f.int, i, m) : Smt(sig, t + j, f.left, m)
    BY <1>7, SmtRelease
  <2> QED
    BY <1>5, <2>1
<1> QED
  BY <1>1, <1>2, <1>3, <1>4, <1>6, <1>7

\* U and R with a constant on the right are the constant.
LEMMA RightConstantKeeps ==
    ASSUME NEW f \in Formula, f.op \in {"U", "R"}, NEW m \in BOOLEAN, AsMltl(m), NEW strict, Sound(f, m, strict),
           IsConstant(f.right)
    PROVE  Keeps(f, m, f.right, strict)
<1> DEFINE l == f.left
           r == f.right
           a == f.int.lower
           b == f.int.upper
<1>1. /\ l \in Formula /\ r \in Formula /\ Sound(r, m, strict) /\ a \in Nat /\ b \in Nat /\ a <= b
      /\ Horizon[f] \in Nat /\ Horizon[r] \in Nat /\ b + Horizon[r] <= Horizon[f]
      /\ \A sig : \A t \in Int :
           /\ f.op = "U" => (Smt(sig, t, f, m) <=>
                 \E i \in a .. b : Smt(sig, t + i, r, m) /\ \A j \in a .. i - 1 : Smt(sig, t + j, l, m))
           /\ f.op = "R" => (Smt(sig, t, f, m) <=>
                 \A i \in a .. b : Smt(sig, t + i, r, m) \/ \E j \in a .. i - 1 : Smt(sig, t + j, l, m))
  BY BinaryFacts
<1>2. IsConstant(r)
  OBVIOUS
<1> HIDE DEF l, r, a, b
<1>3. a \in a .. b /\ a .. a - 1 = {}
  BY <1>1
<1>4. ASSUME NEW sig, Steady(sig), NEW t \in Int PROVE Smt(sig, t, r, m) <=> Smt(sig, t, f, m)
  <2>1. \A i \in a .. b : t + i \in Int
    BY <1>1
  <2>2. \A i \in a .. b : Smt(sig, t + i, r, m) <=> Smt(sig, t, r, m)
    BY <1>1, <1>2, <1>4, <2>1, ConstantAlways
  <2>3. CASE f.op = "U"
    <3>1. Smt(sig, t, f, m) <=>
            \E i \in a .. b : Smt(sig, t + i, r, m) /\ \A j \in a .. i - 1 : Smt(sig, t + j, l, m)
      BY <1>1, <2>3
    <3> QED
      BY <1>3, <2>2, <3>1
  <2>4. CASE f.op = "R"
    <3>1. Smt(sig, t, f, m) <=>
            \A i \in a .. b : Smt(sig, t + i, r, m) \/ \E j \in a .. i - 1 : Smt(sig, t + j, l, m)
      BY <1>1, <2>4
    <3> QED
      BY <1>3, <2>2, <3>1
  <2> QED
    BY <2>3, <2>4
<1>5. Horizon[r] <= Horizon[f]
  BY <1>1
<1> QED
  BY <1>1, <1>4, <1>5, KeepsWhen DEF r

\* An until over one instant says its right part of it.
LEMMA UntilInstantKeeps ==
    ASSUME NEW f \in Formula, f.op = "U", NEW m \in BOOLEAN, AsMltl(m), NEW strict, Sound(f, m, strict),
           f.int.lower = f.int.upper, NEW k \in Formula, k = AtInstant(f.int, f.right)
    PROVE  Keeps(f, m, k, strict)
<1> DEFINE l == f.left
           r == f.right
           int == f.int
<1>1. /\ l \in Formula /\ r \in Formula /\ Sound(r, m, strict) /\ int \in Interval /\ int.lower \in Nat
      /\ Horizon[f] \in Nat /\ Horizon[r] \in Nat /\ int.upper + Horizon[r] <= Horizon[f]
      /\ \A sig : \A t \in Int :
           f.op = "U" => (Smt(sig, t, f, m) <=>
                 \E i \in int.lower .. int.upper :
                     Smt(sig, t + i, r, m) /\ \A j \in int.lower .. i - 1 : Smt(sig, t + j, l, m))
  BY BinaryFacts
<1>2. int.lower = int.upper /\ k = AtInstant(int, r)
  OBVIOUS
<1> HIDE DEF l, r, int
<1>3. int.lower .. int.upper = {int.lower} /\ int.lower .. int.lower - 1 = {}
  BY <1>1, <1>2
<1>4. \A sig : \A t \in Int : Smt(sig, t, f, m) <=> Smt(sig, t + int.lower, r, m)
  BY <1>1, <1>3
<1> QED
  BY <1>1, <1>2, <1>4, InstantKeeps

\* The G or F that an U or R becomes takes its place.
LEMMA AsUnaryKeeps ==
    ASSUME NEW S, S \subseteq Formula, Compound(S) \subseteq Formula, NEW f \in Compound(S), f.op \in {"U", "R"},
           NEW m \in BOOLEAN, AsMltl(m), NEW strict, Sound(f, m, strict),
           IsConstant(f.left) \/ Negates(f.left, f.right)
    PROVE  Keeps(f, m, AsUnary(f), strict)
<1> DEFINE k == AsUnary(f)
           l == f.left
           r == f.right
           a == f.int.lower
           b == f.int.upper
           first == EqStructural(l, IF f.op = "U" THEN False ELSE True)
<1>1. f \in Formula
  OBVIOUS
<1>2. /\ l \in Formula /\ Sound(l, m, strict) /\ r \in Formula /\ Sound(r, m, strict)
      /\ f.int \in Interval /\ a \in Nat /\ b \in Nat /\ a <= b
      /\ Horizon[f] \in Nat /\ Horizon[r] \in Nat /\ b + Horizon[r] <= Horizon[f]
      /\ \A sig : \A t \in Int :
           /\ f.op = "U" => (Smt(sig, t, f, m) <=>
                 \E i \in a .. b : Smt(sig, t + i, r, m) /\ \A j \in a .. i - 1 : Smt(sig, t + j, l, m))
           /\ f.op = "R" => (Smt(sig, t, f, m) <=>
                 \A i \in a .. b : Smt(sig, t + i, r, m) \/ \E j \in a .. i - 1 : Smt(sig, t + j, l, m))
  BY <1>1, BinaryFacts
<1>3. /\ k \in Compound(S) /\ k.op \in {"G", "F"} /\ k.phi = r
      /\ first => k.op = "F" /\ k.int = Span(a, a)
      /\ ~first => k.op = (IF f.op = "U" THEN "F" ELSE "G") /\ k.int = f.int
  BY AsUnaryParts DEF FirstInstant
<1>4. k \in Formula
  BY <1>3
<1>5. IsConstant(l) \/ Negates(l, r)
  OBVIOUS
<1>6. first <=> (f.op = "U" /\ EqStructural(l, False)) \/ (f.op = "R" /\ EqStructural(l, True))
  OBVIOUS
<1>7. k.int \in Interval /\ k.int.lower = a /\ k.int.upper = IF first THEN a ELSE b
  <2> HIDE DEF first, k
  <2>1. CASE first
    BY <1>2, <1>3, <2>1 DEF Span, Interval
  <2>2. CASE ~first
    BY <1>2, <1>3, <2>2
  <2> QED
    BY <2>1, <2>2
<1> HIDE DEF k, l, r, a, b, first
<1>8. Sound(k, m, strict) /\ Horizon[k] <= Horizon[f]
  <2>1. k.int.upper <= b
    BY <1>2, <1>7
  <2>2. k.int.upper + Horizon[k.phi] <= Horizon[f]
    BY <1>2, <1>3, <1>7, <2>1
  <2> QED
    BY <1>2, <1>3, <1>4, <1>7, <2>2, UnarySound
<1>9. \A sig : \A t \in Int : Smt(sig, t, k, m) <=> Spreads(k.op, k.int, r, sig, t, m)
  BY <1>3, <1>4, <1>8, UnaryFacts
<1>10. ASSUME NEW sig, Steady(sig), NEW t \in Int PROVE Smt(sig, t, k, m) <=> Smt(sig, t, f, m)
  <2> DEFINE L == {i \in Int : Smt(sig, t + i, l, m)}
             P == {i \in Int : Smt(sig, t + i, r, m)}
  <2>1. a .. b \subseteq Int /\ \A i \in a .. b : t + i \in Int /\ a .. i - 1 \subseteq Int
    BY <1>2
  <2>2. \A i \in Int : (i \in L <=> Smt(sig, t + i, l, m)) /\ (i \in P <=> Smt(sig, t + i, r, m))
    OBVIOUS
  <2> HIDE DEF L, P
  <2>3. /\ f.op = "U" => (Smt(sig, t, f, m) <=> UntilOver(a, b, L, P))
        /\ f.op = "R" => (Smt(sig, t, f, m) <=> ReleaseOver(a, b, L, P))
    <3>1. ASSUME f.op = "U" PROVE Smt(sig, t, f, m) <=> UntilOver(a, b, L, P)
      <4>1. Smt(sig, t, f, m) <=>
              \E i \in a .. b : Smt(sig, t + i, r, m) /\ \A j \in a .. i - 1 : Smt(sig, t + j, l, m)
        BY <1>2, <3>1
      <4> QED
        BY <2>1, <2>2, <4>1 DEF UntilOver
    <3>2. ASSUME f.op = "R" PROVE Smt(sig, t, f, m) <=> ReleaseOver(a, b, L, P)
      <4>1. Smt(sig, t, f, m) <=>
              \A i \in a .. b : Smt(sig, t + i, r, m) \/ \E j \in a .. i - 1 : Smt(sig, t + j, l, m)
        BY <1>2, <3>2
      <4> QED
        BY <2>1, <2>2, <4>1 DEF ReleaseOver
    <3> QED
      BY <3>1, <3>2
  <2>4. EqStructural(l, True) => \A i \in a .. b : i \in L
    BY <1>2, <1>10, <2>1, <2>2, EqualConstant
  <2>5. EqStructural(l, False) => \A i \in a .. b : i \notin L
    BY <1>2, <1>10, <2>1, <2>2, EqualConstant
  <2>6. Negates(l, r) => \A i \in a .. b : i \in L <=> i \notin P
    <3> SUFFICES ASSUME Negates(l, r), NEW i \in a .. b PROVE i \in L <=> i \notin P
      OBVIOUS
    <3> DEFINE u == t + i
    <3>1. u \in Int /\ i \in Int
      BY <2>1
    <3>2. (i \in L <=> Smt(sig, u, l, m)) /\ (i \in P <=> Smt(sig, u, r, m))
      BY <2>2, <3>1
    <3> HIDE DEF u
    <3>3. Smt(sig, u, l, m) <=> ~Smt(sig, u, r, m)
      BY <1>2, <1>10, <3>1, NegatesFacts
    <3> QED
      BY <3>2, <3>3
  <2>7. CASE first
    <3>1. Smt(sig, t, k, m) <=> \E i \in a .. a : Smt(sig, t + i, r, m)
      BY <1>3, <1>7, <1>9, <2>7 DEF Spreads
    <3>2. Smt(sig, t, k, m) <=> a \in P
      BY <1>2, <2>2, <3>1
    <3>3. f.op = "U" => (\A i \in a .. b : i \notin L)
      BY <1>6, <2>5, <2>7
    <3>4. f.op = "R" => (\A i \in a .. b : i \in L)
      BY <1>6, <2>4, <2>7
    <3>5. f.op = "U" => (UntilOver(a, b, L, P) <=> a \in P)
      BY <1>2, <3>3, UntilAsUnary
    <3>6. f.op = "R" => (ReleaseOver(a, b, L, P) <=> a \in P)
      BY <1>2, <3>4, ReleaseAsUnary
    <3> QED
      BY <2>3, <3>2, <3>5, <3>6
  <2>8. CASE ~first
    <3>1. f.op = "U" => (Smt(sig, t, k, m) <=> \E i \in a .. b : i \in P)
      BY <1>3, <1>7, <1>9, <2>1, <2>2, <2>8 DEF Spreads
    <3>2. f.op = "R" => (Smt(sig, t, k, m) <=> \A i \in a .. b : i \in P)
      BY <1>3, <1>7, <1>9, <2>1, <2>2, <2>8 DEF Spreads
    <3>3. f.op = "U" => (\A i \in a .. b : i \notin P => i \in L)
      BY <1>5, <1>6, <2>4, <2>6, <2>8 DEF IsConstant
    <3>4. f.op = "R" => (\A i \in a .. b : i \in L => i \notin P)
      BY <1>5, <1>6, <2>5, <2>6, <2>8 DEF IsConstant
    <3>5. f.op = "U" => (UntilOver(a, b, L, P) <=> \E i \in a .. b : i \in P)
      BY <1>2, <3>3, UntilAsUnary
    <3>6. f.op = "R" => (ReleaseOver(a, b, L, P) <=> \A i \in a .. b : i \in P)
      BY <1>2, <3>4, ReleaseAsUnary
    <3> QED
      BY <2>3, <3>1, <3>2, <3>5, <3>6
  <2> QED
    BY <2>7, <2>8
<1>11. Keeps(f, m, k, strict)
  BY <1>1, <1>4, <1>8, <1>10, KeepsWhen
<1> QED
  BY <1>11 DEF k

----------------------------------------------------------------------------
(* The simplifier as a whole *)

\* A visitor that stays in a level and keeps what its formulas mean
KeepsLevel(n, x, m, strict) ==
    \A g \in FormulaUpTo[n] :
        /\ x[g] \in FormulaUpTo[n]
        /\ g.op = "prop" => x[g].op = "prop"
        /\ Sound(g, m, strict) => Keeps(g, m, x[g], strict)

\* What G and F are simplified to takes their place.
LEMMA SimplifyUnaryKeeps ==
    ASSUME NEW m \in BOOLEAN, AsMltl(m), NEW strict, NEW n \in Nat, n + 1 <= Nesting, NEW x,
           KeepsLevel(n, x, m, strict), NEW f \in Compound(FormulaUpTo[n]), f.op \in {"G", "F"}, Sound(f, m, strict)
    PROVE  Keeps(f, m, SimplifyUnary(f, x), strict)
<1>1. f \in Formula /\ FormulaUpTo[n] \subseteq Formula /\ FormulaUpTo[n + 1] \subseteq Formula
  BY LevelFacts
<1>2. f.int \in Times /\ f.phi \in FormulaUpTo[n]
  BY CompoundShape
<1>3. CASE IsConstant(f.phi)
  <2>1. SimplifyUnary(f, x) = f.phi
    BY <1>3 DEF SimplifyUnary
  <2> QED
    BY <1>1, <1>3, <2>1, ConstantOperandKeeps
<1>4. CASE ~IsConstant(f.phi) /\ f.phi.op = f.op
  <2> DEFINE k == Nested(f)
  <2>1. SimplifyUnary(f, x) = x[k]
    BY <1>4 DEF SimplifyUnary, Nested
  <2>2. k \in FormulaUpTo[n]
    BY <1>4, NestedInLevel
  <2>3. Keeps(f, m, k, strict)
    BY <1>1, <1>4, <2>2, NestedKeeps
  <2> HIDE DEF k
  <2>4. Keeps(k, m, x[k], strict)
    BY <2>2, <2>3, KeepsFacts DEF KeepsLevel
  <2> QED
    BY <1>1, <2>1, <2>3, <2>4, KeepsInTurn
<1>5. CASE ~IsConstant(f.phi) /\ f.phi.op # f.op /\ f.int.lower = f.int.upper
  <2>1. SimplifyUnary(f, x) = AtInstant(f.int, f.phi)
    BY <1>5 DEF SimplifyUnary
  <2>2. AtInstant(f.int, f.phi) \in Formula
    BY <1>1, <1>2, AtInstantInLevel
  <2> QED
    BY <1>1, <1>5, <2>1, <2>2, UnaryInstantKeeps
<1>6. CASE ~IsConstant(f.phi) /\ f.phi.op # f.op /\ f.int.lower # f.int.upper
  <2>1. CASE f.op = "G" /\ f.phi.op = "and"
    <3>1. SimplifyUnary(f, x) = Distributed(f)
      BY <1>6, <2>1 DEF SimplifyUnary, Distributed
    <3> QED
      BY <2>1, <3>1, DistributedKeeps
  <2>2. CASE ~(f.op = "G" /\ f.phi.op = "and")
    <3>1. SimplifyUnary(f, x) = f
      BY <1>6, <2>2 DEF SimplifyUnary
    <3> QED
      BY <1>1, <3>1, KeepsItself
  <2> QED
    BY <2>1, <2>2
<1> QED
  BY <1>3, <1>4, <1>5, <1>6

\* So does a visit,
LEMMA VisitedKeepsLevel ==
    ASSUME NEW m \in BOOLEAN, NEW strict, NEW n \in Nat, n + 1 <= Nesting, NEW x,
           KeepsLevel(n, x, m, strict), NEW f \in Compound(FormulaUpTo[n]), Sound(f, m, strict)
    PROVE  /\ Visited(f, x) \in Compound(FormulaUpTo[n]) /\ Visited(f, x).op = f.op
           /\ Keeps(f, m, Visited(f, x), strict)
<1>1. f \in Formula /\ \A g \in Operands(f) : g \in FormulaUpTo[n]
  BY LevelFacts, CompoundOperands
<1>2. Alike(n, x, x)
  BY DEF Alike, KeepsLevel
<1>3. Visited(f, x) \in Compound(FormulaUpTo[n]) /\ Visited(f, x).op = f.op
  BY <1>2, VisitedAlike
<1>4. Visited(f, x) \in Formula
  BY <1>3, LevelFacts
<1>5. \A g \in Operands(f) : Sound(g, m, strict)
  BY <1>1, SoundFacts
<1>6. \A g \in Operands(f) : Keeps(g, m, x[g], strict) /\ (g.op = "prop" => x[g].op = "prop")
  BY <1>1, <1>5 DEF KeepsLevel
<1>7. Keeps(f, m, Visited(f, x), strict)
  BY <1>1, <1>4, <1>6, VisitedKeeps
<1> QED
  BY <1>3, <1>7

\* what is simplified once more,
LEMMA AgainKeeps ==
    ASSUME NEW m \in BOOLEAN, AsMltl(m), NEW strict, NEW n \in Nat, n + 1 <= Nesting, NEW x,
           KeepsLevel(n, x, m, strict), NEW f \in Compound(FormulaUpTo[n]), f.op \in {"G", "F"}, Sound(f, m, strict)
    PROVE  Keeps(f, m, Again(f, x), strict)
<1> DEFINE v == Visited(f, x)
<1>1. v \in Compound(FormulaUpTo[n]) /\ v.op = f.op /\ Keeps(f, m, v, strict)
  BY VisitedKeepsLevel
<1>2. Again(f, x) = SimplifyUnary(v, x) /\ f \in Formula
  BY LevelFacts DEF Again
<1> HIDE DEF v
<1>3. Keeps(v, m, SimplifyUnary(v, x), strict)
  BY <1>1, KeepsFacts, SimplifyUnaryKeeps
<1> QED
  BY <1>1, <1>2, <1>3, KeepsInTurn

\* and what U and R are simplified to.
LEMMA SimplifyBinaryKeeps ==
    ASSUME NEW m \in BOOLEAN, AsMltl(m), NEW strict, NEW n \in Nat, n + 1 <= Nesting, NEW x,
           KeepsLevel(n, x, m, strict), NEW f \in Compound(FormulaUpTo[n]), f.op \in {"U", "R"}, Sound(f, m, strict)
    PROVE  /\ f.op = "U" => Keeps(f, m, SimplifyUntil(f, x), strict)
           /\ f.op = "R" => Keeps(f, m, SimplifyRelease(f, x), strict)
<1> DEFINE S == FormulaUpTo[n]
<1>1. f \in Formula /\ S \subseteq Formula /\ FormulaUpTo[n + 1] \subseteq Formula /\ Compound(S) \subseteq Formula
  BY LevelFacts
<1>2. f.int \in Times /\ f.right \in S
  BY CompoundShape
<1>3. AtInstant(f.int, f.right) \in Formula
  BY <1>1, <1>2, AtInstantInLevel
<1>4. ASSUME IsConstant(f.left) \/ Negates(f.left, f.right)
      PROVE  Keeps(f, m, Again(AsUnary(f), x), strict)
  <2> DEFINE u == AsUnary(f)
  <2>1. u \in Compound(S) /\ u.op \in {"G", "F"}
    BY AsUnaryParts
  <2>2. Keeps(f, m, u, strict)
    <3> HIDE DEF S
    <3>1. f \in Compound(S)
      BY DEF S
    <3> QED
      BY <1>1, <1>4, <3>1, AsUnaryKeeps
  <2> HIDE DEF u
  <2>3. Keeps(u, m, Again(u, x), strict)
    BY <2>1, <2>2, KeepsFacts, AgainKeeps
  <2>4. Keeps(f, m, Again(u, x), strict)
    BY <1>1, <2>2, <2>3, KeepsInTurn
  <2> QED
    BY <2>4 DEF u
<1>5. IsConstant(f.right) => Keeps(f, m, f.right, strict)
  BY <1>1, RightConstantKeeps
<1>6. f.op = "U" /\ f.int.lower = f.int.upper => Keeps(f, m, AtInstant(f.int, f.right), strict)
  BY <1>1, <1>3, UntilInstantKeeps
<1>7. Keeps(f, m, f, strict)
  BY <1>1, KeepsItself
<1> QED
  BY <1>4, <1>5, <1>6, <1>7 DEF SimplifyUntil, SimplifyRelease

\* What the simplifier makes of a formula means the same.
LEMMA SimplifyStands ==
    ASSUME NEW m \in BOOLEAN, AsMltl(m), NEW strict
    PROVE  \A f \in Formula : Sound(f, m, strict) => Keeps(f, m, Simplify[f], strict)
<1> DEFINE x == Simplify
           P == {f \in Formula : Sound(f, m, strict) => Keeps(f, m, x[f], strict)}
<1>1. StaysInLevels(x) /\ \A f \in Formula : x[f] = SimplifyOf(f, x)
  BY SimplifyEquation
<1> HIDE DEF x
<1>2. Propositions \subseteq P
  <2> SUFFICES ASSUME NEW f \in Propositions PROVE f \in P
    OBVIOUS
  <2>1. f \in Formula /\ f.op = "prop"
    BY PropositionsInFormula, PropositionShape
  <2>2. x[f] = f
    BY <1>1, <2>1 DEF SimplifyOf, Visited
  <2> QED
    BY <2>1, <2>2, KeepsItself
<1>3. ASSUME NEW n \in Nat, n + 1 <= Nesting, FormulaUpTo[n] \subseteq P,
             NEW f \in Compound(FormulaUpTo[n])
      PROVE  f \in P
  <2>1. f \in Formula /\ Compound(FormulaUpTo[n]) \subseteq Formula /\ n <= Nesting
    BY <1>3, LevelFacts
  <2> SUFFICES ASSUME Sound(f, m, strict) PROVE Keeps(f, m, x[f], strict)
    BY <2>1
  <2>2. KeepsLevel(n, x, m, strict)
    <3> SUFFICES ASSUME NEW g \in FormulaUpTo[n]
                 PROVE  /\ x[g] \in FormulaUpTo[n]
                        /\ g.op = "prop" => x[g].op = "prop"
                        /\ Sound(g, m, strict) => Keeps(g, m, x[g], strict)
      BY DEF KeepsLevel
    <3>1. g \in Formula /\ (Sound(g, m, strict) => Keeps(g, m, x[g], strict))
      BY <1>3
    <3>2. x[g] \in FormulaUpTo[n]
      BY <1>1, <2>1 DEF StaysInLevels
    <3>3. g.op = "prop" => x[g].op = "prop"
      BY <1>1, <3>1, PropositionShape DEF StaysInLevels
    <3> QED
      BY <3>1, <3>2, <3>3
  <2> HIDE DEF P
  <2> DEFINE v == Visited(f, x)
  <2>3. v \in Compound(FormulaUpTo[n]) /\ v.op = f.op /\ Keeps(f, m, v, strict)
    BY <1>3, <2>2, VisitedKeepsLevel
  <2>4. /\ f.op \in {"and", "or"} => x[f] = SimplifyJunction(v)
        /\ f.op \in {"G", "F"} => x[f] = SimplifyUnary(v, x)
        /\ f.op = "U" => x[f] = SimplifyUntil(v, x)
        /\ f.op = "R" => x[f] = SimplifyRelease(v, x)
        /\ f.op \notin {"and", "or", "G", "F", "U", "R"} => x[f] = v
    <3>1. x[f] = SimplifyOf(f, x)
      BY <1>1, <2>1
    <3> QED
      BY <3>1 DEF SimplifyOf
  <2> HIDE DEF v
  <2>5. v \in Formula /\ Sound(v, m, strict)
    BY <2>1, <2>3, KeepsFacts
  <2>6. Keeps(v, m, x[f], strict)
    <3>1. CASE f.op \in {"and", "or"}
      <4> DEFINE k == SimplifyJunction(v)
      <4>1. k \in FormulaUpTo[n + 1]
        BY <1>3, <2>3, <3>1, SimplifyJunctionInLevel
      <4>2. k \in Formula
        BY <1>3, <4>1, LevelFacts
      <4>3. v.op \in {"and", "or"} /\ k = SimplifyJunction(v)
        BY <2>3, <3>1
      <4> HIDE DEF k
      <4>4. Keeps(v, m, k, strict)
        BY <2>5, <4>2, <4>3, SimplifyJunctionKeeps
      <4> QED
        BY <2>4, <3>1, <4>3, <4>4
    <3>2. CASE f.op \in {"G", "F"}
      BY <1>3, <2>2, <2>3, <2>4, <2>5, <3>2, SimplifyUnaryKeeps
    <3>3. CASE f.op \in {"U", "R"}
      <4>1. v.op = f.op /\ v.op \in {"U", "R"}
        BY <2>3, <3>3
      <4>2. /\ v.op = "U" => Keeps(v, m, SimplifyUntil(v, x), strict)
            /\ v.op = "R" => Keeps(v, m, SimplifyRelease(v, x), strict)
        BY <1>3, <2>2, <2>3, <2>5, <4>1, SimplifyBinaryKeeps
      <4> QED
        BY <2>4, <3>3, <4>1, <4>2
    <3>4. CASE f.op \notin {"and", "or", "G", "F", "U", "R"}
      BY <2>4, <2>5, <3>4, KeepsItself
    <3> QED
      BY <3>1, <3>2, <3>3, <3>4
  <2> QED
    BY <2>1, <2>3, <2>6, KeepsInTurn
<1>4. Formula \subseteq P
  <2>1. \A n \in Nat : n + 1 <= Nesting /\ FormulaUpTo[n] \subseteq P => Compound(FormulaUpTo[n]) \subseteq P
    BY <1>3
  <2> HIDE DEF P
  <2> QED
    BY <1>2, <2>1, LevelwiseInduction
<1> QED
  BY <1>4 DEF x

----------------------------------------------------------------------------
(* Negations *)

\* Negations stand before propositions.
LiteralForm(f) == \A g \in Subformulas[f] : g.op = "not" => g.phi.op = "prop"

\* A formula has this form if its operands have it.
LEMMA LiteralFormFacts ==
    ASSUME NEW f \in Formula
    PROVE  /\ LiteralForm(f) <=> /\ f.op = "not" => f.phi.op = "prop"
                                 /\ \A g \in Operands(f) : LiteralForm(g)
           /\ AtPropositions(Subformulas[f]) <=> LiteralForm(f)
<1> DEFINE P(g) == g.op = "not" => g.phi.op = "prop"
<1>1. \A g \in Subformulas[f] : g = f \/ \E o \in Operands(f) : g \in Subformulas[o]
  BY PartsOf
<1>2. f \in Subformulas[f] /\ \A g \in Operands(f) : Subformulas[g] \subseteq Subformulas[f]
  BY PartsOf
<1>3. \A g : LiteralForm(g) <=> \A h \in Subformulas[g] : P(h)
  BY DEF LiteralForm
<1>4. P(f) <=> (f.op = "not" => f.phi.op = "prop")
  OBVIOUS
<1>5. AtPropositions(Subformulas[f]) <=> LiteralForm(f)
  BY DEF AtPropositions, LiteralForm
<1> HIDE DEF P
<1> QED
  BY <1>1, <1>2, <1>3, <1>4, <1>5

\* A sound formula whose negations stand before propositions
LEMMA StrictSound ==
    ASSUME NEW f \in Formula, NEW m, NEW a, ~a, Sound(f, m, a), LiteralForm(f), NEW strict
    PROVE  Sound(f, m, strict)
BY DEF Sound, SoundAt, LiteralForm

\* Strictly sound formulas have it.
LEMMA SoundLiteral ==
    ASSUME NEW f \in Formula, NEW m, NEW strict, strict, Sound(f, m, strict)
    PROVE  LiteralForm(f)
BY DEF Sound, SoundAt, LiteralForm

\* The unvisited parts, operator by operator
LEMMA UnvisitedCases ==
    ASSUME NEW f \in Formula
    PROVE  /\ f.op # "not" => \A g \in Operands(f) : Unvisited[g][FALSE] \subseteq Unvisited[f][FALSE]
           /\ f.op # "not" /\ f.op # "imply" =>
                \A g \in Operands(f) : Unvisited[g][TRUE] \subseteq Unvisited[f][TRUE]
           /\ f.op = "not" => /\ Unvisited[f][FALSE] = Unvisited[f.phi][TRUE]
                              /\ Unvisited[f][TRUE] = Unvisited[f.phi][FALSE]
           /\ f.op = "imply" => Unvisited[f][TRUE] = {f.left} \cup Unvisited[f.right][TRUE]
<1> DEFINE x == Unvisited
<1>1. x[f] = [negated \in BOOLEAN |-> UnvisitedOf(f, negated, x)]
  BY UnvisitedEquation
<1> HIDE DEF x
<1>2. x[f][FALSE] = UnvisitedOf(f, FALSE, x) /\ x[f][TRUE] = UnvisitedOf(f, TRUE, x)
  BY <1>1
<1>3. f.op # "not" => UnvisitedOf(f, FALSE, x) = UNION {x[g][FALSE] : g \in Operands(f)}
  BY DEF UnvisitedOf
<1>4. f.op # "not" /\ f.op # "imply" => UnvisitedOf(f, TRUE, x) = UNION {x[g][TRUE] : g \in Operands(f)}
  BY DEF UnvisitedOf
<1>5. f.op = "not" => UnvisitedOf(f, FALSE, x) = x[f.phi][TRUE] /\ UnvisitedOf(f, TRUE, x) = x[f.phi][FALSE]
  BY Zenon DEF UnvisitedOf
<1>6. f.op = "imply" => UnvisitedOf(f, TRUE, x) = {f.left} \cup x[f.right][TRUE]
  BY DEF UnvisitedOf
<1> QED
  BY <1>2, <1>3, <1>4, <1>5, <1>6 DEF x

\* The unvisited parts of what the first pass goes on to are unvisited parts of f.
LEMMA NnfVisitsUnvisited ==
    ASSUME NEW f \in Formula, NnfVisits(f) \subseteq Formula
    PROVE  /\ \A g \in NnfVisits(f) : Unvisited[g][FALSE] \subseteq Unvisited[f][FALSE]
           /\ f.op = "not" /\ f.phi.op = "imply" => f.phi.left \in Unvisited[f][FALSE]
<1>1. CASE f.op # "not"
  BY <1>1, UnvisitedCases DEF NnfVisits
<1>2. CASE f.op = "not"
  <2> DEFINE p == f.phi
  <2>1. p \in Formula /\ Unvisited[f][FALSE] = Unvisited[p][TRUE]
    BY <1>2, FormulaShape, UnvisitedCases
  <2>2. \A g : Not(g).op = "not" /\ Not(g).phi = g
    BY DEF Not
  <2>3. \A g : Not(g) \in Formula => Unvisited[Not(g)][FALSE] = Unvisited[g][TRUE]
    BY <2>2, UnvisitedCases
  <2>4. NnfVisits(f) = IF p.op = "not" THEN {p.phi}
                       ELSE IF p.op = "imply" THEN {Not(p.right)}
                       ELSE {Not(g) : g \in Operands(p)}
    BY <1>2 DEF NnfVisits
  <2> HIDE DEF p
  <2>5. CASE p.op = "not"
    <3>1. Unvisited[p][TRUE] = Unvisited[p.phi][FALSE]
      BY <2>1, <2>5, UnvisitedCases
    <3> QED
      BY <2>1, <2>4, <2>5, <3>1 DEF p
  <2>6. CASE p.op = "imply"
    <3>1. Unvisited[p][TRUE] = {p.left} \cup Unvisited[p.right][TRUE]
      BY <2>1, <2>6, UnvisitedCases
    <3>2. Unvisited[Not(p.right)][FALSE] = Unvisited[p.right][TRUE]
      BY <2>3, <2>4, <2>6
    <3> QED
      BY <2>1, <2>4, <2>6, <3>1, <3>2 DEF p
  <2>7. CASE p.op # "not" /\ p.op # "imply"
    <3>1. \A g \in Operands(p) : Unvisited[g][TRUE] \subseteq Unvisited[p][TRUE]
      BY <2>1, <2>7, UnvisitedCases
    <3>2. \A g \in Operands(p) : Unvisited[Not(g)][FALSE] = Unvisited[g][TRUE]
      BY <2>3, <2>4, <2>7
    <3>3. NnfVisits(f) = {Not(g) : g \in Operands(p)}
      BY <2>4, <2>7
    <3>4. \A h \in NnfVisits(f) : Unvisited[h][FALSE] \subseteq Unvisited[f][FALSE]
      BY <2>1, <3>1, <3>2, <3>3
    <3>5. f.phi.op # "imply"
      BY <2>7 DEF p
    <3> QED
      BY <3>4, <3>5
  <2> QED
    BY <2>5, <2>6, <2>7
<1> QED
  BY <1>1, <1>2

\* A visit that leaves literals only, below an operator that is no negation
LEMMA VisitedLiteral ==
    ASSUME NEW f \in Formula, f.op # "not", NEW of, Visited(f, of) \in Formula,
           \A g \in Operands(f) : LiteralForm(of[g])
    PROVE  LiteralForm(Visited(f, of))
<1> DEFINE k == Visited(f, of)
<1>1. VisitsTo(f, of, k)
  BY VisitedInFormula
<1> HIDE DEF k
<1>2. k \in Formula /\ k.op = f.op
  BY <1>1 DEF VisitsTo, k
<1>3. \A h \in Operands(k) : LiteralForm(h)
  BY <1>1, <1>2, VisitedOperands
<1> QED
  BY <1>2, <1>3, LiteralFormFacts DEF k

\* Where the first pass goes, it leaves negations before propositions only.
LEMMA NnfLiteral ==
    \A f \in Formula : (\A g \in Unvisited[f][FALSE] : LiteralForm(g)) => LiteralForm(Nnf[f])
<1> DEFINE S == {f \in Formula : (\A g \in Unvisited[f][FALSE] : LiteralForm(g)) => LiteralForm(Nnf[f])}
<1>1. ASSUME NEW f \in Formula, NnfVisits(f) \subseteq S, NnfVisits(f) \subseteq Formula,
             \A g \in Unvisited[f][FALSE] : LiteralForm(g)
      PROVE  LiteralForm(Nnf[f])
  <2>1. Nnf[f] = NnfOf(f, Nnf) /\ Nnf[f] \in Formula
    BY NnfEquation DEF StaysInLevels
  <2>2. \A g \in NnfVisits(f) : LiteralForm(Nnf[g])
    BY <1>1, NnfVisitsUnvisited
  <2> HIDE DEF S
  <2>3. CASE f.op # "not"
    <3>1. Nnf[f] = Visited(f, Nnf) /\ NnfVisits(f) = Operands(f)
      BY <2>1, <2>3, NnfCases DEF NnfVisits
    <3> QED
      BY <2>1, <2>2, <2>3, <3>1, VisitedLiteral
  <2>4. CASE f.op = "not"
    <3> DEFINE p == f.phi
    <3>1. p \in Formula
      BY <2>4, FormulaShape
    <3>2. CASE p.op = "prop"
      <4>1. Nnf[f] = f
        BY <2>1, <2>4, <3>2, NnfCases
      <4>2. Operands(f) = {p} /\ Operands(p) = {}
        BY <2>4, <3>1, <3>2, ScopeParts, PropositionOperands, PropositionShape DEF Operands
      <4>3. LiteralForm(p)
        BY <3>1, <3>2, <4>2, LiteralFormFacts
      <4> QED
        BY <2>4, <3>2, <4>1, <4>2, <4>3, LiteralFormFacts
    <3>3. CASE p.op = "not"
      <4>1. Nnf[f] = Nnf[p.phi] /\ p.phi \in NnfVisits(f)
        BY <2>1, <2>4, <3>3, NnfCases DEF NnfVisits
      <4> QED
        BY <2>2, <4>1
    <3>4. CASE p.op = "imply"
      <4> DEFINE q == Nnf[Not(p.right)]
                 k == And(<< p.left, q >>)
      <4>1. Nnf[f] = k /\ Not(p.right) \in NnfVisits(f)
        BY <2>1, <2>4, <3>4, NnfCases DEF NnfVisits
      <4>2. LiteralForm(q) /\ LiteralForm(p.left)
        BY <1>1, <2>2, <2>4, <3>4, <4>1, NnfVisitsUnvisited
      <4>3. k.op = "and" /\ k.args = << p.left, q >>
        BY DEF And
      <4>4. k \in Formula
        BY <2>1, <4>1
      <4> HIDE DEF q, k, p
      <4>5. Operands(k) = {p.left, q}
        BY <4>3, <4>4, JunctionParts, PairElements
      <4> QED
        BY <4>1, <4>2, <4>3, <4>4, <4>5, LiteralFormFacts
    <3>5. CASE p.op \in {"and", "or", "G", "F", "U", "R"}
      <4> DEFINE d == Dual(p)
                 of == [g \in Operands(p) |-> Nnf[Not(g)]]
      <4>1. Nnf[f] = Visited(d, of)
        BY <2>1, <2>4, <3>5, NnfCases
      <4>2. NnfVisits(f) = {Not(g) : g \in Operands(p)}
        BY <2>4, <3>5 DEF NnfVisits
      <4>3. PICK n \in Nat : n + 1 <= Nesting /\ p \in Compound(FormulaUpTo[n])
        BY <3>1, <3>5, InSomeCompound
      <4>4. d \in Compound(FormulaUpTo[n]) /\ d.op = DualOf(p.op) /\ Operands(d) = Operands(p)
        BY <3>5, <4>3, DualShape
      <4>5. d \in Formula /\ d.op # "not"
        BY <3>5, <4>3, <4>4, LevelFacts DEF DualOf
      <4>6. \A g \in Operands(d) : LiteralForm(of[g])
        BY <2>2, <4>2, <4>4
      <4> HIDE DEF d, of
      <4> QED
        BY <2>1, <4>1, <4>5, <4>6, VisitedLiteral
    <3> QED
      BY <3>1, <3>2, <3>3, <3>4, <3>5, FormulaShape
  <2> QED
    BY <2>3, <2>4
<1>2. Formula \subseteq S
  <2>1. \A f \in Formula : NnfVisits(f) \subseteq S /\ NnfVisits(f) \subseteq Formula => f \in S
    BY <1>1
  <2> HIDE DEF S
  <2> QED
    BY <2>1, NnfInduction
<1> QED
  BY <1>2

----------------------------------------------------------------------------
(* The operands of the root together *)

\* The parts that the first pass leaves alone have negations before propositions only.
Strict(f) == \A g \in Unvisited[f][FALSE] : LiteralForm(g)

\* The formulas of fs together ask what f asks, and look no further.
Asks(f, m, fs, n, strict) ==
    /\ fs \in Seq(Formula)
    /\ \A g \in ToSet(fs) : Sound(g, n, strict) /\ Horizon[g] <= Horizon[f]
    /\ \A sig : Steady(sig) => \A t \in Int :
           Smt(sig, t, f, m) <=> \A g \in ToSet(fs) : Smt(sig, t, g, n)

\* The element of a list of one
LEMMA SingleElement == \A g : ToSet(<< g >>) = {g}
BY DEF ToSet

\* Sound formulas are proper.
LEMMA SoundHorizon ==
    ASSUME NEW f \in Formula, NEW m, NEW strict, Sound(f, m, strict)
    PROVE  Horizon[f] \in Nat /\ Proper(f)
BY SoundFacts, HorizonOfProper

\* A formula that stands for f asks what f asks.
LEMMA SingleAsks ==
    ASSUME NEW f \in Formula, NEW g, NEW m, NEW n, NEW strict, Proper(f), Stands(f, m, g, n, 0, strict)
    PROVE  Asks(f, m, << g >>, n, strict)
<1>1. g \in Formula /\ Sound(g, n, strict) /\ Horizon[g] <= Horizon[f] + 0 /\ Means(f, m, g, n, 0)
  BY DEF Stands
<1>2. Horizon[f] \in Nat /\ Horizon[g] \in Nat
  BY <1>1, HorizonOfProper, SoundHorizon
<1>3. Horizon[g] <= Horizon[f]
  BY <1>1, <1>2
<1>4. \A sig : Steady(sig) => \A t \in Int : Smt(sig, t, f, m) <=> Smt(sig, t, g, n)
  <2> SUFFICES ASSUME NEW sig, Steady(sig), NEW t \in Int PROVE Smt(sig, t, f, m) <=> Smt(sig, t, g, n)
    OBVIOUS
  <2>1. Smt(sig, t, g, n) <=> Smt(sig, t + 0, f, m)
    BY <1>1 DEF Means
  <2>2. t + 0 = t
    OBVIOUS
  <2> QED
    BY <2>1, <2>2
<1>5. << g >> \in Seq(Formula)
  BY <1>1
<1> QED
  BY <1>1, <1>3, <1>4, <1>5, SingleElement DEF Asks

\* Each of the formulas may give its place to another.
LEMMA KeptAsks ==
    ASSUME NEW f \in Formula, Proper(f), NEW m, NEW fs, NEW n, NEW strict, Asks(f, m, fs, n, strict),
           NEW gs \in Seq(Formula), DOMAIN gs = DOMAIN fs,
           \A i \in DOMAIN fs : Keeps(fs[i], n, gs[i], strict)
    PROVE  Asks(f, m, gs, n, strict)
<1>1. fs \in Seq(Formula) /\ \A i \in DOMAIN fs : fs[i] \in Formula /\ fs[i] \in ToSet(fs)
  BY DEF Asks, ToSet
<1>2. ASSUME NEW i \in DOMAIN fs
      PROVE  /\ Sound(gs[i], n, strict) /\ Horizon[gs[i]] <= Horizon[f]
             /\ \A sig : Steady(sig) => \A t \in Int : Smt(sig, t, gs[i], n) <=> Smt(sig, t, fs[i], n)
  <2> DEFINE g == fs[i]
             k == gs[i]
  <2>1. g \in Formula /\ Sound(g, n, strict) /\ Horizon[g] <= Horizon[f] /\ Keeps(g, n, k, strict)
    BY <1>1 DEF Asks
  <2> HIDE DEF g, k
  <2>2. k \in Formula /\ Sound(k, n, strict) /\ Horizon[k] <= Horizon[g] + 0 /\ Means(g, n, k, n, 0)
    BY <2>1 DEF Keeps, Stands
  <2>3. Horizon[k] \in Nat /\ Horizon[g] \in Nat /\ Horizon[f] \in Nat
    BY <2>1, <2>2, SoundHorizon, HorizonOfProper
  <2>4. Horizon[k] <= Horizon[f]
    BY <2>1, <2>2, <2>3
  <2>5. \A sig : Steady(sig) => \A t \in Int : Smt(sig, t, k, n) <=> Smt(sig, t, g, n)
    <3> SUFFICES ASSUME NEW sig, Steady(sig), NEW t \in Int PROVE Smt(sig, t, k, n) <=> Smt(sig, t, g, n)
      OBVIOUS
    <3>1. Smt(sig, t, k, n) <=> Smt(sig, t + 0, g, n)
      BY <2>2 DEF Means
    <3>2. t + 0 = t
      OBVIOUS
    <3> QED
      BY <3>1, <3>2
  <2> QED
    BY <2>2, <2>4, <2>5 DEF g, k
<1>3. ToSet(fs) = {fs[i] : i \in DOMAIN fs} /\ ToSet(gs) = {gs[i] : i \in DOMAIN fs}
  BY DEF ToSet
<1>4. \A sig : Steady(sig) => \A t \in Int :
         Smt(sig, t, f, m) <=> \A g \in ToSet(gs) : Smt(sig, t, g, n)
  <2> SUFFICES ASSUME NEW sig, Steady(sig), NEW t \in Int
               PROVE  Smt(sig, t, f, m) <=> \A g \in ToSet(gs) : Smt(sig, t, g, n)
    OBVIOUS
  <2>1. Smt(sig, t, f, m) <=> \A g \in ToSet(fs) : Smt(sig, t, g, n)
    BY DEF Asks
  <2>2. Smt(sig, t, f, m) <=> \A i \in DOMAIN fs : Smt(sig, t, fs[i], n)
    BY <1>3, <2>1
  <2>3. Smt(sig, t, f, m) <=> \A i \in DOMAIN fs : Smt(sig, t, gs[i], n)
    BY <1>2, <2>2
  <2> QED
    BY <1>3, <2>3
<1>5. \A g \in ToSet(gs) : Sound(g, n, strict) /\ Horizon[g] <= Horizon[f]
  BY <1>2, <1>3
<1> QED
  BY <1>4, <1>5 DEF Asks

\* A conjunction among the formulas may give way to its operands.
LEMMA SplicedAsks ==
    ASSUME NEW f \in Formula, Proper(f), NEW m, NEW fs, NEW n, NEW strict, Asks(f, m, fs, n, strict)
    PROVE  Asks(f, m, Spliced("and", fs), n, strict)
<1> DEFINE gs == Spliced("and", fs)
           E(g) == IF g.op = "and" THEN ToSet(g.args) ELSE {g}
<1>1. fs \in Seq(Formula) /\ \A g \in Formula : g.op = "and" => g.args \in Seq(Formula)
  BY FormulaShape DEF Asks
<1>2. gs \in Seq(Formula) /\ ToSet(gs) = UNION {E(g) : g \in ToSet(fs)}
  BY <1>1, SplicedElements
<1> HIDE DEF gs
<1>3. \A g \in ToSet(fs) : g \in Formula /\ Sound(g, n, strict) /\ Horizon[g] <= Horizon[f]
  BY <1>1 DEF Asks, ToSet
<1>4. ASSUME NEW g \in ToSet(fs)
      PROVE  /\ \A h \in E(g) : Sound(h, n, strict) /\ Horizon[h] <= Horizon[f]
             /\ \A sig : \A t \in Int : Smt(sig, t, g, n) <=> \A h \in E(g) : Smt(sig, t, h, n)
  <2>1. g \in Formula /\ Sound(g, n, strict) /\ Horizon[g] <= Horizon[f] /\ Proper(g)
    BY <1>3, SoundHorizon
  <2>2. CASE g.op = "and"
    <3>1. Operands(g) = ToSet(g.args) /\ Scope(g) = ToSet(g.args) /\ E(g) = ToSet(g.args)
      BY <2>1, <2>2, JunctionParts
    <3> HIDE DEF E
    <3>2. \A h \in E(g) : h \in Formula /\ Sound(h, n, strict)
      BY <2>1, <3>1, SoundFacts, OperandsInFormula
    <3>3. \A h \in E(g) : Horizon[h] \in Nat /\ Horizon[h] <= Horizon[g]
      BY <2>1, <2>2, <3>1, HorizonOfProper
    <3>4. Horizon[g] \in Nat /\ Horizon[f] \in Nat
      BY <2>1, HorizonOfProper
    <3>5. \A h \in E(g) : Horizon[h] <= Horizon[f]
      BY <2>1, <3>3, <3>4
    <3>6. \A sig : \A t \in Int : Smt(sig, t, g, n) <=> \A h \in E(g) : Smt(sig, t, h, n)
      BY <2>1, <2>2, <3>1, JunctionMeans
    <3> QED
      BY <3>2, <3>5, <3>6
  <2>3. CASE g.op # "and"
    BY <2>1, <2>3
  <2> QED
    BY <2>2, <2>3
<1> HIDE DEF E
<1>5. \A sig : Steady(sig) => \A t \in Int :
         Smt(sig, t, f, m) <=> \A h \in ToSet(gs) : Smt(sig, t, h, n)
  <2> SUFFICES ASSUME NEW sig, Steady(sig), NEW t \in Int
               PROVE  Smt(sig, t, f, m) <=> \A h \in ToSet(gs) : Smt(sig, t, h, n)
    OBVIOUS
  <2>1. Smt(sig, t, f, m) <=> \A g \in ToSet(fs) : Smt(sig, t, g, n)
    BY DEF Asks
  <2>2. (\A g \in ToSet(fs) : Smt(sig, t, g, n)) <=> \A g \in ToSet(fs) : \A h \in E(g) : Smt(sig, t, h, n)
    BY <1>4
  <2> QED
    BY <1>2, <2>1, <2>2
<1>6. \A h \in ToSet(gs) : Sound(h, n, strict) /\ Horizon[h] <= Horizon[f]
  BY <1>2, <1>4
<1> QED
  BY <1>2, <1>5, <1>6 DEF Asks, gs

\* What the first pass makes of a parsed formula
LEMMA NnfAsks ==
    ASSUME NEW f \in Formula, Parsed[f], NEW m \in BOOLEAN, NEW strict, strict => Strict(f)
    PROVE  Proper(f) /\ Stands(f, m, Nnf[f], m, 0, strict)
<1>1. PICK a : ~a
  OBVIOUS
<1>2. Sound(f, m, a)
  BY <1>1, ParsedSound
<1>3. Stands(f, m, Nnf[f], m, 0, a)
  BY <1>1, <1>2, NnfStands
<1>4. Sound(Nnf[f], m, strict)
  <2>1. CASE strict
    <3> DEFINE k == Nnf[f]
    <3>1. LiteralForm(k)
      BY <2>1, NnfLiteral DEF Strict
    <3>2. k \in Formula /\ Sound(k, m, a)
      BY <1>3 DEF Stands
    <3> HIDE DEF k
    <3>3. Sound(k, m, strict)
      BY <1>1, <3>1, <3>2, StrictSound
    <3> QED
      BY <3>3 DEF k
  <2>2. CASE ~strict
    BY <1>2, <2>2, ParsedSound, NnfStands DEF Stands
  <2> QED
    BY <2>1, <2>2
<1> QED
  BY <1>2, <1>3, <1>4, SoundFacts DEF Stands

\* The first two passes together
LEMMA MltlAsks ==
    ASSUME NEW f \in Formula, Parsed[f], Mltl[Nnf[f]] \in Formula, NEW m \in BOOLEAN, NEW n \in BOOLEAN, AsMltl(n),
           NEW strict, strict => Strict(f)
    PROVE  /\ m => Asks(f, m, << Nnf[f] >>, n, strict)
           /\ ~m => Asks(f, m, << Mltl[Nnf[f]] >>, n, strict)
<1> DEFINE g == Nnf[f]
<1>1. Proper(f) /\ Stands(f, m, g, m, 0, strict)
  BY NnfAsks
<1>2. g \in Formula /\ Sound(g, m, strict)
  BY <1>1 DEF Stands
<1>3. Mltl[g] \in Formula
  OBVIOUS
<1> HIDE DEF g
<1>4. ASSUME m PROVE Asks(f, m, << g >>, n, strict)
  <2>1. n = m
    BY <1>4 DEF AsMltl
  <2> QED
    BY <1>1, <2>1, SingleAsks
<1>5. ASSUME ~m PROVE Asks(f, m, << Mltl[g] >>, n, strict)
  <2>1. n
    BY DEF AsMltl
  <2>2. Stands(g, m, Mltl[g], n, 0, strict)
    BY <1>2, <1>3, <1>5, <2>1, MltlStands
  <2>3. 0 \in Int /\ 0 + 0 = 0
    OBVIOUS
  <2>4. Stands(f, m, Mltl[g], n, 0, strict)
    BY <1>1, <2>2, <2>3, StandsInTurn
  <2> QED
    BY <1>1, <2>4, SingleAsks
<1> QED
  BY <1>4, <1>5 DEF g

\* The transformers on the operands of the root
LEMMA RewrittenElements ==
    ASSUME operands \in Seq(Formula), NEW visitor, \A f \in Formula : visitor[f] \in Formula
    PROVE  /\ Rewritten(visitor) \in Seq(Formula)
           /\ DOMAIN Rewritten(visitor) = DOMAIN operands
           /\ \A i \in DOMAIN operands : Rewritten(visitor)[i] = visitor[operands[i]]
<1> DEFINE fs == operands
           gs == [i \in DOMAIN fs |-> visitor[fs[i]]]
<1>1. DOMAIN fs = 1 .. Len(fs) /\ Len(fs) \in Nat /\ \A i \in DOMAIN fs : fs[i] \in Formula
  OBVIOUS
<1>2. Rewritten(visitor) = gs \o <<>>
  BY DEF Rewritten
<1> HIDE DEF fs
<1>3. gs \in Seq(Formula)
  BY <1>1
<1>4. gs \o <<>> = gs
  BY <1>3
<1> QED
  BY <1>2, <1>3, <1>4 DEF fs

\* The first passes meet one operand.
LEMMA RewrittenSingle ==
    ASSUME NEW f, operands = << f >>, NEW visitor
    PROVE  Rewritten(visitor) = << visitor[f] >>
BY DEF Rewritten

----------------------------------------------------------------------------
(* The invariant of the passes *)

\* The operands of the root ask what the input asks; with negations before
\* propositions only, if the first pass reached all of them.
RootAsks ==
    \A n \in BOOLEAN : AsMltl(n) => \A strict \in BOOLEAN : (strict => Strict(input)) =>
        Asks(input, options.mltl, operands, n, strict)

\* No operand can be split without branching, and none has a junction below its like.
RootFlat == \A g \in ToSet(operands) : FlatForm(g) /\ g.op # "and"

\* The invariant.  The first two passes have to be taken together when the semantics is
\* STL: what lies between them is a formula of STL, and only then does the root ask in
\* MLTL what the input asks.
PassInv ==
    /\ input \in Inputs
    /\ options \in Options
    /\ pass \in {"nnf", "mltl", "simplify", "flatten", "shift", "done"}
    /\ pass = "nnf" => operands = << input >>
    /\ pass = "mltl" => operands = << Nnf[input] >>
    /\ pass \in {"simplify", "flatten", "shift", "done"} => RootAsks
    /\ pass \in {"shift", "done"} => RootFlat

\* The input is a parsed formula.
LEMMA InputFacts ==
    ASSUME input \in Inputs, options \in Options
    PROVE  /\ input \in Formula /\ Parsed[input] /\ Mltl[Nnf[input]] \in Formula /\ Proper(input)
           /\ options.mltl \in BOOLEAN /\ Horizon[input] \in Nat
<1>1. input \in Formula /\ Parsed[input] /\ Mltl[Nnf[input]] \in Formula
  BY InputsAssumption
<1>2. options.mltl \in BOOLEAN
  BY DEF Options
<1>3. Proper(input)
  <2>1. PICK a : ~a
    OBVIOUS
  <2> QED
    BY <1>1, <2>1, NnfAsks
<1> QED
  BY <1>1, <1>2, <1>3, HorizonOfProper

\* It holds of the input.
LEMMA InitPassInv == Init => PassInv
BY DEF Init, PassInv

\* The first two passes establish what the root asks.
LEMMA NnfStep == PassInv /\ NegativeNormalForm => PassInv'
<1> SUFFICES ASSUME PassInv, NegativeNormalForm PROVE PassInv'
  OBVIOUS
<1>1. pass = "nnf" /\ pass' = "mltl" /\ input' = input /\ options' = options /\ operands' = Rewritten(Nnf)
  BY DEF NegativeNormalForm, From
<1>2. operands' = << Nnf[input] >>
  BY <1>1, RewrittenSingle DEF PassInv
<1> QED
  BY <1>1, <1>2 DEF PassInv

LEMMA MltlStep == PassInv /\ MltlRewrite => PassInv'
<1> SUFFICES ASSUME PassInv, MltlRewrite PROVE PassInv'
  OBVIOUS
<1>1. /\ pass = "mltl" /\ pass' = "simplify" /\ input' = input /\ options' = options
      /\ operands' = IF options.mltl THEN operands ELSE Rewritten(Mltl)
  BY DEF MltlRewrite, From
<1>2. /\ input \in Formula /\ Parsed[input] /\ Mltl[Nnf[input]] \in Formula /\ options.mltl \in BOOLEAN
      /\ operands = << Nnf[input] >>
  BY <1>1, InputFacts DEF PassInv
<1>3. operands' = IF options.mltl THEN << Nnf[input] >> ELSE << Mltl[Nnf[input]] >>
  BY <1>1, <1>2, RewrittenSingle
<1>4. ASSUME NEW n \in BOOLEAN, AsMltl(n), NEW strict \in BOOLEAN, strict => Strict(input)
      PROVE  Asks(input, options.mltl, operands', n, strict)
  <2> DEFINE f == input
             m == options.mltl
  <2>1. f \in Formula /\ Parsed[f] /\ Mltl[Nnf[f]] \in Formula /\ m \in BOOLEAN /\ (strict => Strict(f))
    BY <1>2, <1>4
  <2>2. operands' = IF m THEN << Nnf[f] >> ELSE << Mltl[Nnf[f]] >>
    BY <1>3
  <2> HIDE DEF f, m
  <2>3. /\ m => Asks(f, m, << Nnf[f] >>, n, strict)
        /\ ~m => Asks(f, m, << Mltl[Nnf[f]] >>, n, strict)
    BY <1>4, <2>1, MltlAsks
  <2> QED
    BY <2>2, <2>3 DEF f, m
<1>5. RootAsks'
  BY <1>1, <1>4 DEF RootAsks
<1> QED
  BY <1>1, <1>5 DEF PassInv

\* A pass that keeps what each operand means
LEMMA KeptRootAsks ==
    ASSUME PassInv, RootAsks, NEW gs \in Seq(Formula), DOMAIN gs = DOMAIN operands,
           \A n \in BOOLEAN : AsMltl(n) => \A strict \in BOOLEAN : \A i \in DOMAIN operands :
               Sound(operands[i], n, strict) => Keeps(operands[i], n, gs[i], strict),
           NEW n \in BOOLEAN, AsMltl(n), NEW strict \in BOOLEAN, strict => Strict(input)
    PROVE  Asks(input, options.mltl, gs, n, strict)
<1> DEFINE f == input
           m == options.mltl
           fs == operands
<1>1. f \in Formula /\ Proper(f)
  BY InputFacts DEF PassInv
<1>2. Asks(f, m, fs, n, strict)
  BY DEF RootAsks
<1>3. \A i \in DOMAIN fs : Sound(fs[i], n, strict)
  BY <1>2 DEF Asks, ToSet
<1>4. DOMAIN gs = DOMAIN fs /\ \A i \in DOMAIN fs : Keeps(fs[i], n, gs[i], strict)
  BY <1>3
<1> HIDE DEF f, m, fs
<1>5. Asks(f, m, gs, n, strict)
  BY <1>1, <1>2, <1>4, KeptAsks
<1> QED
  BY <1>5 DEF f, m

\* The operands of the root are formulas.
LEMMA RootInFormula ==
    ASSUME RootAsks
    PROVE  operands \in Seq(Formula) /\ \A i \in DOMAIN operands : operands[i] \in Formula
<1>1. PICK n \in BOOLEAN : AsMltl(n)
  BY DEF AsMltl
<1>2. PICK strict \in BOOLEAN : ~strict
  OBVIOUS
<1>3. operands \in Seq(Formula)
  BY <1>1, <1>2 DEF RootAsks, Asks
<1> QED
  BY <1>3

\* Simplification keeps what each operand asks.
LEMMA SimplifyStep == PassInv /\ SimplifyRoot => PassInv'
<1> SUFFICES ASSUME PassInv, SimplifyRoot PROVE PassInv'
  OBVIOUS
<1>1. /\ pass = "simplify" /\ pass' = "flatten" /\ input' = input /\ options' = options
      /\ operands' = IF options.simplifications THEN Rewritten(Simplify) ELSE operands
  BY DEF SimplifyRoot, From
<1>2. RootAsks
  BY <1>1 DEF PassInv
<1>3. CASE options.simplifications
  <2>1. operands \in Seq(Formula) /\ \A i \in DOMAIN operands : operands[i] \in Formula
    BY <1>2, RootInFormula
  <2>2. \A f \in Formula : Simplify[f] \in Formula
    BY SimplifyEquation DEF StaysInLevels
  <2>3. /\ operands' \in Seq(Formula) /\ DOMAIN operands' = DOMAIN operands
        /\ \A i \in DOMAIN operands : operands'[i] = Simplify[operands[i]]
    BY <1>1, <1>3, <2>1, <2>2, RewrittenElements
  <2>4. ASSUME NEW n \in BOOLEAN, AsMltl(n), NEW strict \in BOOLEAN, NEW i \in DOMAIN operands,
               Sound(operands[i], n, strict)
        PROVE  Keeps(operands[i], n, operands'[i], strict)
    <3>1. Keeps(operands[i], n, Simplify[operands[i]], strict)
      BY <2>1, <2>4, SimplifyStands
    <3> QED
      BY <2>3, <3>1
  <2>5. ASSUME NEW n \in BOOLEAN, AsMltl(n), NEW strict \in BOOLEAN, strict => Strict(input)
        PROVE  Asks(input, options.mltl, operands', n, strict)
    BY <1>2, <2>3, <2>4, <2>5, KeptRootAsks
  <2>6. RootAsks'
    BY <1>1, <2>5 DEF RootAsks
  <2> QED
    BY <1>1, <2>6 DEF PassInv
<1>4. CASE ~options.simplifications
  <2>1. operands' = operands
    BY <1>1, <1>4
  <2>2. RootAsks'
    BY <1>1, <1>2, <2>1 DEF RootAsks
  <2> QED
    BY <1>1, <2>2 DEF PassInv
<1> QED
  BY <1>3, <1>4

\* Flattening keeps it, gives conjunctions to the root and makes the operands flat.
LEMMA FlattenStep == PassInv /\ Flatten => PassInv'
<1> SUFFICES ASSUME PassInv, Flatten PROVE PassInv'
  OBVIOUS
<1> DEFINE gs == Rewritten(Flat)
<1>1. /\ pass = "flatten" /\ pass' = "shift" /\ input' = input /\ options' = options
      /\ operands' = Spliced("and", gs)
  BY DEF Flatten, From
<1>2. RootAsks
  BY <1>1 DEF PassInv
<1>3. operands \in Seq(Formula) /\ \A i \in DOMAIN operands : operands[i] \in Formula
  BY <1>2, RootInFormula
<1>4. \A f \in Formula : Flat[f] \in Formula
  BY FlatEquation DEF StaysInLevels
<1>5. /\ gs \in Seq(Formula) /\ DOMAIN gs = DOMAIN operands
      /\ \A i \in DOMAIN operands : gs[i] = Flat[operands[i]]
  BY <1>3, <1>4, RewrittenElements
<1> HIDE DEF gs
<1>6. ASSUME NEW n \in BOOLEAN, AsMltl(n), NEW strict \in BOOLEAN, NEW i \in DOMAIN operands,
             Sound(operands[i], n, strict)
      PROVE  Keeps(operands[i], n, gs[i], strict)
  <2>1. Stands(operands[i], n, Flat[operands[i]], n, 0, strict)
    BY <1>3, <1>6, FlatStands
  <2> QED
    BY <1>5, <2>1 DEF Keeps
<1>7. ASSUME NEW n \in BOOLEAN, AsMltl(n), NEW strict \in BOOLEAN, strict => Strict(input)
      PROVE  Asks(input, options.mltl, operands', n, strict)
  <2> DEFINE f == input
             m == options.mltl
  <2>1. Asks(f, m, gs, n, strict)
    BY <1>2, <1>5, <1>6, <1>7, KeptRootAsks
  <2>2. f \in Formula /\ Proper(f)
    BY InputFacts DEF PassInv
  <2> HIDE DEF f, m
  <2>3. Asks(f, m, Spliced("and", gs), n, strict)
    BY <2>1, <2>2, SplicedAsks
  <2> QED
    BY <1>1, <2>3 DEF f, m
<1>8. RootAsks'
  BY <1>1, <1>7 DEF RootAsks
<1>9. \A g \in ToSet(gs) : g \in Formula /\ FlatForm(g)
  BY <1>3, <1>5, FlatMakesFlat DEF ToSet
<1>10. ToSet(operands') = UNION {IF g.op = "and" THEN ToSet(g.args) ELSE {g} : g \in ToSet(gs)}
  <2>1. \A g \in Formula : g.op = "and" => g.args \in Seq(Formula)
    BY FormulaShape
  <2>2. ToSet(Spliced("and", gs)) = UNION {IF g.op = "and" THEN ToSet(g.args) ELSE {g} : g \in ToSet(gs)}
    BY <1>5, <2>1, SplicedElements
  <2> QED
    BY <1>1, <2>2
<1>11. ASSUME NEW h \in ToSet(operands') PROVE FlatForm(h) /\ h.op # "and"
  <2>1. PICK g \in ToSet(gs) : h \in IF g.op = "and" THEN ToSet(g.args) ELSE {g}
    BY <1>10, <1>11
  <2>2. g \in Formula /\ FlatForm(g)
    BY <1>9, <2>1
  <2>3. CASE g.op = "and"
    <3>1. h \in Operands(g)
      BY <2>1, <2>2, <2>3, JunctionParts
    <3> QED
      BY <2>2, <2>3, <3>1, FlatFormFacts
  <2>4. CASE g.op # "and"
    BY <2>1, <2>2, <2>4
  <2> QED
    BY <2>3, <2>4
<1>12. RootFlat'
  BY <1>11 DEF RootFlat
<1> QED
  BY <1>1, <1>8, <1>12 DEF PassInv

\* Shifting keeps what the operands ask and their form.
LEMMA ShiftStep == PassInv /\ ShiftRoot => PassInv'
<1> SUFFICES ASSUME PassInv, ShiftRoot PROVE PassInv'
  OBVIOUS
<1>1. /\ pass = "shift" /\ pass' = "done" /\ input' = input /\ options' = options
      /\ operands' = IF options.optimizations THEN Rewritten(ShiftBounds) ELSE operands
  BY DEF ShiftRoot, From
<1>2. RootAsks /\ RootFlat
  BY <1>1 DEF PassInv
<1>3. CASE options.optimizations
  <2>1. operands \in Seq(Formula) /\ \A i \in DOMAIN operands : operands[i] \in Formula
    BY <1>2, RootInFormula
  <2>2. \A f \in Formula : ShiftBounds[f] \in Formula
    BY ShiftBoundsEquation DEF StaysInLevels
  <2>3. /\ operands' \in Seq(Formula) /\ DOMAIN operands' = DOMAIN operands
        /\ \A i \in DOMAIN operands : operands'[i] = ShiftBounds[operands[i]]
    BY <1>1, <1>3, <2>1, <2>2, RewrittenElements
  <2>4. ASSUME NEW n \in BOOLEAN, AsMltl(n), NEW strict \in BOOLEAN, NEW i \in DOMAIN operands,
               Sound(operands[i], n, strict)
        PROVE  /\ Keeps(operands[i], n, operands'[i], strict)
               /\ operands'[i].op = operands[i].op
               /\ FlatForm(operands[i]) => FlatForm(operands'[i])
    <3> DEFINE f == operands[i]
               k == ShiftBounds[f]
    <3>1. f \in Formula /\ Sound(f, n, strict) /\ operands'[i] = k
      BY <2>1, <2>3, <2>4
    <3> HIDE DEF f
    <3>2. Keeps(f, n, k, strict) /\ k.op = f.op /\ (FlatForm(f) => FlatForm(k))
      BY <2>4, <3>1, ShiftBoundsStands
    <3> QED
      BY <3>1, <3>2 DEF f
  <2>5. ASSUME NEW n \in BOOLEAN, AsMltl(n), NEW strict \in BOOLEAN, strict => Strict(input)
        PROVE  Asks(input, options.mltl, operands', n, strict)
    BY <1>2, <2>3, <2>4, <2>5, KeptRootAsks
  <2>6. RootAsks'
    BY <1>1, <2>5 DEF RootAsks
  <2>7. ASSUME NEW g \in ToSet(operands') PROVE FlatForm(g) /\ g.op # "and"
    <3>1. PICK i \in DOMAIN operands : g = operands'[i]
      BY <2>3, <2>7 DEF ToSet
    <3>2. PICK n \in BOOLEAN : AsMltl(n)
      BY DEF AsMltl
    <3>3. PICK strict \in BOOLEAN : ~strict
      OBVIOUS
    <3>4. operands[i] \in ToSet(operands)
      BY <3>1 DEF ToSet
    <3>5. Sound(operands[i], n, strict)
      BY <1>2, <3>2, <3>3, <3>4 DEF RootAsks, Asks
    <3>6. FlatForm(operands[i]) /\ operands[i].op # "and"
      BY <1>2, <3>4 DEF RootFlat
    <3> QED
      BY <2>4, <3>1, <3>2, <3>5, <3>6
  <2>8. RootFlat'
    BY <2>7 DEF RootFlat
  <2> QED
    BY <1>1, <2>6, <2>8 DEF PassInv
<1>4. CASE ~options.optimizations
  <2>1. operands' = operands
    BY <1>1, <1>4
  <2>2. RootAsks' /\ RootFlat'
    BY <1>1, <1>2, <2>1 DEF RootAsks, RootFlat
  <2> QED
    BY <1>1, <2>2 DEF PassInv
<1> QED
  BY <1>3, <1>4

\* normalize_root keeps its invariant, for every set of parsed inputs, in both semantics
\* and whichever passes are switched on.
THEOREM PassesAskTheInput == Spec => []PassInv
<1>1. PassInv /\ [Next]_vars => PassInv'
  <2> SUFFICES ASSUME PassInv, [Next]_vars PROVE PassInv'
    OBVIOUS
  <2>1. CASE NegativeNormalForm
    BY <2>1, NnfStep
  <2>2. CASE MltlRewrite
    BY <2>2, MltlStep
  <2>3. CASE SimplifyRoot
    BY <2>3, SimplifyStep
  <2>4. CASE Flatten
    BY <2>4, FlattenStep
  <2>5. CASE ShiftRoot
    BY <2>5, ShiftStep
  <2>6. CASE UNCHANGED vars
    BY <2>6 DEF vars, PassInv, RootAsks, RootFlat
  <2> QED
    BY <2>1, <2>2, <2>3, <2>4, <2>5, <2>6 DEF Next
<1> QED
  BY <1>1, InitPassInv, PTL DEF Spec

----------------------------------------------------------------------------
(* The properties *)

\* A signal up to an instant, and a steady one that goes on like it
ReachesTo(sig, h) == \E names : sig \in [0 .. h -> Valuations(names \cup {ConstantVar})]
Endless(sig, h) == [t \in Int |-> IF t \in 0 .. h THEN sig[t] ELSE [name \in {ConstantVar} |-> 1]]

\* The endless signal is steady and begins with the finite one.
LEMMA EndlessSignal ==
    ASSUME NEW h \in Nat, NEW sig, ReachesTo(sig, h)
    PROVE  Steady(Endless(sig, h)) /\ \A t \in 0 .. h : Endless(sig, h)[t] = sig[t]
<1>1. PICK names : sig \in [0 .. h -> Valuations(names \cup {ConstantVar})]
  BY DEF ReachesTo
<1>2. ASSUME NEW v \in Valuations(names \cup {ConstantVar}) PROVE v[ConstantVar] = 1
  <2>1. v[ConstantVar] \in Values(ConstantVar)
    BY DEF Valuations
  <2>2. Values(ConstantVar) = {1}
    BY DEF Values, ConstantVar
  <2> QED
    BY <2>1, <2>2
<1>3. ASSUME NEW t \in 0 .. h PROVE t \in Int /\ sig[t][ConstantVar] = 1
  <2> DEFINE V == Valuations(names \cup {ConstantVar})
  <2>1. sig \in [0 .. h -> V]
    BY <1>1
  <2>2. \A v \in V : v[ConstantVar] = 1
    BY <1>2
  <2> HIDE DEF V
  <2>3. t \in Int
    OBVIOUS
  <2>4. sig[t] \in V
    BY <2>1
  <2> QED
    BY <2>2, <2>3, <2>4
<1>4. [name \in {ConstantVar} |-> 1][ConstantVar] = 1
  OBVIOUS
<1> QED
  BY <1>3, <1>4 DEF Steady, Endless

\* A formula cannot tell them apart.
LEMMA EndlessSmt ==
    ASSUME NEW h \in Nat, NEW sig, ReachesTo(sig, h), NEW m \in BOOLEAN,
           NEW f \in Formula, Proper(f), Horizon[f] <= h
    PROVE  Smt(sig, 0, f, m) <=> Smt(Endless(sig, h), 0, f, m)
<1> DEFINE other == Endless(sig, h)
<1>1. Horizon[f] \in Nat
  BY HorizonOfProper
<1>2. \A i \in 0 .. Horizon[f] : i \in 0 .. h /\ 0 + i = i
  BY <1>1
<1>3. \A i \in 0 .. Horizon[f] : sig[0 + i] = other[0 + i]
  BY <1>2, EndlessSignal
<1>4. 0 \in Int
  OBVIOUS
<1> HIDE DEF other
<1>5. Smt(sig, 0, f, m) <=> Smt(other, 0, f, m)
  BY <1>3, <1>4, SmtTransfer
<1> QED
  BY <1>5 DEF other

\* What the tableau takes a formula to mean is the meaning in MLTL.
LEMMA HoldsAsSmt ==
    ASSUME NEW sig, NEW f \in Formula, NEW n, AsMltl(n), NEW t \in Int
    PROVE  (Holds(sig, t, f) <=> Smt(sig, t, f, n)) /\ Holds(sig, t, f) \in BOOLEAN
<1>1. n = TRUE
  BY DEF AsMltl
<1> QED
  BY <1>1, SmtIsHolds, HoldsCases

\* The operands in any pass
LEMMA OperandsSound ==
    ASSUME PassInv
    PROVE  \E n \in BOOLEAN, strict \in BOOLEAN :
               /\ pass # "nnf" /\ Strict(input) => strict
               /\ pass \in {"shift", "done"} => AsMltl(n)
               /\ \A i \in DOMAIN operands : operands[i] \in Formula /\ Sound(operands[i], n, strict)
<1> DEFINE f == input
           m == options.mltl
<1>1. f \in Formula /\ Parsed[f] /\ m \in BOOLEAN
  BY InputFacts DEF PassInv
<1>2. PICK strict \in BOOLEAN : strict <=> Strict(f)
  <2>1. \/ \E s \in BOOLEAN : s /\ Strict(f)
        \/ \E s \in BOOLEAN : ~s /\ ~Strict(f)
    <3>1. \E s \in BOOLEAN : s
      OBVIOUS
    <3>2. \E s \in BOOLEAN : ~s
      OBVIOUS
    <3> HIDE DEF f
    <3> QED
      BY <3>1, <3>2
  <2> HIDE DEF f
  <2> QED
    BY <2>1
<1>3. PICK a \in BOOLEAN : ~a
  OBVIOUS
<1>4. CASE pass = "nnf"
  <2>1. operands = << f >>
    BY <1>4 DEF PassInv
  <2> HIDE DEF f, m
  <2>2. Sound(f, m, a)
    BY <1>1, <1>3, ParsedSound
  <2>3. \A i \in DOMAIN operands : operands[i] = f
    BY <2>1
  <2> QED
    BY <1>1, <1>4, <2>2, <2>3
<1>5. CASE pass = "mltl"
  <2>1. operands = << Nnf[f] >>
    BY <1>5 DEF PassInv
  <2>2. (f = input)
    OBVIOUS
  <2> HIDE DEF f, m
  <2>3. Nnf[f] \in Formula /\ Sound(Nnf[f], m, strict)
    BY <1>1, <1>2, NnfAsks DEF Stands
  <2>4. \A i \in DOMAIN operands : operands[i] = Nnf[f]
    BY <2>1
  <2> QED
    BY <1>1, <1>2, <1>5, <2>2, <2>3, <2>4
<1>6. CASE pass \in {"simplify", "flatten", "shift", "done"}
  <2>1. RootAsks
    BY <1>6 DEF PassInv
  <2>2. PICK n \in BOOLEAN : AsMltl(n)
    BY DEF AsMltl
  <2>3. Asks(f, m, operands, n, strict)
    BY <1>2, <2>1, <2>2 DEF RootAsks
  <2>4. (f = input)
    OBVIOUS
  <2> HIDE DEF f, m
  <2>5. operands \in Seq(Formula) /\ \A g \in ToSet(operands) : Sound(g, n, strict)
    BY <2>3 DEF Asks
  <2>6. \A i \in DOMAIN operands : operands[i] \in Formula /\ Sound(operands[i], n, strict)
    BY <2>5 DEF ToSet
  <2> QED
    BY <1>2, <2>2, <2>4, <2>6
<1> QED
  BY <1>4, <1>5, <1>6 DEF PassInv

\* A part of the root is a part of an operand.
LEMMA PartsIn ==
    ASSUME NEW f \in Parts
    PROVE  \E i \in DOMAIN operands : f \in Subformulas[operands[i]]
BY DEF Parts

\* What the invariant says of the lookups,
LEMMA LookupsFact == PassInv => LookupsInRange
<1> SUFFICES ASSUME PassInv PROVE LookupsInRange
  OBVIOUS
<1> DEFINE f == input
           m == options.mltl
           t == 0
<1>1. f \in Formula /\ Proper(f) /\ m \in BOOLEAN /\ Horizon[f] \in Nat
  BY InputFacts DEF PassInv
<1>2. t \in Nat /\ t .. t + Horizon[f] = 0 .. Horizon[f]
  BY <1>1
<1> HIDE DEF f, m, t
<1>3. Lookups(t, f, m) \subseteq t .. t + Horizon[f]
  BY <1>1, <1>2, LookupsInHorizon
<1> QED
  BY <1>2, <1>3 DEF LookupsInRange, f, m, t

\* of the two engines,
LEMMA EnginesFact == PassInv => EnginesAgree
<1> SUFFICES ASSUME PassInv, NEW sig \in InputSignals(input)
             PROVE  Smt(sig, 0, input, options.mltl) <=> Fol(sig, 0, input, options.mltl)
  BY DEF EnginesAgree
<1> DEFINE f == input
           m == options.mltl
           t == 0
           N == Horizon[f]
<1>1. f \in Formula /\ Proper(f) /\ m \in BOOLEAN /\ N \in Nat
  BY InputFacts DEF PassInv
<1>2. t \in Nat /\ t + N <= N /\ DOMAIN sig = 0 .. N
  BY <1>1 DEF InputSignals
<1> HIDE DEF f, m, t, N
<1>3. t + Horizon[f] <= N
  BY <1>2 DEF N
<1>4. Smt(sig, t, f, m) <=> Fol(sig, t, f, m)
  BY <1>1, <1>2, <1>3, FolAgrees
<1> QED
  BY <1>4 DEF f, m, t

\* of intervals,
LEMMA IntervalsFact == PassInv => IntervalsProper
<1> SUFFICES ASSUME PassInv, NEW f \in Parts, IsTemporal(f) PROVE f.int \in Interval
  BY DEF IntervalsProper
<1>1. PICK n \in BOOLEAN, strict \in BOOLEAN :
        \A i \in DOMAIN operands : operands[i] \in Formula /\ Sound(operands[i], n, strict)
  BY OperandsSound
<1>2. PICK i \in DOMAIN operands : f \in Subformulas[operands[i]]
  BY PartsIn
<1> QED
  BY <1>1, <1>2 DEF Sound, SoundAt

\* of negations,
LEMMA NegationsFact == PassInv => NegationsAtPropositions
<1> SUFFICES ASSUME PassInv, pass # "nnf",
                    AtPropositions(UNION {Subformulas[f] : f \in Unvisited[input][FALSE]}),
                    NEW f \in Parts, f.op = "not"
             PROVE  f.phi.op = "prop"
  BY DEF NegationsAtPropositions, AtPropositions
<1>1. Strict(input)
  BY DEF AtPropositions, Strict, LiteralForm
<1>2. PICK n \in BOOLEAN, strict \in BOOLEAN :
        strict /\ \A i \in DOMAIN operands : operands[i] \in Formula /\ Sound(operands[i], n, strict)
  BY <1>1, OperandsSound
<1>3. PICK i \in DOMAIN operands : f \in Subformulas[operands[i]]
  BY PartsIn
<1> QED
  BY <1>2, <1>3 DEF Sound, SoundAt

\* of junctions,
LEMMA FlatFact == PassInv => JunctionsFlat
<1> SUFFICES ASSUME PassInv, pass = "done" PROVE JunctionsFlat
  BY DEF JunctionsFlat
<1>1. \A i \in DOMAIN operands : FlatForm(operands[i]) /\ operands[i].op # "and"
  BY DEF PassInv, RootFlat, ToSet
<1>2. ASSUME NEW f \in Parts, f.op \in {"and", "or"}, NEW j \in DOMAIN f.args PROVE f.args[j].op # f.op
  <2>1. PICK i \in DOMAIN operands : f \in Subformulas[operands[i]]
    BY PartsIn
  <2>2. f.args[j] \in Operands(f)
    BY <1>2 DEF Operands
  <2> QED
    BY <1>1, <1>2, <2>1, <2>2 DEF FlatForm
<1> QED
  BY <1>1, <1>2 DEF JunctionsFlat

\* Parts of parts are parts.
LEMMA PartsOfParts ==
    \A f \in Formula : \A g \in Subformulas[f] : Subformulas[g] \subseteq Subformulas[f]
<1> DEFINE S == {f \in Formula : \A g \in Subformulas[f] : Subformulas[g] \subseteq Subformulas[f]}
<1>1. ASSUME NEW f \in Formula, Operands(f) \subseteq S, Operands(f) \subseteq Formula
      PROVE  f \in S
  <2>1. ASSUME NEW g \in Subformulas[f] PROVE Subformulas[g] \subseteq Subformulas[f]
    <3>1. CASE g = f
      BY <3>1
    <3>2. CASE \E o \in Operands(f) : g \in Subformulas[o]
      <4>1. PICK o \in Operands(f) : g \in Subformulas[o]
        BY <3>2
      <4>2. Subformulas[g] \subseteq Subformulas[o]
        BY <1>1, <4>1
      <4>3. Subformulas[o] \subseteq Subformulas[f]
        BY <4>1, PartsOf
      <4> QED
        BY <4>2, <4>3
    <3> QED
      BY <3>1, <3>2, PartsOf
  <2> QED
    BY <2>1
<1> HIDE DEF S
<1>2. Formula \subseteq S
  BY <1>1, FormulaInduction
<1> QED
  BY <1>2 DEF S

\* What the invariant says of implications,
LEMMA ImplicationsFact == PassInv => ImplicationsSplit
<1> SUFFICES ASSUME PassInv, pass = "done", NEW f \in Parts, f.op = "imply",
                    NEW sig \in InputSignals(And(<< f.left, f.notLeft >>))
             PROVE  Holds(sig, 0, f.notLeft) # Holds(sig, 0, f.left)
  BY DEF ImplicationsSplit
<1>1. PICK n \in BOOLEAN, strict \in BOOLEAN :
        AsMltl(n) /\ \A i \in DOMAIN operands : operands[i] \in Formula /\ Sound(operands[i], n, strict)
  BY OperandsSound
<1>2. PICK i \in DOMAIN operands : f \in Subformulas[operands[i]]
  BY PartsIn
<1>3. f \in Formula /\ Opposites(f.left, f.notLeft, n) /\ Proper(f)
  <2>1. f \in Formula /\ SoundAt(f, n, strict)
    BY <1>1, <1>2, PartsOf DEF Sound
  <2>2. Proper(operands[i])
    BY <1>1, SoundFacts
  <2>3. Subformulas[f] \subseteq Subformulas[operands[i]]
    BY <1>1, <1>2, PartsOfParts
  <2> QED
    BY <2>1, <2>2, <2>3 DEF SoundAt, Proper
<1> DEFINE l == f.left
           k == f.notLeft
           j == And(<< l, k >>)
           h == Horizon[j]
<1>4. PICK d \in Nat : d + 1 <= Nesting /\ f \in Compound(FormulaUpTo[d])
  BY <1>3, InSomeCompound
<1>5. l \in Formula /\ k \in Formula /\ Proper(l) /\ Proper(k) /\ j \in Formula
  <2>1. l \in FormulaUpTo[d] /\ k \in FormulaUpTo[d] /\ Operands(f) = {f.left, f.right, f.notLeft}
    BY <1>4, CompoundShape DEF Operands
  <2>2. FormulaUpTo[d] \subseteq Formula /\ Compound(FormulaUpTo[d]) \subseteq Formula
    BY <1>4, LevelFacts
  <2>3. Proper(l) /\ Proper(k)
    BY <1>3, <2>1, ProperFacts
  <2>4. << l, k >> \in Seq(FormulaUpTo[d])
    <3> DEFINE L == FormulaUpTo[d]
    <3>1. l \in L /\ k \in L
      BY <2>1
    <3> HIDE DEF l, k, L
    <3>2. << l, k >> \in Seq(L)
      BY <3>1
    <3> QED
      BY <3>2 DEF L
  <2>5. j \in Compound(FormulaUpTo[d])
    BY <2>4, Built DEF And
  <2> QED
    BY <2>1, <2>2, <2>3, <2>5
<1>6. j.op = "and" /\ j.args = << l, k >>
  BY DEF And
<1>7. ReachesTo(sig, h)
  BY DEF InputSignals, ReachesTo
<1>8. Opposites(l, k, n)
  BY <1>3
<1> HIDE DEF l, k, j
<1>9. Operands(j) = {l, k} /\ Scope(j) = {l, k}
  BY <1>5, <1>6, JunctionParts, PairElements
<1>10. Proper(j) /\ h \in Nat /\ Horizon[l] <= h /\ Horizon[k] <= h
  <2>1. Proper(j)
    BY <1>5, <1>6, <1>9, ProperFacts DEF IsTemporal
  <2> QED
    BY <1>5, <1>6, <1>9, <2>1, HorizonOfProper
<1> HIDE DEF h
<1> DEFINE other == Endless(sig, h)
           t == 0
<1>11. /\ Smt(sig, t, l, n) <=> Smt(other, t, l, n)
       /\ Smt(sig, t, k, n) <=> Smt(other, t, k, n)
  BY <1>5, <1>7, <1>10, EndlessSmt
<1>12. Steady(other) /\ t \in Int
  BY <1>7, <1>10, EndlessSignal
<1> HIDE DEF other, t
<1>13. Smt(other, t, k, n) <=> ~Smt(other, t, l, n)
  BY <1>8, <1>12 DEF Opposites
<1>14. /\ (Holds(sig, t, l) <=> Smt(sig, t, l, n)) /\ Holds(sig, t, l) \in BOOLEAN
       /\ (Holds(sig, t, k) <=> Smt(sig, t, k, n)) /\ Holds(sig, t, k) \in BOOLEAN
  BY <1>1, <1>5, <1>12, HoldsAsSmt
<1>15. Holds(sig, t, k) # Holds(sig, t, l)
  BY <1>11, <1>13, <1>14
<1> QED
  BY <1>15 DEF l, k, t

\* of what the tableau is asked,
LEMMA QuestionFact == PassInv => SameQuestion
<1> SUFFICES ASSUME PassInv, pass = "done", NEW sig \in InputSignals(input)
             PROVE  (\A i \in DOMAIN operands : Holds(sig, 0, operands[i]))
                        <=> Smt(sig, 0, input, options.mltl)
  BY DEF SameQuestion
<1> DEFINE f == input
           m == options.mltl
           h == Horizon[f]
           fs == operands
           t == 0
<1>1. f \in Formula /\ Proper(f) /\ m \in BOOLEAN /\ h \in Nat
  BY InputFacts DEF PassInv
<1>2. PICK n \in BOOLEAN : AsMltl(n)
  BY DEF AsMltl
<1>3. PICK strict \in BOOLEAN : ~strict
  OBVIOUS
<1>4. Asks(f, m, fs, n, strict)
  BY <1>2, <1>3 DEF PassInv, RootAsks
<1>5. ReachesTo(sig, h)
  BY DEF InputSignals, ReachesTo
<1>6. h = Horizon[f]
  OBVIOUS
<1> HIDE DEF f, m, h, fs
<1> DEFINE other == Endless(sig, h)
<1>7. \A g \in Formula : Proper(g) /\ Horizon[g] <= h => (Smt(sig, t, g, n) <=> Smt(other, t, g, n))
  BY <1>1, <1>2, <1>5, EndlessSmt
<1>8. Smt(sig, t, f, m) <=> Smt(other, t, f, m)
  BY <1>1, <1>5, <1>6, EndlessSmt
<1>9. Steady(other) /\ t \in Int
  BY <1>1, <1>5, EndlessSignal
<1> HIDE DEF other, t
<1>10. Smt(other, t, f, m) <=> \A g \in ToSet(fs) : Smt(other, t, g, n)
  BY <1>4, <1>9 DEF Asks
<1>11. ASSUME NEW i \in DOMAIN fs PROVE Holds(sig, t, fs[i]) <=> Smt(other, t, fs[i], n)
  <2> DEFINE g == fs[i]
  <2>1. g \in Formula /\ g \in ToSet(fs)
    BY <1>4 DEF Asks, ToSet
  <2>2. Sound(g, n, strict) /\ Horizon[g] <= h
    BY <1>4, <1>6, <2>1 DEF Asks
  <2> HIDE DEF g
  <2>3. Smt(sig, t, g, n) <=> Smt(other, t, g, n)
    BY <1>7, <2>1, <2>2, SoundHorizon
  <2>4. Holds(sig, t, g) <=> Smt(sig, t, g, n)
    BY <1>2, <1>9, <2>1, HoldsAsSmt
  <2> QED
    BY <2>3, <2>4 DEF g
<1>12. (\A i \in DOMAIN fs : Holds(sig, t, fs[i])) <=> Smt(sig, t, f, m)
  <2>1. ToSet(fs) = {fs[i] : i \in DOMAIN fs}
    BY DEF ToSet
  <2>2. (\A i \in DOMAIN fs : Holds(sig, t, fs[i])) <=> \A i \in DOMAIN fs : Smt(other, t, fs[i], n)
    BY <1>11
  <2> QED
    BY <1>8, <1>10, <2>1, <2>2
<1> QED
  BY <1>12 DEF f, m, fs, t

\* What the passes keep is what the rules rely on.
LEMMA SoundCoherent ==
    ASSUME NEW n, AsMltl(n), NEW strict, strict
    PROVE  \A f \in Formula : Sound(f, n, strict) => Coherent[f]
<1> DEFINE S == {f \in Formula : Sound(f, n, strict) => Coherent[f]}
<1>1. ASSUME NEW f \in Formula, Operands(f) \subseteq S PROVE f \in S
  <2> SUFFICES ASSUME Sound(f, n, strict) PROVE Coherent[f]
    OBVIOUS
  <2>1. /\ SoundAt(f, n, strict)
        /\ \A g \in Operands(f) : g \in Formula /\ Coherent[g]
    BY <1>1, SoundFacts
  <2>2. f.op \in {"and", "or"} => f.args # <<>>
    BY <2>1 DEF SoundAt
  <2>3. f.op = "imply" => Opposite(f.left, f.notLeft)
    <3> SUFFICES ASSUME f.op = "imply" PROVE Opposite(f.left, f.notLeft)
      OBVIOUS
    <3> DEFINE l == f.left
               k == f.notLeft
    <3>1. Opposites(l, k, n)
      BY <2>1 DEF SoundAt
    <3>2. l \in Formula /\ Coherent[l] /\ k \in Formula /\ Coherent[k]
      BY <2>1, ScopeParts
    <3> HIDE DEF l, k
    <3>3. ASSUME NEW sig, Steady(sig) PROVE Holds(sig, 0, k) <=> ~Holds(sig, 0, l)
      <4>1. \A t \in Int : (Holds(sig, t, k) <=> Smt(sig, t, k, n)) /\ (Holds(sig, t, l) <=> Smt(sig, t, l, n))
        BY <3>2, HoldsAsSmt
      <4>2. \A t \in Int : Smt(sig, t, k, n) <=> ~Smt(sig, t, l, n)
        BY <3>1, <3>3 DEF Opposites
      <4> QED
        BY <4>1, <4>2
    <3>4. Opposite(l, k)
      BY <3>2, <3>3, AlwaysOpposite
    <3> QED
      BY <3>4 DEF l, k
  <2>4. (f.op = "not" => f.phi.op = "prop") /\ (IsTemporal(f) => f.int \in Interval)
    BY <2>1 DEF SoundAt
  <2>5. Coherent[f] =
          (/\ f.op = "not" => f.phi.op = "prop"
           /\ f.op \in {"and", "or"} => f.args # <<>>
           /\ IsTemporal(f) => f.int \in Interval
           /\ f.op = "imply" => Opposite(f.left, f.notLeft)
           /\ \A g \in Operands(f) : Coherent[g])
    BY CoherentEquation, Zenon
  <2>6. \A g \in Operands(f) : Coherent[g]
    BY <2>1
  <2> QED
    BY <2>2, <2>3, <2>4, <2>5, <2>6, Zenon
<1> HIDE DEF S
<1>2. Formula \subseteq S
  BY <1>1, FormulaInduction
<1> QED
  BY <1>2 DEF S

\* and of what the rules rely on.
LEMMA CoherentFact == PassInv => RootCoherent
<1> SUFFICES ASSUME PassInv, pass = "done",
                    AtPropositions(UNION {Subformulas[f] : f \in Unvisited[input][FALSE]}),
                    NEW i \in DOMAIN operands
             PROVE  Coherent[operands[i]]
  BY DEF RootCoherent
<1>1. Strict(input)
  BY DEF AtPropositions, Strict, LiteralForm
<1>2. PICK n \in BOOLEAN, strict \in BOOLEAN :
        strict /\ AsMltl(n) /\ operands[i] \in Formula /\ Sound(operands[i], n, strict)
  BY <1>1, OperandsSound
<1> QED
  BY <1>2, SoundCoherent

\* normalize_root asks the tableau what the unrolled input asks: whichever passes are on,
\* the normalised operands hold together for the signals for which the input holds.
THEOREM NormalizationAsksTheSame == Spec => []SameQuestion
BY PassesAskTheInput, QuestionFact, PTL

\* The SMT encoding of smt.rs and the FOL encoding of fol.rs hold for the same signals,
\* for every parsed input and in both semantics.
THEOREM UnrollingAndQuantifyingAgree == Spec => []EnginesAgree
BY PassesAskTheInput, EnginesFact, PTL

\* The SMT encoding indexes the arrays of variables within the horizon that their length
\* is taken from, for every parsed input.
THEOREM UnrollingStaysInItsArrays == Spec => []LookupsInRange
BY PassesAskTheInput, LookupsFact, PTL

\* The second copy of the left part of an implication stays its opposite through all
\* passes of normalize_root, for every parsed input.
THEOREM ImplicationsStaySplit == Spec => []ImplicationsSplit
BY PassesAskTheInput, ImplicationsFact, PTL

\* After the first pass of normalize_root negations stand before propositions only, unless
\* they stand before something else in a left part that the pass does not visit.
THEOREM NegationsReachPropositions == Spec => []NegationsAtPropositions
BY PassesAskTheInput, NegationsFact, PTL

\* No pass of normalize_root makes an interval that is empty or begins in the past, for
\* every parsed input.
THEOREM IntervalsStayProper == Spec => []IntervalsProper
BY PassesAskTheInput, IntervalsFact, PTL

\* After the passes no operand of the root is a conjunction and no junction has an operand
\* of its own kind, for every parsed input.
THEOREM RootIsFlat == Spec => []JunctionsFlat
BY PassesAskTheInput, FlatFact, PTL

\* normalize_root leaves operands that meet what the rules of the tableau rely on, for every
\* parsed input in whose unvisited left parts negations stand at propositions.
THEOREM RulesGetCoherentRoots == Spec => []RootCoherent
BY PassesAskTheInput, CoherentFact, PTL
=============================================================================
