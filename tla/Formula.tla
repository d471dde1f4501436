------------------------------ MODULE Formula ------------------------------
(***************************************************************************)
(* Formulas of src/src/formula/mod.rs, with their meaning over finite      *)
(* signals.  An Expr carries the id of its occurrence in the input, which  *)
(* takes part in the equality of formulas.  Of a Boolean atom or an        *)
(* arithmetic constraint (over one variable) the model keeps the variable  *)
(* and the set of its values for which it holds.  True and False are       *)
(* constraints on a variable that is always 1.                             *)
(*                                                                         *)
(* What is defined along the structure of formulas is a function over all  *)
(* formulas whose operators are nested at most Nesting deep.               *)
(***************************************************************************)
EXTENDS Interval, Sequences, FiniteSetsExt

CONSTANT Nesting

ASSUME NestingAssumption == Nesting \in Nat

Atom(id, var) == [id |-> id, real |-> FALSE, var |-> var, holds |-> {1}]
Rel(id, var, holds) == [id |-> id, real |-> TRUE, var |-> var, holds |-> holds]

ConstantVar == "constant"

\* (The provers have no rule for strings.)
ASSUME ConstantVarAssumption == ConstantVar \in STRING

Constant(id, b) ==
    [id |-> id, real |-> FALSE, var |-> ConstantVar, holds |-> IF b THEN {1} ELSE {}]

Prop(e) == [op |-> "prop", e |-> e]
Not(phi) == [op |-> "not", phi |-> phi]
And(fs) == [op |-> "and", args |-> fs]
Or(fs) == [op |-> "or", args |-> fs]
\* Formula::imply, given the dual of the left operand
Imply(left, right, notLeft) ==
    [op |-> "imply", left |-> left, right |-> right, notLeft |-> notLeft]
G(a, b, phi) == [op |-> "G", int |-> Span(a, b), phi |-> phi]
F(a, b, phi) == [op |-> "F", int |-> Span(a, b), phi |-> phi]
U(a, b, left, right) == [op |-> "U", int |-> Span(a, b), left |-> left, right |-> right]
R(a, b, left, right) == [op |-> "R", int |-> Span(a, b), left |-> left, right |-> right]

Expr == [id : Int, real : BOOLEAN, var : STRING, holds : SUBSET Int]
Times == [lower : Int, upper : Int]

Compound(S) ==
    [op : {"not"}, phi : S]
    \cup [op : {"and", "or"}, args : Seq(S)]
    \cup [op : {"imply"}, left : S, right : S, notLeft : S]
    \cup [op : {"G", "F"}, int : Times, phi : S]
    \cup [op : {"U", "R"}, int : Times, left : S, right : S]

FormulaUpTo[n \in Nat] ==
    [op : {"prop"}, e : Expr] \cup IF n = 0 THEN {} ELSE Compound(FormulaUpTo[n - 1])

Formula == FormulaUpTo[Nesting]

\* What the tableau takes for a literal: any negation, though only that of a
\* proposition has an expression.
IsLiteral(f) == f.op \in {"prop", "not"}
HasExpr(f) == IF f.op = "not" THEN f.phi.op = "prop" ELSE f.op = "prop"
ExprOf(f) == IF f.op = "prop" THEN f.e ELSE f.phi.e
IsTemporal(f) == f.op \in {"G", "F", "U", "R"}      \* get_interval is Some

Operands(f) ==
    CASE f.op = "prop" -> {}
      [] f.op \in {"and", "or"} -> {f.args[i] : i \in DOMAIN f.args}
      [] f.op \in {"not", "G", "F"} -> {f.phi}
      [] f.op \in {"U", "R"} -> {f.left, f.right}
      [] f.op = "imply" -> {f.left, f.right, f.notLeft}

HasTemporal[f \in Formula] ==
    \/ IsTemporal(f)
    \/ f.op \in {"and", "or"} /\ \E i \in DOMAIN f.args : HasTemporal[f.args[i]]
    \/ f.op = "not" /\ HasTemporal[f.phi]
    \/ f.op = "imply" /\ (HasTemporal[f.left] \/ HasTemporal[f.right])

\* is_complex_temporal_operator
IsComplex(f) ==
    \/ f.op = "G" /\ HasTemporal[f.phi]
    \/ f.op = "U" /\ HasTemporal[f.left]
    \/ f.op = "R" /\ HasTemporal[f.right]

\* temporal_expansion: the outermost temporal operators of f, shifted to time
ExpansionOf(f, time, shifted) ==
    IF IsTemporal(f) THEN [f EXCEPT !.int = ShiftRight(f.int, time)]
    ELSE IF f.op \in {"and", "or"}
         THEN [f EXCEPT !.args = [i \in DOMAIN f.args |-> shifted[f.args[i]]]]
    ELSE IF f.op = "imply" THEN Imply(shifted[f.left], shifted[f.right], shifted[f.notLeft])
    ELSE f
Shifted(time) == LET shifted[f \in Formula] == ExpansionOf(f, time, shifted) IN shifted
Expansion(f, time) == Shifted(time)[f]

----------------------------------------------------------------------------
(* The meaning of formulas: the MLTL semantics.  A signal maps an instant  *)
(* to the values of the variables.                                         *)
Meaning(f, sig, t, truth) ==
    \/ f.op = "prop" /\ sig[t][f.e.var] \in f.e.holds
    \/ f.op = "not" /\ ~truth[f.phi][t]
    \/ f.op = "and" /\ \A i \in DOMAIN f.args : truth[f.args[i]][t]
    \/ f.op = "or" /\ \E i \in DOMAIN f.args : truth[f.args[i]][t]
    \/ f.op = "imply" /\ (truth[f.left][t] => truth[f.right][t])
    \/ f.op = "G" /\ \A i \in f.int.lower .. f.int.upper : truth[f.phi][t + i]
    \/ f.op = "F" /\ \E i \in f.int.lower .. f.int.upper : truth[f.phi][t + i]
    \/ f.op = "U" /\ \E i \in f.int.lower .. f.int.upper :
                        /\ truth[f.right][t + i]
                        /\ \A j \in f.int.lower .. i - 1 : truth[f.left][t + j]
    \/ f.op = "R" /\ \A i \in f.int.lower .. f.int.upper :
                        \/ truth[f.right][t + i]
                        \/ \E j \in f.int.lower .. i - 1 : truth[f.left][t + j]
Truth(sig) == LET truth[f \in Formula] == [t \in Int |-> Meaning(f, sig, t, truth)] IN truth
Holds(sig, t, f) == Truth(sig)[f][t]

Vars[f \in Formula] ==
    IF f.op = "prop" THEN {f.e.var} ELSE UNION {Vars[g] : g \in Operands(f)}

Values(var) ==
    CASE var = ConstantVar -> {1}
      [] var \in {"x", "y"} -> 0 .. 2
      [] OTHER -> 0 .. 1
Valuations(names) == {v \in [names -> 0 .. 2] : \A x \in names : v[x] \in Values(x)}

\* Formula::horizon: the last instant a formula talks about, from instant 0
Horizon[f \in Formula] ==
    (IF IsTemporal(f) THEN f.int.upper ELSE 0)
    + Max({0} \cup {Horizon[g] : g \in IF f.op = "imply" THEN {f.left, f.right} ELSE Operands(f)})
=============================================================================
