------------------------- MODULE MCDifferenceLogic -------------------------
(***************************************************************************)
(* Literals over two real variables: relations of one constraint, of two   *)
(* and of a choice, a number on either side, strict ones that contradict   *)
(* only for being strict, and one that the solver does not support.        *)
(***************************************************************************)
EXTENDS DifferenceLogic

Lit(id, left, op, right) ==
    [id |-> id, op |-> op, left |-> left, right |-> right, negated |-> FALSE]
NegLit(id, left, op, right) ==
    [id |-> id, op |-> op, left |-> left, right |-> right, negated |-> TRUE]

MCLiteral ==
    {Lit(1, Var("x"), "Ne", Var("y")), Lit(2, Sub("x", "y"), "Eq", Num(0)),
     Lit(3, Abs(Var("x")), "Lt", Num(1)), NegLit(4, Num(1), "Gt", Var("x")),
     Lit(5, Abs(Sub("x", "y")), "Ge", Num(1)), Lit(6, Abs(Var("x")), "Ne", Num(1))}

----------------------------------------------------------------------------
(* A set of constraints on two variables with constants up to 1 has a      *)
(* model just when it has one whose values are multiples of 1/3 up to 2.   *)
Scale == 3
Value == -2 * Scale .. 2 * Scale
Valuation == [x : Value, y : Value]

AbsoluteOf(i) == IF i < 0 THEN -i ELSE i
TermOf(e, v) ==
    CASE e.kind = "num" -> Scale * e.c
      [] e.kind = "var" -> v[e.x]
      [] e.kind = "sub" -> v[e.x] - v[e.y]
Term(e, v) == IF e.kind = "abs" THEN AbsoluteOf(TermOf(e.of, v)) ELSE TermOf(e, v)

Relates(op, a, b) ==
    CASE op = "Le" -> a <= b
      [] op = "Lt" -> a < b
      [] op = "Ge" -> a >= b
      [] op = "Gt" -> a > b
      [] op = "Eq" -> a = b
      [] op = "Ne" -> a # b

ModelsOf ==
    [l \in MCLiteral |->
        {v \in Valuation : Relates(l.op, Term(l.left, v), Term(l.right, v)) # l.negated}]
MCConsistent(S) == \E v \in Valuation : \A l \in S : v \in ModelsOf[l]
=============================================================================
