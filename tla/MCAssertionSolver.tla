------------------------- MODULE MCAssertionSolver -------------------------
(***************************************************************************)
(* The solver on the literals of two atoms, three relations over one real  *)
(* variable, and a constant.                                               *)
(***************************************************************************)
EXTENDS AssertionSolver, Integers

MCAtoms == {"p", "q"}
MCRelations == {"x > 0", "x < 0", "x = 1"}
Lit(e) == [expr |-> e, negated |-> FALSE]
NegLit(e) == [expr |-> e, negated |-> TRUE]

MCLiteral ==
    {Lit("p"), NegLit("p"), Lit("q"), Lit("x > 0"), Lit("x < 0"), NegLit("x = 1"), Lit("false")}

Satisfies(x, l) ==
    LET holds == CASE l.expr = "x > 0" -> x > 0
                   [] l.expr = "x < 0" -> x < 0
                   [] l.expr = "x = 1" -> x = 1
    IN  holds # l.negated

\* The values -1, 0, 1 and 2 tell the relations apart.
MCRelationsConsistent(S) == \E x \in -1 .. 2 : \A l \in RelationsOf(S) : Satisfies(x, l)

MCRelationCores(S) ==
    {C \in SUBSET RelationsOf(S) :
        ~MCRelationsConsistent(C) /\ \A l \in C : MCRelationsConsistent(C \ {l})}
=============================================================================
