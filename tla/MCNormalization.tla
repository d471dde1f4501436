-------------------------- MODULE MCNormalization --------------------------
(***************************************************************************)
(* The formulas on which the passes are checked.                           *)
(***************************************************************************)
EXTENDS Normalization

P == Prop(Atom(1, "p"))
Q == Prop(Atom(2, "q"))

\* Operands in which one pass or the other has something to do
Pieces == <<
    P, Not(P), Q, True, False, G(0, 1, P), F(0, 1, Q), F(1, 1, P), G(1, 2, P), Or(<< P, Q >>),
    And(<< Not(Q), F(1, 2, P) >>), U(1, 2, P, Q), R(0, 1, Not(P), Q), Implication(F(0, 1, P), Q),
    F(1, 2, G(0, 0, Q)), Not(And(<< P, Q >>)), U(0, 1, Not(Q), Q), R(1, 1, Q, F(1, 1, P)) >>

Contexts(f, g) == {
    And(<< f, g >>), Or(<< f, g >>), Implication(f, g), Not(Implication(f, g)),
    Not(Implication(Not(f), g)), G(0, 1, And(<< f, g >>)), G(1, 1, Or(<< g, f >>)),
    F(0, 1, Or(<< Not(f), g >>)), F(1, 1, Implication(g, f)), G(0, 1, G(0, 1, f)),
    U(0, 1, f, g), U(1, 1, g, f), U(0, 0, f, g), R(0, 1, f, g), R(1, 1, f, g),
    Not(U(0, 1, f, g)), Not(R(1, 1, g, f)), Not(F(1, 1, And(<< f, g >>))) }

\* Several G over the same formula, whose intervals meet, contain each other or do not
Spans == {Span(0, 2), Span(1, 1), Span(2, 3), Span(3, 3)}
Merges ==
    {[op |-> op, args |-> << Over("G", i, P), Over("G", j, P), Over("G", k, P), Q >>] :
        op \in {"and", "or"}, i \in Spans, j \in Spans, k \in Spans}

\* Operands that are dropped next to p, or all together
Absorbed == {
    And(<< P, Or(<< Q, P >>), F(0, 2, P) >>), Or(<< P, And(<< P, Q >>), G(0, 2, P) >>),
    And(<< P, F(1, 2, P) >>), Or(<< P, G(1, 2, P) >>), And(<< P, Q, Not(P) >>), Or(<< Q, P, Not(Q) >>),
    Or(<< False, G(0, 1, False) >>), G(0, 1, Or(<< False, False >>)), F(0, 1, And(<< True, True >>)) }

Distance == {0, 1, 5, 11}

Near(d) == [i \in DOMAIN Pieces |-> Contexts(Pieces[i], Pieces[((i + d) % Len(Pieces)) + 1])]

AllInputs ==
    {f \in Merges \cup Absorbed \cup UNION UNION {Range(Near(d)) : d \in Distance} : Horizon[f] <= 4}

\* (Behind a LET, TLC's coverage does not descend into it.)
MCInputs == LET inputs == AllInputs IN inputs
=============================================================================
