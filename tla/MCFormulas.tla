----------------------------- MODULE MCFormulas -----------------------------
(***************************************************************************)
(* The formulas on which the tableau runs are checked.                     *)
(***************************************************************************)
EXTENDS MCTableau

T == INSTANCE Transform

P(i) == Prop(Atom(i, "p"))
NotP(i) == Not(P(i))
Q(i) == Prop(Atom(i, "q"))
NotQ(i) == Not(Q(i))
Positive(i) == Prop(Rel(i, "x", {1, 2}))
Small(i) == Prop(Rel(i, "x", {0, 1}))
Zero(i) == Prop(Rel(i, "x", {0}))

\* Each template is a conjunct whose occurrences have the ids i, i + 1, ...
Template(i) == <<
    G(0, 2, P(i)),
    G(0, 3, Or(<< P(i), Q(i + 1) >>)),
    F(0, 2, NotP(i)),
    F(3, 4, NotQ(i)),
    U(0, 2, P(i), Q(i + 1)),
    R(0, 2, Q(i), P(i + 1)),
    G(0, 3, F(0, 1, NotP(i))),
    F(1, 2, G(0, 1, NotP(i))),
    G(1, 3, Imply(P(i), F(0, 1, NotQ(i + 1)), NotP(i + 2))),
    Or(<< P(i), G(1, 3, Q(i + 1)) >>),
    G(2, 3, P(i)),
    U(0, 3, Or(<< NotQ(i), F(0, 1, Q(i + 1)) >>), NotP(i + 2)),
    R(0, 2, F(0, 1, NotP(i)), Or(<< NotQ(i + 1), P(i + 2) >>)),
    G(0, 2, Positive(i)),
    F(1, 3, And(<< Zero(i), P(i + 1) >>)),
    F(0, 2, U(0, 1, P(i), Small(i + 1))),
    U(0, 3, Q(i), P(i + 1)),
    G(0, 2, F(2, 2, P(i))),
    And(<< NotP(i), G(1, 1, NotP(i + 1)), G(3, 3, NotP(i + 2)) >>),
    G(3, 3, NotP(i)),
    G(0, 2, And(<< Q(i), G(2, 3, P(i + 1)) >>)) >>

Templates == Template(10)

\* Each template with itself and the ten that follow it, so every pair in some order
Followers == (Len(Templates) \div 2) + 1
Pairwise ==
    [n \in 1 .. Len(Templates) * Followers |->
        LET k == (n - 1) \div Followers
            l == (k + ((n - 1) % Followers)) % Len(Templates)
        IN  T!Spliced("and", << Templates[k + 1], Template(20)[l + 1] >>)]

\* Roots on which the memo store turns nodes away: an F that is given another try
\* under a G or an F that no try satisfies, or that only a later one does.
Memoizing == <<
    << G(0, 3, F(1, 2, P(1))), F(0, 3, And(<< Q(2), F(2, 2, NotP(3)) >>)) >>,
    << G(1, 3, F(0, 1, Q(1))), F(1, 3, G(0, 1, G(2, 2, NotQ(2)))) >>,
    << G(1, 3, Or(<< NotP(1), NotQ(2) >>)), F(1, 1, Or(<< G(2, 2, P(3)), F(0, 1, Q(4)) >>)) >>,
    << F(0, 1, F(1, 1, G(1, 2, NotP(1)))), G(0, 1, G(0, 2, Q(2))), G(1, 2, P(3)) >>,
    << F(0, 3, Q(1)), F(1, 3, G(0, 2, G(1, 1, NotQ(2)))), G(3, 4, Q(3)) >>,
    << F(2, 3, F(1, 2, F(1, 2, Q(1)))), F(0, 1, F(1, 1, G(0, 2, NotQ(2)))), G(0, 4, G(2, 2, NotQ(3))) >> >>

RuleFormulas == Pairwise \o Memoizing

\* These are roots as the theorems of RuleProofs ask for them.
ASSUME FormulasCoherent ==
    \A k \in DOMAIN RuleFormulas :
        \A i \in DOMAIN RuleFormulas[k] : Coherent[RuleFormulas[k][i]]

\* A node is taken for covered by a rejected one at a later instant, although F p
\* could have been satisfied before that instant.
MemoFormula ==
    << << F(0, 1, And(<< Q(1), G(2, 4, NotP(2)) >>)), F(0, 4, P(3)), G(0, 1, NotP(4)) >> >>

\* The first child of the simple node is contradictory, the second is not.
SimpleFirstFormula ==
    << << R(1, 3, Positive(1), Zero(2)), G(1, 2, F(0, 1, P(3))) >> >>

\* The operands of the root that normalize_root makes of a formula, without the
\* passes that can be switched off
Normalized(f, mltl) ==
    LET nnf == T!Nnf[f]
    IN  T!Spliced("and", << T!Flat[IF mltl THEN nnf ELSE T!Mltl[nnf]] >>)

\* In STL the left part of the until also holds before its interval, so the a of
\* (a U[2,3] b) && !a occurs in two conjuncts of the root.
CoreFormula == << Normalized(And(<< U(2, 3, P(1), Q(2)), NotP(3) >>), FALSE) >>

\* !(!(p && q) -> r) && p && q
NegatedImplyFormula ==
    << Normalized(And(<< Not(T!Implication(Not(And(<< P(1), Q(2) >>)), Prop(Atom(3, "r")))), P(4), Q(5) >>),
                  TRUE) >>

\* The first disjunct is given up at the depth limit, the second is contradictory.
CutFormula == << << P(1), Or(<< F(0, 1, Q(2)), NotP(3) >>) >> >>
=============================================================================
