----------------------------- MODULE MCTableau -----------------------------
(***************************************************************************)
(* The driver of TableauSearch on the nodes that the rules of Decompose    *)
(* produce for concrete formulas.                                          *)
(***************************************************************************)
EXTENDS TableauTree, RuleTableau, UnsatCore

NodeAt(n) == Built[n[1]].nodes[n[2]]
KidsAt(n) == Built[n[1]].kids[n[2]]

\* ({n : n \in S} makes TLC list the elements of S once.)
AllNodes == {n : n \in UNION {{<<k, i>> : i \in DOMAIN Built[k].nodes} : k \in DOMAIN Built}}

MCNodes == AllNodes
MCRoots == {<<k, 1>> : k \in DOMAIN Built}
MCTime(n) == NodeAt(n).time
MCSimple(n) == NodeAt(n).simple
MCPoised(n) == IsPoised(NodeAt(n))
MCLeaf(n) == KidsAt(n) = <<>>
MCChildren(n) == [c \in DOMAIN KidsAt(n) |-> <<n[1], KidsAt(n)[c]>>]
MCCovers(n, m) == Implies(NodeAt(n), NodeAt(m))
MCOpen(n) == n[2] \in Built[n[1]].open
MCRank(n) == Built[n[1]].rank[n[2]]
MCUnder(n) == {<<n[1], i>> : i \in Built[n[1]].under[n[2]]}
MCLiterals(n) == LiteralsOf(NodeAt(n))

\* The literals with the ids of their occurrences, for the run about cores
IdLiterals(n) ==
    LET ops == NodeAt(n).ops
    IN  {[id |-> ExprOf(ops[i].f).id, var |-> LiteralOf(ops[i].f).var, vals |-> LiteralOf(ops[i].f).vals] :
            i \in {j \in DOMAIN ops : HasExpr(ops[j].f)}}

MCConsistent(S) == Satisfied(S)

\* The minimal inconsistent subsets
MCCores(S) == {C \in SUBSET S : ~Satisfied(C) /\ \A l \in C : Satisfied(C \ {l})}

----------------------------------------------------------------------------
(* Claims of the documentation that the code does not keep *)

\* What README.md:51 says of --max-depth: reaching the limit can produce an
\* unknown result.  It is not said to make a satisfiable formula unsatisfiable.
CutNeverUnsat == verdict = "unsat" /\ cut => ~HasModel(Root)

\* What README.md:48 says of --unsat-core-extraction: an unsatisfiable core is
\* extracted and printed when the result is unsatisfiable.  The core that is printed
\* is the conjuncts to which the collected ids lead.
CoreIsUnsat ==
    verdict = "unsat" =>
        LET printed == CoreOperands(Root, {l.id : l \in core})
        IN  ~\E sig \in Signals(Root) :
                \A i \in printed : Demands(sig, Root.ops[i].f, Root.time, Root.time)
=============================================================================
