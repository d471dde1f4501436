---------------------------- MODULE RuleTableau ----------------------------
(***************************************************************************)
(* The driver of TableauSearch on tableaux whose nodes are those of        *)
(* Decompose: a node n of the driver stands for NodeOf(n).                 *)
(***************************************************************************)
EXTENDS TableauSearch, Decompose, NodeMeaning

CONSTANTS
    NodeOf(_),      \* what a node contains
    Rank(_)         \* the length of the longest way down from a node

\* What TableauSearch is told about a node is what the rules make of it.
ASSUME RulesAssumption ==
    \A n \in Nodes :
        /\ Time(n) = NodeOf(n).time
        /\ Simple(n) = NodeOf(n).simple
        /\ Poised(n) <=> IsPoised(NodeOf(n))
        /\ Leaf(n) <=> Decompose(NodeOf(n)) = <<>>
        /\ ~Leaf(n) =>
            Decompose(NodeOf(n)) = [i \in DOMAIN Children(n) |-> NodeOf(Children(n)[i])]
        /\ Consistent(Literals(n)) <=> Satisfied(LiteralsOf(NodeOf(n)))

\* The tableau is finite.
ASSUME RankAssumption ==
    \A n \in Nodes :
        /\ Rank(n) \in Nat
        /\ ~Leaf(n) => \A i \in DOMAIN Children(n) : Rank(Children(n)[i]) < Rank(n)

\* The roots are made of coherent formulas, as Node::from_operands leaves them.  Not
\* every normalisation sees to it: run negated_imply.
RootsCoherent ==
    \A r \in Roots :
        LET fs == [i \in DOMAIN NodeOf(r).ops |-> NodeOf(r).ops[i].f]
        IN  /\ NodeOf(r) = RootNode(fs)
            /\ fs \in Seq(Formula)
            /\ \A i \in DOMAIN fs : Coherent[fs[i]]

----------------------------------------------------------------------------
(* Properties *)
Root == NodeOf(root)

\* A "sat" answer is right: the rewritings, the branching rules and the jumps lead
\* to no leaf that the formula does not allow.
SatHasModel == verdict = "sat" => HasModel(Root)

\* An "unsat" answer is right, with the provisos of UnsatSound: no merge, no rule and
\* no jump over instants loses the last model of the formula.
UnsatHasNoModel == verdict = "unsat" /\ Untroubled => ~HasModel(Root)

\* A memoized node has no model.  Nodes in the middle of an instant may be closed
\* although they have one (a jump may give up a postponed F when F could as well
\* have been satisfied at once); the nodes that open an instant, which are the
\* memoized ones, may not.
StoreHasNoModel == Untroubled => \A n \in store : ~HasModel(NodeOf(n))

\* Trace::full_trace: the literals at an instant are those of the node whose slots,
\* up to the start of the next node, contain it.
TraceNode(t) ==
    NodeOf(trace[CHOOSE i \in DOMAIN trace :
                    Time(trace[i]) <= t /\ (i < Len(trace) => t < Time(trace[i + 1]))])
Allowed(t, var) ==
    {v \in Values(var) : t <= Time(trace[Len(trace)]) =>
        \A l \in LiteralsOf(TraceNode(t)) : l.var = var => v \in l.vals}

\* The signal a user reads from the trace, with v where the trace is silent
Reading(v) ==
    [t \in 0 .. End(Root) |-> [var \in NodeVars(Root) |->
        IF v[var] \in Allowed(t, var) THEN v[var] ELSE CHOOSE w \in Allowed(t, var) : TRUE]]

\* The trace of a "sat" answer is a model, whatever it leaves open is filled with:
\* the literals copied over the instants of a jump satisfy what the jump skipped.
TraceIsModel ==
    verdict = "sat" => \A v \in Valuations(NodeVars(Root)) : Models(Reading(v), Root)

\* What README.md:22 says of stlsat: it reports whether the formula is
\* satisfiable.  The depth limit is the documented exception.
UnsatIsRight == verdict = "unsat" /\ ~cut => ~HasModel(Root)
=============================================================================
