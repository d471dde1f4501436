---------------------------- MODULE NodeMeaning ----------------------------
(***************************************************************************)
(* The meaning of a node: what its operands, whose intervals are absolute, *)
(* still demand of a signal from the node's instant on, and what its       *)
(* literals leave of it.                                                   *)
(***************************************************************************)
EXTENDS TableauNode

Instants(int, from) == Greater(int.lower, from) .. int.upper

Demand(f, sig, now, from, demanded) ==
    \/ IsLiteral(f) /\ Holds(sig, now, f)
    \/ f.op = "and" /\ \A i \in DOMAIN f.args : demanded[f.args[i]]
    \/ f.op = "or" /\ \E i \in DOMAIN f.args : demanded[f.args[i]]
    \/ f.op = "imply" /\ (demanded[f.left] => demanded[f.right])
    \/ f.op = "G" /\ \A i \in Instants(f.int, from) : Holds(sig, i, f.phi)
    \/ f.op = "F" /\ \E i \in Instants(f.int, from) : Holds(sig, i, f.phi)
    \/ f.op = "U" /\ \E i \in Instants(f.int, from) :
                        /\ Holds(sig, i, f.right)
                        /\ \A j \in Instants(f.int, from) : j < i => Holds(sig, j, f.left)
    \/ f.op = "R" /\ \A i \in Instants(f.int, from) :
                        \/ Holds(sig, i, f.right)
                        \/ \E j \in Instants(f.int, from) : j < i /\ Holds(sig, j, f.left)
Demanded(sig, now, from) ==
    LET demanded[f \in Formula] == Demand(f, sig, now, from, demanded) IN demanded
Demands(sig, f, now, from) == Demanded(sig, now, from)[f]

Models(sig, n) ==
    \A i \in DOMAIN n.ops :
        Demands(sig, n.ops[i].f, n.time, IF n.ops[i].marked THEN n.time + 1 ELSE n.time)

NodeVars(n) == UNION {Vars[n.ops[i].f] : i \in DOMAIN n.ops}
End(n) == Max({n.time} \cup {Horizon[n.ops[i].f] : i \in DOMAIN n.ops})
Signals(n) == [n.time .. End(n) -> Valuations(NodeVars(n))]

HasModel(n) == \E sig \in Signals(n) : Models(sig, n)

\* g says the opposite of f.
Opposite(f, g) ==
    \A sig \in [0 .. Greater(Horizon[f], Horizon[g]) -> Valuations(Vars[f] \cup Vars[g])] :
        Holds(sig, 0, g) <=> ~Holds(sig, 0, f)

\* What the rules rely on in a formula: negations stand at propositions, no junction
\* is empty, intervals are proper, and an implication comes with the opposite of its
\* left operand.
Coherent[f \in Formula] ==
    /\ f.op = "not" => f.phi.op = "prop"
    /\ f.op \in {"and", "or"} => f.args # <<>>
    /\ IsTemporal(f) => f.int \in Interval
    /\ f.op = "imply" => Opposite(f.left, f.notLeft)
    /\ \A g \in Operands(f) : Coherent[g]

\* A literal, by the values it leaves its variable.  get_assertion finds nothing to
\* assert in the negation of another formula than a proposition.
LiteralOf(f) ==
    LET e == ExprOf(f)
    IN  [var |-> e.var, vals |-> IF f.op = "prop" THEN e.holds ELSE Values(e.var) \ e.holds]
LiteralsOf(node) ==
    {LiteralOf(node.ops[i].f) : i \in {j \in DOMAIN node.ops : HasExpr(node.ops[j].f)}}

Satisfied(S) ==
    \A var \in {l.var : l \in S} : \E v \in Values(var) : \A l \in S : l.var = var => v \in l.vals
=============================================================================
