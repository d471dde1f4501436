--------------------------- MODULE RejectedStore ---------------------------
(***************************************************************************)
(* The implication test of the memo store: src/src/sat/tableau/store.rs.   *)
(* A RejectedNode is the operand formulas of a node and its time.          *)
(***************************************************************************)
EXTENDS TableauNode

\* Formula::quick_implies: f, seen from time t, implies g, seen from time u.
QuickImplies(f, g, t, u) ==
    \/ ~IsTemporal(f) /\ ~IsTemporal(g) /\ f = g
    \/ /\ f.op = g.op /\ f.op \in {"G", "F"}
       /\ f.phi = g.phi
       /\ HasShiftLeft(f.int, t) /\ HasShiftLeft(g.int, u)
       /\ IF f.op = "G" THEN Includes(ShiftLeft(f.int, t), ShiftLeft(g.int, u))
                        ELSE Includes(ShiftLeft(g.int, u), ShiftLeft(f.int, t))

ImpliesFrom(node, rejected, time) ==
    \A j \in DOMAIN rejected.ops : \E i \in DOMAIN node.ops :
        QuickImplies(node.ops[i].f, rejected.ops[j].f, time, rejected.time)

\* The later instants from which RejectedNode::implies compares as well
LowerBounds(node) ==
    {node.ops[i].f.int.lower : i \in {j \in DOMAIN node.ops :
        IsTemporal(node.ops[j].f) /\ node.ops[j].f.int.lower > node.time}}

\* RejectedNode::implies
Implies(node, rejected) ==
    \E time \in {node.time} \cup LowerBounds(node) : ImpliesFrom(node, rejected, time)
=============================================================================
