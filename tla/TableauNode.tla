---------------------------- MODULE TableauNode ----------------------------
(***************************************************************************)
(* Node and NodeFormula of src/src/sat/tableau/node/mod.rs.  An operand id *)
(* is a counter value in the code; here it is unique within its node,      *)
(* which is where parent ids are looked up.  Id 0 is None.                 *)
(***************************************************************************)
EXTENDS Formula, SequencesExt

\* NodeFormula::from(f).with_parent_id(parent); the id is given by WithOperands.
Operand(f, parent) == [f |-> f, marked |-> FALSE, parent |-> parent, id |-> 0]
Marked(operand) == [operand EXCEPT !.marked = TRUE]

LastId(ops) == Max({0} \cup UNION {{ops[i].id, ops[i].parent} : i \in DOMAIN ops})

\* Node { operands: ops, ..node.clone() }: the clone is not a simple node.
WithOperands(node, ops) ==
    [node EXCEPT !.simple = FALSE,
                 !.ops = [i \in DOMAIN ops |->
                             IF ops[i].id = 0
                             THEN [ops[i] EXCEPT !.id = LastId(node.ops) + i]
                             ELSE ops[i]]]

\* node.operands[i] replaced by the sequence new
Replace(node, i, new) ==
    WithOperands(node, SubSeq(node.ops, 1, i - 1) \o new \o SubSeq(node.ops, i + 1, Len(node.ops)))

IsActive(operand, time) == IsTemporal(operand.f) => Active(operand.f.int, time)

IsParentActive(operand, ops) == \E i \in DOMAIN ops : ops[i].id = operand.parent

IsPoised(node) ==
    \A i \in DOMAIN node.ops :
        \/ IsLiteral(node.ops[i].f)
        \/ node.ops[i].marked
        \/ ~IsActive(node.ops[i], node.time)

\* Node::from_operands, for the conjuncts of a normalised formula
RootNode(fs) ==
    [ops |-> [i \in DOMAIN fs |-> [Operand(fs[i], 0) EXCEPT !.id = i]],
     time |-> 0, simple |-> FALSE]
=============================================================================
