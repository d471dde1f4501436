----------------------------- MODULE UnsatCore -----------------------------
(***************************************************************************)
(* UnsatCore of src/src/sat/tableau/core.rs: the ids of occurrences that   *)
(* the solvers blame are traced back to operands of the root.              *)
(***************************************************************************)
EXTENDS TableauNode

RECURSIVE Occurrences(_)
Occurrences(f) ==
    IF f.op = "prop" THEN {f.e.id} ELSE UNION {Occurrences(g) : g \in Operands(f)}

Holders(node, id) == {i \in DOMAIN node.ops : id \in Occurrences(node.ops[i].f)}

\* The map keeps one operand for an id: of several the last.
IndexOf(node, id) == Max(Holders(node, id))

\* get_unsat_core: the operands of the root that are printed
CoreOperands(node, ids) ==
    {IndexOf(node, id) : id \in {x \in ids : Holders(node, x) # {}}}
=============================================================================
