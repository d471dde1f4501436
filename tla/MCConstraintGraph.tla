------------------------- MODULE MCConstraintGraph -------------------------
(***************************************************************************)
(* Every graph on three vertices that has at most four of five edges - a   *)
(* cycle through all of them, one through two and a loop - and whose       *)
(* constraints are x - y <= -1, x - y < 0 or x - y <= 1.                   *)
(***************************************************************************)
EXTENDS ConstraintGraph

MCVertices == {"x", "y", "z"}
MCEdges == {<<"x", "y">>, <<"y", "z">>, <<"z", "x">>, <<"y", "x">>, <<"x", "x">>}
MCWeights == {[c |-> -1, k |-> 0], [c |-> 0, k |-> 1], [c |-> 1, k |-> 0]}
MCGraphs == UNION {[E -> MCWeights] : E \in {S \in SUBSET MCEdges : Cardinality(S) <= 4}}
=============================================================================
