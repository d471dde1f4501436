-------------------------- MODULE MCTableauSearch --------------------------
(***************************************************************************)
(* Hand-made tableaux for TableauSearch.  A tree is a shape together with  *)
(* the set of its leaves that are contradictory; a node is a tree and an   *)
(* index.  The shapes put disjunctions, jumps to a later instant, simple   *)
(* nodes and repeated (memoizable) nodes in the orders in which the        *)
(* results of the branches meet.                                           *)
(***************************************************************************)
EXTENDS TableauProtocol, SequencesExt

\* kids[i]: children of node i; time[i]; simple: the simple nodes; lits: inner
\* nodes that hold a literal; same: nodes with the same operands; merged: poised nodes
\* that rewrite_chain replaces at the same instant.
Disjunction ==
    [kids   |-> << <<2, 3, 4>>, <<5>>, <<6>>, <<7>>, <<8, 9>>, <<10>>, <<11>>,
                   <<>>, <<>>, <<>>, <<>> >>,
     time   |-> << 0, 0, 0, 0, 1, 1, 1, 1, 1, 1, 1 >>,
     simple |-> {}, lits |-> {2, 3}, same |-> {5, 6, 7}, merged |-> {}]

SimpleFirst ==
    [kids   |-> << <<2, 3>>, <<4, 5>>, <<6, 7>>, <<>>, <<8>>, <<>>, <<9>>,
                   <<10>>, <<11>>, <<>>, <<>> >>,
     time   |-> << 0, 1, 1, 1, 1, 1, 1, 2, 2, 2, 2 >>,
     simple |-> {2}, lits |-> {1, 5, 7}, same |-> {8, 9}, merged |-> {}]

NestedSimple ==
    [kids   |-> << <<2, 3>>, <<>>, <<4, 5>>, <<6, 7>>, <<8>>, <<12, 13>>, <<14>>,
                   <<9, 10>>, <<11>>, <<14, 15>>, <<>>, <<>>, <<>>, <<>>, <<>> >>,
     time   |-> << 0, 0, 0, 1, 1, 2, 2, 1, 2, 2, 2, 2, 2, 2, 2 >>,
     simple |-> {4, 6, 9}, lits |-> {3, 8}, same |-> {7, 10}, merged |-> {5}]

\* A deep branch before a shallow one: the depth limit meets only the first, and no
\* branch of the shapes above.
DeepFirst ==
    [kids   |-> << <<2, 3>>, <<4>>, <<>>, <<5>>, <<6>>, <<7>>, <<8, 9>>, <<>>, <<>> >>,
     time   |-> << 0, 0, 0, 0, 0, 0, 0, 0, 0 >>,
     simple |-> {}, lits |-> {}, same |-> {}, merged |-> {}]

\* The shallow branch before the deep one: what is cut makes the answer unknown.
DeepLast == [DeepFirst EXCEPT !.kids[1] = <<3, 2>>]

\* The root alone: solve_root answers without entering the loop.
RootOnly ==
    [kids   |-> << <<>> >>, time |-> <<0>>,
     simple |-> {}, lits |-> {}, same |-> {}, merged |-> {}]

Shape == <<Disjunction, SimpleFirst, NestedSimple, DeepFirst, DeepLast, RootOnly>>
Kids(k, i) == Shape[k].kids[i]
Leaves(k) == {i \in DOMAIN Shape[k].kids : Kids(k, i) = <<>>}
FullKids(k, i) == ToSet(Kids(k, i)) \ Shape[k].simple
SimpleKids(k, i) == ToSet(Kids(k, i)) \cap Shape[k].simple

\* The meaning of the nodes of shape k when the leaves in bad are contradictory.
\* A child has a larger index than its parent.
Meaning(k, bad) ==
    LET sat[i \in DOMAIN Shape[k].kids] ==
            IF Kids(k, i) = <<>> THEN i \notin bad ELSE \E j \in FullKids(k, i) : sat[j]
    IN  {i \in DOMAIN Shape[k].kids : sat[i]}

\* A simple node is a weakening of the full node it comes with.
WellFormed(k, bad) ==
    LET m == Meaning(k, bad) IN
    \A i \in m : SimpleKids(k, i) \subseteq m

\* A tree is a shape and its contradictory leaves; a node is a tree and an index.
\* ({x : x \in S} makes TLC list the elements of a union.)
Trees == {t : t \in UNION {{<<k, bad>> : bad \in {b \in SUBSET Leaves(k) : WellFormed(k, b)}} :
                                k \in DOMAIN Shape}}
NodesOf(k) == DOMAIN Shape[k].kids

AllNodes == {n : n \in UNION {{<<t[1], t[2], i>> : i \in NodesOf(t[1])} : t \in Trees}}
AllRoots == {<<t[1], t[2], 1>> : t \in Trees}
OpenNodes == {n \in AllNodes : n[3] \in Meaning(n[1], n[2])}

\* A constant replaced in the .cfg by a definition has that definition's body
\* evaluated at each use; a name for an evaluated set costs nothing.
MCNodes == AllNodes
MCRoots == AllRoots

ShapeOf(n) == Shape[n[1]]
MCTime(n) == ShapeOf(n).time[n[3]]
MCSimple(n) == n[3] \in ShapeOf(n).simple
MCLeaf(n) == ShapeOf(n).kids[n[3]] = <<>>
MCChildren(n) == [k \in DOMAIN ShapeOf(n).kids[n[3]] |-> <<n[1], n[2], ShapeOf(n).kids[n[3]][k]>>]
MCPoised(n) ==
    \/ n[3] \in ShapeOf(n).merged
    \/ \A k \in ToSet(ShapeOf(n).kids[n[3]]) : ShapeOf(n).time[k] > MCTime(n)
MCOpen(n) == n \in OpenNodes

MCUnder(n) ==
    LET under[i \in NodesOf(n[1])] == {i} \cup UNION {under[j] : j \in FullKids(n[1], i)}
    IN  {<<n[1], n[2], i>> : i \in under[n[3]]}

\* A contradictory leaf holds a literal and its negation.
MCLiterals(n) ==
    CASE MCLeaf(n) -> IF n[3] \in n[2] THEN {"p", "!p"} ELSE {"p"}
      [] ~MCLeaf(n) -> IF n[3] \in ShapeOf(n).lits THEN {"p"} ELSE {}
MCConsistent(S) == ~({"p", "!p"} \subseteq S)
MCCores(S) == {S} \ {{}}

\* Nodes with the same operands cover each other, whether that is sound or not.
MCCovers(n, m) ==
    /\ n[1] = m[1] /\ n[2] = m[2]
    /\ n = m \/ {n[3], m[3]} \subseteq ShapeOf(n).same
=============================================================================
