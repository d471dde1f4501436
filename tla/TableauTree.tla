---------------------------- MODULE TableauTree ----------------------------
(***************************************************************************)
(* The tableaux that the rules of Decompose build for given formulas.      *)
(***************************************************************************)
EXTENDS Decompose, NodeMeaning, RejectedStore

CONSTANTS
    Formulas,       \* the normalised root formulas, each a sequence of conjuncts
    Built           \* their tableaux: AllTableaux, a constant that TLC computes once

----------------------------------------------------------------------------
(* The tableaux.  Each is listed once, breadth first, and a node is named  *)
(* by the numbers of its formula and of its place in that list.            *)
NewNodes(nodes, found) ==
    LET known == ToSet(nodes)
        new == SelectSeq([i \in DOMAIN found |-> i],
                         LAMBDA i : /\ found[i] \notin known
                                    /\ \A j \in 1 .. i - 1 : found[j] # found[i])
    IN  [k \in DOMAIN new |-> found[new[k]]]

Place(nodes, n) == CHOOSE i \in DOMAIN nodes : nodes[i] = n

\* The nodes of a tableau and the places of their children, from some of the nodes
\* and the children of the first of these.  ( \o <<>> makes TLC list a sequence once.)
RECURSIVE Grow(_, _)
Grow(nodes, kids) ==
    IF Len(kids) = Len(nodes)
    THEN [nodes |-> nodes,
          kids |-> [i \in DOMAIN nodes |->
                       [c \in DOMAIN kids[i] |-> Place(nodes, kids[i][c])] \o <<>>] \o <<>>]
    ELSE LET more == [i \in 1 .. Len(nodes) - Len(kids) |-> Decompose(nodes[Len(kids) + i])] \o <<>>
         IN  Grow(nodes \o NewNodes(nodes, FlattenSeq(more)), kids \o more)

----------------------------------------------------------------------------
\* The nodes from which full children lead to a leaf through consistent nodes
RECURSIVE Accepting(_, _, _)
Accepting(nodes, kids, open) ==
    LET more == {i \in DOMAIN nodes \ open :
                    /\ \/ kids[i] = <<>>
                       \/ \E c \in ToSet(kids[i]) \cap open : ~nodes[c].simple
                    /\ Satisfied(LiteralsOf(nodes[i]))}
    IN  IF more = {} THEN open ELSE Accepting(nodes, kids, open \cup more)

\* The nodes to which full children lead from the newest of those that were found
RECURSIVE Reached(_, _, _, _)
Reached(nodes, kids, found, newest) ==
    LET more == {c \in UNION {ToSet(kids[i]) : i \in newest} : ~nodes[c].simple} \ found
    IN  IF more = {} THEN found ELSE Reached(nodes, kids, found \cup more, more)

\* The nodes above those that already have a rank: the length of the longest way
\* down from a node
RECURSIVE Ranked(_, _, _)
Ranked(kids, ranks, rank) ==
    LET more == {i \in DOMAIN kids \ DOMAIN ranks : ToSet(kids[i]) \subseteq DOMAIN ranks}
    IN  IF more = {} THEN ranks ELSE Ranked(kids, ranks @@ [i \in more |-> rank], rank + 1)

Tableau(conjuncts) ==
    LET grown == Grow(<< RootNode(conjuncts) >>, <<>>)
    IN  [nodes |-> grown.nodes, kids |-> grown.kids,
         rank |-> Ranked(grown.kids, <<>>, 0),
         open |-> Accepting(grown.nodes, grown.kids, {}),
         under |-> [i \in DOMAIN grown.nodes |->
                       Reached(grown.nodes, grown.kids, {i}, {i})] \o <<>>]
Tableaux == [k \in DOMAIN Formulas |-> Tableau(Formulas[k])] \o <<>>

\* The value of Built.  (Behind a LET, TLC's coverage does not descend into it.)
AllTableaux == LET tableaux == Tableaux IN tableaux
=============================================================================
