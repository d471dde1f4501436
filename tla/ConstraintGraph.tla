--------------------------- MODULE ConstraintGraph ---------------------------
(***************************************************************************)
(* ConstraintGraph::find_negative_cycle of src/src/sat/tableau/solver      *)
(* /dl.rs: Bellman-Ford on the graph of a set of difference constraints.   *)
(* An edge from y to x with the weight [c, k] stands for x - y <= c when k *)
(* is 0, for x - y < c when k is 1.  The edges are in a HashMap, so they   *)
(* are relaxed in an order nobody knows; here every pass may have another. *)
(* Constants are integers: a rational system scales to one.                *)
(***************************************************************************)
EXTENDS Integers, Sequences, FiniteSets

CONSTANTS
    Vertices,   \* the values of vertex_ids
    Graphs      \* the graphs under consideration, each the map of its edges

Pairs == Vertices \X Vertices
Weights == [c : Int, k : Nat]

ASSUME GraphAssumption ==
    \A g \in Graphs :
        DOMAIN g \subseteq Pairs /\ IsFiniteSet(DOMAIN g) /\ g \in [DOMAIN g -> Weights]

----------------------------------------------------------------------------
(* EdgeWeight: [c, k] is c - k * epsilon. *)
\* Mutants: strictness is left out of the comparison, or taken back.
LessByConstant(a, b) == a.c < b.c
PlusTakingBack(a, b) == [c |-> a.c + b.c, k |-> a.k - b.k]

Plus(a, b) == [c |-> a.c + b.c, k |-> a.k + b.k]
Less(a, b) == a.c < b.c \/ (a.c = b.c /\ a.k > b.k)
Zero == [c |-> 0, k |-> 0]

VARIABLES
    edges,      \* ConstraintGraph::edges
    dist, pred, \* distances and predecessors
    phase,      \* Step 2 or Step 3 of the function, or what it returned
    round,      \* the pass of Step 2
    pending,    \* the edges this pass has not seen
    updated,    \* some distance changed in this pass
    cycle       \* the negative cycle that is returned

vars == <<edges, dist, pred, phase, round, pending, updated, cycle>>

None == "none"
ASSUME VertexAssumption == None \notin Vertices

\* vertex_ids.len(): the vertices of the edges
VertexCount == Cardinality({e[1] : e \in DOMAIN edges} \cup {e[2] : e \in DOMAIN edges})

Phase == {"relax", "check", "noCycle", "cycle", "panic"}
Ended == phase \in {"noCycle", "cycle", "panic"}

TypeOK ==
    /\ edges \in Graphs
    /\ dist \in [Vertices -> Weights]
    /\ pred \in [Vertices -> Vertices \cup {None}]
    /\ phase \in Phase
    /\ round \in Nat
    /\ pending \subseteq DOMAIN edges
    /\ updated \in BOOLEAN
    /\ cycle \in Seq(Vertices)

\* All distances start at zero, as if a root had an edge of weight zero to each
\* vertex.  There is no pass at all when there is only one vertex.
Init ==
    /\ edges \in Graphs
    /\ dist = [v \in Vertices |-> Zero]
    /\ pred = [v \in Vertices |-> None]
    /\ phase = IF VertexCount > 1 THEN "relax" ELSE "check"
    /\ round = 1
    /\ pending = DOMAIN edges
    /\ updated = FALSE
    /\ cycle = <<>>

Through(e) == Plus(dist[e[1]], edges[e])
Improves(e) == Less(Through(e), dist[e[2]])

----------------------------------------------------------------------------
(* Step 2 *)
Relax(e) ==
    /\ phase = "relax" /\ e \in pending
    /\ Improves(e)
    /\ dist' = [dist EXCEPT ![e[2]] = Through(e)]
    /\ pred' = [pred EXCEPT ![e[2]] = e[1]]
    /\ updated' = TRUE
    /\ pending' = pending \ {e}
    /\ UNCHANGED <<edges, phase, round, cycle>>

Pass(e) ==
    /\ phase = "relax" /\ e \in pending
    /\ ~Improves(e)
    /\ pending' = pending \ {e}
    /\ UNCHANGED <<edges, dist, pred, phase, round, updated, cycle>>

\* Mutant: one pass is taken for enough.
NextRoundLast ==
    /\ phase = "relax" /\ pending = {} /\ updated
    /\ round' = round + 1
    /\ phase' = "check"
    /\ pending' = DOMAIN edges
    /\ updated' = FALSE
    /\ UNCHANGED <<edges, dist, pred, cycle>>

\* Mutant: passes go on until one changes nothing, and updated is never reset.
NextRoundUnbounded ==
    /\ phase = "relax" /\ pending = {} /\ updated
    /\ pending' = DOMAIN edges
    /\ UNCHANGED <<edges, dist, pred, phase, round, updated, cycle>>

\* A pass that changed something is followed by another one, or by Step 3.
NextRound ==
    /\ phase = "relax" /\ pending = {} /\ updated
    /\ round' = round + 1
    /\ phase' = IF round + 1 < VertexCount THEN "relax" ELSE "check"
    /\ pending' = DOMAIN edges
    /\ updated' = FALSE
    /\ UNCHANGED <<edges, dist, pred, cycle>>

Stable ==
    /\ phase = "relax" /\ pending = {} /\ ~updated
    /\ phase' = "noCycle"
    /\ UNCHANGED <<edges, dist, pred, round, pending, updated, cycle>>

----------------------------------------------------------------------------
(* Step 3: an edge that still improves a distance is reached from a        *)
(* negative cycle, which the predecessors lead back to.                    *)
CheckPass(e) ==
    /\ phase = "check" /\ e \in pending
    /\ ~Improves(e)
    /\ pending' = pending \ {e}
    /\ UNCHANGED <<edges, dist, pred, phase, round, updated, cycle>>

\* The vertices met from v on, going back n times; None stays where it is.
Back(p, v, n) ==
    LET at[i \in 0 .. n] ==
            IF i = 0 THEN v ELSE IF at[i - 1] = None THEN None ELSE p[at[i - 1]]
    IN  at

\* The first place of the walk whose vertex was met before, and how far back
MetBefore(at, m) == \E j \in 0 .. m - 1 : at[j] = at[m]
FirstAgain(at) ==
    CHOOSE m \in 1 .. VertexCount : MetBefore(at, m) /\ \A l \in 1 .. m - 1 : ~MetBefore(at, l)
Lap(at) == CHOOSE n \in 1 .. FirstAgain(at) : at[FirstAgain(at) - n] = at[FirstAgain(at)]

\* Mutant: the cycle is given in the order in which it is walked.
CycleUnreversed(p, v) ==
    LET at == Back(p, v, 2 * VertexCount)
    IN  [i \in 1 .. Lap(at) |-> at[FirstAgain(at) + i - 1]]

\* The cycle through the first vertex that is met twice, along its edges
CycleFrom(p, v) ==
    LET at == Back(p, v, 2 * VertexCount)
    IN  [i \in 1 .. Lap(at) |-> at[FirstAgain(at) + Lap(at) - i]]

LeadsToNone(p, v) ==
    LET at == Back(p, v, VertexCount) IN \E i \in DOMAIN at : at[i] = None

\* A missing predecessor is a panic (the two calls of expect).
FindCycle(e) ==
    /\ phase = "check" /\ e \in pending
    /\ Improves(e)
    /\ pred' = [pred EXCEPT ![e[2]] = e[1]]
    /\ IF LeadsToNone(pred', e[2])
       THEN phase' = "panic" /\ cycle' = <<>>
       ELSE phase' = "cycle" /\ cycle' = CycleFrom(pred', e[2])
    /\ UNCHANGED <<edges, dist, round, pending, updated>>

Unimproved ==
    /\ phase = "check" /\ pending = {}
    /\ phase' = "noCycle"
    /\ UNCHANGED <<edges, dist, pred, round, pending, updated, cycle>>

Next ==
    \/ \E e \in pending : Relax(e) \/ Pass(e) \/ CheckPass(e) \/ FindCycle(e)
    \/ NextRound
    \/ Stable
    \/ Unimproved
    \/ Ended /\ UNCHANGED vars

Spec == Init /\ [][Next]_vars
FairSpec == Spec /\ WF_vars(Next)

----------------------------------------------------------------------------
(* Properties *)

\* "No cycle" is right, although distances change while a pass goes on and a pass
\* that changed nothing ends the search early: the distances solve the constraints.
\* Where they solve x - y <= c with equality, a strict constraint has taken more
\* epsilons off x than off y.
Holds(e) ==
    \/ dist[e[2]].c < dist[e[1]].c + edges[e].c
    \/ /\ dist[e[2]].c = dist[e[1]].c + edges[e].c
       /\ dist[e[2]].k >= dist[e[1]].k + edges[e].k
NoCycleSolved == phase = "noCycle" => \A e \in DOMAIN edges : Holds(e)

\* The cycle that is returned runs along edges of the graph (build_unsat_core looks
\* each of them up) and has a negative weight, so its constraints are contradictory.
Following(s, i) == IF i = Len(s) THEN 1 ELSE i + 1
CycleEdges == {<<cycle[i], cycle[Following(cycle, i)]>> : i \in DOMAIN cycle}
WeightOf(g, s) ==
    LET sum[i \in 0 .. Len(s)] == IF i = 0 THEN Zero
                                  ELSE Plus(sum[i - 1], g[<<s[i], s[Following(s, i)]>>])
    IN  sum[Len(s)]
CycleNegative ==
    phase = "cycle" =>
        /\ cycle # <<>>
        /\ CycleEdges \subseteq DOMAIN edges
        /\ Less(WeightOf(edges, cycle), Zero)

\* The walk back along the predecessors never runs out of them.
NeverPanics == phase # "panic"

\* The search ends.
Terminates == <>Ended
=============================================================================
