------------------------------- MODULE Jump -------------------------------
(***************************************************************************)
(* The length of a jump from a poised node to the next instant that needs  *)
(* a node: src/src/sat/tableau/node/jump.rs and intervals.rs.              *)
(***************************************************************************)
EXTENDS TableauNode

Unbounded == 2147483647      \* i32::MAX

\* PropositionValidityInterval: e (negated or not) may be required throughout int.
Validity(e, negated, int) == [e |-> e, negated |-> negated, int |-> int]

Plus(delta, int) == Span(delta.lower + int.lower, delta.upper + int.upper)

\* proposition_full_interval
FullIntervals[f \in Formula] == [delta \in Times |->
    IF IsLiteral(f) THEN {Validity(ExprOf(f), f.op = "not", delta)}
    ELSE IF f.op \in {"and", "or"} THEN UNION {FullIntervals[f.args[i]][delta] : i \in DOMAIN f.args}
    ELSE IF f.op = "imply" THEN FullIntervals[f.notLeft][delta] \cup FullIntervals[f.right][delta]
    ELSE IF f.op \in {"G", "F"} THEN FullIntervals[f.phi][Plus(delta, f.int)]
    ELSE FullIntervals[f.right][Plus(delta, f.int)]
         \cup IF f.int.lower < f.int.upper
              THEN FullIntervals[f.left][Plus(delta, Span(f.int.lower, f.int.upper - 1))]
              ELSE {}]
FullInterval(f, delta) == FullIntervals[f][delta]

\* conflicts_with: opposite occurrences of an atom, or two constraints that share
\* a variable, whatever they say about it.  Constants conflict with nothing.
Conflict(a, b) ==
    /\ a.e.var = b.e.var /\ a.e.real = b.e.real
    /\ a.e.var # ConstantVar
    /\ a.e.real \/ a.negated # b.negated
    /\ Intersects(a.int, b.int)

----------------------------------------------------------------------------
Now(node) == Span(node.time, node.time)
MarkedOps(node) == {node.ops[i] : i \in {j \in DOMAIN node.ops : node.ops[j].marked}}
\* the operands that are not the expansion of an operand of the node
Independent(node) ==
    {node.ops[i] : i \in {j \in DOMAIN node.ops : ~IsParentActive(node.ops[j], node.ops)}}

\* compute_target_set: what the postponed operands F, U and R wait for
Targets(node) ==
    UNION {CASE o.f.op = "F" -> FullInterval(o.f.phi, Now(node))
             [] o.f.op = "U" -> FullInterval(o.f.right, Now(node))
             [] o.f.op = "R" -> FullInterval(o.f.left, Now(node))
             [] OTHER -> {}
           : o \in MarkedOps(node)}

\* compute_obstacle_set
Obstacles(node) ==
    UNION {FullInterval(o.f, IF IsLiteral(o.f) THEN Now(node) ELSE Span(0, 0))
           : o \in Independent(node)}

\* compute_n: what the postponed operands need at every instant
Needs(node) ==
    UNION {CASE o.f.op = "G" -> FullInterval(o.f.phi, Now(node))
             [] o.f.op = "U" -> FullInterval(o.f.left, Now(node))
             [] o.f.op = "R" -> FullInterval(o.f.right, Now(node))
             [] OTHER -> {}
           : o \in MarkedOps(node)}

\* compute_o
Others(node) == UNION {FullInterval(o.f, Span(0, 0)) : o \in Independent(node)}

Pairs(S, T) == {p \in S \X T : p[1].e.id # p[2].e.id}

\* completeness_jump_bound
MustStep(targets, obstacles) == \E p \in Pairs(targets, obstacles) : Conflict(p[1], p[2])

Gaps(needs, others) == {p[2].int.lower - p[1].int.upper : p \in Pairs(needs, others)}

\* Mutant: no pair that shares an instant forbids a jump.
SoundBoundUnguarded(needs, others) ==
    Min({Unbounded} \cup {gap \in Gaps(needs, others) : gap > 1})

\* soundness_jump_bound: 1 as soon as some pair demands it
SoundBound(needs, others) ==
    IF 1 \in Gaps(needs, others) \/ MustStep(needs, others)
    THEN 1
    ELSE Min({Unbounded} \cup {gap \in Gaps(needs, others) : gap > 1})

\* compute_k: up to the next bound of a temporal operand
Bounds(node) ==
    UNION {{node.ops[i].f.int.lower, node.ops[i].f.int.upper} :
              i \in {j \in DOMAIN node.ops : IsTemporal(node.ops[j].f)}}
MaxJump(node) ==
    LET later == {b \in Bounds(node) : b > node.time}
    IN  IF later = {} THEN Unbounded ELSE Min(later) - node.time

\* Mutant: the completeness bound is forgotten.
KStarIncomplete(node) ==
    IF MaxJump(node) <= 1 THEN 1 ELSE Lesser(MaxJump(node), SoundBound(Needs(node), Others(node)))

\* calculate_k_star
KStar(node) ==
    CASE MaxJump(node) <= 1 -> 1
      [] MaxJump(node) > 1 /\ MustStep(Targets(node), Obstacles(node)) -> 1
      [] OTHER -> Lesser(MaxJump(node), SoundBound(Needs(node), Others(node)))
=============================================================================
