----------------------------- MODULE Decompose -----------------------------
(***************************************************************************)
(* Tableau::decompose of src/src/sat/tableau/node/decompose.rs: the nodes  *)
(* that a node branches into, <<>> for None.                               *)
(***************************************************************************)
EXTENDS Rewrite, Jump

CONSTANTS
    FormulaOptimizations,   \* the fields of TableauOptions of the same names
    JumpRuleEnabled,
    SimpleFirst

ASSUME RuleOptionsAssumption ==
    {FormulaOptimizations, JumpRuleEnabled, SimpleFirst} \subseteq BOOLEAN

\* Every operand replaced by the sequence Expand gives for it
FlatMap(Expand(_), ops) == FlattenSeq([i \in DOMAIN ops |-> Expand(ops[i])])

----------------------------------------------------------------------------
\* decompose_and: all conjunctions at once, one level deep
SplitAnd(o) ==
    IF o.f.op = "and" THEN [k \in DOMAIN o.f.args |-> Operand(o.f.args[k], o.parent)] ELSE <<o>>
DecomposeAnd(node) == << WithOperands(node, FlatMap(SplitAnd, node.ops)) >>

\* decompose_g: all active G at once; G itself is kept, marked, unless this is its
\* last instant.
Unexpanded(o, time) == ~o.marked /\ IsTemporal(o.f) /\ Active(o.f.int, time)
\* Mutant: the instant before the last one is taken for the last one.
ExpandGOneTooFew(o, time) ==
    LET now == Operand(Expansion(o.f.phi, time), o.id)
    IN  IF time + 1 < o.f.int.upper THEN << Marked(o), now >> ELSE << now >>

ExpandG(o, time) ==
    LET now == Operand(Expansion(o.f.phi, time), o.id)
    IN  IF time < o.f.int.upper THEN << Marked(o), now >> ELSE << now >>
DecomposeG(node) ==
    << WithOperands(node,
          FlatMap(LAMBDA o : IF o.f.op = "G" /\ Unexpanded(o, node.time)
                             THEN ExpandG(o, node.time) ELSE <<o>>,
                  node.ops)) >>

DecomposeOr(node, i) ==
    LET o == node.ops[i]
    IN  [k \in DOMAIN o.f.args |-> Replace(node, i, << Operand(o.f.args[k], o.parent) >>)]

DecomposeImply(node, i) ==
    LET o == node.ops[i]
        right == Operand(o.f.right, o.parent)
    IN  << Replace(node, i, << Operand(o.f.notLeft, o.parent) >>),
           Replace(node, i, IF FormulaOptimizations
                            THEN << Operand(o.f.left, o.parent), right >>
                            ELSE << right >>) >>

\* Mutant: the last postponement is missed.
DecomposeFOneTooFew(node, i) ==
    LET o == node.ops[i]
        now == Replace(node, i, << Operand(Expansion(o.f.phi, node.time), 0) >>)
    IN  IF node.time + 1 < o.f.int.upper THEN << now, Replace(node, i, << Marked(o) >>) >> ELSE << now >>

\* decompose_f_at: now, or postponed
DecomposeF(node, i) ==
    LET o == node.ops[i]
        now == Replace(node, i, << Operand(Expansion(o.f.phi, node.time), 0) >>)
    IN  IF node.time < o.f.int.upper THEN << now, Replace(node, i, << Marked(o) >>) >> ELSE << now >>

\* decompose_u_at: right now, or left now and postponed
DecomposeU(node, i) ==
    LET o == node.ops[i]
        left == Operand(Expansion(o.f.left, node.time), o.id)
        right == Operand(Expansion(o.f.right, node.time), 0)
    IN  IF node.time < o.f.int.upper
        THEN << Replace(node, i, << right >>), Replace(node, i, << Marked(o), left >>) >>
        ELSE << Replace(node, i, << right >>) >>

\* decompose_r_at: left and right now, or right now and postponed
DecomposeR(node, i) ==
    LET o == node.ops[i]
        Right(parent) == Operand(Expansion(o.f.right, node.time), parent)
        left == Operand(Expansion(o.f.left, node.time), 0)
    IN  IF node.time < o.f.int.upper
        THEN << Replace(node, i, << left, Right(0) >>), Replace(node, i, << Marked(o), Right(o.id) >>) >>
        ELSE << Replace(node, i, << Right(o.id) >>) >>

----------------------------------------------------------------------------
\* decompose_jump: the temporal operands that reach the next instant, unmarked.
\* The operands whose body is not temporal come first, as a simple node.
JumpLength(node) == IF JumpRuleEnabled THEN KStar(node) ELSE 1

Kept(o, time) ==
    IF IsTemporal(o.f) /\ time <= o.f.int.upper THEN << [o EXCEPT !.marked = FALSE] >> ELSE <<>>

\* Mutant: an operand is dropped before its last instant.
DecomposeJumpOneTooFew(node) ==
    LET k == JumpLength(node)
        kept == FlatMap(LAMBDA o : Kept(o, node.time + k + 1), node.ops)
        next == [WithOperands(node, kept) EXCEPT !.time = node.time + k]
    IN  IF kept = <<>> THEN <<>> ELSE << next >>

DecomposeJump(node) ==
    LET k == JumpLength(node)
        kept == FlatMap(LAMBDA o : Kept(o, node.time + k), node.ops)
        next == [WithOperands(node, kept) EXCEPT !.time = node.time + k]
        easy == FlatMap(LAMBDA o : IF IsComplex(o.f) THEN <<>> ELSE <<o>>, next.ops)
        simple == [next EXCEPT !.ops = easy, !.simple = TRUE]
    IN  IF kept = <<>> THEN <<>>
        ELSE IF SimpleFirst /\ 0 < Len(easy) /\ Len(easy) < Len(kept)
        THEN << simple, next >>
        ELSE << next >>

----------------------------------------------------------------------------
Decompose(node) ==
    LET ops == node.ops
        First(Test(_)) == SelectInSeq(ops, Test)
        boolean == First(LAMBDA o : o.f.op \in {"or", "imply"})
        temporal == First(LAMBDA o : o.f.op \in {"F", "U", "R"} /\ Unexpanded(o, node.time))
    IN  IF FormulaOptimizations /\ RewriteChanges(node) THEN << RewriteChain(node) >>
        ELSE IF \E i \in DOMAIN ops : ops[i].f.op = "and" THEN DecomposeAnd(node)
        ELSE IF \E i \in DOMAIN ops : ops[i].f.op = "G" /\ Unexpanded(ops[i], node.time)
             THEN DecomposeG(node)
        ELSE IF boolean # 0
             THEN IF ops[boolean].f.op = "or" THEN DecomposeOr(node, boolean)
                  ELSE DecomposeImply(node, boolean)
        ELSE IF temporal # 0
             THEN CASE ops[temporal].f.op = "F" -> DecomposeF(node, temporal)
                    [] ops[temporal].f.op = "U" -> DecomposeU(node, temporal)
                    [] ops[temporal].f.op = "R" -> DecomposeR(node, temporal)
        ELSE DecomposeJump(node)
=============================================================================
