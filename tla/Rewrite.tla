------------------------------ MODULE Rewrite ------------------------------
(***************************************************************************)
(* The rewriting of a node's operands before it is decomposed:             *)
(* src/src/sat/tableau/node/rewrite.rs.                                    *)
(***************************************************************************)
EXTENDS TableauNode

\* What the merges compare: the operand formula and the parent, not the mark.
SameKey(a, b) == a.f.op = b.f.op /\ a.f.phi = b.f.phi /\ a.parent = b.parent

FirstWithKey(ops, i) == Min({j \in 1 .. i : SameKey(ops[j], ops[i])})

Without(ops, gone) ==
    LET kept == SelectSeq([i \in DOMAIN ops |-> i], LAMBDA i : i \notin gone)
    IN  [k \in DOMAIN kept |-> ops[kept[k]]]

BothAhead(i, j, time) == HasShiftLeft(i, time) /\ HasShiftLeft(j, time)

----------------------------------------------------------------------------
(* merge_globally: G operands over the same formula whose remaining        *)
(* intervals meet become one.  The first with a key collects the others.   *)
Mergeable(i, j, time) ==
    /\ BothAhead(i, j, time)
    /\ LET a == ShiftLeft(i, time)
           b == ShiftLeft(j, time)
       IN  Intersects(a, b) \/ Contiguous(a, b)

CollectGlobally(ops, time, merged, i) ==
    IF ops[i].f.op # "G" THEN merged
    ELSE LET first == FirstWithKey(ops, i)
         IN  IF first # i /\ Mergeable(merged.int[first], ops[i].f.int, time)
             THEN [int  |-> [merged.int EXCEPT ![first] = Union(@, ops[i].f.int)],
                   gone |-> merged.gone \cup {i}]
             ELSE merged

Globally(ops, time) ==
    FoldLeft(LAMBDA merged, i : CollectGlobally(ops, time, merged, i),
             [int  |-> [i \in {j \in DOMAIN ops : ops[j].f.op = "G"} |-> ops[i].f.int],
              gone |-> {}],
             [i \in DOMAIN ops |-> i])

MergeGlobally(ops, time) ==
    LET merged == Globally(ops, time)
    IN  Without([i \in DOMAIN ops |->
                    IF ops[i].f.op = "G" THEN [ops[i] EXCEPT !.f.int = merged.int[i]] ELSE ops[i]],
                merged.gone)

----------------------------------------------------------------------------
(* merge_finally: of two F operands over the same formula the one with the *)
(* larger remaining interval goes.  kept is the operand a key stands for.  *)
CollectFinally(ops, time, merged, i) ==
    IF ops[i].f.op # "F" THEN merged
    ELSE LET first == FirstWithKey(ops, i)
             kept  == merged.kept[first]
             a     == ShiftLeft(ops[i].f.int, time)
             b     == ShiftLeft(ops[kept].f.int, time)
         IN  CASE first = i \/ ~BothAhead(ops[i].f.int, ops[kept].f.int, time) -> merged
               [] Includes(a, b) -> [merged EXCEPT !.gone = @ \cup {i}]
               [] Includes(b, a) -> [kept |-> [merged.kept EXCEPT ![first] = i],
                                     gone |-> merged.gone \cup {kept}]
               [] OTHER -> merged

MergeFinally(ops, time) ==
    Without(ops, FoldLeft(LAMBDA merged, i : CollectFinally(ops, time, merged, i),
                          [kept |-> [i \in DOMAIN ops |-> i], gone |-> {}],
                          [i \in DOMAIN ops |-> i]).gone)

----------------------------------------------------------------------------
(* rewrite_globally_finally: an active G F gives up its first two instants *)
(* for one disjunction.                                                    *)
Unfoldable(operand, time) ==
    /\ operand.f.op = "G"
    /\ time + 2 <= operand.f.int.upper
    /\ operand.f.phi.op = "F"
    /\ operand.f.phi.int.lower < operand.f.phi.int.upper
    /\ IsActive(operand, time)

FirstTwo(phi, time) ==
    LET a == time + phi.int.lower
        b == time + phi.int.upper
    IN  Or(<< F(a + 1, b, phi.phi), And(<< F(a, a, phi.phi), F(b + 1, b + 1, phi.phi) >>) >>)

RewriteGloballyFinally(ops, time) ==
    LET unfolded == SelectSeq(ops, LAMBDA o : Unfoldable(o, time))
    IN  [i \in DOMAIN ops |->
            IF Unfoldable(ops[i], time)
            THEN Operand(G(time + 2, ops[i].f.int.upper, ops[i].f.phi), 0)
            ELSE ops[i]]
        \o [k \in DOMAIN unfolded |-> Operand(FirstTwo(unfolded[k].f.phi, time), 0)]

----------------------------------------------------------------------------
\* One round of the loop of rewrite_chain: the first rewriting that applies.
RewriteOnce(ops, time) ==
    LET globally == MergeGlobally(ops, time)
        finally == MergeFinally(ops, time)
        unfolded == RewriteGloballyFinally(ops, time)
    IN  CASE Len(globally) < Len(ops) -> globally
          [] Len(globally) = Len(ops) /\ Len(finally) < Len(ops) -> finally
          [] Len(globally) = Len(ops) /\ Len(finally) = Len(ops) /\ Len(unfolded) > Len(ops) -> unfolded
          [] OTHER -> ops

\* The loop, until none applies.  A merge drops a G or an F, an unfolding adds neither,
\* and between two unfoldings there is a merge, so the last of these rounds changes nothing.
Rewritten(ops, time) ==
    LET round[i \in 0 .. 2 * Len(ops) + 2] ==
            IF i = 0 THEN ops ELSE RewriteOnce(round[i - 1], time)
    IN  round[2 * Len(ops) + 2]

\* rewrite_chain; the same operands again stand for None.
RewriteChain(node) == WithOperands(node, Rewritten(node.ops, node.time))
RewriteChanges(node) == Rewritten(node.ops, node.time) # node.ops
=============================================================================
