----------------------------- MODULE Transform -----------------------------
(***************************************************************************)
(* The formula transformers of src/src/formula/transform.rs that bring a   *)
(* parsed formula into the form the tableau works on.  A transformer is a  *)
(* function over the formulas; XOf(f, x) is what the visitor x makes of f. *)
(***************************************************************************)
EXTENDS Formula, SequencesExt

\* RecursiveFormulaTransformer: an operator that a visitor does not override keeps
\* its shape around visited operands.  ( \o <<>> makes TLC list a sequence once.)
Visited(f, of) ==
    CASE f.op = "prop" -> f
      [] f.op \in {"and", "or"} ->
            [f EXCEPT !.args = [i \in DOMAIN f.args |-> of[f.args[i]]] \o <<>>]
      [] f.op \in {"not", "G", "F"} -> [f EXCEPT !.phi = of[@]]
      [] f.op \in {"U", "R"} -> [f EXCEPT !.left = of[@], !.right = of[@]]
      [] f.op = "imply" -> Imply(of[f.left], of[f.right], of[f.notLeft])

Over(op, int, phi) == [op |-> op, int |-> int, phi |-> phi]

----------------------------------------------------------------------------
(* NegationNormalFormTransformer *)
DualOf(op) ==
    CASE op = "and" -> "or" [] op = "or" -> "and"
      [] op = "G" -> "F" [] op = "F" -> "G"
      [] op = "U" -> "R" [] op = "R" -> "U"

Dual(f) == [f EXCEPT !.op = DualOf(f.op)]

\* Mutant: a negation is pushed over one operator and left there.
NnfOnceOf(f, nnf) ==
    IF f.op = "not" /\ f.phi.op \in {"and", "or", "G", "F", "U", "R"}
    THEN Visited(Dual(f.phi), [g \in Operands(f.phi) |-> Not(g)])
    ELSE f

\* The left part of a negated implication is not visited.
NnfOf(f, nnf) ==
    IF f.op # "not" THEN Visited(f, nnf)
    ELSE IF f.phi.op = "not" THEN nnf[f.phi.phi]
    ELSE IF f.phi.op = "prop" THEN f
    ELSE IF f.phi.op = "imply" THEN And(<< f.phi.left, nnf[Not(f.phi.right)] >>)
    ELSE Visited(Dual(f.phi), [g \in Operands(f.phi) |-> nnf[Not(g)]])
Nnf[f \in Formula] == NnfOf(f, Nnf)

\* DupeFormula: occurrences with ids of their own
DupeOffset == 50
DupeOf(f, dupe) == IF f.op = "prop" THEN [f EXCEPT !.e.id = @ + DupeOffset] ELSE Visited(f, dupe)
Dupe[f \in Formula] == DupeOf(f, Dupe)

\* Mutant: the left part is duplicated and not negated.
ImplicationUndualed(left, right) == Imply(left, right, Nnf[Dupe[left]])

\* Formula::imply
Implication(left, right) == Imply(left, right, Nnf[Not(Dupe[left])])

----------------------------------------------------------------------------
(* STLTransformer: until and release of STL, whose left part counts from   *)
(* the present on, by those of MLTL, where it counts from the lower bound. *)

\* Mutant: the left part is only asked for before the lower bound.
MltlUntilOpen(int, left, right) ==
    And(<< G(0, int.lower, left), U(int.lower, int.upper, left, right) >>)

MltlUntil(int, left, right) ==
    And(<< G(0, int.lower, left), U(int.lower, int.upper, left, And(<< left, right >>)) >>)

MltlRelease(int, left, right) ==
    Or(<< F(0, int.lower, left), U(int.lower, int.upper, right, left), Over("G", int, right) >>)

MltlOf(f, mltl) ==
    IF f.op = "U" THEN MltlUntil(f.int, mltl[f.left], mltl[f.right])
    ELSE IF f.op = "R" THEN MltlRelease(f.int, mltl[f.left], mltl[f.right])
    ELSE Visited(f, mltl)
Mltl[f \in Formula] == MltlOf(f, Mltl)

----------------------------------------------------------------------------
(* FlatTransformer *)
Spliced(op, fs) == FlattenSeq([i \in DOMAIN fs |-> IF fs[i].op = op THEN fs[i].args ELSE << fs[i] >>])

\* Mutant: conjunctions are flattened, disjunctions are not.
FlatJunctionAnd(f) == IF f.op = "and" THEN [f EXCEPT !.args = Spliced(f.op, @)] ELSE f

FlatJunction(f) == IF f.op \in {"and", "or"} THEN [f EXCEPT !.args = Spliced(f.op, @)] ELSE f

FlatOf(f, flat) == FlatJunction(Visited(f, flat))
Flat[f \in Formula] == FlatOf(f, Flat)

----------------------------------------------------------------------------
(* ShiftBoundsTransformer: what the operands of a temporal operator wait   *)
(* for in common moves into its own interval.                              *)
NoShift == -1           \* None, which is less than any bound

\* Mutant: the largest of the shifts.
LeastGreatest(shifts) == Max(shifts)

Least(shifts) == Min(shifts)

GetShiftOf(f, getShift) ==
    IF f.op \in {"and", "or", "imply"} /\ Operands(f) # {}
    THEN Least({getShift[g] : g \in Operands(f)})
    ELSE IF IsTemporal(f) THEN f.int.lower
    ELSE NoShift
GetShift[f \in Formula] == GetShiftOf(f, GetShift)

CommonShift(f) == Least({GetShift[g] : g \in Operands(f)})

\* ShiftBackwardTransformer, which does not enter temporal operators
ShiftBackwardOf(f, shift, back) ==
    IF IsTemporal(f) THEN [f EXCEPT !.int = ShiftLeft(@, shift)] ELSE Visited(f, back)
ShiftBackward(shift) ==
    LET back[f \in Formula] == ShiftBackwardOf(f, shift, back) IN back

MoveShift(f) ==
    LET shift == CommonShift(f)
    IN  IF shift = NoShift THEN f
        ELSE Visited([f EXCEPT !.int = ShiftRight(@, shift)], ShiftBackward(shift))

ShiftBoundsOf(f, shiftBounds) ==
    LET visited == Visited(f, shiftBounds)
    IN  IF IsTemporal(f) THEN MoveShift(visited) ELSE visited
ShiftBounds[f \in Formula] == ShiftBoundsOf(f, ShiftBounds)

\* ShiftForwardTransformer
ShiftForwardOf(f, shift, forward) ==
    IF IsTemporal(f) THEN [f EXCEPT !.int = ShiftRight(@, shift)]
    ELSE IF IsLiteral(f) THEN F(shift, shift, f)
    ELSE Visited(f, forward)
ShiftForward(shift) ==
    LET forward[f \in Formula] == ShiftForwardOf(f, shift, forward) IN forward

----------------------------------------------------------------------------
(* FormulaSimplifier *)
True == Prop(Constant(0, TRUE))
False == Prop(Constant(0, FALSE))

AnonymousOf(f, anonymous) == IF f.op = "prop" THEN [f EXCEPT !.e.id = 0] ELSE Visited(f, anonymous)
Anonymous[f \in Formula] == AnonymousOf(f, Anonymous)

EqStructural(f, g) == Anonymous[f] = Anonymous[g]
Occurs(f, fs) == \E i \in DOMAIN fs : EqStructural(fs[i], f)
IsConstant(f) == EqStructural(f, True) \/ EqStructural(f, False)
Negates(f, g) ==
    \/ f.op = "not" /\ EqStructural(f.phi, g)
    \/ g.op = "not" /\ EqStructural(g.phi, f)

\* What an operand of a junction does not change, and what settles it
Neutral(op) == IF op = "and" THEN True ELSE False
Absorbing(op) == IF op = "and" THEN False ELSE True

\* The elements of fs at the given places
Those(fs, places) == FlattenSeq([i \in DOMAIN fs |-> IF i \in places THEN << fs[i] >> ELSE <<>>])

Unique(fs) == Those(fs, {i \in DOMAIN fs : \A j \in 1 .. i - 1 : ~EqStructural(fs[j], fs[i])})

\* A && (A || B), A && F[0,u] A and their duals
Redundant(op, f, fs) ==
    \/ f.op = DualOf(op) /\ \E i \in DOMAIN f.args : Occurs(f.args[i], fs)
    \/ /\ f.op = IF op = "and" THEN "F" ELSE "G"
       /\ f.int.lower = 0
       /\ Occurs(f.phi, fs)

SameGlobally(f, g) == f.op = "G" /\ g.op = "G" /\ EqStructural(f.phi, g.phi)

\* merge_globally_in_and: the first G over a formula takes in those that meet it.
AddGlobally(kept, f) ==
    LET alike == {k \in DOMAIN kept : SameGlobally(kept[k], f)}
        first == Min(alike)
    IN  IF alike # {} /\ (Intersects(kept[first].int, f.int) \/ Contiguous(kept[first].int, f.int))
        THEN [kept EXCEPT ![first].int = Union(@, f.int)]
        ELSE Append(kept, f)

\* merge_globally_in_or: of a G and the first one alike the wider goes.
Wider(fs) ==
    LET First(i) == Min({j \in 1 .. i : SameGlobally(fs[j], fs[i])})
        Later == {i \in DOMAIN fs : fs[i].op = "G" /\ First(i) # i}
    IN  {i \in Later : Includes(fs[i].int, fs[First(i)].int)}
        \cup {First(i) : i \in {j \in Later : /\ Includes(fs[First(j)].int, fs[j].int)
                                              /\ fs[First(j)].int # fs[j].int}}

Gathered(fs) ==
    LET gathered[n \in 0 .. Len(fs)] ==
            IF n = 0 THEN <<>> ELSE AddGlobally(gathered[n - 1], fs[n])
    IN  gathered[Len(fs)]

MergeTemporal(op, fs) == IF op = "and" THEN Gathered(fs) ELSE Those(fs, DOMAIN fs \ Wider(fs))

\* Mutant: a junction stays one although all of its operands have gone.
JoinedBare(f, fs) == IF Len(fs) = 1 THEN fs[1] ELSE [f EXCEPT !.args = fs]

\* What a junction with these operands left becomes
Joined(f, fs) ==
    IF Len(fs) = 0 THEN Neutral(f.op)
    ELSE IF Len(fs) = 1 THEN fs[1]
    ELSE [f EXCEPT !.args = fs]

\* visit_and and visit_or, for simplified operands
SimplifyJunction(f) ==
    LET unique == Unique(Spliced(f.op, f.args))
        rest == Those(unique, {i \in DOMAIN unique : ~EqStructural(unique[i], Neutral(f.op))})
        reduced == Those(rest, {i \in DOMAIN rest : ~Redundant(f.op, rest[i], rest)})
        merged == MergeTemporal(f.op, reduced)
        clash == \E i \in DOMAIN rest : rest[i].op = "not" /\ Occurs(rest[i].phi, rest)
    IN  IF Occurs(Absorbing(f.op), unique) \/ clash THEN Absorbing(f.op)
        ELSE Joined(f, merged)

Summed(i, j) == Span(i.lower + j.lower, i.upper + j.upper)
FirstInstant(int) == Span(int.lower, int.lower)

\* An operator over one instant
AtInstant(int, phi) == IF int.lower = 0 THEN phi ELSE ShiftForward(int.lower)[phi]

\* until and release that an unary operator can say, for simplified operands
AsUnary(f) ==
    IF EqStructural(f.left, IF f.op = "U" THEN False ELSE True)
    THEN Over("F", FirstInstant(f.int), f.right)
    ELSE Over(IF f.op = "U" THEN "F" ELSE "G", f.int, f.right)

\* visit_globally and visit_finally, for a simplified operand
SimplifyUnary(f, simplify) ==
    IF IsConstant(f.phi) THEN f.phi
    ELSE IF f.phi.op = f.op THEN simplify[Over(f.op, Summed(f.int, f.phi.int), f.phi.phi)]
    ELSE IF f.int.lower = f.int.upper THEN AtInstant(f.int, f.phi)
    ELSE IF f.op = "G" /\ f.phi.op = "and"
         THEN And([i \in DOMAIN f.phi.args |-> Over("G", f.int, f.phi.args[i])] \o <<>>)
    ELSE f

\* The visit of an operator that an until or a release becomes, which visits the operand again
Again(f, simplify) == SimplifyUnary(Visited(f, simplify), simplify)

\* visit_until
SimplifyUntil(f, simplify) ==
    IF IsConstant(f.left) THEN Again(AsUnary(f), simplify)
    ELSE IF IsConstant(f.right) THEN f.right
    ELSE IF Negates(f.left, f.right) THEN Again(AsUnary(f), simplify)
    ELSE IF f.int.lower = f.int.upper THEN AtInstant(f.int, f.right)
    ELSE f

\* visit_release
SimplifyRelease(f, simplify) ==
    IF IsConstant(f.right) THEN f.right
    ELSE IF IsConstant(f.left) \/ Negates(f.left, f.right) THEN Again(AsUnary(f), simplify)
    ELSE f

SimplifyOf(f, simplify) ==
    LET visited == Visited(f, simplify)
    IN  IF f.op \in {"and", "or"} THEN SimplifyJunction(visited)
        ELSE IF f.op \in {"G", "F"} THEN SimplifyUnary(visited, simplify)
        ELSE IF f.op = "U" THEN SimplifyUntil(visited, simplify)
        ELSE IF f.op = "R" THEN SimplifyRelease(visited, simplify)
        ELSE visited
Simplify[f \in Formula] == SimplifyOf(f, Simplify)
=============================================================================
