--------------------------- MODULE Normalization ---------------------------
(***************************************************************************)
(* The passes over the root of a tableau before it is solved:              *)
(* normalize_root of src/src/sat/tableau/mod.rs with the methods of Node   *)
(* that run a transformer over its operands.                               *)
(***************************************************************************)
EXTENDS Transform, Encodings, NodeMeaning

CONSTANT Inputs             \* the parsed formulas

\* A formula as the parser makes it: bounds are ordered and not negative, junctions
\* have operands, and implications come from Formula::imply.
Parsed[f \in Formula] ==
    /\ IsTemporal(f) => f.int \in Interval
    /\ f.op \in {"and", "or"} => f.args # <<>>
    /\ f.op = "imply" => f = Implication(f.left, f.right)
    /\ \A g \in IF f.op = "imply" THEN {f.left, f.right} ELSE Operands(f) : Parsed[g]

\* Formula has room for the inputs and for what the rewriting of STL makes of them.
ASSUME InputsAssumption ==
    \A f \in Inputs : f \in Formula /\ Parsed[f] /\ Mltl[Nnf[f]] \in Formula

VARIABLES
    input,                  \* the formula that is decided
    options,                \* mltl, formula_simplifications, formula_optimizations
    operands,               \* the operands of the root
    pass                    \* the pass that comes next

vars == <<input, options, operands, pass>>

Options == [mltl : BOOLEAN, simplifications : BOOLEAN, optimizations : BOOLEAN]

Init ==
    /\ input \in Inputs
    /\ options \in Options
    /\ operands = << input >>
    /\ pass = "nnf"

From(this, next) == pass = this /\ pass' = next /\ UNCHANGED <<input, options>>

\* The transformers work on one operand after the other.
Rewritten(visitor) == [i \in DOMAIN operands |-> visitor[operands[i]]] \o <<>>

NegativeNormalForm ==
    /\ From("nnf", "mltl")
    /\ operands' = Rewritten(Nnf)

MltlRewrite ==
    /\ From("mltl", "simplify")
    /\ operands' = IF options.mltl THEN operands ELSE Rewritten(Mltl)

SimplifyRoot ==
    /\ From("simplify", "flatten")
    /\ operands' = IF options.simplifications THEN Rewritten(Simplify) ELSE operands

\* A conjunction becomes the operands of the root.
Flatten ==
    /\ From("flatten", "shift")
    /\ operands' = Spliced("and", Rewritten(Flat))

ShiftRoot ==
    /\ From("shift", "done")
    /\ operands' = IF options.optimizations THEN Rewritten(ShiftBounds) ELSE operands

Next ==
    \/ NegativeNormalForm
    \/ MltlRewrite
    \/ SimplifyRoot
    \/ Flatten
    \/ ShiftRoot

Spec == Init /\ [][Next]_vars

----------------------------------------------------------------------------
(* Properties *)

Subformulas[f \in Formula] == {f} \cup UNION {Subformulas[g] : g \in Operands(f)}

Parts == UNION {Subformulas[operands[i]] : i \in DOMAIN operands}

InputSignals(f) == [0 .. Horizon[f] -> Valuations(Vars[f] \cup {ConstantVar})]

\* The tableau is asked what the SMT engine is asked: after the passes, whichever
\* are switched on, the operands of the root hold together, read as MLTL, for just
\* the signals for which the unrolled input does.
SameQuestion ==
    pass = "done" =>
        \A sig \in InputSignals(input) :
            (\A i \in DOMAIN operands : Holds(sig, 0, operands[i])) <=> Smt(sig, 0, input, options.mltl)

\* The SMT and the FOL engine are asked the same, in both semantics.
EnginesAgree ==
    pass = "nnf" /\ ~options.simplifications /\ ~options.optimizations =>
        \A sig \in InputSignals(input) :
            Smt(sig, 0, input, options.mltl) <=> Fol(sig, 0, input, options.mltl)

\* The unrolling never indexes the array of a variable past its end, which the
\* horizon of the formula sets.
LookupsInRange == Lookups(0, input, options.mltl) \subseteq 0 .. Horizon[input]

\* The tableau branches on an implication with its second copy of the left part:
\* through all passes that copy stays the opposite of the left part.
ImplicationsSplit ==
    pass = "done" =>
        \A f \in {g \in Parts : g.op = "imply"} :
            \A sig \in InputSignals(And(<< f.left, f.notLeft >>)) :
                Holds(sig, 0, f.notLeft) # Holds(sig, 0, f.left)

\* The left parts of negated implications
UnvisitedOf(f, negated, unvisited) ==
    IF f.op = "not" THEN unvisited[f.phi][~negated]
    ELSE IF f.op = "imply" /\ negated THEN {f.left} \cup unvisited[f.right][TRUE]
    ELSE UNION {unvisited[g][negated] : g \in Operands(f)}
Unvisited[f \in Formula] == [negated \in BOOLEAN |-> UnvisitedOf(f, negated, Unvisited)]

AtPropositions(fs) == \A f \in fs : f.op = "not" => f.phi.op = "prop"

\* What the tableau takes for a literal is one: after the first pass a negation
\* only stands before a proposition, if it does in the left parts of negated
\* implications, which that pass leaves as they are.
NegationsAtPropositions ==
    pass # "nnf" /\ AtPropositions(UNION {Subformulas[f] : f \in Unvisited[input][FALSE]})
        => AtPropositions(Parts)

\* The rules get what they rely on (Coherent) from the passes, if those find the
\* negations in the left parts of negated implications at propositions.
RootCoherent ==
    pass = "done" /\ AtPropositions(UNION {Subformulas[f] : f \in Unvisited[input][FALSE]})
        => \A i \in DOMAIN operands : Coherent[operands[i]]

\* No pass gives an operator an empty interval or one that begins in the past: the
\* shift that ShiftBounds takes out of an operand is one that each of its parts has.
IntervalsProper == \A f \in Parts : IsTemporal(f) => f.int \in Interval

\* The root is a set of operands none of which can be split without branching, and
\* disjunctions have no disjuncts that are disjunctions.
JunctionsFlat ==
    pass = "done" =>
        /\ \A i \in DOMAIN operands : operands[i].op # "and"
        /\ \A f \in {g \in Parts : g.op \in {"and", "or"}} :
              \A i \in DOMAIN f.args : f.args[i].op # f.op
=============================================================================
