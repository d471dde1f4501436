----------------------------- MODULE Encodings -----------------------------
(***************************************************************************)
(* What the other two engines ask Z3 about a formula: the unrolling of     *)
(* src/src/sat/smt/mod.rs over the instants up to the horizon, and the     *)
(* quantified formula of src/src/sat/fol/mod.rs over all instants.  Z3     *)
(* itself is exact in the model: a formula is satisfiable when its         *)
(* encoding holds for some signal.                                         *)
(***************************************************************************)
EXTENDS Formula

\* Mutant: the left part of an STL operator may be asked for after the witness.
LeftInstantsTooFar(t, int, i, mltl) == IF mltl THEN t + int.lower .. i - 1 ELSE t .. i + 1

\* Where the left part of an until or a release counts, for the instant i of the right
LeftInstants(t, int, i, mltl) == IF mltl THEN t + int.lower .. i - 1 ELSE t .. i

\* SmtSolver::encode_formula
SmtOf(f, sig, t, mltl, smt) ==
    \/ f.op = "prop" /\ sig[t][f.e.var] \in f.e.holds
    \/ f.op = "not" /\ ~smt[f.phi][t]
    \/ f.op = "and" /\ \A i \in DOMAIN f.args : smt[f.args[i]][t]
    \/ f.op = "or" /\ \E i \in DOMAIN f.args : smt[f.args[i]][t]
    \/ f.op = "imply" /\ (smt[f.left][t] => smt[f.right][t])
    \/ f.op = "G" /\ \A i \in t + f.int.lower .. t + f.int.upper : smt[f.phi][i]
    \/ f.op = "F" /\ \E i \in t + f.int.lower .. t + f.int.upper : smt[f.phi][i]
    \/ f.op = "U" /\ \E i \in t + f.int.lower .. t + f.int.upper :
                        /\ smt[f.right][i]
                        /\ \A j \in LeftInstants(t, f.int, i, mltl) : smt[f.left][j]
    \/ f.op = "R" /\ \A i \in t + f.int.lower .. t + f.int.upper :
                        \/ smt[f.right][i]
                        \/ \E j \in LeftInstants(t, f.int, i, mltl) : smt[f.left][j]
SmtTruth(sig, mltl) ==
    LET smt[f \in Formula] == [t \in Int |-> SmtOf(f, sig, t, mltl, smt)] IN smt
Smt(sig, t, f, mltl) == SmtTruth(sig, mltl)[f][t]

\* The instants at which the unrolling looks up a variable in its array, which ends
\* at the horizon
LookupsOf(f, t, mltl, lookups) ==
    LET instants == t + f.int.lower .. t + f.int.upper
    IN  IF f.op = "prop" THEN IF f.e.var = ConstantVar THEN {} ELSE {t}
        ELSE IF f.op \in {"G", "F"} THEN UNION {lookups[f.phi][i] : i \in instants}
        ELSE IF f.op \in {"U", "R"}
             THEN UNION {lookups[f.right][i] \cup
                         UNION {lookups[f.left][j] : j \in LeftInstants(t, f.int, i, mltl)}
                             : i \in instants}
        ELSE UNION {lookups[g][t] : g \in IF f.op = "imply" THEN {f.left, f.right} ELSE Operands(f)}
LookupsFrom(mltl) ==
    LET lookups[f \in Formula] == [t \in Int |-> LookupsOf(f, t, mltl, lookups)] IN lookups
Lookups(t, f, mltl) == LookupsFrom(mltl)[f][t]

\* The range of the quantified instant of the left part
LeftRange(t, int, i, j, mltl) ==
    IF mltl THEN t + int.lower <= j /\ j < i ELSE t <= j /\ j <= i

\* Mutant: the range of a release ends before its last instant.
InRangeOpen(t, int, i) == t + int.lower <= i /\ i < t + int.upper

InRange(t, int, i) == t + int.lower <= i /\ i <= t + int.upper

\* FolSolver::encode_formula; the instants of the signal stand for the integers.
FolOf(f, sig, t, mltl, fol) ==
    \/ f.op = "prop" /\ sig[t][f.e.var] \in f.e.holds
    \/ f.op = "not" /\ ~fol[f.phi][t]
    \/ f.op = "and" /\ \A i \in DOMAIN f.args : fol[f.args[i]][t]
    \/ f.op = "or" /\ \E i \in DOMAIN f.args : fol[f.args[i]][t]
    \/ f.op = "imply" /\ (fol[f.left][t] => fol[f.right][t])
    \/ f.op = "G" /\ \A i \in DOMAIN sig : InRange(t, f.int, i) => fol[f.phi][i]
    \/ f.op = "F" /\ \E i \in DOMAIN sig : InRange(t, f.int, i) /\ fol[f.phi][i]
    \/ f.op = "U" /\ \E i \in DOMAIN sig :
                        /\ InRange(t, f.int, i)
                        /\ fol[f.right][i]
                        /\ \A j \in DOMAIN sig : LeftRange(t, f.int, i, j, mltl) => fol[f.left][j]
    \/ f.op = "R" /\ \A i \in DOMAIN sig :
                        InRange(t, f.int, i) =>
                            \/ fol[f.right][i]
                            \/ \E j \in DOMAIN sig : LeftRange(t, f.int, i, j, mltl) /\ fol[f.left][j]
FolTruth(sig, mltl) ==
    LET fol[f \in Formula] == [t \in Int |-> FolOf(f, sig, t, mltl, fol)] IN fol
Fol(sig, t, f, mltl) == FolTruth(sig, mltl)[f][t]
=============================================================================
