-------------------------- MODULE DifferenceLogic --------------------------
(***************************************************************************)
(* DifferenceLogicSolver of src/src/sat/tableau/solver/dl.rs: relations    *)
(* become clauses of one or two difference constraints, a check looks for  *)
(* a negative cycle in the graph of each choice among them, and results    *)
(* are cached by clause set.  That find_negative_cycle finds a cycle just  *)
(* when there is one is the subject of ConstraintGraph; here a check takes *)
(* any of the cycles it may return.  An absolute value has none inside.    *)
(***************************************************************************)
EXTENDS Integers, Sequences, FiniteSetsExt

CONSTANTS
    Literal,         \* the relations of the nodes that are checked, with their ids
    Consistent(_),   \* a set of literals has a model
    MaxScopes,       \* bound: nodes of one instant on a branch
    MaxCached        \* bound: results in the cache

Ops == {"Le", "Lt", "Ge", "Gt", "Eq", "Ne"}

ASSUME LiteralAssumption ==
    /\ \A l \in Literal : l.op \in Ops /\ l.negated \in BOOLEAN /\ l.id \in Nat \ {0}
    /\ \A l, m \in Literal : l.id = m.id => l = m

\* AExpr as far as the solver tells expressions apart: variables have coefficient one.
Num(c) == [kind |-> "num", c |-> c]
Var(x) == [kind |-> "var", x |-> x]
Sub(x, y) == [kind |-> "sub", x |-> x, y |-> y]
Abs(e) == [kind |-> "abs", of |-> e]

VARIABLES
    branch, ahead, passed,   \* the client, see AssertionStack
    extraction,              \* unsat_core_extraction
    clauses,                 \* clause_set, each clause with its one or two constraints
    stack,                   \* the clause sets of the outer scopes
    core,                    \* unsat_core, {} for None
    resultCache,             \* result_cache: clause sets, results and cores
    panicked

client == <<branch, ahead, passed>>
vars == <<client, extraction, clauses, stack, core, resultCache, panicked>>

Stack == INSTANCE AssertionStack WITH
            branch <- branch, ahead <- ahead, passed <- passed

Ids == {l.id : l \in Literal}

TypeOK ==
    /\ Stack!TypeOK
    /\ extraction \in BOOLEAN /\ panicked \in BOOLEAN
    /\ \A c \in clauses : Len(c) \in {1, 2}
    /\ Len(stack) = Len(branch)
    /\ core \subseteq Ids
    /\ \A r \in resultCache : r.sat \in BOOLEAN /\ r.core \subseteq Ids
    /\ \A r, s \in resultCache : r.clauses = s.clauses => r = s

Init ==
    /\ Stack!Init
    /\ extraction \in BOOLEAN
    /\ clauses = {}
    /\ stack = <<>>
    /\ core = {}
    /\ resultCache = {}
    /\ panicked = FALSE

----------------------------------------------------------------------------
(* NormalizedConstraint: no negation, and no number on the left *)
NegationOf ==
    [Le |-> "Gt", Lt |-> "Ge", Ge |-> "Lt", Gt |-> "Le", Eq |-> "Ne", Ne |-> "Eq"]
MirrorOf == [Le |-> "Ge", Lt |-> "Gt", Ge |-> "Le", Gt |-> "Lt", Eq |-> "Eq", Ne |-> "Ne"]

Normalized(l) ==
    LET op == IF l.negated THEN NegationOf[l.op] ELSE l.op
    IN  IF l.left.kind = "num"
        THEN [op |-> MirrorOf[op], left |-> l.right, right |-> l.left]
        ELSE [op |-> op, left |-> l.left, right |-> l.right]

\* DifferenceConstraint: x - y <= c, or x - y < c; a single variable is compared with
\* an artificial one that stands for zero.
ZeroVar == "zero"

IsDifference(left, right) ==
    \/ left.kind \in {"sub", "var"} /\ right.kind = "num"
    \/ left.kind = "var" /\ right.kind = "var"

Sides(left, right) ==
    CASE left.kind = "sub" -> <<left.x, left.y, right.c>>
      [] left.kind = "var" /\ right.kind = "num" -> <<left.x, ZeroVar, right.c>>
      [] left.kind = "var" /\ right.kind = "var" -> <<left.x, right.x, 0>>

Difference(op, left, right, id) ==
    LET s == Sides(left, right)
    IN  IF op \in {"Le", "Lt"}
        THEN [x |-> s[1], y |-> s[2], c |-> s[3], strict |-> op = "Lt", id |-> id]
        ELSE [x |-> s[2], y |-> s[1], c |-> -s[3], strict |-> op = "Gt", id |-> id]

----------------------------------------------------------------------------
(* ClauseSet *)
Supported(n) ==
    \/ IsDifference(n.left, n.right)
    \/ n.op # "Ne" /\ n.left.kind = "abs" /\ IsDifference(n.left.of, n.right)
       /\ n.right.kind = "num"

InequalityClauses(op, left, right, id) ==
    IF left.kind # "abs"
    THEN {<<Difference(op, left, right, id)>>}
    ELSE LET upper == Difference(op, left.of, right, id)
             lower == Difference(MirrorOf[op], left.of, Num(-right.c), id)
         IN  IF op \in {"Le", "Lt"} THEN {<<upper>>, <<lower>>} ELSE {<<upper, lower>>}

ClausesOf(l, extract) ==
    LET n == Normalized(l)
        id == IF extract THEN l.id ELSE 0
    IN  CASE n.op = "Eq" -> InequalityClauses("Le", n.left, n.right, id)
                            \cup InequalityClauses("Ge", n.left, n.right, id)
          [] n.op = "Ne" -> {<<Difference("Lt", n.left, n.right, id),
                               Difference("Gt", n.left, n.right, id)>>}
          [] OTHER -> InequalityClauses(n.op, n.left, n.right, id)

ClauseSetOf(S, extract) == UNION {ClausesOf(l, extract) : l \in S}

ClauseSetWith(n) == clauses \cup ClauseSetOf(n, extraction)

Unary(cs) == {c[1] : c \in {d \in cs : Len(d) = 1}}
Binary(cs) == {c \in cs : Len(c) = 2}

----------------------------------------------------------------------------
(* ConstraintGraph of a set D of constraints: of those with the same ends  *)
(* the tightest is kept.                                                   *)
Tighter(d, e) == d.c < e.c \/ (d.c = e.c /\ d.strict /\ ~e.strict)
Edges(D) == {d \in D : ~\E e \in D : e.x = d.x /\ e.y = d.y /\ Tighter(e, d)}

Closed(C) ==
    /\ {d.x : d \in C} = {d.y : d \in C}
    /\ \A d, e \in C : d.x = e.x \/ d.y = e.y => d = e
IsCycle(C) == C # {} /\ Closed(C) /\ \A B \in SUBSET C \ {{}, C} : ~Closed(B)
IsNegative(C) ==
    LET sum == MapThenSumSet(LAMBDA d : d.c, C)
    IN  sum < 0 \/ (sum = 0 /\ \E d \in C : d.strict)

NegativeCycles(D) == {C \in SUBSET Edges(D) : IsCycle(C) /\ IsNegative(C)}
HasNegativeCycle(D) == NegativeCycles(D) # {}
CoresOf(D) == {{d.id : d \in C} : C \in NegativeCycles(D)}

\* A choice among the disjuncts, and the constraints that it leads to
Chosen(cs, choice) == Unary(cs) \cup {b[choice[b]] : b \in Binary(cs)}
Satisfiable(cs) ==
    /\ ~HasNegativeCycle(Unary(cs))
    /\ \E choice \in [Binary(cs) -> {1, 2}] : ~HasNegativeCycle(Chosen(cs, choice))

\* The theory of difference logic: clauses whose choices all lead to a negative cycle
\* are those of contradictory literals.
ASSUME ClausesAssumption ==
    /\ Consistent({})
    /\ \A S \in SUBSET Literal, extract \in BOOLEAN :
          (\A l \in S : Supported(Normalized(l))) =>
              Satisfiable(ClauseSetOf(S, extract)) = Consistent(S)

\* Each choice replaces the core of the one before it: the last has all the second
\* disjuncts.
CoresLeft(cs) ==
    IF HasNegativeCycle(Unary(cs)) THEN CoresOf(Unary(cs))
    ELSE CoresOf(Chosen(cs, [b \in Binary(cs) |-> 2]))

----------------------------------------------------------------------------
(* check: the clause set is empty, or known, or new *)
CheckEmpty(cs) ==
    /\ cs = {}
    /\ passed' = TRUE
    /\ UNCHANGED <<core, resultCache>>

\* Mutant: the core is not taken from the cache.
CheckCachedWithoutCore(cs) ==
    /\ cs # {}
    /\ \E r \in resultCache : r.clauses = cs /\ passed' = r.sat
    /\ UNCHANGED <<core, resultCache>>

CheckCached(cs) ==
    /\ cs # {}
    /\ \E r \in resultCache :
        /\ r.clauses = cs
        /\ passed' = r.sat
        /\ core' = r.core
    /\ UNCHANGED resultCache

IsNew(cs) ==
    /\ cs # {}
    /\ \A r \in resultCache : r.clauses # cs
    /\ Cardinality(resultCache) < MaxCached

CheckSat(cs) ==
    /\ IsNew(cs)
    /\ Satisfiable(cs)
    /\ passed' = TRUE
    /\ core' = IF Binary(cs) = {} THEN core ELSE {}
    /\ resultCache' = resultCache \cup {[clauses |-> cs, sat |-> TRUE, core |-> {}]}

\* Mutant: the result is kept under the clauses of the outer scopes.
CheckUnsatMisfiled(cs) ==
    /\ IsNew(cs)
    /\ ~Satisfiable(cs)
    /\ passed' = FALSE
    /\ \E c \in CoresLeft(cs) : core' = IF extraction THEN c ELSE {}
    /\ resultCache' = resultCache \cup {[clauses |-> clauses, sat |-> FALSE, core |-> core']}

CheckUnsat(cs) ==
    /\ IsNew(cs)
    /\ ~Satisfiable(cs)
    /\ passed' = FALSE
    /\ \E c \in CoresLeft(cs) : core' = IF extraction THEN c ELSE {}
    /\ resultCache' = resultCache \cup {[clauses |-> cs, sat |-> FALSE, core |-> core']}

Check(cs) == CheckEmpty(cs) \/ CheckCached(cs) \/ CheckSat(cs) \/ CheckUnsat(cs)

----------------------------------------------------------------------------
(* The operations of the solver *)

\* push, add_constraint for the relations of n, check
CheckNode(n) ==
    /\ Stack!MayCheck(n)
    /\ \A l \in n : Supported(Normalized(l))
    /\ stack' = Append(stack, clauses)
    /\ clauses' = ClauseSetWith(n)
    /\ Check(ClauseSetWith(n))
    /\ branch' = Append(branch, n)
    /\ UNCHANGED <<ahead, extraction, panicked>>

\* add_constraint does not expect an unsupported constraint.
Panic(n) ==
    /\ Stack!MayCheck(n)
    /\ \E l \in n : ~Supported(Normalized(l))
    /\ panicked' = TRUE
    /\ UNCHANGED <<client, extraction, clauses, stack, core, resultCache>>

CheckLater ==
    /\ passed /\ ~ahead
    /\ stack' = Append(stack, clauses)
    /\ Check(clauses)
    /\ branch' = Append(branch, {})
    /\ ahead' = TRUE
    /\ UNCHANGED <<extraction, clauses, panicked>>

Pop ==
    /\ Stack!Pop
    /\ clauses' = stack[Len(stack)]
    /\ stack' = SubSeq(stack, 1, Len(stack) - 1)
    /\ UNCHANGED <<extraction, core, resultCache, panicked>>

\* Mutant: empty_solver copies the stack as well.
EmptySolverWithStack ==
    /\ Stack!EmptySolver
    /\ clauses' = {}
    /\ core' = {}
    /\ UNCHANGED <<stack, extraction, resultCache, panicked>>

\* empty_solver hands the cache on.
EmptySolver ==
    /\ Stack!EmptySolver
    /\ clauses' = {}
    /\ stack' = <<>>
    /\ core' = {}
    /\ UNCHANGED <<extraction, resultCache, panicked>>

Next ==
    /\ ~panicked
    /\ \/ \E n \in SUBSET Literal : CheckNode(n) \/ Panic(n)
       \/ CheckLater
       \/ Pop
       \/ EmptySolver

Spec == Init /\ [][Next]_vars

----------------------------------------------------------------------------
(* Properties *)

\* The solver keeps the promise of AssertionStack: the translation to clauses, the
\* search for cycles and the cache that outlives scopes and solvers never make a check
\* answer anything but whether all that is asserted has a model.
KeepsPromise == Stack!Spec

\* The core of a failed check is made of what was checked, also when it comes from the
\* cache, and it is inconsistent if no choice was needed to find the contradiction.
Blamed == {l \in Stack!Asserted : l.id \in core}
CoreRight ==
    ~passed /\ extraction =>
        /\ core # {}
        /\ core \subseteq {l.id : l \in Stack!Asserted}
        /\ HasNegativeCycle(Unary(clauses)) => ~Consistent(Blamed)
=============================================================================
