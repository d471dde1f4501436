-------------------------- MODULE AssertionSolver --------------------------
(***************************************************************************)
(* Solver, BooleanSolver and Z3RealSolver of src/src/sat/tableau/solver:   *)
(* the incremental checking of the literals of a node.  Each solver keeps  *)
(* what is asserted, a stack of what each scope added, and a cached        *)
(* result.  Z3 itself decides relations as RelationsConsistent says.  An   *)
(* occurrence id stands for the assertion that carries it, so a core is a  *)
(* set of assertions, {} for None.                                         *)
(***************************************************************************)
EXTENDS Sequences, Naturals

CONSTANTS
    Atoms,                    \* Boolean variables
    Relations,                \* arithmetic constraints
    True, False,              \* the constants of the input language
    RelationsConsistent(_),   \* Z3 on a set of signed relations
    RelationCores(_),         \* the cores Z3 may report
    Literal,                  \* the literals of the nodes that are checked
    MaxScopes

ASSUME ExprAssumption ==
    /\ Literal \subseteq [expr : Atoms \cup Relations \cup {True, False}, negated : BOOLEAN]
    /\ Atoms \cap Relations = {}
    /\ {True, False} \cap (Atoms \cup Relations) = {}
    /\ True # False
    /\ MaxScopes \in Nat

RelationsOf(S) == {l \in S : l.expr \in Relations}

\* Adding relations never makes them consistent.
ASSUME RelationsAssumption ==
    /\ RelationsConsistent({})
    /\ \A S \in SUBSET Literal :
        /\ RelationsConsistent(S) \in BOOLEAN
        /\ \A T \in SUBSET S : RelationsConsistent(S) => RelationsConsistent(T)
        /\ ~RelationsConsistent(S) => RelationCores(S) # {}
        /\ RelationCores(S) \subseteq (SUBSET S) \ {{}}

VARIABLES
    branch, ahead, passed,   \* the client, see AssertionStack
    pos, neg,                \* the keys of pos_props and neg_props
    scopes,                  \* BooleanSolver::constraint_stack
    cache,                   \* BooleanSolver::result_cache
    booleanCore,             \* BooleanSolver::unsat_core
    relations,               \* Z3RealSolver::current_constraints
    relationScopes,          \* Z3RealSolver::constraint_stack
    relationCache,           \* Z3RealSolver::result_cache
    relationCore             \* Z3RealSolver::unsat_core

client == <<branch, ahead, passed>>
boolean == <<pos, neg, scopes, cache, booleanCore>>
real == <<relations, relationScopes, relationCache, relationCore>>
vars == <<client, boolean, real>>

Cache == {"none", "sat", "unsat"}
\* Mutant: the result is kept under other names.
CacheOfUnmapped(result) == IF result THEN "true" ELSE "false"
CacheOf(result) == IF result THEN "sat" ELSE "unsat"

----------------------------------------------------------------------------
(* What is to be decided *)
Absurd(l) == (l.expr = False /\ ~l.negated) \/ (l.expr = True /\ l.negated)

AtomsOf(S, negated) == {l.expr : l \in {m \in S : m.expr \in Atoms /\ m.negated = negated}}

Consistent(S) ==
    /\ \A l \in S : ~Absurd(l)
    /\ AtomsOf(S, TRUE) \cap AtomsOf(S, FALSE) = {}
    /\ RelationsConsistent(RelationsOf(S))

Stack == INSTANCE AssertionStack WITH
            branch <- branch, ahead <- ahead, passed <- passed

TypeOK ==
    /\ Stack!TypeOK
    /\ pos \subseteq Atoms /\ neg \subseteq Atoms
    /\ scopes \in Seq(SUBSET Literal)
    /\ cache \in Cache
    /\ booleanCore \in SUBSET [expr : Atoms \cup {True, False}, negated : BOOLEAN]
    /\ relations \in SUBSET Literal
    /\ relationScopes \in Seq(SUBSET Literal)
    /\ relationCache \in Cache
    /\ relationCore \in SUBSET Literal

Init ==
    /\ Stack!Init
    /\ pos = {} /\ neg = {}
    /\ scopes = <<>>
    /\ cache = "sat"
    /\ booleanCore = {}
    /\ relations = {}
    /\ relationScopes = <<>>
    /\ relationCache = "sat"
    /\ relationCore = {}

----------------------------------------------------------------------------
(* BooleanSolver: push, add_constraint for the atoms of n, check.  Adding  *)
(* the opposite of what is there sets the cached result and the core.      *)
Pair(a) == {[expr |-> a, negated |-> FALSE], [expr |-> a, negated |-> TRUE]}
AddedAtoms(n) == AtomsOf(n, FALSE) \cup AtomsOf(n, TRUE)

Clashes(n) == (pos \cup AtomsOf(n, FALSE)) \cap (neg \cup AtomsOf(n, TRUE))
CacheAfterAdding(n) == IF Clashes(n) \cap AddedAtoms(n) # {} THEN "unsat" ELSE cache

BooleanPasses(n) ==
    IF CacheAfterAdding(n) = "none" THEN Clashes(n) = {} ELSE CacheAfterAdding(n) = "sat"

\* Mutant: the first core ever found is kept.
BooleanCheckFirstCore(n) ==
    /\ pos' = pos \cup AtomsOf(n, FALSE)
    /\ neg' = neg \cup AtomsOf(n, TRUE)
    /\ scopes' = Append(scopes, {l \in n : l.expr \in Atoms})
    /\ cache' = CacheOf(BooleanPasses(n))
    /\ IF booleanCore = {} /\ Clashes(n) # {}
       THEN \E a \in Clashes(n) : booleanCore' = Pair(a)
       ELSE UNCHANGED booleanCore

BooleanCheck(n) ==
    /\ pos' = pos \cup AtomsOf(n, FALSE)
    /\ neg' = neg \cup AtomsOf(n, TRUE)
    /\ scopes' = Append(scopes, {l \in n : l.expr \in Atoms})
    /\ cache' = CacheOf(BooleanPasses(n))
    /\ IF Clashes(n) \cap AddedAtoms(n) # {}
       THEN \E a \in Clashes(n) \cap AddedAtoms(n) : booleanCore' = Pair(a)
       ELSE IF cache = "none" /\ Clashes(n) # {}
       THEN \E a \in Clashes(n) : booleanCore' = Pair(a)
       ELSE UNCHANGED booleanCore

\* Mutant: a negative result outlives the scope that led to it.
BooleanPopKeepsResult ==
    LET last == scopes[Len(scopes)] IN
    /\ scopes' = SubSeq(scopes, 1, Len(scopes) - 1)
    /\ pos' = pos \ AtomsOf(last, FALSE)
    /\ neg' = neg \ AtomsOf(last, TRUE)
    /\ UNCHANGED <<cache, booleanCore>>

\* BooleanSolver::pop removes what the scope added, also what an older scope had
\* added before it.
BooleanPop ==
    LET last == scopes[Len(scopes)] IN
    /\ scopes' = SubSeq(scopes, 1, Len(scopes) - 1)
    /\ pos' = pos \ AtomsOf(last, FALSE)
    /\ neg' = neg \ AtomsOf(last, TRUE)
    /\ cache' = IF cache = "unsat" /\ last # {} THEN "none" ELSE cache
    /\ UNCHANGED booleanCore

----------------------------------------------------------------------------
(* Z3RealSolver: push, add_constraint for the relations of n, check.  Only *)
(* what was not there yet is asserted, and drops the cached result.        *)
NewRelations(n) == RelationsOf(n) \ relations

RelationCacheAfterAdding(n) == IF NewRelations(n) # {} THEN "none" ELSE relationCache

RelationsPass(n) ==
    LET all == relations \cup RelationsOf(n) IN
    \/ all = {}
    \/ all # {} /\ RelationCacheAfterAdding(n) = "sat"
    \/ all # {} /\ RelationCacheAfterAdding(n) = "none" /\ RelationsConsistent(all)

RelationCheck(n) ==
    LET all == relations \cup RelationsOf(n) IN
    /\ relations' = all
    /\ relationScopes' = Append(relationScopes, NewRelations(n))
    /\ relationCache' = IF all = {} THEN relationCache ELSE CacheOf(RelationsPass(n))
    /\ IF all # {} /\ RelationCacheAfterAdding(n) = "none" /\ ~RelationsConsistent(all)
       THEN \E c \in RelationCores(all) : relationCore' = c
       ELSE UNCHANGED relationCore

RelationPop ==
    /\ relationScopes' = SubSeq(relationScopes, 1, Len(relationScopes) - 1)
    /\ relations' = relations \ relationScopes[Len(relationScopes)]
    /\ relationCache' = IF relationCache = "unsat" THEN "none" ELSE relationCache
    /\ UNCHANGED relationCore

----------------------------------------------------------------------------
(* Solver: push and check *)

\* Mutant: no core is left behind.
RejectConstantSilently(n) ==
    /\ \E l \in n : Absurd(l)
    /\ scopes' = Append(scopes, {})
    /\ relationScopes' = Append(relationScopes, {})
    /\ passed' = FALSE
    /\ UNCHANGED <<pos, neg, cache, booleanCore, relations, relationCache, relationCore>>

\* A constant decides the check before anything is asserted.
RejectConstant(n) ==
    /\ \E l \in n : Absurd(l) /\ booleanCore' = {l}
    /\ scopes' = Append(scopes, {})
    /\ relationScopes' = Append(relationScopes, {})
    /\ passed' = FALSE
    /\ UNCHANGED <<pos, neg, cache, relations, relationCache, relationCore>>

AssertAndCheck(n) ==
    /\ \A l \in n : ~Absurd(l)
    /\ BooleanCheck(n)
    /\ RelationCheck(n)
    /\ passed' = (BooleanPasses(n) /\ RelationsPass(n))

CheckNode(n) ==
    /\ Stack!MayCheck(n)
    /\ branch' = Append(branch, n)
    /\ UNCHANGED ahead
    /\ RejectConstant(n) \/ AssertAndCheck(n)

CheckLater ==
    /\ passed
    /\ ~ahead
    /\ branch' = Append(branch, {})
    /\ ahead' = TRUE
    /\ AssertAndCheck({})

Pop ==
    /\ branch # <<>>
    /\ branch' = SubSeq(branch, 1, Len(branch) - 1)
    /\ ahead' = FALSE
    /\ passed' = TRUE
    /\ BooleanPop
    /\ RelationPop

\* Solver::empty_solver: only what Z3 knows of its variables and terms is passed on.
EmptySolver ==
    /\ Stack!EmptySolver
    /\ pos' = {} /\ neg' = {}
    /\ scopes' = <<>>
    /\ cache' = "sat"
    /\ booleanCore' = {}
    /\ relations' = {}
    /\ relationScopes' = <<>>
    /\ relationCache' = "sat"
    /\ relationCore' = {}

Next ==
    \/ \E n \in SUBSET Literal : CheckNode(n)
    \/ CheckLater
    \/ Pop
    \/ EmptySolver

Spec == Init /\ [][Next]_vars

----------------------------------------------------------------------------
(* Properties *)

\* Solver::extract_unsat_core: the Boolean core, if there ever was one
ExtractedCore == IF booleanCore # {} THEN booleanCore ELSE relationCore

\* The solver keeps the promise of AssertionStack: although pop forgets literals
\* that an outer scope still asserts, and results are cached across push and pop,
\* every check decides all that is asserted.
KeepsPromise == Stack!Spec

\* Some core is there to extract after a check has failed.
CoreAvailable == ~passed => ExtractedCore # {}

\* When a constant or an atom is to blame, the extracted core is an inconsistent
\* part of what was checked.
AtomsToBlame ==
    \/ \E l \in Stack!Asserted : Absurd(l)
    \/ AtomsOf(Stack!Asserted, TRUE) \cap AtomsOf(Stack!Asserted, FALSE) # {}
AtomCoreRight ==
    ~passed /\ AtomsToBlame =>
        ExtractedCore \subseteq Stack!Asserted /\ ~Consistent(ExtractedCore)
=============================================================================
