# A TLA+ development of stlsat

stlsat decides whether a formula of Signal Temporal Logic (STL) or Mission-time
Linear Temporal Logic (MLTL) over bounded integer time has a model.  It is a
single-threaded Rust program with three engines; the tableau engine is its own
work, the other two translate the formula for Z3.  This directory models the passes
that normalise a formula, the tableau engine (the search, the branching rules, the
jump over instants, the memo store, the trace, the core and the three incremental
solvers) and the encodings of the other engines, checks them with TLC, and proves with TLAPS the
passes, the search, the incremental solvers and, one instant at a time, the branching rules
correct.

## The system

| Component | State | Operations | What makes it correct |
|---|---|---|---|
| Normalisation (`normalize_root` in `sat/tableau/mod.rs`, `formula/transform.rs`) | the operands of the root | five passes, three of them optional | the passes keep the question and establish the form that the tableau relies on |
| Tableau driver (`sat/tableau/mod.rs`) | a stack of frames (node, open children, depth, shared solver, result), the memo store, the trace under construction, the core | `solve_root`, `tableau_loop` (finish a frame, process a child), `process_job` | the answer is right; pushes and pops stay paired; the trace is a branch |
| Nodes and rules (`node/mod.rs`, `node/decompose.rs`) | a node: operands (formula, mark, parent), instant, whether it is simple | `decompose` and one function per operator | a node has a model iff a child has one |
| Rewriting (`node/rewrite.rs`) | none | merging of G and F operands, unfolding of G F | the rewritten operands mean the same |
| Jump rule (`node/jump.rs`, `node/intervals.rs`) | none | `calculate_k_star` and the sets and bounds it is made of | no instant is skipped that needs a node |
| Memo store (`store.rs`) | rejected nodes | `add_rejected`, `check_rejected` | a covered node has no model |
| Trace (`trace.rs`) | poised nodes, last first | `add_node`, `reset`, `eval`, `full_trace` | the trace is a model |
| Unsat core (`core.rs`) | occurrence ids, the map to root conjuncts | `add_to_unsat_core`, `get_unsat_core` | what is printed is unsatisfiable |
| Incremental solver (`solver/mod.rs`, `z3.rs`, `dl.rs`) | asserted literals, scopes, cached result, last core | `push`, `pop`, `check`, `extract_unsat_core`, `empty_solver` | a check decides all that is asserted |
| Formulas (`formula/mod.rs`) | none | constructors, intervals, structural equality | |
| Parser (`formula/parser`) | none | text to formulas, choice of the time unit | |
| FOL and SMT engines (`sat/fol`, `sat/smt`) | the array of each variable, as long as the horizon | translation to Z3 | both ask the same, and no array is too short |
| Command line, statistics, generators, scripts, web interface | processes, files | | the first useful answer wins |

The driver asks `decompose` for the children of a node, asserts the literals of a
child on the solver of its frame, asks the store whether the child (when it opens a
later instant) was rejected before, and keeps the core and the trace.  Nodes of one
instant share a solver through `Rc<RefCell<Solver>>`; a node of a later instant gets
an empty one.

Nothing runs concurrently in the engine.  What is hard is the order in which results
of siblings meet, the state that outlives the step that made it (scopes, cached
results, cores, rejected nodes, the trace), the under-constrained "simple" nodes that
are explored before the full ones, and the arithmetic of intervals at their last
instants.  PROJECT.json lists these hazards at their lines, the ones that no property covers with
the reason.

## The modules

`TableauSearch` is the driver.  Its actions are the iterations of the loop, one for
each way through it:

| Action | Code |
|---|---|
| `RootRejected`, `RootLeaf`, `RootOpened` | `solve_root` |
| `FinishRoot` | Case 1.1: the last frame answers |
| `PropagateSat`, `PropagateSimpleSat`, `PropagateUnsat`, `PropagateUndefined` | Case 1.2: a frame hands its result to the one below |
| `ChildCut`, `ChildInconsistent`, `ChildMemoized`, `ChildLeaf` | Case 2.1: `process_job` settles a child |
| `ChildOpened` | Case 2.2: the child becomes a frame |
| `Returned` | nothing happens after the answer |

The content of nodes is abstracted to constant operators (`Literals`, `Children`,
`Covers`, `Open` ...), constrained by named assumptions.  `Open(n)` says that an
accepting branch of the tableau leads from n.  The history variables `cut`, `skipped` and
`misled` record that a child was given up at the depth limit, that a simple frame
dropped unexplored siblings, and that the memo store turned away a node that is open; they
guard nothing.  `Untroubled` says that none of this happened.  The graph output and the logging are
left out; trace and core are always kept, as with the corresponding options.

`Interval`, `Formula`, `TableauNode`, `Rewrite`, `Jump`, `Decompose` and
`RejectedStore` are the pure parts, translated function by function into operators.
Formulas carry occurrence ids, because the equality of formulas and the jump rule look
at them.  A constraint is kept as the set of values of its variable for which it holds.
What recurses over formulas and is reasoned about is a recursive function; its domain, the
set `Formula`, holds the formulas of every shape and width whose operators are nested at
most `Nesting` deep, an arbitrary number.

`Transform` has the transformers of `transform.rs`, from the negation normal form to the
simplifier, and `Normalization` runs them: its state is the operands of the root and the
pass that comes next, its actions are the passes of `normalize_root` in their order, under
the options that switch them off.  A transformer `X` is a function over `Formula`; `XOf(f, x)`
is what its visitor makes of f, given what it makes of other formulas.  `Parsed` says what the
parser hands over: `Formula::imply` builds the implications, a junction has operands, bounds are not negative, and
`a <= b`, which the parser does not check but the documentation asks for (README.md:105 of the
repository).  `Encodings` has the unrolling of the SMT engine, with
the instants at which it indexes its arrays, and the quantified formula of the FOL engine.

`NodeMeaning` has the meaning of every node (`Models`, `HasModel`), directly from the
semantics of MLTL.  `RuleTableau` composes `TableauSearch` with `Decompose`: a node of the
driver stands for a node of the rules (`NodeOf`), and `RulesAssumption` says that what the
driver is told about it (its children, whether it is a leaf, simple or poised, its instant,
whether its literals are consistent) is what the rules make of it.  It states the
properties that relate answer, store and trace to the semantics.

`TableauTree` computes the whole tableau of a formula from `Decompose`, and `MCTableau`
gives it to `RuleTableau`.  `UnsatCore` leads the ids of occurrences back to operands of
the root.

`AssertionStack` states what the driver expects of an incremental solver: a stack of
scopes of assertions, with checks that decide whether everything asserted has a model.
It also contains the client's protocol: a failed node is popped before anything else
is checked, and nodes of one instant keep their parent's literals.  `TableauProtocol`
follows one solver of the driver and says that it is used in this way: its scopes are
those of an `AssertionStack` (`KeepsProtocol`), and each check, the failed ones included,
is one that the client may ask for (`ChecksAllowed`).  On the other side two modules
implement the stack, and in both `KeepsPromise` says so (`Stack == INSTANCE
AssertionStack`, `Stack!Spec`):

* `AssertionSolver` is `Solver` with `BooleanSolver` (two maps, scopes, a cached result)
  and `Z3RealSolver`, with Z3 as an oracle; an assertion stands for its occurrence id;
* `DifferenceLogic` is `DifferenceLogicSolver`: the normalisation of relations, the
  clauses of one or two difference constraints, the enumeration of choices, the cache of
  results by clause set which `empty_solver` hands on, and the core.  Here a check takes
  any negative cycle there is.

`ConstraintGraph` is `find_negative_cycle` itself, Bellman-Ford edge by edge: the edges of
a pass come in any order, as they do out of a `HashMap`, a pass without a change ends the
search early, and an edge that still improves starts the walk back along the predecessors.

`MCTableauSearch`, `MCFormulas`, `MCNormalization`, `MCAssertionSolver`,
`MCConstraintGraph` and `MCDifferenceLogic` hold the instances.

## What the runs show

| Run | Instance | Shows |
|---|---|---|
| `search` | six shapes of trees of up to 15 nodes, every set of contradictory leaves that a real tableau can have; a depth limit that only the two deepest shapes meet, memoization on, with a coverage test that is right about some nodes and wrong about others | answers, store, trace, core and scopes are right, the solver of the second instant is used as an `AssertionStack`, and the loop ends |
| `rules` | 231 conjunctions of two out of 21 templates (every pair, in one order) and six roots for which the store turns nodes away, all options on | sat answers have a model that the printed trace describes; unsat answers have none (if `Untroubled`); stored nodes have none; no open node is turned away; the trace is a branch |
| `plain` | the 231 conjunctions, all options off | the answer is right without a proviso |
| `normalize` | 1378 formulas with each combination of `--mltl` and the two options | the tableau, the SMT and the FOL engine are asked the same; intervals, negations, junctions and implications have the form the tableau relies on, and the root is what its rules assume; the unrolling stays in its arrays |
| `solver` | two atoms, three relations, a constant; three scopes | implements `AssertionStack`; cores |
| `graph` | every graph on three vertices with up to four of five edges (a cycle of three, one of two, a loop) and three weights; every order of the edges | Bellman-Ford ends; cycles are negative; where there is none the distances solve the constraints; it never panics |
| `dl` | six relations of two variables (a bound, a difference, disequalities, absolute values, one unsupported); two scopes, two cached results; with and without cores | implements `AssertionStack`; what a core may be |
| `memo_unsat`, `simple_first_unsat`, `cut_unsat`, `negated_imply`, `core` | one formula each | disagreements with the documentation, below |

What the less obvious properties say:

* `SameQuestion`: the operands that the passes leave hold together, in MLTL, for just the
  signals for which the SMT unrolling of the input holds.  It is checked for every signal
  up to the horizon, so it covers the STL rewriting, the merging and absorption of the
  simplifier, the shifts, and the encoding at once.
* `ImplicationsSplit`: an implication carries a negated copy of its left part, which the
  tableau branches on.  Through all passes the copy stays the opposite of the left part.
* `TraceIsBranch`: the nodes of the trace are the poised nodes of one branch.  Two of them
  may be of the same instant, since a poised node may be rewritten once more before the
  branch leaves the instant; `full_trace` prints the later one, which the property asks to
  hold the literals of both.
* `MemoizedClosed`: a node that the memo store turns away has no accepted branch.  A stored
  node may owe its place there to others that were turned away before, so one wrong
  comparison could spread.
* `TraceIsModel`: whatever the trace leaves open may be filled with anything.
* `SolverMirrorsBranch`: the scopes of each solver are the literals of the branch.

Why the bounds are enough: the driver only distinguishes the kind of a child (simple or
not, leaf or not, same or later instant, contradictory or not, covered or not) and its
position among its siblings; the shapes contain each kind first, in the middle and last,
below a full and below a simple node, and two levels of simple nodes.  The templates
cover every operator at its first, middle and last instants, nesting of two, intervals
that overlap, touch and are apart, and jumps longer than one; time ends at instant 6 at
most.  A signal beyond the horizon of a formula does not matter.  The inputs of
`normalize` put every operator, plain and negated, over every kind of operand that some
pass looks for (constants, opposites, duplicates, nested G and F, operators over one
instant, shifts of one or more), and triples of G whose intervals overlap, touch, contain
each other or are apart; horizons up to 4 leave at most 1024 signals each.  For
`solver` three scopes are what it takes to assert a literal twice, pop the inner one and
check again.  For `dl` two cached results are what it takes to have a right one beside the
one that is looked up, and an empty solver after them what it takes to use them elsewhere.

Deadlock is not checked for `normalize` (nothing follows the last pass) and for the solvers
(their scopes are bounded).

Fairness: `search` and `graph` assume weak fairness of `Next`.  One thread runs the
loops and nothing that it calls waits for anybody, so it takes its next step.

Five runs end in a violation, each of a sentence of the documentation:

* `cut_unsat`: Case 2.1 overwrites an undefined result by the unsat of a later child, so
  a depth limit can make a satisfiable formula unsat (README.md:51 speaks of unknown).
* `simple_first_unsat`: Case 2.1 asks whether the frame's node is simple, where Case 1.2
  asks the child.  A simple node whose first child is contradictory loses the others.
* `memo_unsat`: the memo store compares a node from later instants too, and then finds it
  covered although an F could have been satisfied earlier.
* `negated_imply`: the negation normal form leaves the left part of a negated implication
  as it is.  A negated conjunction in it counts as a literal, is never asserted, and a
  contradiction is called sat.  (With an operator over time beside it the jump rule panics
  instead, intervals.rs:98.)
* `core`: the STL rewriting copies occurrences with their ids, the map of the core keeps
  one operand for each id, and the operands it prints are satisfiable.

The first three give a wrong unsat.  `UnsatSound` and `UnsatHasNoModel`, and for the store
`StoreSound` and `StoreHasNoModel`, therefore carry the proviso `Untroubled`: they say that
these are the only ways in which the driver goes wrong.  `MemoizedClosed` has no proviso: it
holds for the formulas of `rules`, and the comparison from later instants breaks it for the
one of `memo_unsat`.  In `rules` nothing is cut or dropped either, so the proviso asks for
nothing there; `search` has runs with each of the three.

Five more disagreements have no run of their own:

* `solve_root` returns for a contradictory root without extracting the solver's core, so
  the printed core is empty (mod.rs:152); `CoreAfterSearch` only speaks of searches.
* The Boolean core is never cleared and is preferred to the one of a later conflict of
  constraints (solver/mod.rs:180); `AtomCoreRight` only speaks of atoms and constants.
* With several choices of binary clauses the difference logic solver reports the core of
  the last (dl.rs:578); `CoreRight` asks for inconsistency only where no choice was needed.
* A node that is closed by a cut or by dropped siblings below it is stored as rejected like
  any other (mod.rs:248), and may have others turned away; `StoreSound` excludes both causes.
* `supports` does not look at negations, so `--solver auto` may choose difference logic
  for a formula whose negated absolute value it then refuses (dl.rs:614).

## What is proved

`TableauSearchProofs` proves, for every tableau that satisfies the assumptions of
`TableauSearch` (any number of nodes, any depth limit, memoization on or off):

* `TypeCorrect`, and `ScopesPaired`: the scopes of the solvers mirror the branch;
* `SatCorrect`: a sat answer is right, always;
* `NoResultPanic`: no frame runs out of children without a result;
* `UnknownNeedsCut`: unknown means that the depth limit was reached;
* `UnsatCorrect` and `StoreCorrect`: an unsat answer is right, and the memo store holds no
  open node, unless a child was cut, siblings were dropped or an open node was turned away
  (`Untroubled`).  Nothing is assumed of the coverage test: the run `memo_unsat` shows that the
  code's is not sound in general.  So the first open node that the store turns away is one
  about which the comparison with a closed node was wrong, and never one that had been stored
  wrongly;
* `CoreFound`: a search that ends in unsat has recorded a core.

None of these is inductive alone.  The strengthening says of each frame that its children
left over are a suffix of the children of its node, that frames follow each other by the
child relation and in time, on which solver a frame works, and what its result claims:
sat is an open node, unsat means that every full child tried so far is closed, no result
means that a full child is still to come.  That a check on the solver decides the
literals of the node follows from the pairing of scopes and from the literals of an
instant being kept.

`AssertionSolverProofs` proves, for all sets of atoms, relations and literals:

* `SolverImplementsStack`: `Spec => KeepsPromise`, step by step;
* `SolverTypeCorrect`, `CoreRecorded`, `AtomCoreCorrect`.

The invariant says that the stacks have one scope for each node which records no more than
the node asserts, that the maps hold no more than the scopes record (they may hold less:
`pop` forgets a literal that an outer scope asserted too), that everything below the last
node is consistent, and that a negative cached result or a clash of atoms only exists
while the failed node is on the stack, and in its own scope.  The forgotten literals do no
harm because the next node of the instant asserts them again.

`DifferenceLogicProofs` proves, for every set of literals and any number of scopes and
cached results:

* `ClausesImplementStack`: `Spec => KeepsPromise`.  The invariant says that the clause set
  is the one of everything asserted, that the stack has the clause set of each outer scope,
  and that each cached result is the satisfiability of its clause set, whichever solver put
  it there.  The proof rests on `ClausesAssumption`: for supported literals the clauses have
  a choice without a negative cycle just when the literals have a model.  The run `dl`
  evaluates it for the literals of the instance, by enumerating their values;
* `CoreCorrect`: what a core may be, also when it comes from the cache.  The invariant
  (`CoreInv`) adds that each clause set is cached once, that a cached negative result has a
  core its clauses may leave (`CoresLeft`), and that after a failed check the solver's core
  is such a core.  A clause carries the id of the literal it comes from, so a core of ids
  names asserted literals;
* `TypeCorrect`.

`ConstraintGraphProofs` proves, for every finite graph (it is a `HashMap`) and every order
of its edges, that Bellman-Ford is right although distances change during a pass:

* `NoCycleCorrect`: without a cycle the distances solve all constraints, strict ones
  included;
* `CycleCorrect`: a cycle that is returned runs along edges and has a negative weight;
* `PredecessorsExist`: the walk back finds a predecessor at each vertex (no `expect` fails);
* `TypeCorrect`.

The invariant says that following the edge from its predecessor gives at most the distance
of a vertex (the predecessor's distance may have decreased since), and that every closed
walk along predecessors is negative: summing these edges around it leaves less than nothing,
because the edge relaxed last improved.  It also says that the distance of a vertex is at
most the weight of any path to it that the passes have got ahead of (`Covered`): one with
fewer edges than there were passes.  So from a vertex that still improves after the last
pass the walk back cannot end: the walk would be such a path.  A walk that does not end meets a vertex twice (pigeonhole), and the lap between is
the cycle.

The module draws the conclusion, `AnswerCorrect`: difference constraints have a
solution in the rational numbers if the search answers that there is no cycle, and none if
it returns one.  The distances are a solution once the infinitesimal is chosen smaller than
1 over the number of strict constraints on any path; the constraints along a cycle add up to
a contradiction.  TLC cannot check this, it quantifies over all rational solutions.

`SetInduction` has the induction these proofs need.  The induction theorems of the library
have an operator as a parameter, which the provers cannot instantiate; here the predicate is
a set.  Finite sets have minimal subsets, natural numbers a smallest element, and a walk or
a sum along a sequence is shown to exist by induction over its length.

`TableauSearchProofs` ends with `TraceCorrect` (`TraceIsBranch`) for every tableau.  The
invariant (`TraceInv`) says that the trace is empty while the search explores, that while a
sat result returns it is a stretch of a branch, down to its leaf, whose first node comes
next after the node of the front frame, and that after a sat answer that first node follows
in the root.  It rests on `BranchAssumption`: full children lead to parts of what
their parent leads to, and an instant is left from a poised node only.  `rules` evaluates
it on the tableaux that the real rules build.

`TableauSearchProofs` also proves, for every tableau and for each solver (`Followed` is any
number), `DriverKeepsProtocol` (`Spec => KeepsProtocol`) and `ChecksAreAllowed`.  With
`SolverImplementsStack` and `ClausesImplementStack` this closes the gap between the two
parts: what `TableauSearch` takes for the answer of a check is what the solvers answer to
such a client.  The invariant needs, beside the mirroring of the branch, that a frame works
on the solver of the frame below or on the next one, and that without a frame there is no
solver; a scope is pushed below the depth limit only, so `MaxDepth + 1` bounds the scopes.

`RuleProofs` proves the tableau itself correct, for every formula of any nesting and any
tableau that the rules of `Decompose` build of it, when they go one instant at a time
(`Stepwise`: `--formula-optimizations` and the jump rule are off, and the roots are
coherent, below; `--simple-first`, memoization and the depth limit are as one likes):

* `SatIsModel` (`SatHasModel`): a sat answer is right, the formula has a model;
* `UnsatIsNoModel` (`UnsatHasNoModel`): an unsat answer is right, under the proviso of
  `UnsatCorrect`;
* `PlainUnsatIsRight` (`UnsatIsRight`): without `--simple-first` nothing is dropped and with
  `--no-memoization` nothing turned away, so unsat is right below the depth limit;
* `StoreIsClosed` (`StoreHasNoModel`): no node in the memo store has a model, under the
  proviso of `StoreCorrect`;
* `TraceModelsFormula` (`TraceIsModel`): every reading of the printed trace is a model.

The argument has three layers.  `FormulaProofs` has the first: induction over formulas
(`FormulaInduction`: the predicate is a set, and the levels `FormulaUpTo[n]` are walked by
induction over n), the existence of the recursive functions (a recursion that only looks at
operands has a value at every formula), the equations of the semantics that follow, the
shift of intervals, that the meaning of a formula depends on the signal up to its horizon
only, and that the opposite of a formula may stand for its negation.

The second layer is about one step of the rules.  The nodes that can occur are *fit*: their
operands are coherent formulas whose intervals are proper and have not passed, and what is
marked is an unfolded operator in the middle of its interval.  Every child of a fit node is
fit.  A signal is a model of a node in the middle of an instant just when it is a model of
one of its full children; it is a model of a poised node just when it satisfies the literals
and the rest of the signal is a model of the node of the next instant.  Each operator has
its own equivalence (G now and G from the next instant on, U as right now or left now and U
later, ...), at the first, at a middle and at the last instant of its interval.  A simple
child only adds branches.

The third layer joins the two machines.  By induction on the rank of a node (the assumption
that the tableau is finite, `RankAssumption`), `Open(n)` of the driver is the same as
`HasModel(NodeOf(n))`.  So `SatCorrect`, `UnsatCorrect` and `StoreCorrect`, theorems about
`Open`, become theorems about models.  For the trace the invariant follows the branch that
is returned: a signal that has the literals of the stretch of the branch on the trace is a
model of the node that comes next below it, and in the end of the root.

`RootsCoherent` asks of the roots what the rules rely on without looking: a negation stands
at a proposition, no junction is empty, intervals are proper, and an implication has the
opposite of its left part beside it.  That the normalisation sees to it is proved
below (`RulesGetCoherentRoots`), with the one proviso that run `negated_imply` is about: it
shows a formula for which a negation stays where it should not, and what then goes wrong.
`plain` evaluates the hypothesis on its formulas (`FormulasCoherent`).  `Nesting` is not a bound on what the theorems say: each formula
has a nesting depth, and they hold for every value of it.  It makes the set of all formulas
a set by its levels.

`NormalizationProofs` proves the properties of the passes for every parsed input of any
nesting, in both semantics and with every combination of options:

* `NormalizationAsksTheSame` (`SameQuestion`): the tableau gets the question that was asked;
* `UnrollingAndQuantifyingAgree` (`EnginesAgree`), `UnrollingStaysInItsArrays`
  (`LookupsInRange`): so do the other two engines;
* `ImplicationsStaySplit`, `NegationsReachPropositions`, `IntervalsStayProper` and `RootIsFlat`
  (`ImplicationsSplit`, `NegationsAtPropositions`, `IntervalsProper`, `JunctionsFlat`): the form
  that the tableau relies on;
* `RulesGetCoherentRoots` (`RootCoherent`): the operands of the root are coherent, as
  `RootsCoherent` asks, if negations stand at propositions in the left parts of negated
  implications, which the passes do not visit.  With it the theorems of `RuleProofs` are about
  what `normalize_root` makes of such an input;
* `PassesAskTheInput`, the invariant they follow from.

That the engines are asked the same question is not inductive: it says nothing of a root between
two passes, and what a pass may do with a formula depends on more than its meaning.  The
invariant (`PassInv`) says that the operands are sound, which is to say that intervals are
proper, no junction is empty and the two left parts of an implication are opposites (`Sound`), that they look no
further than the input, and that they hold together for every endless signal, at every instant,
just when the input does (`Asks`).  Signals are endless there because a pass may move an operand
to another instant, where a signal up to the horizon has no value; in the end a finite signal
is continued in any way.  After the rewriting of STL the operands are read as MLTL, and from
then on every pass asks the same in one semantics; the first two passes are taken together.
TLC cannot evaluate `PassInv`, which speaks of all endless signals; `normalize` checks what
follows from it.

The proof is about one relation between formulas, `Stands(f, m, k, n, s, strict)`: k, in the
semantics n, means at every instant what f, in the semantics m, means s instants later; it is
sound if f is, and it looks no further.  It is reflexive, transitive (shifts add up), and a
congruence: an operator is carried over to operands that stand for its operands, with the
interval moved one way if they are moved the other (`CarriedStands`).  Each transformer makes
formulas that stand for what it gets, one lemma for each: `NnfStands`, `MltlStands`,
`FlatStands`, `ShiftBackwardStands`, `ShiftBoundsStands`, `ShiftForwardStands`, `SimplifyStands`.
`strict` adds that negations stand before propositions.  Flatness is kept apart: `FlatMakesFlat`
establishes it and the shifts keep the operators.

The functions exist because each transformer makes of a formula something of the same level, or
one above, and asks for what is below (`LevelRecursion`); that is not the recursion over operands
of `FormulaProofs`, for the simplifier calls itself on formulas that it has just built, and the
negation normal form on negations of operands.  The lists of the simplifier are treated by what
a junction makes of them (`Replaces`): duplicates, neutral constants, absorbed operands and the
wider of two disjoined G can go.  For absorption it takes an argument that what makes an operand
redundant is not removed for being redundant itself: it is smaller (`RedundantReplaces`).  For
the gathering of G the invariant of the loop says that the list so far is worth the operands
gathered (`GatheredReplaces`).

The assumptions on constants (`TableauSearch`, `RuleTableau`, `Formula`, `Normalization`,
`TableauProtocol`, `AssertionSolver`, `DifferenceLogic`, `ConstraintGraph`) are evaluated by
TLC on the instances of the runs.  `InputsAssumption` (`Normalization`) also asks that `Nesting`
leaves room for what the rewriting of STL makes of an input, which nests deeper.

Only model-checked:

* `Termination` and `Terminates` (liveness is out of the reach of the prover), and that
  tableaux are finite.  The walk back in `ConstraintGraph` is one step, so `Terminates` is
  about the passes; the walk ends since it stops at the first vertex it meets twice;
* `MemoizedClosed`: it is not true of every formula;
* the properties of answer, store and trace with the jump rule or the rewriting of operands
  (run `rules`): a jump skips children that have a model, because another branch has one
  too, so a node of a jump is not equivalent to its children one by one, as in the proof.

## Not modelled

* The parser: a grammar over strings, and the least common denominator that turns
  rational bounds into integers, before the formulas of the models begin.
* The arithmetic terms of a constraint and their translation to Z3: a constraint is the
  set of values of one variable for which it holds.  The difference logic solver is
  modelled with its terms.
* Z3 answering Unknown, which the tableau takes for unsat (z3.rs:103): the oracle answers.
* The choice of the arithmetic solver in `factory` and `supports`.
* 32-bit bounds and `Ratio<i64>` constants: the models compute with integers, the bounds in
  the runs are small, and the code does not check for overflow.  `i32::MAX` as "no bound"
  is kept.  Nor is there a run with 64 binary clauses (dl.rs:550).
* The counts of operators for reports, display, the DOT output, logging, the command line,
  the generator and the scanner, the portfolio script and the web interface: input and
  output around the checker.
