--------------------------- MODULE TableauSearch ---------------------------
(***************************************************************************)
(* The tableau driver of src/src/sat/tableau/mod.rs: solve_root,           *)
(* tableau_loop and process_job.  The driver walks a tree of nodes depth   *)
(* first on an explicit stack of frames.  What a node contains is no       *)
(* business of the driver: decompose, the solver's satisfiability check    *)
(* and the store's implication test are parameters, so that the same       *)
(* module runs on hand-made trees (MCTableauSearch) and on the nodes the   *)
(* tableau rules really produce (MCTableau).                               *)
(*                                                                         *)
(* The solvers are not parameters: which assertions are on which solver    *)
(* at which moment is what the push/pop discipline of the driver decides.  *)
(***************************************************************************)
EXTENDS Integers, Sequences, FiniteSets

CONSTANTS
    Nodes,          \* the nodes of every tableau under consideration
    Roots,          \* the normalised root nodes a run may start from
    Literals(_),    \* the Prop and Not operands of a node
    Time(_),        \* Node::current_time
    Simple(_),      \* Node::implies is Some: an under-constrained copy
    Poised(_),      \* Node::is_poised
    Leaf(_),        \* Tableau::decompose returns None
    Children(_),    \* the nodes Tableau::decompose returns otherwise
    Covers(_, _),   \* RejectedNode::implies
    Consistent(_),  \* a set of literals has a model
    Cores(_),       \* the cores the solver may report for an inconsistent set
    Open(_),        \* an accepted branch of the tableau leads from a node
    Under(_),       \* a node and all that full children lead to from it
    MaxDepth,       \* TableauOptions::max_depth
    Memoization     \* TableauOptions::memoization

Literal == UNION {Literals(n) : n \in Nodes}

(***************************************************************************)
(* What the driver relies on.  MCTableau evaluates the same assumptions on *)
(* the nodes that Decompose.tla, a translation of the real rules, builds.  *)
(***************************************************************************)
ASSUME OptionsAssumption ==
    /\ MaxDepth \in Nat
    /\ Memoization \in BOOLEAN
    /\ Roots \subseteq Nodes

ASSUME NodeAssumption ==
    \A n \in Nodes :
        /\ Time(n) \in Nat
        /\ Simple(n) \in BOOLEAN
        /\ Poised(n) \in BOOLEAN
        /\ Leaf(n) \in BOOLEAN
        /\ Open(n) \in BOOLEAN
        /\ Children(n) \in Seq(Nodes)

\* Literals never become consistent by adding more of them, and some nonempty
\* core is reported.  It need not be a core of the set that was checked: the
\* Boolean solver never clears its last core (see AssertionSolver).
ASSUME SolverAssumption ==
    /\ Consistent({})
    /\ \A S, T \in SUBSET Literal :
        /\ S \subseteq T /\ Consistent(T) => Consistent(S)
        /\ ~Consistent(S) => Cores(S) # {}
    /\ \A S \in SUBSET Literal : Cores(S) \subseteq (SUBSET Literal) \ {{}}

\* decompose: a node is open iff its literals are consistent and, unless it is a
\* leaf, one of its full children is open; a simple child is a weakening of the
\* full one next to it; the literals of an instant are kept until the jump.
ASSUME DecomposeAssumption ==
    /\ \A r \in Roots : ~Simple(r)
    /\ \A n \in Nodes :
        /\ Open(n) => Consistent(Literals(n))
        /\ Leaf(n) => Poised(n) /\ (Consistent(Literals(n)) => Open(n))
        /\ ~Leaf(n) =>
            LET c == Children(n) IN
            /\ Len(c) > 0
            /\ ~Simple(c[Len(c)])
            /\ Consistent(Literals(n)) =>
                (Open(n) <=> \E i \in DOMAIN c : ~Simple(c[i]) /\ Open(c[i]))
            /\ \A i \in DOMAIN c :
                /\ Simple(c[i]) => ~Leaf(c[i]) /\ (Open(n) => Open(c[i]))
                /\ Time(c[i]) >= Time(n)
                /\ Time(c[i]) = Time(n) => Literals(n) \subseteq Literals(c[i])
                /\ Time(c[i]) > Time(n) => Literals(c[i]) = {}

\* decompose leaves an instant only from a poised node.  (A poised node need not leave
\* it: rewrite_chain may still merge operands that are not active yet.)
ASSUME BranchAssumption ==
    \A n \in Nodes :
        /\ n \in Under(n)
        /\ ~Leaf(n) =>
            LET c == Children(n) IN
            \A i \in DOMAIN c :
                /\ ~Simple(c[i]) => Under(c[i]) \subseteq Under(n)
                /\ Time(c[i]) > Time(n) => Poised(n)

----------------------------------------------------------------------------
(* JobState, with None for a frame that has no result yet *)
None == "none"
JobState == {"sat", "unsat", "undefined"}
Result == JobState \cup {None}

Frame == [node : Nodes, children : Seq(Nodes), depth : Nat,
          solver : Nat, result : Result]

VARIABLES
    root,       \* the normalised root node
    stack,      \* the frames; the last one is the front of the code's VecDeque
    solvers,    \* the solvers alive, each a stack of assertion scopes
    store,      \* Store::store
    trace,      \* TraceBuilder::nodes
    core,       \* UnsatCore::unsat_core
    verdict,    \* what solve_root returned
    cut,        \* history: some child was given up at the depth limit
    skipped,    \* history: a simple frame dropped siblings unexplored
    misled      \* history: the memo store turned an open node away

vars == <<root, stack, solvers, store, trace, core, verdict, cut, skipped, misled>>

Verdict == {"none", "sat", "unsat", "unknown"}

----------------------------------------------------------------------------
Top == stack[Len(stack)]
Below == SubSeq(stack, 1, Len(stack) - 1)

Asserted(s) == UNION {solvers[s][i] : i \in DOMAIN solvers[s]}

\* Solver::check of a node on solver s, in a scope pushed for it: what is
\* asserted there together with the literals of the node.
CheckSet(s, n) == Asserted(s) \cup Literals(n)
CheckPasses(s, n) == Consistent(CheckSet(s, n))

\* Mutant: the stored nodes are asked whether they imply the new one.
RejectedIfImplied(n) == \E m \in store : Covers(m, n)

\* Store::check_rejected
Rejected(n) == \E m \in store : Covers(n, m)

\* Mutants of MergeResults: a satisfiable simple child settles its parent; an
\* unsatisfiable child is taken for an undefined one.
MergeResultsTrustingSimple(previous, current, implies) ==
    CASE current = "sat" -> "sat"
      [] current = "undefined" -> IF previous = "sat" THEN "sat" ELSE "undefined"
      [] current = "unsat" -> IF previous \in {"sat", "undefined"} THEN previous ELSE "unsat"
MergeResultsLosingUnsat(previous, current, implies) ==
    IF current = "sat" THEN (IF implies THEN previous ELSE "sat")
    ELSE IF previous = "sat" THEN "sat" ELSE "undefined"

\* merge_results(previous, current, implies)
MergeResults(previous, current, implies) ==
    CASE current = "sat" -> IF implies THEN previous ELSE "sat"
      [] current = "undefined" -> IF previous = "sat" THEN "sat" ELSE "undefined"
      [] current = "unsat" -> IF previous \in {"sat", "undefined"} THEN previous ELSE "unsat"

NewFrame(n, depth, solver) ==
    [node |-> n, children |-> Children(n), depth |-> depth,
     solver |-> solver, result |-> None]

Init ==
    /\ root \in Roots
    /\ stack = <<>>
    /\ solvers = <<>>
    /\ store = {}
    /\ trace = <<>>
    /\ core = {}
    /\ verdict = "none"
    /\ cut = FALSE
    /\ skipped = FALSE
    /\ misled = FALSE

----------------------------------------------------------------------------
(* solve_root: the root is checked on a fresh solver, decomposed, and made *)
(* the first frame.  A rejected root records no core.                      *)
NotStarted == stack = <<>> /\ verdict = "none"

RootRejected ==
    /\ NotStarted
    /\ ~Consistent(Literals(root))
    /\ verdict' = "unsat"
    /\ UNCHANGED <<root, stack, solvers, store, trace, core, cut, skipped, misled>>

RootLeaf ==
    /\ NotStarted
    /\ Consistent(Literals(root))
    /\ Leaf(root)
    /\ trace' = <<root>>
    /\ verdict' = "sat"
    /\ UNCHANGED <<root, stack, solvers, store, core, cut, skipped, misled>>

RootOpened ==
    /\ NotStarted
    /\ Consistent(Literals(root))
    /\ ~Leaf(root)
    /\ solvers' = <<  <<Literals(root)>>  >>
    /\ stack' = <<NewFrame(root, 0, 1)>>
    /\ UNCHANGED <<root, store, trace, core, verdict, cut, skipped, misled>>

----------------------------------------------------------------------------
(* Case 1: the front frame has no children left.  Without a result the     *)
(* code panics, here no action is enabled.                                 *)
OutOfChildren == verdict = "none" /\ Len(stack) > 0 /\ Top.children = <<>>
Finished == OutOfChildren /\ Top.result # None

\* Mutant of AnswerOf: an undefined result is passed on as it is.
AnswerOfUnmapped(result) == result

\* Case 1.1: the root frame answers.
AnswerOf(result) ==
    CASE result = "sat" -> "sat"
      [] result = "unsat" -> "unsat"
      [] result = "undefined" -> "unknown"

FinishRoot ==
    /\ Finished
    /\ Len(stack) = 1
    /\ verdict' = AnswerOf(Top.result)
    /\ trace' = IF Top.result = "sat" /\ Poised(Top.node) THEN <<Top.node>> \o trace ELSE trace
    /\ stack' = <<>>
    /\ solvers' = <<>>
    /\ UNCHANGED <<root, store, core, cut, skipped, misled>>

\* Case 1.2: the frame below receives the result, and its solver drops the
\* scope that was pushed for the finished node.  A solver of the finished frame's
\* own goes away with the frame.
Parent == stack[Len(stack) - 1]

\* Mutant: the finished frame's solver goes, the parent's scope stays.
PopParentScopeForgotten == SubSeq(solvers, 1, Parent.solver)

PopParentScope ==
    LET kept == SubSeq(solvers, 1, Parent.solver)
        scopes == kept[Parent.solver]
    IN  [kept EXCEPT ![Parent.solver] = SubSeq(scopes, 1, Len(scopes) - 1)]

Return(children) ==
    stack' = [Below EXCEPT ![Len(stack) - 1] =
                [Parent EXCEPT
                    !.children = children,
                    !.result = MergeResults(Parent.result, Top.result, Simple(Top.node))]]

\* A full child that is satisfiable settles its parent.
PropagateSat ==
    /\ Finished /\ Len(stack) > 1 /\ Top.result = "sat" /\ ~Simple(Top.node)
    /\ Return(<<>>)
    /\ trace' = IF Poised(Top.node) THEN <<Top.node>> \o trace ELSE trace
    /\ solvers' = PopParentScope
    /\ UNCHANGED <<root, store, core, verdict, cut, skipped, misled>>

\* Mutants: a satisfiable simple child ends its parent; its trace is kept.
PropagateSimpleSatEndsParent ==
    /\ Finished /\ Len(stack) > 1 /\ Top.result = "sat" /\ Simple(Top.node)
    /\ Return(<<>>)
    /\ trace' = <<>>
    /\ solvers' = PopParentScope
    /\ UNCHANGED <<root, store, core, verdict, cut, skipped, misled>>
PropagateSimpleSatKeepsTrace ==
    /\ Finished /\ Len(stack) > 1 /\ Top.result = "sat" /\ Simple(Top.node)
    /\ Return(Parent.children)
    /\ solvers' = PopParentScope
    /\ UNCHANGED <<root, store, trace, core, verdict, cut, skipped, misled>>

\* A satisfiable simple child says nothing: its trace is thrown away.
PropagateSimpleSat ==
    /\ Finished /\ Len(stack) > 1 /\ Top.result = "sat" /\ Simple(Top.node)
    /\ Return(Parent.children)
    /\ trace' = <<>>
    /\ solvers' = PopParentScope
    /\ UNCHANGED <<root, store, core, verdict, cut, skipped, misled>>

\* Mutants: the first unsatisfiable child settles its parent; the parent is
\* stored in place of the child.
PropagateUnsatSettles ==
    /\ Finished /\ Len(stack) > 1 /\ Top.result = "unsat"
    /\ Return(<<>>)
    /\ store' = store
    /\ solvers' = PopParentScope
    /\ UNCHANGED <<root, trace, core, verdict, cut, skipped, misled>>
PropagateUnsatStoresParent ==
    /\ Finished /\ Len(stack) > 1 /\ Top.result = "unsat"
    /\ Return(IF Simple(Top.node) THEN <<>> ELSE Parent.children)
    /\ store' = IF Memoization THEN store \cup {Parent.node} ELSE store
    /\ solvers' = PopParentScope
    /\ UNCHANGED <<root, trace, core, verdict, cut, skipped, misled>>

\* An unsatisfiable child is remembered when it opened a new instant; an
\* unsatisfiable simple child settles its parent.
PropagateUnsat ==
    /\ Finished /\ Len(stack) > 1 /\ Top.result = "unsat"
    /\ Return(IF Simple(Top.node) THEN <<>> ELSE Parent.children)
    /\ store' = IF Memoization /\ Time(Parent.node) < Time(Top.node) /\ ~Rejected(Top.node)
                THEN store \cup {Top.node}
                ELSE store
    /\ solvers' = PopParentScope
    /\ UNCHANGED <<root, trace, core, verdict, cut, skipped, misled>>

PropagateUndefined ==
    /\ Finished /\ Len(stack) > 1 /\ Top.result = "undefined"
    /\ Return(Parent.children)
    /\ solvers' = PopParentScope
    /\ UNCHANGED <<root, store, trace, core, verdict, cut, skipped, misled>>

----------------------------------------------------------------------------
(* Case 2: the front frame has a child to process (process_job, then       *)
(* Case 2.1 for a final outcome or Case 2.2 for a decomposed one).  The    *)
(* scope pushed for a child with a final outcome is popped in the same     *)
(* iteration.                                                              *)
Child == Head(Top.children)
\* Mutant: the child that is processed is not taken off the frame.
SiblingsNotTaken == Top.children
Siblings == Tail(Top.children)
HasChild == verdict = "none" /\ Len(stack) > 0 /\ Top.children # <<>>
WithinDepth == HasChild /\ Top.depth < MaxDepth
\* Mutant: the instant right after this one is not taken for a later one.
NewInstantLate(n) == Time(Top.node) + 1 < Time(n)
NewInstant(n) == Time(Top.node) < Time(n)

Settle(children, result) ==
    stack' = [stack EXCEPT ![Len(stack)] = [Top EXCEPT !.children = children, !.result = result]]

ChildCut ==
    /\ HasChild
    /\ Top.depth >= MaxDepth
    /\ Settle(Siblings, "undefined")
    /\ cut' = TRUE
    /\ UNCHANGED <<root, solvers, store, trace, core, verdict, skipped, misled>>

\* The result of the frame is overwritten, not merged, and it is the frame's own
\* node, not the child, that is asked whether it is simple.
SettleUnsat ==
    /\ Settle(IF Simple(Top.node) THEN <<>> ELSE Siblings, "unsat")
    /\ skipped' = (skipped \/ (Simple(Top.node) /\ Siblings # <<>>))

\* Mutant: the rejection is not recorded in the core.
ChildInconsistentUnrecorded ==
    /\ WithinDepth
    /\ ~CheckPasses(Top.solver, Child)
    /\ SettleUnsat
    /\ UNCHANGED <<root, solvers, store, trace, core, verdict, cut, misled>>

ChildInconsistent ==
    /\ WithinDepth
    /\ ~CheckPasses(Top.solver, Child)
    /\ SettleUnsat
    /\ \E c \in Cores(CheckSet(Top.solver, Child)) : core' = core \cup c
    /\ UNCHANGED <<root, solvers, store, trace, verdict, cut, misled>>

Memoized(n) == Memoization /\ NewInstant(n) /\ Rejected(n)

ChildMemoized ==
    /\ WithinDepth
    /\ CheckPasses(Top.solver, Child)
    /\ Memoized(Child)
    /\ SettleUnsat
    /\ misled' = (misled \/ Open(Child))
    /\ UNCHANGED <<root, solvers, store, trace, core, verdict, cut>>

ChildLeaf ==
    /\ WithinDepth
    /\ CheckPasses(Top.solver, Child)
    /\ ~Memoized(Child)
    /\ Leaf(Child)
    /\ IF Simple(Child) THEN Settle(Siblings, Top.result) ELSE Settle(<<>>, "sat")
    /\ trace' = <<Child>> \o trace
    /\ UNCHANGED <<root, solvers, store, core, verdict, cut, skipped, misled>>

\* The child stays asserted on the frame's solver; a node of a later instant
\* searches on a solver of its own.
ChildOpened ==
    /\ WithinDepth
    /\ CheckPasses(Top.solver, Child)
    /\ ~Memoized(Child)
    /\ ~Leaf(Child)
    /\ LET asserted == [solvers EXCEPT ![Top.solver] = Append(@, Literals(Child))]
       IN  solvers' = IF NewInstant(Child) THEN Append(asserted, <<>>) ELSE asserted
    /\ LET solver == IF NewInstant(Child) THEN Len(solvers) + 1 ELSE Top.solver
           parent == [Top EXCEPT !.children = Siblings]
       IN  stack' = Below \o <<parent, NewFrame(Child, Top.depth + 1, solver)>>
    /\ UNCHANGED <<root, store, trace, core, verdict, cut, skipped, misled>>

----------------------------------------------------------------------------
\* solve_root has returned: nothing more happens.
Returned ==
    /\ verdict # "none"
    /\ UNCHANGED vars

Next ==
    \/ RootRejected
    \/ RootLeaf
    \/ RootOpened
    \/ FinishRoot
    \/ PropagateSat
    \/ PropagateSimpleSat
    \/ PropagateUnsat
    \/ PropagateUndefined
    \/ ChildCut
    \/ ChildInconsistent
    \/ ChildMemoized
    \/ ChildLeaf
    \/ ChildOpened
    \/ Returned

Spec == Init /\ [][Next]_vars

\* One thread runs the loop to its end; nothing it calls can block.
FairSpec == Spec /\ WF_vars(Next)
----------------------------------------------------------------------------
(* Properties *)

\* Every variable has its type.
TypeOK ==
    /\ root \in Roots
    /\ stack \in Seq(Frame)
    /\ solvers \in Seq(Seq(SUBSET Literal))
    /\ store \in SUBSET Nodes
    /\ trace \in Seq(Nodes)
    /\ core \in SUBSET Literal
    /\ verdict \in Verdict
    /\ cut \in BOOLEAN
    /\ skipped \in BOOLEAN
    /\ misled \in BOOLEAN

\* A "sat" answer is right: no sequence of cuts, rejections, memoizations and
\* simple nodes makes tableau_loop report a branch that the tableau does not have.
SatSound == verdict = "sat" => Open(root)

\* What makes the driver close a node that is open: a child cut at the depth limit
\* whose result is overwritten, siblings dropped in Case 2.1 of tableau_loop, and a
\* node turned away although it is open.
Untroubled == ~cut /\ ~skipped /\ ~misled

\* An "unsat" answer is right, no accepted branch was missed, for want of these three.
UnsatSound == verdict = "unsat" /\ Untroubled => ~Open(root)

\* The memo store only holds closed nodes: nothing else makes it remember a node that
\* has an accepted branch, so that it would go on to turn open nodes away.
StoreSound == Untroubled => \A n \in store : ~Open(n)

\* A node that the memo store turns away has no accepted branch, from whatever later
\* instant RejectedNode::implies compared it with a stored node.
MemoizedClosed == ~misled

\* The answer None ("unknown") is only given when the depth limit was reached.
UnknownOnlyIfCut == verdict = "unknown" => cut

\* A frame that runs out of children has a result: neither the panic!() of Case
\* 1.1 nor the expect("Job result should be set") of Case 1.2 is reached.
ResultBeforeFinish == OutOfChildren => Top.result # None

\* The solver on which the node of frame i was checked
CheckedOn(i) == IF i = 1 THEN 1 ELSE stack[i - 1].solver

\* push and pop stay paired over the whole search: the scopes of a solver are
\* the literals of a contiguous stretch of the branch under exploration, in its
\* order, so no literal of an abandoned branch or of another instant takes part
\* in a check.
SolverMirrorsBranch ==
    \A s \in DOMAIN solvers :
        \E b \in 0 .. Len(stack) :
            /\ {i \in DOMAIN stack : CheckedOn(i) = s} = (b + 1) .. (b + Len(solvers[s]))
            /\ \A k \in DOMAIN solvers[s] : solvers[s][k] = Literals(stack[b + k].node)

\* When the loop (not the check of the root) finds the formula unsatisfiable,
\* the recorded core is not empty, although memoized nodes record nothing.
RootWasOpened == Consistent(Literals(root))
CoreAfterSearch == verdict = "unsat" /\ RootWasOpened => core # {}

\* m is on a branch through n: in the instant of n it has kept the literals of n.
FollowsIn(n, m) ==
    /\ m \in Under(n)
    /\ Time(m) = Time(n)
    /\ Literals(n) \subseteq Literals(m)

\* m comes after n on a branch, at the instant to which a full child of n leads.
ComesNext(n, m) ==
    \E i \in DOMAIN Children(n) :
        LET c == Children(n)[i] IN
        /\ ~Simple(c)
        /\ FollowsIn(c, m)
        /\ Time(c) = Time(n) => Literals(n) \subseteq Literals(m)

\* The extracted trace is one branch of the tableau: it starts under the root at its
\* instant and ends in a leaf; its nodes are poised and consistent; each comes after
\* the one before, no instant between them is left out, and of two at one instant, of
\* which full_trace prints the second, that one has the literals of both.  TraceBuilder
\* is filled from the leaf up while results propagate, and emptied when a simple node
\* turns out satisfiable: nothing of a simple or of an abandoned branch stays in it.
TraceIsBranch ==
    verdict = "sat" =>
        /\ trace # <<>>
        /\ FollowsIn(root, trace[1])
        /\ Leaf(trace[Len(trace)])
        /\ \A i \in 1 .. Len(trace) - 1 : ComesNext(trace[i], trace[i + 1])
        /\ \A i \in DOMAIN trace : Poised(trace[i]) /\ Consistent(Literals(trace[i]))

\* The loop ends with an answer.
Termination == <>(verdict # "none")
=============================================================================
