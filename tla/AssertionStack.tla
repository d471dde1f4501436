--------------------------- MODULE AssertionStack ---------------------------
(***************************************************************************)
(* What the tableau driver expects of a Solver (src/src/sat/tableau/solver *)
(* /mod.rs): push, check of a node, and pop behave like a stack of scopes  *)
(* of assertions, and a check says whether everything asserted has a       *)
(* model.  TableauSearch is written against this promise.  The client is   *)
(* the driver: it checks a node in a scope of its own, pops the scope of a *)
(* node that failed before it does anything else, and within an instant    *)
(* only goes on to nodes that keep the literals of their parent.           *)
(***************************************************************************)
EXTENDS Sequences, Naturals

CONSTANTS
    Literal,          \* the assertions
    Consistent(_),    \* a set of assertions has a model
    MaxScopes         \* bound: nodes of one instant on a branch

VARIABLES
    branch,     \* the literals of the nodes whose scopes are on the solver
    ahead,      \* the last of them is a node of a later instant
    passed      \* no check failed whose scope is still there

vars == <<branch, ahead, passed>>

Asserted == UNION {branch[i] : i \in DOMAIN branch}

TypeOK ==
    /\ branch \in Seq(SUBSET Literal)
    /\ ahead \in BOOLEAN
    /\ passed \in BOOLEAN

Init ==
    /\ branch = <<>>
    /\ ahead = FALSE
    /\ passed = TRUE

\* The client may check a node with the literals n.
MayCheck(n) ==
    /\ passed
    /\ ~ahead
    /\ Len(branch) < MaxScopes
    /\ Asserted \subseteq n

\* push, then check of a node of the same instant
Check(n) ==
    /\ MayCheck(n)
    /\ branch' = Append(branch, n)
    /\ passed' = Consistent(Asserted \cup n)
    /\ UNCHANGED ahead

\* The same for the first node of a later instant, which has no literals yet; its
\* search goes on elsewhere.
CheckLater ==
    /\ passed
    /\ ~ahead
    /\ branch' = Append(branch, {})
    /\ ahead' = TRUE
    /\ passed' = Consistent(Asserted)

Pop ==
    /\ branch # <<>>
    /\ branch' = SubSeq(branch, 1, Len(branch) - 1)
    /\ ahead' = FALSE
    /\ passed' = TRUE

\* The search of a later instant goes on with an empty solver; a client goes along
\* with it, or keeps the solver that is left behind.
EmptySolver ==
    /\ ahead
    /\ passed
    /\ branch' = <<>>
    /\ ahead' = FALSE
    /\ passed' = TRUE

Next ==
    \/ \E n \in SUBSET Literal : Check(n)
    \/ CheckLater
    \/ Pop
    \/ EmptySolver

Spec == Init /\ [][Next]_vars
=============================================================================
