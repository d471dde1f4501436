-------------------------- MODULE TableauProtocol --------------------------
(***************************************************************************)
(* The driver as the client of a solver.  AssertionStack says in which     *)
(* order a solver may be asked to push, check and pop; the solvers are     *)
(* proved right for clients that keep to it.  Here one solver of           *)
(* TableauSearch is followed, from the empty stack to the empty stack, and *)
(* its scopes are those of an AssertionStack.                              *)
(***************************************************************************)
EXTENDS TableauSearch

CONSTANT Followed   \* the solver, by its place among those alive

ASSUME FollowedAssumption == Followed \in Nat \ {0}

\* A solver that is not alive has no scopes.
Scopes == IF Followed \in DOMAIN solvers THEN solvers[Followed] ELSE <<>>

\* The search has gone on to a later instant, on a solver of its own.
LeftBehind == Followed < Len(solvers)

\* A scope whose check failed is popped in the step that pushed it.  A branch has at
\* most one node more than the depth limit.
Stack == INSTANCE AssertionStack
            WITH branch <- Scopes, ahead <- LeftBehind, passed <- TRUE,
                 MaxScopes <- MaxDepth + 1

\* Nothing but pushes that are allowed, with checks that passed, and pops of scopes that
\* are there happens to the solver: what process_job pushes for a child stays for as
\* long as the child is searched, and is popped once.  Returning from a later instant
\* pops the scope of the node that led there, and leaves no scope of that instant.
KeepsProtocol == Stack!Spec

\* process_job checks a child only when a client may: what is asserted is consistent,
\* the solver is not one that was left behind at an earlier instant, and a child of the
\* same instant has all the literals that are asserted.  (Checks that fail, or whose
\* child is settled at once, leave no trace in the scopes.)
ChecksAllowed ==
    WithinDepth =>
        /\ Top.solver = Len(solvers)
        /\ Len(solvers[Top.solver]) <= MaxDepth
        /\ Consistent(Asserted(Top.solver))
        /\ IF NewInstant(Child) THEN Literals(Child) = {}
           ELSE Asserted(Top.solver) \subseteq Literals(Child)
=============================================================================
